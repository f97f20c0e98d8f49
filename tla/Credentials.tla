---------------------------- MODULE Credentials ----------------------------
(***************************************************************************)
(* The life of signed credentials and of the keys that sign them:          *)
(* packages/relay/src/lib/credential.ts and credentialStore.ts, their port *)
(* in relay-cf/src/registry.ts, the rotate-key command of relay/src/index  *)
(* .ts and the renewal of mcp-server/src/tools.ts.                         *)
(*                                                                         *)
(* One unit of `now' is a second.  A credential is its signed payload; the *)
(* signature is good exactly if its kid is a key the verifier knows.  The  *)
(* server keeps three things in memory that the database also has: the     *)
(* signing key, the verification keys and the revoked jtis.                *)
(***************************************************************************)
EXTENDS Naturals, FiniteSets

CONSTANTS
    Agent,       \* agents that pair with a holder key, one root credential each
    Jti,         \* credentials that may ever be issued
    NoJti,
    NoPayload,   \* a jti not issued yet
    Key,         \* issuer keys that may ever be generated
    FirstKey,    \* the one generated at the first boot
    Scope,       \* ALL_SCOPES
    MaxTtl,      \* MAX_TTL_SECONDS
    DefaultTtl,  \* DEFAULT_TTL_SECONDS
    MaxDepth,    \* MAX_DEPTH
    RenewWindow, \* seconds before its expiry a session renews its credential
    Hosts,       \* where it may run: the Node relay, the cloud relay or both
    MaxTime      \* bound: the last second

ASSUME CredentialsAssumption ==
    /\ FirstKey \in Key /\ NoJti \notin Jti
    /\ {MaxTtl, DefaultTtl, MaxDepth, RenewWindow, MaxTime} \subseteq Nat
    /\ 0 < DefaultTtl /\ DefaultTtl <= MaxTtl
    /\ Hosts \subseteq {"node", "cloud"}

VARIABLES
    host,      \* node: keys are rotated by a command; cloud: by the serving object
    now,
    keys,      \* issuer_keys: unused, active, retired (and when) or pruned
    creds,     \* payloads of issued credentials
    revoked,   \* jtis with revoked_at
    signing,   \* memory: the issuer key
    known,     \* memory: the verification keys
    refused,   \* memory: the revoked jtis
    parked,    \* an attenuation whose parent has been verified
    pruneDue,  \* a rotate-key handler of the cloud relay is between its two RPCs
    session    \* the credential each agent's MCP session holds

databaseVars == <<keys, creds, revoked>>
memoryVars == <<signing, known, refused>>
vars == <<host, now, databaseVars, memoryVars, parked, pruneDue, session>>

KeyRow == [state : {"unused", "active", "retired", "pruned"}, at : Nat]
Payload == [sub : Agent, kid : Key, cap : SUBSET Scope, chain : SUBSET Jti,
            depth : Nat, iat : Nat, exp : Nat]
Attenuation == [parent : Jti, cap : SUBSET Scope, ttl : 1..MaxTtl, renews : BOOLEAN]

ASSUME PayloadAssumption == NoPayload \notin Payload

Issued == {j \in Jti : creds[j] # NoPayload}
Published == {k \in Key : keys[k].state \in {"active", "retired"}}
Least(m, n) == IF m <= n THEN m ELSE n

TypeOK ==
    /\ host \in Hosts /\ now \in Nat
    /\ keys \in [Key -> KeyRow]
    /\ creds \in [Jti -> Payload \cup {NoPayload}]
    /\ \E k \in Key : \A i \in Key : keys[i].state = "active" <=> i = k
    /\ revoked \subseteq Issued /\ refused \subseteq revoked
    /\ signing \in Key /\ known \subseteq Key
    /\ pruneDue \in BOOLEAN
    /\ parked \in SUBSET Attenuation /\ \A x, y \in parked : x = y
    /\ \A x \in parked : x.parent \in Issued
    /\ session \in [Agent -> Issued \cup {NoJti}]

----------------------------------------------------------------------------
\* Seeded defects: each is a plausible slip in the definition it stands in for.

DropsRetired(k) == keys[k].state = "retired"
ExtendsParent(p, ttl) == Least(ttl, MaxTtl)
WidensAtWill(p, cap) == TRUE
ForgetsRevocations == refused' = {}
KeepsOldActive(k) == [i \in Key |-> IF i = k THEN [state |-> "active", at |-> now] ELSE keys[i]]

----------------------------------------------------------------------------
Init ==
    /\ host \in Hosts
    /\ now = 0
    /\ keys = [k \in Key |-> [state |-> IF k = FirstKey THEN "active" ELSE "unused", at |-> 0]]
    /\ creds = [j \in Jti |-> NoPayload]
    /\ revoked = {}
    /\ signing = FirstKey /\ known = {FirstKey} /\ refused = {}
    /\ parked = {} /\ pruneDue = FALSE
    /\ session = [a \in Agent |-> NoJti]

\* In the Node relay nothing but time runs between the verification of a
\* request and what it asked for; in the cloud relay these are two RPCs.
Free == parked = {} \/ host = "cloud"

\* verifyCredential: a known key, not expired, nothing in the chain revoked.
Verifies(j) ==
    /\ j \in Issued
    /\ creds[j].kid \in known
    /\ now < creds[j].exp
    /\ creds[j].depth <= MaxDepth
    /\ (creds[j].chain \cup {j}) \cap refused = {}

----------------------------------------------------------------------------
\* Issuing.

\* issueRoot, when agent a pairs; its MCP session holds the credential.
IssueRoot(a, j) ==
    /\ Free
    /\ j \in Jti \ Issued
    /\ session[a] = NoJti
    /\ creds' = [creds EXCEPT ![j] =
                    [sub |-> a, kid |-> signing, cap |-> Scope, chain |-> {}, depth |-> 0,
                     iat |-> now, exp |-> now + DefaultTtl]]
    /\ session' = [session EXCEPT ![a] = j]
    /\ UNCHANGED <<host, now, keys, revoked, memoryVars, parked, pruneDue>>

MayNarrow(p, cap) == cap \subseteq creds[p].cap

\* POST /credentials/attenuate, up to the verification of the parent.
AskAttenuation(p, cap, ttl) ==
    /\ parked = {}
    /\ Verifies(p)
    /\ parked' = {[parent |-> p, cap |-> cap, ttl |-> ttl, renews |-> FALSE]}
    /\ UNCHANGED <<host, now, databaseVars, memoryVars, pruneDue, session>>

\* auth() of the MCP server: a credential about to expire is attenuated to the
\* same scope and key, with the default ttl.
AskRenewal(a) ==
    /\ parked = {}
    /\ session[a] # NoJti /\ Verifies(session[a])
    /\ creds[session[a]].exp <= now + RenewWindow
    /\ parked' = {[parent |-> session[a], cap |-> creds[session[a]].cap,
                   ttl |-> DefaultTtl, renews |-> TRUE]}
    /\ UNCHANGED <<host, now, databaseVars, memoryVars, pruneDue, session>>

\* max(1, min(requested, ceiling, what the parent has left)): the floor applies
\* also when time ran on after the verification and the parent has nothing left.
Lifetime(p, ttl) ==
    IF creds[p].exp > now THEN Least(Least(ttl, MaxTtl), creds[p].exp - now) ELSE 1

Attenuate(j) ==
    \E h \in parked :
        LET p == creds[h.parent] IN
        /\ parked' = {}
        /\ IF MayNarrow(h.parent, h.cap) /\ p.depth + 1 <= MaxDepth
           THEN /\ j \in Jti \ Issued
                /\ creds' = [creds EXCEPT ![j] =
                       [sub |-> p.sub, kid |-> signing, cap |-> h.cap,
                        chain |-> p.chain \cup {h.parent}, depth |-> p.depth + 1,
                        iat |-> now, exp |-> now + Lifetime(h.parent, h.ttl)]]
                /\ session' = IF h.renews THEN [session EXCEPT ![p.sub] = j] ELSE session
           ELSE UNCHANGED <<creds, session>>
        /\ UNCHANGED <<host, now, keys, revoked, memoryVars, pruneDue>>

----------------------------------------------------------------------------
\* Revoking.

LiveCredentials(a) == {j \in Issued \ revoked : creds[j].sub = a}

\* revokeAgent, in the table and in the mirror of it.  It answers early when the
\* agent was revoked before, whatever was issued since.
RevokeAgent(a) ==
    /\ Free
    /\ \A j \in revoked : creds[j].sub # a
    /\ LiveCredentials(a) # {}
    /\ revoked' = revoked \cup LiveCredentials(a)
    /\ refused' = refused \cup LiveCredentials(a)
    /\ UNCHANGED <<host, now, keys, creds, signing, known, parked, pruneDue, session>>

----------------------------------------------------------------------------
\* Keys.

Overdue(k) == keys[k].state = "retired" /\ keys[k].at + MaxTtl < now

\* The table after the active key has been replaced by k.
Replaced(k) ==
    [i \in Key |-> IF i = k THEN [state |-> "active", at |-> now]
                   ELSE IF keys[i].state = "active" THEN [state |-> "retired", at |-> now]
                   ELSE keys[i]]

\* POST /admin/rotate-key: the object that signs rotates.
RotateIssuerKey(k) ==
    /\ host = "cloud"
    /\ keys[k].state = "unused"
    /\ keys' = Replaced(k)
    /\ signing' = k
    /\ known' = {i \in Key : keys'[i].state \in {"active", "retired"}}
    /\ pruneDue' = TRUE
    /\ UNCHANGED <<host, now, creds, revoked, refused, parked, session>>

\* relay rotate-key: another process on the same database.
RotateCommand(k) ==
    /\ host = "node"
    /\ keys[k].state = "unused"
    /\ keys' = [i \in Key |-> IF Overdue(i) THEN [Replaced(k)[i] EXCEPT !.state = "pruned"]
                              ELSE Replaced(k)[i]]
    /\ UNCHANGED <<host, now, creds, revoked, memoryVars, parked, pruneDue, session>>

\* pruneRetiredKeys: hourly in the Node relay, after a rotation in the other.
PruneRetiredKeys ==
    /\ Free
    /\ host = "cloud" => pruneDue
    /\ pruneDue' = FALSE
    /\ keys' = [k \in Key |-> IF Overdue(k) THEN [keys[k] EXCEPT !.state = "pruned"]
                              ELSE keys[k]]
    /\ known' = IF \E k \in Key : Overdue(k)
                THEN {k \in Key : keys'[k].state \in {"active", "retired"}} ELSE known
    /\ UNCHANGED <<host, now, creds, revoked, signing, refused, parked, session>>

\* The constructor: everything in memory is read from the database.  A request of
\* the Node relay dies with it; the Worker outlives the object it calls.
ReloadRevocations == refused' = revoked

Restart ==
    /\ \E k \in Key : keys[k].state = "active" /\ signing' = k
    /\ known' = Published
    /\ ReloadRevocations
    /\ parked' = IF host = "node" THEN {} ELSE parked
    /\ UNCHANGED <<host, now, databaseVars, pruneDue, session>>

Tick ==
    /\ now < MaxTime
    /\ now' = now + 1
    /\ UNCHANGED <<host, databaseVars, memoryVars, parked, pruneDue, session>>

Next ==
    \/ \E a \in Agent : AskRenewal(a) \/ RevokeAgent(a) \/ \E j \in Jti : IssueRoot(a, j)
    \/ \E j \in Jti : Attenuate(j)
    \/ \E p \in Jti, cap \in SUBSET Scope, ttl \in 1..MaxTtl : AskAttenuation(p, cap, ttl)
    \/ \E k \in Key : RotateIssuerKey(k) \/ RotateCommand(k)
    \/ PruneRetiredKeys \/ Restart \/ Tick

Spec == Init /\ [][Next]_vars

----------------------------------------------------------------------------
\* Properties.

Live(j) == now < creds[j].exp /\ (creds[j].chain \cup {j}) \cap revoked = {}

\* The comment on rotateIssuerKey: new credentials are signed with the new key
\* immediately, existing ones keep verifying until they expire.  So whatever is
\* alive is accepted here, and its key is published for verifiers elsewhere.
LiveVerifies == \A j \in Issued : Live(j) => Verifies(j) /\ creds[j].kid \in Published

\* What of this holds on both hosts, and is the argument of pruneRetiredKeys: a
\* credential signed before its key was retired lives no longer than the key is
\* kept, whoever rotates, whenever the sweep runs and whatever is restarted.
SignedInTime(j) ==
    LET key == keys[creds[j].kid] IN key.state # "active" => creds[j].iat <= key.at

RotationKeepsLive ==
    \A j \in Issued : Live(j) /\ (host = "cloud" \/ SignedInTime(j))
        => Verifies(j) /\ creds[j].kid \in Published

\* What was refused once is refused for ever: neither a restart nor a rotation
\* revives an expired or revoked credential.
OnceDeadStaysDead ==
    [][\A j \in Issued : ~Verifies(j) => ~Verifies(j)']_vars

\* What the floor of a lifetime allows in place of an expiry under the ancestor's:
\* a credential issued when the ancestor had already run out, for one second.
BornLate(j, p) == creds[j].iat >= creds[p].exp /\ creds[j].exp = creds[j].iat + 1

\* §2 rules 1, 3 and 5 along the whole chain: a descendant never holds a
\* capability its ancestor did not, and one issued while the ancestor was alive
\* never outlives it.  Only a descendant issued after the ancestor's expiry does,
\* and it is gone a second after it was issued.
Narrowing ==
    \A j \in Issued : \A p \in creds[j].chain :
        /\ p \in Issued /\ creds[j].sub = creds[p].sub
        /\ creds[j].cap \subseteq creds[p].cap
        /\ creds[p].depth < creds[j].depth /\ creds[j].depth <= MaxDepth
        /\ creds[j].exp <= creds[p].exp \/ BornLate(j, p)

\* The comment in attenuate, credential.ts:265: "A child may never outlive its
\* parent".  It does when the parent runs out between the verification of the
\* request and the issue: the floor of the lifetime gives it one second.
ChildNeverOutlives ==
    \A j \in Issued : \A p \in creds[j].chain : creds[j].exp <= creds[p].exp

\* The comment on auth(): renewal is what keeps a session from running into the
\* expiry of its credential.
RenewalExtends ==
    [][\A a \in Agent : session[a] # NoJti /\ session'[a] # session[a]
        => creds'[session'[a]].exp > creds[session[a]].exp]_vars

=============================================================================
