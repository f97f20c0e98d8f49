---------------------------- MODULE PairingCodes ----------------------------
(***************************************************************************)
(* Pairing codes, from the mint to the last audit record of the join, on   *)
(* either relay: the table of codes, the limiter on wrong guesses, the     *)
(* sweep that drops abandoned codes, the membership a join writes and what *)
(* it writes after that.                                                   *)
(*                                                                         *)
(* Both relays consume a code in one transaction and then have more to do. *)
(* The Node relay does it in the same synchronous handler: nothing runs in *)
(* between, but the process may be killed there.  On the Cloudflare relay  *)
(* the rest are calls to the pairing's room, and other requests run        *)
(* between them.  What a join still has to do is a record in `joins'.      *)
(***************************************************************************)
EXTENDS Naturals, Sequences, FiniteSets

CONSTANTS
    Code, Pairing, Agent,  \* codes that can be drawn, pairing ids, agent ids
    Client,                \* addresses that join requests come from
    NoPairing, Nobody,
    MaxMembers,            \* MAX_MEMBERS
    TTL,                   \* PAIRING_CODE_TTL_MS
    MaxFailures, Window,   \* of FailureLimiter
    MaxTime,               \* bound: the last instant
    MaxCrashes             \* bound: handlers or processes that die

ASSUME PairingCodesAssumption ==
    /\ NoPairing \notin Pairing /\ Nobody \notin Agent \cup Code
    /\ MaxMembers \in Nat /\ MaxMembers >= 2
    /\ {TTL, MaxFailures, Window, MaxTime, MaxCrashes} \subseteq Nat

VARIABLES
    relay,       \* which relay this is; never changes
    now,
    code,        \* the pairing_codes table
    token,       \* agent_tokens: the pairing each issued token names
    bound,       \* credentials: the same column there
    members,     \* pairing_members of each pairing
    origin,      \* pairings.code
    audit,       \* audit_records of each pairing
    joins,       \* joins between consuming the code and the last record
    invites,     \* invitations checked against the room and not yet minted (cloud)
    failures,    \* FailureLimiter.failures
    crashes,
    \* history
    redeemed,    \* <<code, agent>> of every join that consumed a code
    wrong,       \* when each client was refused since its last success
    cut,         \* agents whose join was cut short by a crash
    turnedAway   \* joiners the room refused after their code was consumed

vars == <<relay, now, code, token, bound, members, origin, audit, joins, invites,
          failures, crashes, redeemed, wrong, cut, turnedAway>>
tables == <<code, token, bound, members, origin, audit>>
history == <<redeemed, wrong, cut, turnedAway>>

CodeRow == [creator : Agent, pairing : Pairing \cup {NoPairing}, expires : Nat, used : BOOLEAN]
NoRow == [creator |-> Nobody, pairing |-> NoPairing, expires |-> 0, used |-> FALSE]
Action == {"pairing.created", "pairing.joined"}
Record == [action : Action, agent : Agent]

\* One remembered failure: its time, and its number among those remembered then,
\* which tells failures of the same instant apart.
Failure == [at : Nat, nth : Nat]

\* at: what the join does next.  creator is Nobody when an invite was redeemed.
Stage == {"bind", "issue", "room", "pairing.created", "pairing.joined"}
JoinInProgress == [at : Stage, agent : Agent, pairing : Pairing, creator : Agent \cup {Nobody}]

TypeOK ==
    /\ relay \in {"node", "cloud"} /\ now \in 0..MaxTime
    /\ code \in [Code -> CodeRow \cup {NoRow}]
    /\ DOMAIN token \subseteq Agent /\ \A a \in DOMAIN token : token[a] \in Pairing \cup {NoPairing}
    /\ bound \in [Agent -> Pairing \cup {NoPairing}]
    /\ members \in [Pairing -> SUBSET DOMAIN token]
    /\ \A p \in Pairing : Cardinality(members[p]) <= MaxMembers
    /\ origin \in [Pairing -> Code \cup {Nobody}]
    /\ audit \in [Pairing -> Seq(Record)]
    /\ joins \subseteq JoinInProgress /\ invites \subseteq Agent \X Pairing
    /\ failures \in [Client -> SUBSET Failure] /\ wrong \in [Client -> SUBSET Failure]
    /\ crashes \in 0..MaxCrashes

----------------------------------------------------------------------------
\* Seeded defects: each is a plausible slip in the definition it stands in for.

StillThere(c) == code[c] # NoRow /\ now <= code[c].expires
NeverFull(p) == FALSE
SweepsEarly(c) == code[c] # NoRow /\ ~code[c].used /\ code[c].expires <= now
SweepsUsed(c) == code[c] # NoRow /\ code[c].expires < now
ForgetsUnknown(k, c) ==
    IF code[c] = NoRow THEN {}
    ELSE failures[k] \cup {[at |-> now, nth |-> Cardinality(failures[k])]}
SkipsCreator(h) == bound

----------------------------------------------------------------------------
Init ==
    /\ relay \in {"node", "cloud"} /\ now = 0
    /\ code = [c \in Code |-> NoRow]
    /\ token = <<>> /\ bound = [a \in Agent |-> NoPairing]
    /\ members = [p \in Pairing |-> {}] /\ origin = [p \in Pairing |-> Nobody]
    /\ audit = [p \in Pairing |-> <<>>]
    /\ joins = {} /\ invites = {}
    /\ failures = [k \in Client |-> {}] /\ crashes = 0
    /\ redeemed = {} /\ wrong = [k \in Client |-> {}] /\ cut = {} /\ turnedAway = {}

\* The Node relay takes no other request while a handler is on the stack.
Free == relay = "node" => joins = {}

\* generateId and generatePairingCode: ids are new, and a code is drawn again
\* while the table has it.
NewAgent(a) == a \notin DOMAIN token
Drawn(c) == code[c] = NoRow
NewRow(a, p) == [creator |-> a, pairing |-> p, expires |-> now + TTL, used |-> FALSE]

GiveToken(a, p) == [b \in DOMAIN token \cup {a} |-> IF b = a THEN p ELSE token[b]]

\* POST /pairings.
CreatePairingCode(c, a) ==
    /\ Free /\ Drawn(c) /\ NewAgent(a)
    /\ code' = [code EXCEPT ![c] = NewRow(a, NoPairing)]
    /\ token' = GiveToken(a, NoPairing)
    /\ UNCHANGED <<relay, now, bound, members, origin, audit, joins, invites, failures,
                   crashes, history>>

Full(p) == Cardinality(members[p]) >= MaxMembers
MayInvite(a, p) == a \in members[p] /\ ~Full(p)

\* POST /pairings/:id/invite.  The cloud's Worker asks the room first and has
\* the Registry mint afterwards.
CreateInviteCode(c, a, p) ==
    /\ Free /\ Drawn(c)
    /\ \/ relay = "node" /\ MayInvite(a, p) /\ UNCHANGED invites
       \/ <<a, p>> \in invites /\ invites' = invites \ {<<a, p>>}
    /\ code' = [code EXCEPT ![c] = NewRow(a, p)]
    /\ UNCHANGED <<relay, now, token, bound, members, origin, audit, joins, failures,
                   crashes, history>>

CheckInvite(a, p) ==
    /\ relay = "cloud" /\ MayInvite(a, p)
    /\ invites' = invites \cup {<<a, p>>}
    /\ UNCHANGED <<relay, now, tables, joins, failures, crashes, history>>

----------------------------------------------------------------------------
\* Joining.

Recent(fails) == {f \in fails : f.at + Window > now}
IsLimited(k) == Cardinality(Recent(failures[k])) >= MaxFailures

\* 404, 409 and 410 in that order.
Redeemable(c) == code[c] # NoRow /\ ~code[c].used /\ now <= code[c].expires

\* The Node relay looks at the cap before it consumes an invite; the Registry
\* does not know the members.
HasRoom(p) == relay = "node" /\ p # NoPairing => ~Full(p)

OneMore(fails) == Recent(fails) \cup {[at |-> now, nth |-> Cardinality(Recent(fails))]}
AfterFailure(k, c) == OneMore(failures[k])

\* 429, or one of the refusals above: on the Node relay a full pairing is a 409
\* like a used code.
JoinFails(k, c) ==
    /\ Free
    /\ IF IsLimited(k)
       THEN failures' = [failures EXCEPT ![k] = Recent(@)] /\ UNCHANGED wrong
       ELSE /\ Redeemable(c) => ~HasRoom(code[c].pairing)
            /\ failures' = [failures EXCEPT ![k] = AfterFailure(k, c)]
            /\ wrong' = [wrong EXCEPT ![k] = OneMore(@)]
    /\ UNCHANGED <<relay, now, tables, joins, invites, crashes, redeemed, cut, turnedAway>>

\* limiter.clear: nothing looks at the limiter before the Node handler ends.
Clear(k) ==
    /\ failures' = [failures EXCEPT ![k] = {}]
    /\ wrong' = [wrong EXCEPT ![k] = {}]

Consume(c, a) ==
    /\ code' = [code EXCEPT ![c].used = TRUE]
    /\ redeemed' = redeemed \cup {<<c, a>>}

FirstStage == IF relay = "node" THEN "bind" ELSE "room"

\* joinPairing with a bootstrap code: a new pairing.  The Registry binds and
\* issues in the same transaction, the Node relay writes the members.
JoinPairing(k, c, a, p) ==
    LET creator == code[c].creator IN
    /\ Free /\ ~IsLimited(k)
    /\ Redeemable(c) /\ code[c].pairing = NoPairing
    /\ NewAgent(a) /\ origin[p] = Nobody
    /\ Consume(c, a) /\ Clear(k)
    /\ origin' = [origin EXCEPT ![p] = c]
    /\ token' = [GiveToken(a, p) EXCEPT ![creator] = p]
    /\ IF relay = "node"
       THEN members' = [members EXCEPT ![p] = {creator, a}] /\ UNCHANGED bound
       ELSE bound' = [bound EXCEPT ![creator] = p, ![a] = p] /\ UNCHANGED members
    /\ joins' = joins \cup {[at |-> FirstStage, agent |-> a, pairing |-> p, creator |-> creator]}
    /\ UNCHANGED <<relay, now, audit, invites, crashes, cut, turnedAway>>

\* joinPairing with an invite code.
JoinExistingPairing(k, c, a) ==
    LET p == code[c].pairing IN
    /\ Free /\ ~IsLimited(k)
    /\ Redeemable(c) /\ p # NoPairing /\ HasRoom(p)
    /\ NewAgent(a)
    /\ Consume(c, a) /\ Clear(k)
    /\ token' = GiveToken(a, p)
    /\ IF relay = "node"
       THEN members' = [members EXCEPT ![p] = @ \cup {a}] /\ UNCHANGED bound
       ELSE bound' = [bound EXCEPT ![a] = p] /\ UNCHANGED members
    /\ joins' = joins \cup {[at |-> IF relay = "node" THEN "issue" ELSE "room",
                             agent |-> a, pairing |-> p, creator |-> Nobody]}
    /\ UNCHANGED <<relay, now, origin, audit, invites, crashes, cut, turnedAway>>

----------------------------------------------------------------------------
\* The rest of a join.

Records(h) == IF h.creator = Nobody THEN "pairing.joined" ELSE "pairing.created"
Advance(h, at) == joins' = (joins \ {h}) \cup {[h EXCEPT !.at = at]}
Finish(h) == joins' = joins \ {h}

BindCreator(h) == [bound EXCEPT ![h.creator] = h.pairing]

\* credentials.bindPairing.
BindPairing(h) ==
    /\ h.at = "bind"
    /\ bound' = BindCreator(h)
    /\ Advance(h, "issue")
    /\ UNCHANGED <<relay, now, code, token, members, origin, audit, invites, failures,
                   crashes, history>>

\* createPrincipal and issueRoot.
IssueRoot(h) ==
    /\ h.at = "issue"
    /\ bound' = [bound EXCEPT ![h.agent] = h.pairing]
    /\ Advance(h, Records(h))
    /\ UNCHANGED <<relay, now, code, token, members, origin, audit, invites, failures,
                   crashes, history>>

\* room.initialize ignores the cap, room.addMember looks at it.
EnterRoom(h) ==
    LET p == h.pairing IN
    /\ h.at = "room"
    /\ IF h.creator = Nobody /\ Full(p)
       THEN Finish(h) /\ turnedAway' = turnedAway \cup {h.agent} /\ UNCHANGED members
       ELSE /\ members' = [members EXCEPT ![p] = @ \cup ({h.agent, h.creator} \ {Nobody})]
            /\ Advance(h, Records(h))
            /\ UNCHANGED turnedAway
    /\ UNCHANGED <<relay, now, code, token, bound, origin, audit, invites, failures,
                   crashes, redeemed, wrong, cut>>

AppendAudit(h) ==
    /\ h.at \in Action
    /\ audit' = [audit EXCEPT ![h.pairing] = Append(@, [action |-> h.at, agent |-> h.agent])]
    /\ IF h.at = "pairing.created" THEN Advance(h, "pairing.joined") ELSE Finish(h)
    /\ UNCHANGED <<relay, now, code, token, bound, members, origin, invites, failures,
                   crashes, history>>

----------------------------------------------------------------------------
\* The sweep, time and faults.

Abandoned(c) == code[c] # NoRow /\ ~code[c].used /\ code[c].expires < now

\* Only the Node relay sweeps.
PurgeExpiredCodes ==
    /\ Free /\ relay = "node" /\ \E c \in Code : code[c] # NoRow
    /\ code' = [c \in Code |-> IF Abandoned(c) THEN NoRow ELSE code[c]]
    /\ UNCHANGED <<relay, now, token, bound, members, origin, audit, joins, invites,
                   failures, crashes, history>>

Tick ==
    /\ Free /\ now < MaxTime
    /\ now' = now + 1
    /\ UNCHANGED <<relay, tables, joins, invites, failures, crashes, history>>

\* The handler of one join dies.
LoseJoin(h) ==
    /\ h \in joins /\ joins' = joins \ {h}
    /\ cut' = cut \cup ({h.agent, h.creator} \ {Nobody})

\* The process, or the Registry's isolate, is gone with its limiter; on the
\* Node relay so is the handler it was in.
Restart ==
    /\ crashes < MaxCrashes /\ crashes' = crashes + 1
    /\ failures' = [k \in Client |-> {}] /\ wrong' = [k \in Client |-> {}]
    /\ IF relay = "node" /\ joins # {} THEN \E h \in joins : LoseJoin(h)
                                        ELSE UNCHANGED <<joins, cut>>
    /\ UNCHANGED <<relay, now, tables, invites, redeemed, turnedAway>>

\* A Worker dies between two calls.
WorkerDies ==
    /\ relay = "cloud" /\ crashes < MaxCrashes /\ crashes' = crashes + 1
    /\ \/ \E h \in joins : LoseJoin(h) /\ UNCHANGED invites
       \/ \E i \in invites : invites' = invites \ {i} /\ UNCHANGED <<joins, cut>>
    /\ UNCHANGED <<relay, now, tables, failures, redeemed, wrong, turnedAway>>

Next ==
    \/ \E c \in Code, a \in Agent : CreatePairingCode(c, a)
    \/ \E c \in Code, a \in Agent, p \in Pairing : CreateInviteCode(c, a, p)
    \/ \E a \in Agent, p \in Pairing : CheckInvite(a, p)
    \/ \E k \in Client, c \in Code : JoinFails(k, c)
    \/ \E k \in Client, c \in Code, a \in Agent, p \in Pairing : JoinPairing(k, c, a, p)
    \/ \E k \in Client, c \in Code, a \in Agent : JoinExistingPairing(k, c, a)
    \/ \E h \in joins : BindPairing(h)
    \/ \E h \in joins : IssueRoot(h)
    \/ \E h \in joins : EnterRoom(h)
    \/ \E h \in joins : AppendAudit(h)
    \/ PurgeExpiredCodes \/ Tick \/ Restart \/ WorkerDies

Spec == Init /\ [][Next]_vars

----------------------------------------------------------------------------
\* Safety.

\* A code brings in one agent and makes at most one pairing, for ever: used
\* codes stay in the table, so no draw can hand one out again while the pairing
\* still names it.
OneShot ==
    /\ \A c \in Code : Cardinality({a \in Agent : <<c, a>> \in redeemed}) <= 1
    /\ \A p, q \in Pairing : origin[p] = origin[q] /\ origin[p] # Nobody => p = q

\* Exactly one record of p's log says this of a.
Once(p, action, a) ==
    \E i \in DOMAIN audit[p] : \A j \in DOMAIN audit[p] :
        audit[p][j] = [action |-> action, agent |-> a] <=> j = i
Settled(a) == a \notin cut /\ \A h \in joins : a \notin {h.agent, h.creator}

\* The parts of a's join agree: it is a member of the pairing its token names, its
\* credential names the same one, and the audit log has its join once.
Whole(a) ==
    LET p == token[a] IN
    /\ bound[a] = p
    /\ a \in members[p] \/ (relay = "cloud" /\ a \in turnedAway)
    /\ a \in members[p] /\ (\E c \in Code : <<c, a>> \in redeemed) =>
          /\ Once(p, "pairing.joined", a)
          /\ <<origin[p], a>> \in redeemed => Once(p, "pairing.created", a)

\* Once a join is over, its parts agree: whoever holds a token of a pairing is
\* one of its members, its credential names the same pairing, and a joiner is
\* in the audit log once.  A crash may leave less, and on the cloud a joiner the
\* room had no place for keeps the token.
JoinIsWhole ==
    \A a \in DOMAIN token : token[a] # NoPairing /\ Settled(a) => Whole(a)

\* Between two successes or restarts no client gets more than MaxFailures wrong
\* codes looked at in any window, whatever the codes were.
GuessesAreBounded == \A k \in Client : Cardinality(Recent(wrong[k])) <= MaxFailures

\* The sweep and the join read the expiry alike: a code that could still be
\* redeemed is never swept away.
SweepKeepsLive == [][\A c \in Code : Redeemable(c) => code'[c] # NoRow]_vars

\* On either relay every token holder would be a member.  The cloud consumes an
\* invite before the room has looked at the cap.
HoldersAreMembers ==
    \A a \in DOMAIN token :
        token[a] # NoPairing /\ Settled(a) => a \in members[token[a]]
=============================================================================
