---------------------------- MODULE CloudPairing ----------------------------
(***************************************************************************)
(* One pairing on the Cloudflare relay: the Worker (index.ts), the         *)
(* Registry Durable Object that owns codes, tokens and credentials, and    *)
(* the PairingRoom Durable Object that owns members, plan, consent and     *)
(* progress.                                                               *)
(*                                                                         *)
(* A Durable Object method is synchronous over its own storage, so one RPC *)
(* is one step.  The Worker keeps nothing: between the RPCs of a handler   *)
(* other handlers run, and a handler that dies there leaves behind what    *)
(* its earlier RPCs did.  Such a handler is a record in `req' that names   *)
(* its next RPC and the locals it will pass.                               *)
(***************************************************************************)
EXTENDS Consent, FiniteSets

CONSTANTS
    Founders,    \* the creator of the pairing and the agent that redeems its code
    Creator,     \* the one whose credential was signed before the pairing existed
    V3,          \* agents that paired with a holder key
    Root,        \* Root[a]: the credential issued to a when it paired
    Chain,       \* Chain[c]: the credentials c descends from
    NoCred,      \* a bearer token
    Item,        \* indices of plan items
    Owner,       \* Owner[g][i]: the agent item i of text g belongs to
    DependsOn,   \* DependsOn[g][i]: earlier items of text g
    Req,         \* requests being handled at once
    MaxMembers,  \* MAX_MEMBERS
    MaxVersion,  \* bound: the last version a proposal may come to make
    MaxInvites,  \* bound: no invite is accepted with this many unused codes
    MaxCrashes   \* bound: handlers that die between two RPCs

ASSUME CloudPairingAssumption ==
    /\ IsFiniteSet(Agent)
    /\ Founders \subseteq Agent /\ Cardinality(Founders) = 2 /\ Creator \in Founders
    /\ V3 \subseteq Agent
    /\ NoCred \notin Cred
    /\ Root \in [V3 -> Cred] /\ \A a \in V3 : CredOwner[Root[a]] = a
    /\ Chain \in [Cred -> SUBSET Cred]
    /\ \A c \in Cred : \A p \in Chain[c] : CredOwner[p] = CredOwner[c]
    /\ \A a \in V3 : Chain[Root[a]] = {}
    /\ Owner \in [Goal -> [Item -> Agent]]
    /\ DependsOn \in [Goal -> [Item -> SUBSET Item]]
    /\ MaxMembers \in Nat /\ MaxMembers >= 2
    /\ {MaxVersion, MaxInvites, MaxCrashes} \subseteq Nat

VARIABLES
    \* Registry
    code,         \* the bootstrap code: "open" or "used"
    invites,      \* invite codes minted and not yet used
    identities,   \* agents with a token bound to this pairing
    tokenRevoked, \* the ones whose token has revoked_at
    issued,       \* rows of credentials
    bound,        \* the ones whose pairing_id column names this pairing
    revokedCreds, \* the ones with revoked_at
    \* PairingRoom
    members,      \* pairing_members; empty until initialize
    plan,         \* the plans row
    consent,      \* the consent_records row
    status,       \* plan_item_status of the plan's version, "pending" when absent
    \* Worker
    req,          \* handlers between two RPCs
    crashes,      \* how many died there
    \* history
    published,    \* every subject the plans row ever had
    given         \* approvals sent, as agent and subject read

registryVars == <<code, invites, identities, tokenRevoked, issued, bound, revokedCreds>>
roomVars == <<members, plan, consent, status>>
historyVars == <<published, given>>
vars == <<registryVars, roomVars, req, crashes, historyVars>>

Status == {"pending", "in_progress", "done"}
Plan == [subject : Subject \cup {NoSubject}, approvedBy : SUBSET Agent, locked : BOOLEAN]
NoPlan == [subject |-> NoSubject, approvedBy |-> {}, locked |-> FALSE]
AllPending == [i \in Item |-> "pending"]

\* at: the RPC the handler sends next; the rest is what it will pass.
Rpc == {"initialize", "addMember", "inviteCheck", "createInviteCode", "attenuateFrom",
        "getMembers", "proposePlan", "approvePlan", "updateItemStatus", "withdrawConsent",
        "revokeCheck", "revokeAgent", "withdrawByCredentials"}
Request ==
    [at : Rpc \cup {"idle"}, agent : Agent, cred : Cred \cup {NoCred},
     goal : Goal \cup {NoGoal}, subject : Subject \cup {NoSubject}, seen : SUBSET Agent,
     targets : SUBSET Agent, dead : SUBSET Cred, item : SUBSET Item, to : Status]
Idle ==
    [at |-> "idle", agent |-> Creator, cred |-> NoCred, goal |-> NoGoal,
     subject |-> NoSubject, seen |-> {}, targets |-> {}, dead |-> {}, item |-> {},
     to |-> "pending"]

TypeOK ==
    /\ code \in {"open", "used"} /\ invites \in Nat
    /\ identities \subseteq Agent /\ tokenRevoked \subseteq identities
    /\ bound \subseteq issued /\ issued \subseteq Cred /\ revokedCreds \subseteq issued
    /\ members \subseteq identities /\ Cardinality(members) <= MaxMembers
    /\ plan \in Plan /\ consent \in ConsentRecord
    /\ status \in [Item -> Status]
    /\ req \in [Req -> Request] /\ crashes \in Nat
    /\ published \subseteq Subject
    /\ given \subseteq [agent : Agent, subject : Subject]

----------------------------------------------------------------------------
\* Seeded defects: each is a plausible slip in the definition it stands in for.

ForgetsCap(a) == a \notin members
VerifiesLeafOnly(c) == c \in issued \ revokedCreds
KeepsProgress == status' = status
NamesAnything(s) == Exists(plan)

----------------------------------------------------------------------------
\* POST /pairings has run: the creator has a code, a token and, with a holder
\* key, a credential that names no pairing.
Init ==
    /\ code = "open" /\ invites = 0
    /\ identities = {} /\ tokenRevoked = {}
    /\ issued = {Root[a] : a \in {Creator} \cap V3} /\ bound = {} /\ revokedCreds = {}
    /\ members = {}
    /\ plan = NoPlan /\ consent = NoConsent /\ status = AllPending
    /\ req = [r \in Req |-> Idle] /\ crashes = 0
    /\ published = {} /\ given = {}

\* verifyCredential: neither the credential nor one it descends from is revoked.
Verifies(c) == c \in issued /\ (Chain[c] \cup {c}) \cap revokedCreds = {}

\* authenticate: a live credential, or the token while it is not revoked.
Authenticates(a, c) ==
    IF c = NoCred THEN a \in (identities \cup {Creator}) \ tokenRevoked
                  ELSE CredOwner[c] = a /\ Verifies(c)

\* A route of this pairing, for whoever can authenticate as a.
MayCall(a) ==
    /\ a \in identities
    /\ \E c \in Cred \cup {NoCred} : Authenticates(a, c)

Send(r, request) == req' = [req EXCEPT ![r] = request]
Answer(r) == Send(r, Idle)
Accept(r, request) ==
    /\ req[r].at = "idle"
    /\ Send(r, request)
    /\ UNCHANGED <<registryVars, roomVars, crashes, published>>
Turn(r, at) == req[r].at = at /\ UNCHANGED <<crashes, historyVars>>

----------------------------------------------------------------------------
\* Pairing and inviting.

\* registry.joinPairing with the bootstrap code, and then initialize.
JoinPairing(r, a) ==
    /\ req[r].at = "idle"
    /\ code = "open" /\ a \in Founders \ {Creator}
    /\ code' = "used"
    /\ identities' = Founders
    /\ issued' = issued \cup {Root[b] : b \in {a} \cap V3}
    /\ bound' = issued'                        \* bindPairing
    /\ Send(r, [Idle EXCEPT !.at = "initialize"])
    /\ UNCHANGED <<invites, tokenRevoked, revokedCreds, roomVars, crashes, historyVars>>

Initialize(r) ==
    /\ Turn(r, "initialize")
    /\ members' = members \cup Founders
    /\ Answer(r)
    /\ UNCHANGED <<registryVars, plan, consent, status>>

\* registry.joinPairing with an invite code, and then addMember.
JoinExistingPairing(r, a) ==
    /\ req[r].at = "idle"
    /\ invites > 0 /\ a \in Agent \ (Founders \cup identities)
    /\ invites' = invites - 1
    /\ identities' = identities \cup {a}
    /\ issued' = issued \cup {Root[b] : b \in {a} \cap V3}
    /\ bound' = bound \cup {Root[b] : b \in {a} \cap V3}
    /\ Send(r, [Idle EXCEPT !.at = "addMember", !.agent = a])
    /\ UNCHANGED <<code, tokenRevoked, revokedCreds, roomVars, crashes, historyVars>>

\* addMember looks at the cap again: the invite was checked long ago.
MayJoin(a) == a \notin members /\ Cardinality(members) < MaxMembers

AddMember(r) ==
    /\ Turn(r, "addMember")
    /\ members' = IF MayJoin(req[r].agent) THEN members \cup {req[r].agent} ELSE members
    /\ Answer(r)
    /\ UNCHANGED <<registryVars, plan, consent, status>>

AcceptInvite(r, a) ==
    /\ MayCall(a) /\ invites < MaxInvites
    /\ Accept(r, [Idle EXCEPT !.at = "inviteCheck", !.agent = a])
    /\ UNCHANGED given

InviteCheck(r) ==
    /\ Turn(r, "inviteCheck")
    /\ IF req[r].agent \in members /\ Cardinality(members) < MaxMembers
       THEN Send(r, [req[r] EXCEPT !.at = "createInviteCode"])
       ELSE Answer(r)
    /\ UNCHANGED <<registryVars, roomVars>>

CreateInviteCode(r) ==
    /\ Turn(r, "createInviteCode")
    /\ invites' = invites + 1
    /\ Answer(r)
    /\ UNCHANGED <<code, identities, tokenRevoked, issued, bound, revokedCreds, roomVars>>

----------------------------------------------------------------------------
\* Credentials.

\* A child's jti is new; its parent was looked at in authenticate and is not
\* looked at again.
AcceptAttenuate(r, p, child) ==
    /\ Verifies(p)
    /\ child \notin issued /\ \A q \in Req : req[q].cred # child
    /\ CredOwner[child] = CredOwner[p] /\ Chain[child] = Chain[p] \cup {p}
    /\ Accept(r, [Idle EXCEPT !.at = "attenuateFrom", !.agent = CredOwner[p],
                              !.cred = child])
    /\ UNCHANGED given

\* The child copies `pairing' from its parent's signed payload, which is null
\* for ever in the creator's.
BoundAtIssue(c) == {c} \ {d \in Cred : CredOwner[d] = Creator}

AttenuateFrom(r) ==
    /\ Turn(r, "attenuateFrom")
    /\ issued' = issued \cup {req[r].cred}
    /\ bound' = bound \cup BoundAtIssue(req[r].cred)
    /\ Answer(r)
    /\ UNCHANGED <<code, invites, identities, tokenRevoked, revokedCreds, roomVars>>

----------------------------------------------------------------------------
\* Proposing.

\* Two proposals may race, for as many versions as the bound leaves.
Proposing == {q \in Req : req[q].goal # NoGoal}

AcceptPropose(r, a, g) ==
    /\ MayCall(a) /\ plan.subject.version + Cardinality(Proposing) < MaxVersion
    /\ Accept(r, [Idle EXCEPT !.at = "getMembers", !.agent = a, !.goal = g])
    /\ UNCHANGED given

\* room.getPairing; the principals of these members are looked up afterwards.
GetMembers(r) ==
    /\ Turn(r, "getMembers")
    /\ IF members = {} THEN Answer(r)
                       ELSE Send(r, [req[r] EXCEPT !.at = "proposePlan", !.seen = members])
    /\ UNCHANGED <<registryVars, roomVars>>

NextSubject(g) == [goal |-> g, version |-> plan.subject.version + 1]

WritePlan(subject) ==
    plan' = [subject |-> subject, approvedBy |-> {}, locked |-> FALSE]

\* The rows of every other version are deleted.
ClearProgress == status' = AllPending

\* Consent is reopened when as many principals were found as there are members.
ReopenConsent(subject, seen) ==
    consent' = IF Cardinality(seen \cap V3) = Cardinality(members)
               THEN OpenConsent(subject, seen \cap V3) ELSE consent

\* One transaction of the room, so the version is read where it is written.
ProposePlan(r) ==
    LET h == req[r]
        subject == NextSubject(h.goal)
    IN
    /\ h.at = "proposePlan"
    /\ IF h.agent \in members /\ \A i \in Item : Owner[h.goal][i] \in members
       THEN /\ WritePlan(subject)
            /\ ClearProgress
            /\ ReopenConsent(subject, h.seen)
            /\ published' = published \cup {subject}
       ELSE UNCHANGED <<plan, status, consent, published>>
    /\ Answer(r)
    /\ UNCHANGED <<registryVars, members, crashes, given>>

----------------------------------------------------------------------------
\* Approving and withdrawing.

\* s is the subject a's human read, at whatever time; c signs it, or nothing does.
AcceptApprove(r, a, s, c) ==
    /\ a \in identities /\ Authenticates(a, c)
    /\ s \in published
    /\ Accept(r, [Idle EXCEPT !.at = "approvePlan", !.agent = a, !.subject = s, !.cred = c])
    /\ given' = given \cup {[agent |-> a, subject |-> s]}

SignedApproval(a, c, s) ==
    [principal |-> a, credential |-> c, sig |-> [key |-> c, over |-> s]]

\* planVersion must be the row's.
NamesCurrent(s) == Exists(plan) /\ s.version = plan.subject.version

Unanimous(approvedBy) == members \subseteq approvedBy

\* The row is written before the signature is looked at, in one transaction
\* that a refusal does not roll back.
ApprovePlan(r) ==
    LET h == req[r]
        approvedBy == plan.approvedBy \cup {h.agent}
        ap == SignedApproval(h.agent, h.cred, h.subject)
    IN
    /\ Turn(r, "approvePlan")
    /\ IF h.agent \in members /\ NamesCurrent(h.subject)
       THEN /\ plan' = [plan EXCEPT !.approvedBy = approvedBy, !.locked = Unanimous(approvedBy)]
            /\ consent' = IF /\ h.cred # NoCred
                             /\ consent.subject = plan.subject
                             /\ MayApprove(consent, h.cred, ap.sig)
                          THEN WithApproval(consent, ap) ELSE consent
       ELSE UNCHANGED <<plan, consent>>
    /\ Answer(r)
    /\ UNCHANGED <<registryVars, members, status>>

AcceptWithdraw(r, a) ==
    /\ MayCall(a) /\ a \in V3
    /\ Accept(r, [Idle EXCEPT !.at = "withdrawConsent", !.agent = a])
    /\ UNCHANGED given

WithdrawConsent(r) ==
    /\ Turn(r, "withdrawConsent")
    /\ consent' = IF Exists(consent) THEN WithoutPrincipal(consent, req[r].agent) ELSE consent
    /\ Answer(r)
    /\ UNCHANGED <<registryVars, members, plan, status>>

----------------------------------------------------------------------------
\* Progress on the items of a locked plan.

AcceptItemStatus(r, a, i, to) ==
    /\ MayCall(a)
    /\ Accept(r, [Idle EXCEPT !.at = "updateItemStatus", !.agent = a, !.item = {i}, !.to = to])
    /\ UNCHANGED given

DependenciesDone(g, i) == \A d \in DependsOn[g][i] : status[d] = "done"

MayUpdate(a, i, to) ==
    /\ a \in members
    /\ plan.locked
    /\ Owner[plan.subject.goal][i] = a
    /\ to # "pending" => DependenciesDone(plan.subject.goal, i)

UpdateItemStatus(r) ==
    LET h == req[r] IN
    /\ Turn(r, "updateItemStatus")
    /\ status' = [i \in Item |-> IF i \in h.item /\ MayUpdate(h.agent, i, h.to)
                                 THEN h.to ELSE status[i]]
    /\ Answer(r)
    /\ UNCHANGED <<registryVars, members, plan, consent>>

----------------------------------------------------------------------------
\* Revoking.

\* targets: one agent, or none for "all".
AcceptRevoke(r, a, targets) ==
    /\ MayCall(a)
    /\ Cardinality(targets) <= 1
    /\ Accept(r, [Idle EXCEPT !.at = "revokeCheck", !.agent = a, !.targets = targets])
    /\ UNCHANGED given

\* The handler goes on with the next target, or answers.
NextTarget(h, targets) ==
    IF targets = {} THEN Idle
    ELSE [h EXCEPT !.at = "revokeAgent", !.targets = targets, !.dead = {}]

RevokeCheck(r) ==
    LET h == req[r]
        all == members \ {h.agent}
    IN
    /\ Turn(r, "revokeCheck")
    /\ Send(r, IF h.agent \in members
               THEN NextTarget(h, IF h.targets = {} THEN all ELSE h.targets \cap members)
               ELSE Idle)
    /\ UNCHANGED <<registryVars, roomVars>>

\* revokeAgent reports the credentials it revoked just now: none, for an agent
\* that was revoked before.
RevokedNow(t) == {c \in issued \ revokedCreds : CredOwner[c] = t /\ t \notin tokenRevoked}

RevokeAgent(r) ==
    LET h == req[r] IN
    /\ Turn(r, "revokeAgent")
    /\ \E t \in h.targets :
          /\ tokenRevoked' = tokenRevoked \cup {t}
          /\ revokedCreds' = revokedCreds \cup RevokedNow(t)
          /\ Send(r, IF RevokedNow(t) # {}
                     THEN [h EXCEPT !.at = "withdrawByCredentials",
                                    !.targets = @ \ {t}, !.dead = RevokedNow(t)]
                     ELSE NextTarget(h, h.targets \ {t}))
    /\ UNCHANGED <<code, invites, identities, issued, bound, roomVars>>

WithdrawByCredentials(r) ==
    LET h == req[r] IN
    /\ Turn(r, "withdrawByCredentials")
    /\ consent' = IF Exists(consent) THEN WithoutCredentials(consent, h.dead) ELSE consent
    /\ Send(r, NextTarget(h, h.targets))
    /\ UNCHANGED <<registryVars, members, plan, status>>

----------------------------------------------------------------------------
\* A Worker invocation is cut off between two RPCs.
Crash(r) ==
    /\ req[r].at # "idle" /\ crashes < MaxCrashes
    /\ crashes' = crashes + 1
    /\ Answer(r)
    /\ UNCHANGED <<registryVars, roomVars, historyVars>>

Registry(r) ==
    \/ CreateInviteCode(r) \/ AttenuateFrom(r) \/ RevokeAgent(r)
Room(r) ==
    \/ Initialize(r) \/ AddMember(r) \/ InviteCheck(r) \/ GetMembers(r)
    \/ ProposePlan(r) \/ ApprovePlan(r) \/ UpdateItemStatus(r) \/ WithdrawConsent(r)
    \/ RevokeCheck(r) \/ WithdrawByCredentials(r)

Next ==
    \/ \E r \in Req : Registry(r) \/ Room(r) \/ Crash(r)
    \/ \E r \in Req, a \in Agent :
          \/ JoinPairing(r, a) \/ JoinExistingPairing(r, a) \/ AcceptInvite(r, a)
          \/ AcceptWithdraw(r, a)
          \/ \E g \in Goal : AcceptPropose(r, a, g)
          \/ \E s \in published, c \in Cred \cup {NoCred} : AcceptApprove(r, a, s, c)
          \/ \E i \in Item, to \in Status : AcceptItemStatus(r, a, i, to)
          \/ \E targets \in SUBSET Agent : AcceptRevoke(r, a, targets)
    \/ \E r \in Req, p, child \in Cred : AcceptAttenuate(r, p, child)

Spec == Init /\ [][Next]_vars

----------------------------------------------------------------------------
\* Properties.

\* Every approval in the consent record was signed by its own principal over
\* exactly the text and version the record is about, after that human read
\* them, and there is one per principal, whatever ran between the RPCs.
ConsentEvidence ==
    /\ \A ap \in consent.approvals :
          /\ ap.principal \in consent.required
          /\ CredOwner[ap.credential] = ap.principal
          /\ VerifyApprovalSignature(ap.credential, ap.sig, consent.subject)
          /\ [agent |-> ap.principal, subject |-> consent.subject] \in given
    /\ \A x, y \in consent.approvals : x.principal = y.principal => x = y
    /\ consent.satisfied <=> IsSatisfied(consent.required, consent.approvals)

\* An approval never attaches to text its human did not read, and a plan that
\* is locked was approved by both founders.  approvePlan is one transaction
\* here, so unlike the Node relay's it keeps this with handlers interleaved.
AgreementIsInformed ==
    /\ \A a \in plan.approvedBy : [agent |-> a, subject |-> plan.subject] \in given
    /\ plan.locked => Founders \subseteq plan.approvedBy

\* The comment on updateItemStatus: work is always work against a goal both
\* sides agreed to, so progress is never left over from an earlier text.
WorkIsAgreed ==
    status # AllPending =>
        \A f \in Founders : [agent |-> f, subject |-> plan.subject] \in given

\* §3.3: once an agent is revoked nothing it holds authenticates any more, not
\* even a credential that was being attenuated while the revocation ran.
RevokedIsDead ==
    \A t \in tokenRevoked : \A c \in Cred \cup {NoCred} : ~Authenticates(t, c)

\* §6.3.7: with no handler under way, no approval outlives the credential it was
\* made with.
RevocationWithdraws ==
    (\A r \in Req : req[r].at = "idle") =>
        \A ap \in consent.approvals : ap.credential \notin revokedCreds

\* The comment on joinPairing in registry.ts: a code that is used up has made a
\* pairing, at least once its handler is over.
CodeMakesPairing ==
    (\A r \in Req : req[r].at = "idle") => (code = "used" <=> members # {})

\* §6.2 and the comment on POST /consent/verify: whoever checks the signatures
\* against the holder keys the relay publishes for the pairing reaches the
\* verdict the relay's flag states.
ConsentIsVerifiable ==
    consent.satisfied => VerifyConsentRecord(consent, bound)

=============================================================================
