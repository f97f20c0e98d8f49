----------------------------- MODULE RelayPlan -----------------------------
(***************************************************************************)
(* The plan and its consent on the Node relay: RelayStore (store.ts), the  *)
(* consent half of CredentialStore, and the AgentRun sandbox that embodies *)
(* a plan waiting for its approvals, for one pairing.                      *)
(*                                                                         *)
(* The relay is one Node process over a synchronous SQLite, so a handler   *)
(* runs to completion except where it awaits.  proposePlan awaits up to    *)
(* three AgentRun calls and approvePlan one; a handler parked at an await  *)
(* is a record in `req' that carries the locals it read before it, and     *)
(* other handlers run meanwhile.  When AgentRun is not configured every    *)
(* awaited promise is already resolved, so only microtasks separate the    *)
(* pieces of a handler and no other request can start between them.        *)
(***************************************************************************)
EXTENDS Consent, FiniteSets

CONSTANTS
    Founders,           \* the creator and the first joiner
    V3,                 \* agents that paired with a holder key (cnf)
    Root,               \* Root[a]: the credential issued to a when it paired
    MaxMembers,         \* MAX_MEMBERS
    AgentRunConfigured, \* agentrunStatus().configured
    Sandbox,            \* AgentRun sandboxes that may be created
    Simulated,          \* the handle of a simulated wait
    NoHandle,
    NoCred,             \* a request without a consent signature
    Req,                \* requests being handled at once
    MaxVersion,         \* bound: proposals made against one pairing
    MaxRestarts         \* bound: restarts of the relay process

ASSUME RelayPlanAssumption ==
    /\ IsFiniteSet(Agent)
    /\ Founders \subseteq Agent /\ Cardinality(Founders) = 2
    /\ V3 \subseteq Agent
    /\ Root \in [V3 -> Cred]
    /\ \A a \in V3 : CredOwner[Root[a]] = a
    /\ MaxMembers \in Nat /\ MaxMembers >= 2
    /\ AgentRunConfigured \in BOOLEAN
    /\ Simulated # NoHandle /\ {Simulated, NoHandle} \cap Sandbox = {}
    /\ NoCred \notin Cred
    /\ MaxVersion \in Nat /\ MaxRestarts \in Nat

VARIABLES
    members,      \* pairing_members
    tokenRevoked, \* agents whose agent_tokens row has revoked_at
    issued,       \* rows of credentials
    revokedCreds, \* the ones with revoked_at, and the revokedJtis mirror
    plan,         \* the plans row, NoPlan when there is none
    consent,      \* the consent_records row, NoConsent when there is none
    audit,        \* the audit log's consent.approved and consent.satisfied entries
    wait,         \* planWaits.get(pairingId), in memory only
    box,          \* AgentRun: the state of each sandbox
    req,          \* handlers parked at an await
    restarts,     \* how often the process restarted
    published,    \* history: every subject the plans row ever had
    given         \* history: approvals accepted, as agent and subject read

memberVars == <<members, tokenRevoked, issued, revokedCreds>>
recordVars == <<plan, consent, audit, published, given>>
vars == <<memberVars, recordVars, wait, box, req, restarts>>

Handle == Sandbox \cup {Simulated, NoHandle}
BoxState == {"free", "running", "stopped", "deleted", "undeleted"}
SandboxColumn == {"none", "simulated", "stopped", "disposed"}
Plan ==
    [subject : Subject \cup {NoSubject}, approvedBy : SUBSET Agent,
     locked : BOOLEAN, sandbox : SandboxColumn]
NoPlan ==
    [subject |-> NoSubject, approvedBy |-> {}, locked |-> FALSE, sandbox |-> "none"]

\* The other actions are recorded too, and no property here reads them.
AuditAction == {"consent.approved", "consent.satisfied"}
AuditEntry == [action : AuditAction, actor : Agent, subject : Subject]
Entry(action, actor, subject) ==
    [action |-> action, actor |-> actor, subject |-> subject]

\* at: where the handler is parked.  For a proposal, subject is the text it will
\* write and snapshot the members it read; for an approval, subject is the text
\* its human read, row the plans row it read and cred the credential that signs.
Request ==
    [at : {"idle", "disposePrior", "begin", "suspend", "approve"},
     agent : Agent, subject : Subject \cup {NoSubject}, snapshot : SUBSET Agent,
     row : Plan, cred : Cred \cup {NoCred}, handle : Handle]
Idle ==
    [at |-> "idle", agent |-> CHOOSE a \in Founders : TRUE,
     subject |-> NoSubject, snapshot |-> {},
     row |-> NoPlan, cred |-> NoCred, handle |-> NoHandle]

TypeOK ==
    /\ members \subseteq Agent /\ Founders \subseteq members
    /\ Cardinality(members) <= MaxMembers
    /\ tokenRevoked \subseteq members
    /\ issued \subseteq Cred /\ revokedCreds \subseteq issued
    /\ plan \in Plan /\ consent \in ConsentRecord
    /\ audit \subseteq AuditEntry
    /\ wait \in Handle /\ box \in [Sandbox -> BoxState]
    /\ req \in [Req -> Request]
    /\ restarts \in Nat
    /\ published \subseteq Subject
    /\ given \subseteq [agent : Agent, subject : Subject]

----------------------------------------------------------------------------
\* Seeded defects: each is a plausible slip in the definition that follows it.

ForgetsCap(a) == a \notin members
KeepsApprovers(h) ==
    plan' = [subject |-> h.subject, approvedBy |-> plan.approvedBy, locked |-> FALSE,
             sandbox |-> IF h.handle = Simulated THEN "simulated" ELSE "stopped"]
SameVersion(g) ==
    [goal |-> g, version |-> IF Exists(plan) THEN plan.subject.version ELSE 1]
LocksOnMajority(snapshot, approvedBy) ==
    2 * Cardinality(snapshot \cap approvedBy) >= Cardinality(snapshot)
OpensOnce(h) ==
    consent' = IF ~Exists(consent) /\ h.snapshot \subseteq V3
               THEN OpenConsent(h.subject, h.snapshot) ELSE consent
ForgetsWithdrawal(t, dead) == consent' = consent
AuditsEarly(record, a, s) ==
    {Entry("consent.approved", a, s)} \cup {Entry("consent.satisfied", a, s)}
NeedsSandbox(r) ==
    /\ req[r].at = "begin"
    /\ \E s \in Sandbox :
          /\ box[s] = "free"
          /\ req' = [req EXCEPT ![r] = [@ EXCEPT !.at = "suspend", !.handle = s]]
          /\ box' = [box EXCEPT ![s] = "running"]
    /\ UNCHANGED <<memberVars, recordVars, wait, restarts>>

----------------------------------------------------------------------------
Init ==
    /\ members = Founders
    /\ tokenRevoked = {}
    /\ issued = {Root[a] : a \in Founders \cap V3}
    /\ revokedCreds = {}
    /\ plan = NoPlan /\ consent = NoConsent
    /\ audit = {}
    /\ wait = NoHandle /\ box = [s \in Sandbox |-> "free"]
    /\ req = [r \in Req |-> Idle]
    /\ restarts = 0
    /\ published = {} /\ given = {}

\* Handler r awaits a promise that is already resolved: no AgentRun, or the
\* empty calls of a simulated handle.  It continues before any new request is
\* dispatched and before any AgentRun answer is looked at.
Microtask(r) ==
    /\ req[r].at # "idle"
    /\ ~AgentRunConfigured \/ req[r].handle = Simulated
MayStart == \A r \in Req : ~Microtask(r)
HasTurn(r) == \A q \in Req \ {r} : ~Microtask(q)

\* requireAuth: the presented token or credential is not revoked, and resolves
\* to a member of this pairing.
Authenticated(a) == a \in members /\ a \notin tokenRevoked
LiveCred(a) == {c \in issued \ revokedCreds : CredOwner[c] = a}

Park(r, request) == req' = [req EXCEPT ![r] = request]
Release(r) == Park(r, Idle)

----------------------------------------------------------------------------
\* Membership and credentials.

\* joinExistingPairing's member checks.
MayJoin(a) ==
    /\ a \notin members
    /\ Cardinality(members) < MaxMembers

\* POST /pairings/:code/join with an invite code.
JoinExistingPairing(a) ==
    /\ MayStart /\ MayJoin(a)
    /\ members' = members \cup {a}
    /\ issued' = issued \cup {Root[b] : b \in {a} \cap V3}
    /\ UNCHANGED <<tokenRevoked, revokedCreds, recordVars, wait, box, req, restarts>>

\* POST /credentials/attenuate: one more credential for the same agent.
Attenuate(parent, child) ==
    /\ MayStart
    /\ parent \in issued \ revokedCreds /\ child \notin issued
    /\ CredOwner[child] = CredOwner[parent]
    /\ child \notin {Root[a] : a \in V3}
    /\ issued' = issued \cup {child}
    /\ UNCHANGED <<members, tokenRevoked, revokedCreds, recordVars, wait, box, req,
                   restarts>>

\* §6.3.7 as the store does it, for the credentials revoked a moment ago.
WithdrawRevoked(t, dead) ==
    consent' = IF Exists(consent) THEN WithoutCredentials(consent, dead) ELSE consent

\* revokeAgent on a target not revoked before; again on the same target it only
\* reports the first time and changes nothing.
RevokeAgent(a, t) ==
    /\ MayStart
    /\ Authenticated(a)
    /\ t \in members \ tokenRevoked
    /\ tokenRevoked' = tokenRevoked \cup {t}
    /\ revokedCreds' = revokedCreds \cup LiveCred(t)
    /\ WithdrawRevoked(t, LiveCred(t))
    /\ UNCHANGED <<members, issued, plan, audit, published, given, wait, box, req,
                   restarts>>

\* POST /consent/withdraw: proof of possession, so a live credential.
WithdrawConsent(a) ==
    /\ MayStart
    /\ Authenticated(a) /\ LiveCred(a) # {}
    /\ Exists(consent)
    /\ consent' = WithoutPrincipal(consent, a)
    /\ UNCHANGED <<memberVars, plan, audit, published, given, wait, box, req, restarts>>

----------------------------------------------------------------------------
\* proposePlan.

\* The version is read before the first await.
NextSubject(g) == [goal |-> g, version |-> plan.subject.version + 1]

ProposeStart(r, a, g) ==
    /\ MayStart /\ req[r].at = "idle"
    /\ Authenticated(a)
    /\ plan.subject.version < MaxVersion
    /\ Park(r, [Idle EXCEPT !.at = IF wait # NoHandle THEN "disposePrior" ELSE "begin",
                            !.agent = a, !.subject = NextSubject(g),
                            !.snapshot = members, !.handle = wait])
    /\ wait' = NoHandle
    /\ UNCHANGED <<memberVars, recordVars, box, restarts>>

\* dispose(): a real sandbox is deleted, or the failure is swallowed and the
\* sandbox is left to AgentRun's own idle timeout.
Disposed(h) ==
    IF h \in Sandbox
    THEN \E state \in {"deleted", "undeleted"} : box' = [box EXCEPT ![h] = state]
    ELSE box' = box

ProposeDisposed(r) ==
    /\ HasTurn(r) /\ req[r].at = "disposePrior"
    /\ Disposed(req[r].handle)
    /\ Park(r, [req[r] EXCEPT !.at = "begin", !.handle = NoHandle])
    /\ UNCHANGED <<memberVars, recordVars, wait, restarts>>

\* beginPlanWait: a simulated wait without AgentRun, or when creating fails.
ProposeBegun(r) ==
    /\ HasTurn(r) /\ req[r].at = "begin"
    /\ \/ /\ Park(r, [req[r] EXCEPT !.at = "suspend", !.handle = Simulated])
          /\ box' = box
       \/ /\ AgentRunConfigured
          /\ \E s \in Sandbox :
                /\ box[s] = "free"
                /\ Park(r, [req[r] EXCEPT !.at = "suspend", !.handle = s])
                /\ box' = [box EXCEPT ![s] = "running"]
    /\ UNCHANGED <<memberVars, recordVars, wait, restarts>>

\* The upsert, whatever the row has become since it was read.
WritePlan(h) ==
    plan' = [subject |-> h.subject, approvedBy |-> {}, locked |-> FALSE,
             sandbox |-> IF h.handle = Simulated THEN "simulated" ELSE "stopped"]

\* Consent is reopened only when every member the handler saw has a principal.
ReopenConsent(h) ==
    consent' = IF h.snapshot \subseteq V3 THEN OpenConsent(h.subject, h.snapshot)
                                          ELSE consent

ProposeFinish(r) ==
    LET h == req[r] IN
    /\ HasTurn(r) /\ h.at = "suspend"
    /\ box' = IF h.handle \in Sandbox THEN [box EXCEPT ![h.handle] = "stopped"] ELSE box
    /\ wait' = h.handle
    /\ WritePlan(h)
    /\ ReopenConsent(h)
    /\ published' = published \cup {h.subject}
    /\ Release(r)
    /\ UNCHANGED <<memberVars, audit, given, restarts>>

\* suspend() is not caught: the request fails and nobody keeps the handle.
ProposeFails(r) ==
    /\ HasTurn(r) /\ req[r].at = "suspend" /\ req[r].handle \in Sandbox
    /\ Release(r)
    /\ UNCHANGED <<memberVars, recordVars, wait, box, restarts>>

----------------------------------------------------------------------------
\* approvePlan.

\* planVersion must be the row's.
NamesCurrent(s) == Exists(plan) /\ s.version = plan.subject.version

Unanimous(snapshot, approvedBy) == snapshot \subseteq approvedBy

SatisfactionEntries(record, a, s) ==
    {Entry("consent.approved", a, s)}
        \cup (IF record.satisfied THEN {Entry("consent.satisfied", a, s)} ELSE {})

\* Everything after the last await: the row is written first, and only then are
\* the hash, the principal and the signature looked at.  A refusal there leaves
\* the written row behind.
FinishApproval(row, locked, a, s, c, column) ==
    /\ plan' = [plan EXCEPT !.approvedBy = row.approvedBy \cup {a},
                            !.locked = locked, !.sandbox = column]
    /\ LET sig == [key |-> c, over |-> s]
           ap == [principal |-> CredOwner[c], credential |-> c, sig |-> sig]
           next == WithApproval(consent, ap)
       IN  IF /\ c # NoCred
              /\ consent.subject = row.subject
              /\ MayApprove(consent, c, sig)
           THEN /\ consent' = next
                /\ audit' = audit \cup SatisfactionEntries(next, a, row.subject)
           ELSE UNCHANGED <<consent, audit>>

\* s is the subject a's human read, at whatever time; c signs it, or nothing does.
ApproveStart(r, a, s, c) ==
    LET locked == Unanimous(members, plan.approvedBy \cup {a})
        mustDispose == locked /\ wait # NoHandle
    IN
    /\ MayStart /\ req[r].at = "idle"
    /\ Authenticated(a)
    /\ s \in published /\ NamesCurrent(s)
    /\ c = NoCred \/ c \in LiveCred(a)
    /\ given' = given \cup {[agent |-> a, subject |-> s]}
    /\ IF mustDispose
       THEN /\ wait' = NoHandle
            /\ Park(r, [Idle EXCEPT !.at = "approve", !.agent = a, !.subject = s,
                                    !.row = plan, !.cred = c, !.handle = wait])
            /\ UNCHANGED <<plan, consent, audit>>
       ELSE /\ FinishApproval(plan, locked, a, s, c, plan.sandbox)
            /\ UNCHANGED <<wait, req>>
    /\ UNCHANGED <<memberVars, published, box, restarts>>

\* The await of dispose() returned; nothing read before it is read again.
ApproveDisposed(r) ==
    LET h == req[r] IN
    /\ HasTurn(r) /\ h.at = "approve"
    /\ Disposed(h.handle)
    /\ FinishApproval(h.row, TRUE, h.agent, h.subject, h.cred,
                      IF h.handle = Simulated THEN "simulated" ELSE "disposed")
    /\ Release(r)
    /\ UNCHANGED <<memberVars, published, given, wait, restarts>>

----------------------------------------------------------------------------
\* The process dies and comes back: the database stays, planWaits and every
\* handler under way are gone.
Restart ==
    /\ restarts < MaxRestarts
    /\ restarts' = restarts + 1
    /\ wait' = NoHandle
    /\ req' = [r \in Req |-> Idle]
    /\ UNCHANGED <<memberVars, recordVars, box>>

\* The continuations of handlers the process has accepted.
Resume(r) ==
    \/ ProposeDisposed(r) \/ ProposeBegun(r)
    \/ ProposeFinish(r) \/ ProposeFails(r) \/ ApproveDisposed(r)

Next ==
    \/ \E a \in Agent : JoinExistingPairing(a) \/ WithdrawConsent(a)
    \/ \E a, t \in Agent : RevokeAgent(a, t)
    \/ \E p, c \in Cred : Attenuate(p, c)
    \/ \E r \in Req, a \in Agent, g \in Goal : ProposeStart(r, a, g)
    \/ \E r \in Req, a \in Agent, s \in published, c \in Cred \cup {NoCred} :
            ApproveStart(r, a, s, c)
    \/ \E r \in Req : Resume(r)
    \/ Restart

Spec == Init /\ [][Next]_vars

\* An accepted request is carried on: an AgentRun call answers or throws.
Fairness == \A r \in Req : WF_vars(Resume(r))
FairSpec == Spec /\ Fairness

----------------------------------------------------------------------------
\* Properties.

\* Every approval in the consent record was signed by its own principal over
\* exactly the text and version the record is about, after that human read them
\* (§6.2), there is one per principal, and whoever checks the signatures with
\* the issued holder keys reaches the verdict the stored flag states.  This is
\* what verifying the signature against the current record buys, whichever
\* handlers interleave.
ConsentEvidence ==
    /\ \A ap \in consent.approvals :
          /\ ap.principal \in consent.required
          /\ CredOwner[ap.credential] = ap.principal
          /\ VerifyApprovalSignature(ap.credential, ap.sig, consent.subject)
          /\ [agent |-> ap.principal, subject |-> consent.subject] \in given
    /\ \A x, y \in consent.approvals : x.principal = y.principal => x = y
    /\ consent.satisfied <=> Exists(consent) /\ VerifyConsentRecord(consent, issued)

\* The audit log reports a text as agreed only if it also reports, for that very
\* text and version, the approval of both founding members, and each of them
\* had read it: the log never says more than the humans did.
AuditTruth ==
    \A e \in audit : e.action = "consent.satisfied" =>
        \A f \in Founders :
            /\ Entry("consent.approved", f, e.subject) \in audit
            /\ [agent |-> f, subject |-> e.subject] \in given

\* §6.3.2 and the comment on approvePlan: an approval never attaches to text its
\* human did not read, and the plan locks with both founders on board.
AgreementIsInformed ==
    /\ \A a \in plan.approvedBy : [agent |-> a, subject |-> plan.subject] \in given
    /\ plan.locked => Founders \subseteq plan.approvedBy

\* §6.3.4: whenever the text changes its version goes up, so that an approval
\* under way for the text before can be told apart and refused.
VersionGrows ==
    [][plan'.subject # plan.subject
        => plan'.subject.version > plan.subject.version]_vars

\* §6.3.7: no approval outlives the credential it was made with.
NoRevokedApproval ==
    \A ap \in consent.approvals : ap.credential \notin revokedCreds

\* §6.3.4: a satisfied consent is a consent to the plan as it stands.  Peers run
\* commands on the strength of `satisfied' alone.
ConsentIsCurrent == consent.satisfied => consent.subject = plan.subject

\* The comment in proposePlan: a re-proposal tears the previous version's wait
\* down rather than leaking it, so whoever holds the map or is under way still
\* knows every sandbox that was stopped for a plan.
NoOrphanSandbox ==
    \A s \in Sandbox : box[s] = "stopped" =>
        wait = s \/ \E r \in Req : req[r].handle = s

\* §6.3.5 and the comment in consent.ts: whose consent counts never changes.
RequiredIsFixed ==
    [][consent.required # {} => consent'.required = consent.required]_vars

\* Whatever AgentRun answers, an accepted request is eventually answered.
HandlersReturn == \A r \in Req : req[r].at # "idle" ~> req[r].at = "idle"

\* The plan and consent rows together do what PROTOCOL.md §6.3 promises.
Promise ==
    INSTANCE PlanAgreement WITH
        Subject <- [goal : Goal, version : 1..MaxVersion],
        text <- plan.subject, approvers <- plan.approvedBy, locked <- plan.locked,
        required <- consent.required, signers <- Principals(consent.approvals)
KeepsThePromise == Promise!Spec

=============================================================================
