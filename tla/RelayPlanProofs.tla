-------------------------- MODULE RelayPlanProofs --------------------------
(***************************************************************************)
(* What holds of the Node relay's plan and consent for any number of       *)
(* agents, credentials, texts, requests and sandboxes: first with or       *)
(* without AgentRun, then what holds only without it.                      *)
(***************************************************************************)
EXTENDS RelayPlan, FiniteSetTheorems, TLAPS

----------------------------------------------------------------------------
\* The inductive invariant.

\* What a parked handler still holds of what it checked before its await: a
\* proposal saw at least the founders, an approval names a text its human read
\* and a credential of the agent that was authenticated.
ParkedOK ==
    \A r \in Req : LET h == req[r] IN
        /\ h.at # "idle" => h.subject \in Subject
        /\ h.at \in {"disposePrior", "begin", "suspend"} => Founders \subseteq h.snapshot
        /\ h.at = "approve" =>
              /\ [agent |-> h.agent, subject |-> h.subject] \in given
              /\ h.cred # NoCred => h.cred \in issued /\ CredOwner[h.cred] = h.agent

\* One approval of the record: signed by its principal's own credential over the
\* record's subject, and logged.
ApprovalOK(ap) ==
    /\ ap.principal \in consent.required
    /\ ap.credential \in issued
    /\ CredOwner[ap.credential] = ap.principal
    /\ VerifyApprovalSignature(ap.credential, ap.sig, consent.subject)
    /\ [agent |-> ap.principal, subject |-> consent.subject] \in given
    /\ Entry("consent.approved", ap.principal, consent.subject) \in audit

RecordOK ==
    /\ \A ap \in consent.approvals : ApprovalOK(ap)
    /\ \A x, y \in consent.approvals : x.principal = y.principal => x = y
    /\ Exists(consent) => Founders \subseteq consent.required
    /\ ~Exists(consent) => consent = NoConsent
    /\ consent.satisfied <=> IsSatisfied(consent.required, consent.approvals)

IInv == TypeOK /\ ParkedOK /\ RecordOK /\ AuditTruth

----------------------------------------------------------------------------
LEMMA FoundersExist == Founders # {} /\ Founders \subseteq Agent
<1>1. Founders \subseteq Agent /\ IsFiniteSet(Agent) /\ Cardinality(Founders) = 2
  BY RelayPlanAssumption
<1>2. CASE Founders = {}
  BY <1>1, <1>2, FS_EmptySet
<1> QED  BY <1>1, <1>2

LEMMA IdleType ==
    ASSUME CredOwner \in [Cred -> Agent]
    PROVE  Idle \in Request /\ Idle.at = "idle"
<1>1. (CHOOSE a \in Founders : TRUE) \in Agent
  BY FoundersExist
<1>2. NoPlan \in Plan
  BY DEF NoPlan, Plan, SandboxColumn
<1> QED  BY <1>1, <1>2 DEF Idle, Request, Handle

\* A writer of the consent record changes its approvals and recomputes the flag.
LEMMA WithApprovalsFields ==
    ASSUME NEW record \in ConsentRecord, NEW approvals \in SUBSET Approval
    PROVE  LET next == WithApprovals(record, approvals) IN
           /\ next \in ConsentRecord
           /\ next.subject = record.subject
           /\ next.required = record.required
           /\ next.approvals = approvals
           /\ next.satisfied <=> IsSatisfied(record.required, approvals)
  BY DEF WithApprovals, ConsentRecord, IsSatisfied

\* One more member never exceeds the cap that admitted it.
LEMMA MembersBounded ==
    ASSUME TypeOK, NEW a \in Agent, MayJoin(a)
    PROVE  Cardinality(members \cup {a}) <= MaxMembers
<1>1. IsFiniteSet(members)
  BY FS_Subset, RelayPlanAssumption DEF TypeOK
<1>2. Cardinality(members) \in Nat
  BY <1>1, FS_CardinalityType
<1>3. Cardinality(members \cup {a}) = Cardinality(members) + 1
  BY <1>1, FS_AddElement DEF MayJoin
<1> QED  BY <1>2, <1>3, RelayPlanAssumption DEF MayJoin

----------------------------------------------------------------------------
LEMMA InitIInv == Init => IInv
<1> SUFFICES ASSUME Init PROVE IInv
  OBVIOUS
<1> USE RelayPlanAssumption, ConsentAssumption
<1>1. TypeOK
  <2>1. plan \in Plan /\ consent \in ConsentRecord
    BY DEF Init, Plan, NoPlan, ConsentRecord, NoConsent, SandboxColumn
  <2>2. req \in [Req -> Request]
    BY IdleType DEF Init
  <2>3. issued \subseteq Cred
    BY DEF Init
  <2>4. Cardinality(members) <= MaxMembers
    BY DEF Init
  <2> QED
    BY <2>1, <2>2, <2>3, <2>4 DEF Init, TypeOK, Handle, BoxState
<1>2. ParkedOK
  BY IdleType DEF Init, ParkedOK
<1>3. RecordOK
  BY DEF Init, RecordOK, NoConsent, NoSubject, Exists, IsSatisfied
<1>4. AuditTruth
  BY DEF Init, AuditTruth
<1> QED  BY <1>1, <1>2, <1>3, <1>4 DEF IInv

----------------------------------------------------------------------------
\* The actions that write no plan, consent or audit row.

LEMMA JoinKeepsIInv ==
    ASSUME IInv, NEW a \in Agent, JoinExistingPairing(a)
    PROVE  IInv'
<1> USE RelayPlanAssumption, ConsentAssumption
<1>1. TypeOK'
  BY MembersBounded DEF IInv, TypeOK, JoinExistingPairing, recordVars
<1>2. ParkedOK'
  BY DEF IInv, ParkedOK, JoinExistingPairing, recordVars
<1>3. RecordOK'
  BY DEF IInv, RecordOK, ApprovalOK, JoinExistingPairing, recordVars
<1>4. AuditTruth'
  BY DEF IInv, AuditTruth, JoinExistingPairing, recordVars
<1> QED  BY <1>1, <1>2, <1>3, <1>4 DEF IInv

LEMMA AttenuateKeepsIInv ==
    ASSUME IInv, NEW parent \in Cred, NEW child \in Cred, Attenuate(parent, child)
    PROVE  IInv'
<1>1. TypeOK'
  BY DEF IInv, TypeOK, Attenuate, recordVars
<1>2. ParkedOK'
  BY DEF IInv, ParkedOK, Attenuate, recordVars
<1>3. RecordOK'
  BY DEF IInv, RecordOK, ApprovalOK, Attenuate, recordVars
<1>4. AuditTruth'
  BY DEF IInv, AuditTruth, Attenuate, recordVars
<1> QED  BY <1>1, <1>2, <1>3, <1>4 DEF IInv

\* Removing approvals from the record: RevokeAgent and WithdrawConsent.
LEMMA FewerApprovals ==
    ASSUME IInv, NEW left \in SUBSET consent.approvals, Exists(consent),
           consent' = WithApprovals(consent, left),
           UNCHANGED <<issued, given, audit>>
    PROVE  RecordOK' /\ consent' \in ConsentRecord
<1>1. consent \in ConsentRecord /\ left \in SUBSET Approval
  BY DEF IInv, TypeOK, ConsentRecord
<1>2. /\ consent' \in ConsentRecord
      /\ consent'.subject = consent.subject
      /\ consent'.required = consent.required
      /\ consent'.approvals = left
      /\ consent'.satisfied <=> IsSatisfied(consent.required, left)
  BY <1>1, WithApprovalsFields
<1>3. \A ap \in consent'.approvals : ApprovalOK(ap)'
  BY <1>2 DEF IInv, RecordOK, ApprovalOK
<1>4. \A x, y \in consent'.approvals : x.principal = y.principal => x = y
  BY <1>2 DEF IInv, RecordOK
<1>5. Exists(consent') /\ Founders \subseteq consent'.required
  BY <1>2 DEF IInv, RecordOK, Exists
<1>6. consent'.satisfied <=> IsSatisfied(consent'.required, consent'.approvals)
  BY <1>2
<1> QED  BY <1>2, <1>3, <1>4, <1>5, <1>6 DEF RecordOK

LEMMA RevokeKeepsIInv ==
    ASSUME IInv, NEW a \in Agent, NEW t \in Agent, RevokeAgent(a, t)
    PROVE  IInv'
<1> DEFINE dead == LiveCred(t)
           left == {ap \in consent.approvals : ap.credential \notin dead}
<1>1. RecordOK' /\ consent' \in ConsentRecord
  <2>1. CASE Exists(consent)
    <3>1. consent' = WithApprovals(consent, left)
      BY <2>1 DEF RevokeAgent, WithdrawRevoked, WithoutCredentials
    <3> QED  BY <2>1, <3>1, FewerApprovals DEF RevokeAgent
  <2>2. CASE ~Exists(consent)
    <3>1. consent' = consent
      BY <2>2 DEF RevokeAgent, WithdrawRevoked
    <3> QED
      BY <3>1 DEF IInv, TypeOK, RecordOK, ApprovalOK, RevokeAgent
  <2> QED  BY <2>1, <2>2
<1>2. TypeOK'
  BY <1>1 DEF IInv, TypeOK, RevokeAgent, LiveCred
<1>3. ParkedOK'
  BY DEF IInv, ParkedOK, RevokeAgent
<1>4. AuditTruth'
  BY DEF IInv, AuditTruth, RevokeAgent
<1> QED  BY <1>1, <1>2, <1>3, <1>4 DEF IInv

LEMMA WithdrawKeepsIInv ==
    ASSUME IInv, NEW a \in Agent, WithdrawConsent(a)
    PROVE  IInv'
<1> DEFINE left == {ap \in consent.approvals : ap.principal # a}
<1>1. RecordOK' /\ consent' \in ConsentRecord
  <2>1. Exists(consent) /\ consent' = WithApprovals(consent, left)
    BY DEF WithdrawConsent, WithoutPrincipal
  <2> QED  BY <2>1, FewerApprovals DEF WithdrawConsent, memberVars
<1>2. TypeOK'
  BY <1>1 DEF IInv, TypeOK, WithdrawConsent, memberVars
<1>3. ParkedOK'
  BY DEF IInv, ParkedOK, WithdrawConsent, memberVars
<1>4. AuditTruth'
  BY DEF IInv, AuditTruth, WithdrawConsent
<1> QED  BY <1>1, <1>2, <1>3, <1>4 DEF IInv

----------------------------------------------------------------------------
\* The pieces of proposePlan.

LEMMA ProposeStartKeepsIInv ==
    ASSUME IInv, NEW r \in Req, NEW a \in Agent, NEW g \in Goal, ProposeStart(r, a, g)
    PROVE  IInv'
<1> USE ConsentAssumption
<1> DEFINE h == req'[r]
<1>1. NextSubject(g) \in Subject
  <2>1. plan.subject.version \in Nat
    BY DEF IInv, TypeOK, Plan, Subject, NoSubject
  <2> QED  BY <2>1 DEF NextSubject, Subject
<1>2. /\ h \in Request
      /\ h.at \in {"disposePrior", "begin"}
      /\ h.subject \in Subject
      /\ h.snapshot = members
  BY <1>1, IdleType DEF IInv, TypeOK, ProposeStart, Park, Request
<1>3. /\ req' \in [Req -> Request]
      /\ \A q \in Req \ {r} : req'[q] = req[q]
  BY <1>2 DEF IInv, TypeOK, ProposeStart, Park
<1>4. TypeOK'
  BY <1>3 DEF IInv, TypeOK, ProposeStart, memberVars, recordVars, Handle
<1>5. ParkedOK'
  <2>1. Founders \subseteq members
    BY DEF IInv, TypeOK
  <2> QED
    BY <1>2, <1>3, <2>1 DEF IInv, ParkedOK, ProposeStart, memberVars, recordVars
<1>6. RecordOK'
  BY DEF IInv, RecordOK, ApprovalOK, ProposeStart, memberVars, recordVars
<1>7. AuditTruth'
  BY DEF IInv, AuditTruth, ProposeStart, recordVars
<1> QED  BY <1>4, <1>5, <1>6, <1>7 DEF IInv

LEMMA DisposedType ==
    ASSUME TypeOK, NEW h \in Handle, Disposed(h)
    PROVE  box' \in [Sandbox -> BoxState]
  BY DEF TypeOK, Disposed, BoxState

\* A handler that moves on to another await and keeps everything it read.
LEMMA MovesOn ==
    ASSUME IInv, NEW r \in Req, NEW at \in {"begin", "suspend"}, NEW handle \in Handle,
           req[r].at \in {"disposePrior", "begin", "suspend"},
           Park(r, [req[r] EXCEPT !.at = at, !.handle = handle]),
           box' \in [Sandbox -> BoxState],
           UNCHANGED <<memberVars, recordVars, wait, restarts>>
    PROVE  IInv'
<1> DEFINE h == req'[r]
<1>1. /\ h \in Request
      /\ h.at \in {"begin", "suspend"}
      /\ h.subject = req[r].subject /\ h.snapshot = req[r].snapshot
  BY DEF IInv, TypeOK, Park, Request
<1>2. /\ req' \in [Req -> Request]
      /\ \A q \in Req \ {r} : req'[q] = req[q]
  BY <1>1 DEF IInv, TypeOK, Park
<1>3. TypeOK'
  BY <1>2 DEF IInv, TypeOK, memberVars, recordVars
<1>4. ParkedOK'
  BY <1>1, <1>2 DEF IInv, ParkedOK, memberVars, recordVars
<1>5. RecordOK' /\ AuditTruth'
  BY DEF IInv, RecordOK, ApprovalOK, AuditTruth, memberVars, recordVars
<1> QED  BY <1>3, <1>4, <1>5 DEF IInv

LEMMA ProposeDisposedKeepsIInv ==
    ASSUME IInv, NEW r \in Req, ProposeDisposed(r)
    PROVE  IInv'
<1>1. req[r].handle \in Handle
  BY DEF IInv, TypeOK, Request
<1>2. box' \in [Sandbox -> BoxState]
  BY <1>1, DisposedType DEF IInv, ProposeDisposed
<1> QED  BY <1>2, MovesOn DEF ProposeDisposed, Handle

LEMMA ProposeBegunKeepsIInv ==
    ASSUME IInv, NEW r \in Req, ProposeBegun(r)
    PROVE  IInv'
<1>1. CASE /\ Park(r, [req[r] EXCEPT !.at = "suspend", !.handle = Simulated])
           /\ box' = box
  <2>1. box' \in [Sandbox -> BoxState]
    BY <1>1 DEF IInv, TypeOK
  <2> QED  BY <1>1, <2>1, MovesOn DEF ProposeBegun, Handle
<1>2. CASE \E s \in Sandbox :
              /\ Park(r, [req[r] EXCEPT !.at = "suspend", !.handle = s])
              /\ box' = [box EXCEPT ![s] = "running"]
  <2>1. PICK s \in Sandbox :
              /\ Park(r, [req[r] EXCEPT !.at = "suspend", !.handle = s])
              /\ box' = [box EXCEPT ![s] = "running"]
    BY <1>2
  <2>2. box' \in [Sandbox -> BoxState]
    BY <2>1 DEF IInv, TypeOK, BoxState
  <2> QED  BY <2>1, <2>2, MovesOn DEF ProposeBegun, Handle
<1> QED  BY <1>1, <1>2 DEF ProposeBegun

\* A handler that returns: its slot is idle again.
LEMMA SlotReleased ==
    ASSUME IInv, NEW r \in Req, Release(r), UNCHANGED <<issued, given>>
    PROVE  req' \in [Req -> Request] /\ ParkedOK'
<1>1. /\ req' \in [Req -> Request]
      /\ req'[r] = Idle
      /\ \A q \in Req \ {r} : req'[q] = req[q]
  BY IdleType, ConsentAssumption DEF IInv, TypeOK, Release, Park
<1>2. ParkedOK'
  BY <1>1, IdleType, ConsentAssumption DEF IInv, ParkedOK
<1> QED  BY <1>1, <1>2

LEMMA ProposeFinishKeepsIInv ==
    ASSUME IInv, NEW r \in Req, ProposeFinish(r)
    PROVE  IInv'
<1> DEFINE h == req[r]
<1>1. /\ h \in Request /\ h.subject \in Subject
      /\ Founders \subseteq h.snapshot /\ h.snapshot \subseteq Agent
  BY DEF IInv, TypeOK, ParkedOK, ProposeFinish, Request
<1>2. req' \in [Req -> Request] /\ ParkedOK'
  BY SlotReleased DEF ProposeFinish, memberVars
<1>3. consent' \in ConsentRecord /\ RecordOK'
  <2>1. CASE h.snapshot \subseteq V3
    <3>1. consent' = OpenConsent(h.subject, h.snapshot)
      BY <2>1 DEF ProposeFinish, ReopenConsent
    <3>2. consent' \in ConsentRecord
      BY <1>1, <3>1 DEF OpenConsent, ConsentRecord
    <3>3. ~IsSatisfied(h.snapshot, {})
      BY <1>1, FoundersExist DEF IsSatisfied, Principals
    <3>4. Exists(consent')
      BY <1>1, <3>1 DEF OpenConsent, Exists, Subject
    <3>5. RecordOK'
      BY <1>1, <3>1, <3>3, <3>4 DEF OpenConsent, RecordOK, ApprovalOK
    <3> QED  BY <3>2, <3>5
  <2>2. CASE ~(h.snapshot \subseteq V3)
    <3>1. consent' = consent
      BY <2>2 DEF ProposeFinish, ReopenConsent
    <3> QED
      BY <3>1 DEF IInv, TypeOK, RecordOK, ApprovalOK, ProposeFinish, memberVars
  <2> QED  BY <2>1, <2>2
<1>4. plan' \in Plan
  BY <1>1 DEF ProposeFinish, WritePlan, Plan, SandboxColumn
<1>5. box' \in [Sandbox -> BoxState]
  BY DEF IInv, TypeOK, ProposeFinish, BoxState
<1>6. TypeOK'
  BY <1>1, <1>2, <1>3, <1>4, <1>5 DEF IInv, TypeOK, ProposeFinish, memberVars, Request
<1>7. AuditTruth'
  BY DEF IInv, AuditTruth, ProposeFinish
<1> QED  BY <1>2, <1>3, <1>6, <1>7 DEF IInv

LEMMA ProposeFailsKeepsIInv ==
    ASSUME IInv, NEW r \in Req, ProposeFails(r)
    PROVE  IInv'
<1>1. req' \in [Req -> Request] /\ ParkedOK'
  BY SlotReleased DEF ProposeFails, memberVars, recordVars
<1>2. TypeOK'
  BY <1>1 DEF IInv, TypeOK, ProposeFails, memberVars, recordVars
<1>3. RecordOK' /\ AuditTruth'
  BY DEF IInv, RecordOK, ApprovalOK, AuditTruth, ProposeFails, memberVars, recordVars
<1> QED  BY <1>1, <1>2, <1>3 DEF IInv

----------------------------------------------------------------------------
\* approvePlan.

\* The approval that approve appends replaces the principal's own and leaves one
\* approval for each.
LEMMA OneApprovalEach ==
    ASSUME IInv, NEW ap \in Approval
    PROVE  LET next == WithApproval(consent, ap).approvals IN
           /\ next \subseteq Approval
           /\ \A x \in next : x = ap \/ x \in consent.approvals
           /\ \A x, y \in next : x.principal = y.principal => x = y
<1> DEFINE kept == {old \in consent.approvals : old.principal # ap.principal} \cup {ap}
<1>1. consent \in ConsentRecord
  BY DEF IInv, TypeOK
<1>2. kept \subseteq Approval
  BY <1>1 DEF ConsentRecord
<1>3. WithApproval(consent, ap).approvals = kept
  BY <1>1, <1>2, WithApprovalsFields DEF WithApproval
<1> QED  BY <1>2, <1>3 DEF IInv, RecordOK

\* What FinishApproval does to the rows, wherever its arguments were read.
LEMMA ApprovalFinished ==
    ASSUME IInv, NEW row \in Plan, NEW locked \in BOOLEAN, NEW a \in Agent,
           NEW s \in Subject, NEW c \in Cred \cup {NoCred}, NEW column \in SandboxColumn,
           FinishApproval(row, locked, a, s, c, column),
           c # NoCred => c \in issued /\ CredOwner[c] = a,
           [agent |-> a, subject |-> s] \in given', given \subseteq given',
           UNCHANGED issued
    PROVE  /\ plan' \in Plan
           /\ consent' \in ConsentRecord
           /\ audit' \subseteq AuditEntry
           /\ RecordOK' /\ AuditTruth'
<1> DEFINE sig == [key |-> c, over |-> s]
           ap == [principal |-> CredOwner[c], credential |-> c, sig |-> sig]
           next == WithApproval(consent, ap)
           signed == /\ c # NoCred
                     /\ consent.subject = row.subject
                     /\ MayApprove(consent, c, sig)
<1>1. plan' \in Plan
  BY DEF IInv, TypeOK, FinishApproval, Plan
<1>2. CASE ~signed
  <2>1. UNCHANGED <<consent, audit>>
    BY <1>2 DEF FinishApproval
  <2>2. RecordOK' /\ AuditTruth'
    BY <2>1 DEF IInv, RecordOK, ApprovalOK, AuditTruth
  <2> QED  BY <1>1, <2>1, <2>2 DEF IInv, TypeOK
<1>3. CASE signed
  <2>1. /\ consent' = next
        /\ audit' = audit \cup SatisfactionEntries(next, a, row.subject)
    BY <1>3 DEF FinishApproval
  <2>2. /\ c \in issued /\ c \in Cred /\ CredOwner[c] = a
        /\ s = consent.subject /\ row.subject = s
        /\ a \in consent.required /\ Exists(consent)
    BY <1>3 DEF MayApprove, VerifyApprovalSignature, IInv, TypeOK
  <2>3. ap \in Approval
    BY <2>2 DEF Approval, Signature
  <2>4. /\ consent' \in ConsentRecord
        /\ consent'.subject = consent.subject
        /\ consent'.required = consent.required
        /\ consent'.satisfied <=> IsSatisfied(consent'.required, consent'.approvals)
    <3> DEFINE kept == {old \in consent.approvals : old.principal # ap.principal} \cup {ap}
    <3>1. consent \in ConsentRecord /\ kept \in SUBSET Approval
      BY <2>3 DEF IInv, TypeOK, ConsentRecord
    <3>2. consent' = WithApprovals(consent, kept)
      BY <2>1 DEF WithApproval
    <3> QED  BY <3>1, <3>2, WithApprovalsFields
  <2>5. /\ \A x \in consent'.approvals : x = ap \/ x \in consent.approvals
        /\ \A x, y \in consent'.approvals : x.principal = y.principal => x = y
    BY <2>1, <2>3, OneApprovalEach
  <2>6. audit \subseteq audit' /\ Entry("consent.approved", a, s) \in audit'
    BY <2>1, <2>2 DEF SatisfactionEntries
  <2>7. ApprovalOK(ap)'
    BY <2>2, <2>4, <2>6 DEF ApprovalOK, VerifyApprovalSignature
  <2>8. \A x \in consent.approvals : ApprovalOK(x)'
    BY <2>4, <2>6 DEF IInv, RecordOK, ApprovalOK
  <2>9. RecordOK'
    <3>1. \A x \in consent'.approvals : ApprovalOK(x)'
      BY <2>5, <2>7, <2>8
    <3>2. Exists(consent') /\ Founders \subseteq consent'.required
      BY <2>2, <2>4 DEF IInv, RecordOK, Exists
    <3> QED  BY <2>4, <2>5, <3>1, <3>2 DEF RecordOK
  <2>10. audit' \subseteq AuditEntry
    BY <2>1, <2>2 DEF IInv, TypeOK, SatisfactionEntries, Entry, AuditEntry, AuditAction
  <2>11. AuditTruth'
    <3> SUFFICES ASSUME NEW e \in audit', e.action = "consent.satisfied", NEW f \in Founders
                 PROVE  /\ Entry("consent.approved", f, e.subject) \in audit'
                        /\ [agent |-> f, subject |-> e.subject] \in given'
      BY DEF AuditTruth
    <3>1. CASE e \in audit
      BY <3>1, <2>6 DEF IInv, AuditTruth
    <3>2. CASE e \notin audit
      <4>1. next.satisfied /\ e.subject = consent'.subject
        BY <3>2, <2>1, <2>2, <2>4 DEF SatisfactionEntries, Entry
      <4>2. f \in consent'.required
        BY <2>2, <2>4 DEF IInv, RecordOK
      <4>3. PICK x \in consent'.approvals : x.principal = f
        BY <4>1, <4>2, <2>1, <2>4 DEF IsSatisfied, Principals
      <4>4. ApprovalOK(x)'
        BY <2>9 DEF RecordOK
      <4> QED  BY <4>1, <4>3, <4>4 DEF ApprovalOK
    <3> QED  BY <3>1, <3>2
  <2> QED  BY <1>1, <2>4, <2>9, <2>10, <2>11
<1> QED  BY <1>2, <1>3

LEMMA ApproveStartKeepsIInv ==
    ASSUME IInv, NEW r \in Req, NEW a \in Agent, NEW s \in published,
           NEW c \in Cred \cup {NoCred}, ApproveStart(r, a, s, c)
    PROVE  IInv'
<1> USE ConsentAssumption
<1> DEFINE locked == Unanimous(members, plan.approvedBy \cup {a})
           mustDispose == locked /\ wait # NoHandle
<1>1. /\ s \in Subject /\ locked \in BOOLEAN
      /\ plan \in Plan /\ plan.sandbox \in SandboxColumn
      /\ c # NoCred => c \in issued /\ CredOwner[c] = a
  BY DEF IInv, TypeOK, Plan, ApproveStart, LiveCred, Unanimous
<1>2. /\ given' = given \cup {[agent |-> a, subject |-> s]}
      /\ UNCHANGED <<memberVars, published, box, restarts>>
  BY DEF ApproveStart
<1>3. CASE mustDispose
  <2> DEFINE h == [Idle EXCEPT !.at = "approve", !.agent = a, !.subject = s,
                               !.row = plan, !.cred = c, !.handle = wait]
  <2>1. /\ wait' = NoHandle /\ Park(r, h)
        /\ UNCHANGED <<plan, consent, audit>>
    BY <1>3 DEF ApproveStart
  <2>2. /\ h \in Request /\ h.at = "approve"
        /\ h.agent = a /\ h.subject = s /\ h.cred = c
    BY <1>1, IdleType DEF IInv, TypeOK, Request
  <2>3. /\ req' \in [Req -> Request] /\ req'[r] = h
        /\ \A q \in Req \ {r} : req'[q] = req[q]
    BY <2>1, <2>2 DEF IInv, TypeOK, Park
  <2>4. TypeOK'
    BY <1>1, <1>2, <2>1, <2>3 DEF IInv, TypeOK, memberVars, Handle
  <2>5. ParkedOK'
    <3> SUFFICES ASSUME NEW q \in Req
        PROVE /\ req'[q].at # "idle" => req'[q].subject \in Subject
              /\ req'[q].at \in {"disposePrior", "begin", "suspend"}
                    => Founders \subseteq req'[q].snapshot
              /\ req'[q].at = "approve" =>
                    /\ [agent |-> req'[q].agent, subject |-> req'[q].subject] \in given'
                    /\ req'[q].cred # NoCred =>
                          req'[q].cred \in issued' /\ CredOwner[req'[q].cred] = req'[q].agent
      BY DEF ParkedOK
    <3>1. CASE q = r
      BY <3>1, <1>1, <1>2, <2>2, <2>3 DEF memberVars
    <3>2. CASE q # r
      BY <3>2, <1>2, <2>3 DEF IInv, ParkedOK, memberVars
    <3> QED  BY <3>1, <3>2
  <2>6. RecordOK' /\ AuditTruth'
    BY <1>2, <2>1 DEF IInv, RecordOK, ApprovalOK, AuditTruth, memberVars
  <2> QED  BY <2>4, <2>5, <2>6 DEF IInv
<1>4. CASE ~mustDispose
  <2>1. /\ FinishApproval(plan, locked, a, s, c, plan.sandbox)
        /\ UNCHANGED <<wait, req>>
    BY <1>4 DEF ApproveStart
  <2>2. /\ plan' \in Plan /\ consent' \in ConsentRecord /\ audit' \subseteq AuditEntry
        /\ RecordOK' /\ AuditTruth'
    BY <1>1, <1>2, <2>1, ApprovalFinished DEF memberVars
  <2>3. TypeOK'
    BY <1>1, <1>2, <2>1, <2>2 DEF IInv, TypeOK, memberVars
  <2>4. ParkedOK'
    BY <1>2, <2>1 DEF IInv, ParkedOK, memberVars
  <2> QED  BY <2>2, <2>3, <2>4 DEF IInv
<1> QED  BY <1>3, <1>4

LEMMA ApproveDisposedKeepsIInv ==
    ASSUME IInv, NEW r \in Req, ApproveDisposed(r)
    PROVE  IInv'
<1> DEFINE h == req[r]
           column == IF h.handle = Simulated THEN "simulated" ELSE "disposed"
<1>1. /\ h \in Request /\ h.subject \in Subject
      /\ [agent |-> h.agent, subject |-> h.subject] \in given
      /\ h.cred # NoCred => h.cred \in issued /\ CredOwner[h.cred] = h.agent
  BY DEF IInv, TypeOK, ParkedOK, ApproveDisposed
<1>2. /\ h.row \in Plan /\ h.agent \in Agent /\ h.handle \in Handle
      /\ h.cred \in Cred \cup {NoCred} /\ column \in SandboxColumn
  BY <1>1 DEF Request, SandboxColumn
<1>3. /\ FinishApproval(h.row, TRUE, h.agent, h.subject, h.cred, column)
      /\ Release(r) /\ Disposed(h.handle)
      /\ UNCHANGED <<memberVars, published, given, wait, restarts>>
  BY DEF ApproveDisposed
<1>4. /\ plan' \in Plan /\ consent' \in ConsentRecord /\ audit' \subseteq AuditEntry
      /\ RecordOK' /\ AuditTruth'
  BY <1>1, <1>2, <1>3, ApprovalFinished DEF memberVars
<1>5. req' \in [Req -> Request] /\ ParkedOK'
  BY <1>3, SlotReleased DEF memberVars
<1>6. box' \in [Sandbox -> BoxState]
  BY <1>2, <1>3, DisposedType DEF IInv
<1>7. TypeOK'
  BY <1>3, <1>4, <1>5, <1>6 DEF IInv, TypeOK, memberVars
<1> QED  BY <1>4, <1>5, <1>7 DEF IInv

LEMMA RestartKeepsIInv ==
    ASSUME IInv, Restart
    PROVE  IInv'
<1>1. req' \in [Req -> Request] /\ ParkedOK'
  BY IdleType, ConsentAssumption DEF Restart, ParkedOK
<1>2. TypeOK'
  BY <1>1 DEF IInv, TypeOK, Restart, memberVars, recordVars, Handle
<1>3. RecordOK' /\ AuditTruth'
  BY DEF IInv, RecordOK, ApprovalOK, AuditTruth, Restart, memberVars, recordVars
<1> QED  BY <1>1, <1>2, <1>3 DEF IInv

----------------------------------------------------------------------------
LEMMA NextKeepsIInv == IInv /\ [Next]_vars => IInv'
<1> SUFFICES ASSUME IInv, [Next]_vars PROVE IInv'
  OBVIOUS
<1>1. CASE \E a \in Agent : JoinExistingPairing(a) \/ WithdrawConsent(a)
  BY <1>1, JoinKeepsIInv, WithdrawKeepsIInv
<1>2. CASE \E a, t \in Agent : RevokeAgent(a, t)
  BY <1>2, RevokeKeepsIInv
<1>3. CASE \E p, c \in Cred : Attenuate(p, c)
  BY <1>3, AttenuateKeepsIInv
<1>4. CASE \E r \in Req, a \in Agent, g \in Goal : ProposeStart(r, a, g)
  BY <1>4, ProposeStartKeepsIInv
<1>5. CASE \E r \in Req, a \in Agent, s \in published, c \in Cred \cup {NoCred} :
              ApproveStart(r, a, s, c)
  BY <1>5, ApproveStartKeepsIInv
<1>6. CASE \E r \in Req : Resume(r)
  BY <1>6, ProposeDisposedKeepsIInv, ProposeBegunKeepsIInv, ProposeFinishKeepsIInv,
     ProposeFailsKeepsIInv, ApproveDisposedKeepsIInv DEF Resume
<1>7. CASE Restart
  BY <1>7, RestartKeepsIInv
<1>8. CASE UNCHANGED vars
  BY <1>8 DEF vars, memberVars, recordVars, IInv, TypeOK, ParkedOK, RecordOK, ApprovalOK,
     AuditTruth
<1> QED  BY <1>1, <1>2, <1>3, <1>4, <1>5, <1>6, <1>7, <1>8 DEF Next

LEMMA Invariance == Spec => []IInv
<1> QED  BY InitIInv, NextKeepsIInv, PTL DEF Spec

\* Every variable keeps its type: in particular the pairing never outgrows
\* MAX_MEMBERS, and only members are ever revoked.
THEOREM TypeCorrect == Spec => []TypeOK
<1>1. IInv => TypeOK
  BY DEF IInv
<1> QED  BY <1>1, Invariance, PTL

\* The stored consent is evidence: every approval in it was signed by its own
\* principal over exactly the record's subject, after that human read it, and a
\* third party who checks the signatures finds the flag the relay states -
\* whichever handlers interleave and whether or not AgentRun is configured.
THEOREM ConsentIsEvidence == Spec => []ConsentEvidence
<1>1. IInv => ConsentEvidence
  <2> SUFFICES ASSUME IInv PROVE ConsentEvidence
    OBVIOUS
  <2>1. /\ \A ap \in consent.approvals : ApprovalOK(ap)
        /\ \A x, y \in consent.approvals : x.principal = y.principal => x = y
    BY DEF IInv, RecordOK
  <2>2. VerifyConsentRecord(consent, issued)
            <=> consent.required \subseteq Principals(consent.approvals)
    BY <2>1 DEF VerifyConsentRecord, ApprovalOK, Principals
  <2>3. Exists(consent) <=> consent.required # {}
    BY FoundersExist DEF IInv, RecordOK, NoConsent
  <2>4. consent.satisfied <=> IsSatisfied(consent.required, consent.approvals)
    BY DEF IInv, RecordOK
  <2>5. consent.satisfied <=> Exists(consent) /\ VerifyConsentRecord(consent, issued)
    BY <2>2, <2>3, <2>4 DEF IsSatisfied
  <2> QED  BY <2>1, <2>5 DEF ConsentEvidence, ApprovalOK
<1> QED  BY <1>1, Invariance, PTL

\* The audit log never reports an agreement that both founders did not give.
THEOREM AuditNeverOverstates == Spec => []AuditTruth
<1>1. IInv => AuditTruth
  BY DEF IInv
<1> QED  BY <1>1, Invariance, PTL

----------------------------------------------------------------------------
(***************************************************************************)
(* When AgentRun is not configured only microtasks separate the pieces of  *)
(* a handler.  Then the agreement is informed, no approval outlives its    *)
(* credential and, once every member has a holder key, consent is current  *)
(* and the rows implement PlanAgreement.                                   *)
(***************************************************************************)

\* The inductive invariant, on top of the one above.

\* One handler at a time is between two of its pieces.
Solo == \A r, q \in Req : req[r].at # "idle" /\ req[q].at # "idle" => r = q

\* What it read before its await is still so.
UpToDate ==
    \A r \in Req : LET h == req[r] IN
        /\ h.at \in {"disposePrior", "begin", "suspend"} =>
              /\ h.snapshot = members
              /\ h.subject.version = plan.subject.version + 1
              /\ h.subject.version <= MaxVersion
        /\ h.at = "approve" =>
              /\ h.row = plan /\ h.subject = plan.subject /\ Exists(plan)
              /\ h.agent \in members /\ Unanimous(members, plan.approvedBy \cup {h.agent})
              /\ h.cred # NoCred => h.cred \notin revokedCreds

\* A version names one text, and the row's is the newest.
VersionsOK ==
    /\ \A s, t \in published : s.version = t.version => s = t
    /\ \A s \in published : s.version <= plan.subject.version
    /\ Exists(plan) => plan.subject \in published

\* With a principal for every member, each proposal opens a record of its own.
RecordIsCurrent ==
    V3 = Agent => consent.subject = plan.subject

AInv ==
    /\ Solo /\ UpToDate /\ VersionsOK
    /\ AgreementIsInformed /\ NoRevokedApproval /\ RecordIsCurrent

----------------------------------------------------------------------------
LEMMA InitAInv == Init => AInv
<1> SUFFICES ASSUME Init PROVE AInv
  OBVIOUS
<1>1. \A r \in Req : req[r].at = "idle"
  BY IdleType, ConsentAssumption DEF Init
<1>2. Solo /\ UpToDate
  BY <1>1 DEF Solo, UpToDate
<1>3. VersionsOK /\ AgreementIsInformed /\ NoRevokedApproval /\ RecordIsCurrent
  BY DEF Init, VersionsOK, AgreementIsInformed, NoRevokedApproval, RecordIsCurrent,
     NoPlan, NoConsent, NoSubject, Exists
<1> QED  BY <1>2, <1>3 DEF AInv

----------------------------------------------------------------------------
\* Without AgentRun every parked handler is a microtask.

LEMMA NobodyParked ==
    ASSUME ~AgentRunConfigured, MayStart
    PROVE  \A r \in Req : req[r].at = "idle"
  BY DEF MayStart, Microtask

LEMMA OthersIdle ==
    ASSUME ~AgentRunConfigured, NEW r \in Req, HasTurn(r)
    PROVE  \A q \in Req \ {r} : req[q].at = "idle"
  BY DEF HasTurn, Microtask

\* Of the handlers nothing is left to show when none is parked.
LEMMA Quiet ==
    ASSUME \A r \in Req : req'[r].at = "idle"
    PROVE  Solo' /\ UpToDate'
  BY DEF Solo, UpToDate

\* A handler that returns leaves nobody parked.
LEMMA Returned ==
    ASSUME IInv, ~AgentRunConfigured, NEW r \in Req, HasTurn(r), Release(r)
    PROVE  Solo' /\ UpToDate'
<1>1. \A q \in Req : req'[q].at = "idle"
  BY OthersIdle, IdleType, ConsentAssumption DEF IInv, TypeOK, Release, Park
<1> QED  BY <1>1, Quiet

\* A step that leaves the plan alone and only removes approvals.
LEMMA PlanKept ==
    ASSUME AInv, UNCHANGED <<plan, published>>, given \subseteq given',
           consent'.approvals \subseteq consent.approvals,
           consent'.subject = consent.subject,
           \A ap \in consent'.approvals : ap.credential \notin revokedCreds'
    PROVE  /\ VersionsOK' /\ AgreementIsInformed'
           /\ NoRevokedApproval' /\ RecordIsCurrent'
  BY DEF AInv, VersionsOK, AgreementIsInformed, NoRevokedApproval, RecordIsCurrent

----------------------------------------------------------------------------
\* Membership, credentials, withdrawal and restart.

LEMMA JoinKeepsAInv ==
    ASSUME IInv, AInv, ~AgentRunConfigured, NEW a \in Agent, JoinExistingPairing(a)
    PROVE  AInv'
<1>1. Solo' /\ UpToDate'
  BY NobodyParked, Quiet DEF JoinExistingPairing
<1> QED
  BY <1>1, PlanKept DEF AInv, NoRevokedApproval, JoinExistingPairing, recordVars

LEMMA AttenuateKeepsAInv ==
    ASSUME IInv, AInv, ~AgentRunConfigured,
           NEW parent \in Cred, NEW child \in Cred, Attenuate(parent, child)
    PROVE  AInv'
<1>1. Solo' /\ UpToDate'
  BY NobodyParked, Quiet DEF Attenuate
<1> QED
  BY <1>1, PlanKept DEF AInv, NoRevokedApproval, Attenuate, recordVars

\* What is left of a record when some of its approvals are taken out.
LEMMA LeftOver ==
    ASSUME IInv, NEW left \in SUBSET consent.approvals
    PROVE  /\ WithApprovals(consent, left).approvals = left
           /\ WithApprovals(consent, left).subject = consent.subject
           /\ WithApprovals(consent, left).required = consent.required
<1>1. consent \in ConsentRecord /\ left \in SUBSET Approval
  BY DEF IInv, TypeOK, ConsentRecord
<1> QED  BY <1>1, WithApprovalsFields

LEMMA RevokeKeepsAInv ==
    ASSUME IInv, AInv, ~AgentRunConfigured,
           NEW a \in Agent, NEW t \in Agent, RevokeAgent(a, t)
    PROVE  AInv'
<1> DEFINE left == {ap \in consent.approvals : ap.credential \notin LiveCred(t)}
<1>1. Solo' /\ UpToDate'
  BY NobodyParked, Quiet DEF RevokeAgent
<1>2. consent'.approvals = left /\ consent'.subject = consent.subject
  <2>1. CASE Exists(consent)
    BY <2>1, LeftOver DEF RevokeAgent, WithdrawRevoked, WithoutCredentials
  <2>2. CASE ~Exists(consent)
    <3>1. consent' = consent /\ consent.approvals = {}
      BY <2>2 DEF RevokeAgent, WithdrawRevoked, IInv, RecordOK, NoConsent
    <3> QED  BY <3>1
  <2> QED  BY <2>1, <2>2
<1>3. \A ap \in consent'.approvals : ap.credential \notin revokedCreds'
  BY <1>2 DEF AInv, NoRevokedApproval, RevokeAgent
<1> QED
  BY <1>1, <1>2, <1>3, PlanKept DEF AInv, RevokeAgent

LEMMA WithdrawKeepsAInv ==
    ASSUME IInv, AInv, ~AgentRunConfigured, NEW a \in Agent, WithdrawConsent(a)
    PROVE  AInv'
<1> DEFINE left == {ap \in consent.approvals : ap.principal # a}
<1>1. Solo' /\ UpToDate'
  BY NobodyParked, Quiet DEF WithdrawConsent
<1>2. consent'.approvals = left /\ consent'.subject = consent.subject
  BY LeftOver DEF WithdrawConsent, WithoutPrincipal
<1> QED
  BY <1>1, <1>2, PlanKept DEF AInv, NoRevokedApproval, WithdrawConsent, memberVars

LEMMA RestartKeepsAInv ==
    ASSUME IInv, AInv, Restart
    PROVE  AInv'
<1>1. Solo' /\ UpToDate'
  BY Quiet, IdleType, ConsentAssumption DEF Restart
<1> QED
  BY <1>1, PlanKept DEF AInv, NoRevokedApproval, Restart, memberVars, recordVars

----------------------------------------------------------------------------
\* proposePlan.

LEMMA ProposeStartKeepsAInv ==
    ASSUME IInv, AInv, ~AgentRunConfigured,
           NEW r \in Req, NEW a \in Agent, NEW g \in Goal, ProposeStart(r, a, g)
    PROVE  AInv'
<1>1. \A q \in Req : req[q].at = "idle"
  BY NobodyParked DEF ProposeStart
<1>2. plan.subject.version \in Nat
  BY DEF IInv, TypeOK, Plan, Subject, NoSubject
<1>3. /\ req'[r].at \in {"disposePrior", "begin"}
      /\ req'[r].snapshot = members
      /\ req'[r].subject = NextSubject(g)
      /\ \A q \in Req \ {r} : req'[q] = req[q]
  BY IdleType, ConsentAssumption DEF IInv, TypeOK, ProposeStart, Park, Request
<1>4. Solo'
  BY <1>1, <1>3 DEF Solo
<1>5. UpToDate'
  BY <1>1, <1>2, <1>3, RelayPlanAssumption
  DEF UpToDate, ProposeStart, NextSubject, memberVars, recordVars
<1>6. UNCHANGED <<members, tokenRevoked, issued, revokedCreds>>
      /\ UNCHANGED <<plan, consent, audit, published, given>>
  BY DEF ProposeStart, memberVars, recordVars
<1>7. VersionsOK' /\ AgreementIsInformed' /\ NoRevokedApproval' /\ RecordIsCurrent'
  BY <1>6, PlanKept DEF AInv, NoRevokedApproval
<1> QED
  BY <1>4, <1>5, <1>7 DEF AInv

\* A handler that goes on to its next await.
LEMMA MovesOnKeepsAInv ==
    ASSUME IInv, AInv, NEW r \in Req, NEW at \in {"begin", "suspend"}, NEW handle \in Handle,
           req[r].at \in {"disposePrior", "begin", "suspend"},
           Park(r, [req[r] EXCEPT !.at = at, !.handle = handle]),
           UNCHANGED <<memberVars, recordVars>>
    PROVE  AInv'
<1>1. /\ req'[r].at = at
      /\ req'[r].snapshot = req[r].snapshot /\ req'[r].subject = req[r].subject
      /\ \A q \in Req \ {r} : req'[q] = req[q]
  BY DEF IInv, TypeOK, Park, Request
<1>2. Solo'
  BY <1>1 DEF AInv, Solo
<1>3. UpToDate'
  BY <1>1 DEF AInv, UpToDate, memberVars, recordVars
<1> QED
  BY <1>2, <1>3, PlanKept DEF AInv, NoRevokedApproval, memberVars, recordVars

LEMMA ProposeGoesOnKeepsAInv ==
    ASSUME IInv, AInv, NEW r \in Req, ProposeDisposed(r) \/ ProposeBegun(r)
    PROVE  AInv'
<1>1. CASE ProposeDisposed(r)
  BY <1>1, MovesOnKeepsAInv DEF ProposeDisposed, Handle
<1>2. CASE ProposeBegun(r)
  BY <1>2, MovesOnKeepsAInv DEF ProposeBegun, Handle
<1> QED  BY <1>1, <1>2

LEMMA ProposeFinishKeepsAInv ==
    ASSUME IInv, AInv, ~AgentRunConfigured, NEW r \in Req, ProposeFinish(r)
    PROVE  AInv'
<1> DEFINE h == req[r]
<1>1. Solo' /\ UpToDate'
  BY Returned DEF ProposeFinish
<1>2. /\ h.subject \in Subject /\ h.snapshot = members
      /\ h.subject.version = plan.subject.version + 1
      /\ members \subseteq Agent /\ plan.subject.version \in Nat
  <2>1. h.at = "suspend" /\ plan.subject.version \in Nat /\ members \subseteq Agent
    BY DEF IInv, TypeOK, ProposeFinish, Plan, Subject, NoSubject
  <2>2. h.subject \in Subject
    BY <2>1 DEF IInv, ParkedOK
  <2> QED  BY <2>1, <2>2 DEF AInv, UpToDate
<1>3. /\ plan'.subject = h.subject /\ plan'.approvedBy = {} /\ ~plan'.locked
      /\ published' = published \cup {h.subject}
      /\ UNCHANGED <<memberVars, given>>
  BY DEF ProposeFinish, WritePlan
<1>4. VersionsOK'
  <2>1. \A s \in published : s.version \in Nat /\ s.version <= plan.subject.version
    BY DEF IInv, TypeOK, AInv, VersionsOK, Subject
  <2> QED  BY <1>2, <1>3, <2>1 DEF AInv, VersionsOK, Exists, Subject
<1>5. AgreementIsInformed'
  BY <1>3 DEF AgreementIsInformed
<1>6. NoRevokedApproval'
  BY <1>3 DEF AInv, NoRevokedApproval, ProposeFinish, ReopenConsent, OpenConsent, memberVars
<1>7. RecordIsCurrent'
  BY <1>2, <1>3 DEF RecordIsCurrent, ProposeFinish, ReopenConsent, OpenConsent
<1> QED  BY <1>1, <1>4, <1>5, <1>6, <1>7 DEF AInv

LEMMA ProposeFailsKeepsAInv ==
    ASSUME IInv, AInv, ~AgentRunConfigured, NEW r \in Req, ProposeFails(r)
    PROVE  AInv'
<1>1. Solo' /\ UpToDate'
  BY Returned DEF ProposeFails
<1> QED
  BY <1>1, PlanKept DEF AInv, NoRevokedApproval, ProposeFails, memberVars, recordVars

----------------------------------------------------------------------------
\* approvePlan.

\* The row an approval read is the row it writes, and its human read that text.
LEMMA FinishedAgreement ==
    ASSUME IInv, AInv, NEW locked \in BOOLEAN, NEW a \in Agent, NEW s \in Subject,
           NEW c \in Cred \cup {NoCred}, NEW column \in SandboxColumn,
           FinishApproval(plan, locked, a, s, c, column),
           s = plan.subject,
           locked = Unanimous(members, plan.approvedBy \cup {a}),
           c # NoCred => c \notin revokedCreds,
           [agent |-> a, subject |-> s] \in given', given \subseteq given',
           UNCHANGED <<memberVars, published>>
    PROVE  /\ VersionsOK' /\ AgreementIsInformed'
           /\ NoRevokedApproval' /\ RecordIsCurrent'
<1> DEFINE sig == [key |-> c, over |-> s]
           ap == [principal |-> CredOwner[c], credential |-> c, sig |-> sig]
           signed == /\ c # NoCred
                     /\ consent.subject = plan.subject
                     /\ MayApprove(consent, c, sig)
<1>1. /\ plan'.subject = plan.subject /\ plan'.locked = locked
      /\ plan'.approvedBy = plan.approvedBy \cup {a}
  BY DEF IInv, TypeOK, FinishApproval, Plan
<1>2. VersionsOK'
  BY <1>1 DEF AInv, VersionsOK, Exists
<1>3. AgreementIsInformed'
  <2>1. Founders \subseteq members
    BY DEF IInv, TypeOK
  <2> QED  BY <1>1, <2>1 DEF AInv, AgreementIsInformed, Unanimous
<1>4. /\ consent'.subject = consent.subject
      /\ \A x \in consent'.approvals : x.credential \notin revokedCreds
  <2>1. CASE ~signed
    <3>1. consent' = consent
      BY <2>1 DEF FinishApproval
    <3> QED  BY <3>1 DEF AInv, NoRevokedApproval
  <2>2. CASE signed
    <3> DEFINE kept == {old \in consent.approvals : old.principal # ap.principal} \cup {ap}
    <3>1. consent' = WithApprovals(consent, kept)
      BY <2>2 DEF FinishApproval, WithApproval
    <3>2. ap \in Approval
      BY <2>2, ConsentAssumption DEF Approval, Signature
    <3>3. consent \in ConsentRecord /\ kept \in SUBSET Approval
      BY <3>2 DEF IInv, TypeOK, ConsentRecord
    <3>4. consent'.subject = consent.subject /\ consent'.approvals = kept
      BY <3>1, <3>3, WithApprovalsFields
    <3> QED  BY <2>2, <3>4 DEF AInv, NoRevokedApproval
  <2> QED  BY <2>1, <2>2
<1> QED
  BY <1>1, <1>2, <1>3, <1>4 DEF AInv, NoRevokedApproval, RecordIsCurrent, memberVars

LEMMA ApproveStartKeepsAInv ==
    ASSUME IInv, AInv, ~AgentRunConfigured, NEW r \in Req, NEW a \in Agent,
           NEW s \in published, NEW c \in Cred \cup {NoCred}, ApproveStart(r, a, s, c)
    PROVE  AInv'
<1> DEFINE locked == Unanimous(members, plan.approvedBy \cup {a})
           mustDispose == locked /\ wait # NoHandle
<1>1. /\ s \in Subject /\ s = plan.subject /\ Exists(plan) /\ a \in members
      /\ c # NoCred => c \notin revokedCreds
  BY DEF IInv, TypeOK, AInv, VersionsOK, ApproveStart, NamesCurrent, Authenticated, LiveCred
<1>2. \A q \in Req : req[q].at = "idle"
  BY NobodyParked DEF ApproveStart
<1>3. /\ given' = given \cup {[agent |-> a, subject |-> s]}
      /\ UNCHANGED <<memberVars, published>>
  BY DEF ApproveStart
<1>4. CASE mustDispose
  <2> DEFINE h == [Idle EXCEPT !.at = "approve", !.agent = a, !.subject = s,
                               !.row = plan, !.cred = c, !.handle = wait]
  <2>0. /\ h.at = "approve" /\ h.row = plan /\ h.subject = s
        /\ h.agent = a /\ h.cred = c
    BY IdleType, ConsentAssumption DEF Request
  <2>1. /\ req'[r].at = "approve" /\ req'[r].row = plan /\ req'[r].subject = s
        /\ req'[r].agent = a /\ req'[r].cred = c
        /\ \A q \in Req \ {r} : req'[q] = req[q]
    <3>1. req' = [req EXCEPT ![r] = h]
      BY <1>4 DEF ApproveStart, Park
    <3> HIDE DEF h
    <3> QED  BY <2>0, <3>1 DEF IInv, TypeOK
  <2>2. UNCHANGED <<plan, consent>>
    BY <1>4 DEF ApproveStart
  <2>3. Solo'
    BY <1>2, <2>1 DEF Solo
  <2>4. UpToDate'
    BY <1>1, <1>2, <1>3, <1>4, <2>1, <2>2 DEF UpToDate, memberVars
  <2>5. /\ given \subseteq given' /\ UNCHANGED <<plan, published>>
        /\ consent' = consent /\ revokedCreds' = revokedCreds
    BY <1>3, <2>2 DEF memberVars
  <2>6. VersionsOK' /\ AgreementIsInformed' /\ NoRevokedApproval' /\ RecordIsCurrent'
    BY <2>5, PlanKept DEF AInv, NoRevokedApproval
  <2> QED  BY <2>3, <2>4, <2>6 DEF AInv
<1>5. CASE ~mustDispose
  <2>1. FinishApproval(plan, locked, a, s, c, plan.sandbox) /\ UNCHANGED req
    BY <1>5 DEF ApproveStart
  <2>2. plan.sandbox \in SandboxColumn /\ locked \in BOOLEAN
    BY DEF IInv, TypeOK, Plan, Unanimous
  <2>3. Solo' /\ UpToDate'
    BY <1>2, <2>1, Quiet
  <2> QED  BY <1>1, <1>3, <2>1, <2>2, <2>3, FinishedAgreement DEF AInv
<1> QED  BY <1>4, <1>5

LEMMA ApproveDisposedKeepsAInv ==
    ASSUME IInv, AInv, ~AgentRunConfigured, NEW r \in Req, ApproveDisposed(r)
    PROVE  AInv'
<1> DEFINE h == req[r]
           column == IF h.handle = Simulated THEN "simulated" ELSE "disposed"
<1>1. Solo' /\ UpToDate'
  BY Returned DEF ApproveDisposed
<1>2. /\ h.row = plan /\ h.subject = plan.subject
      /\ Unanimous(members, plan.approvedBy \cup {h.agent})
      /\ h.cred # NoCred => h.cred \notin revokedCreds
  BY DEF AInv, UpToDate, ApproveDisposed
<1>3. /\ h \in Request /\ h.subject \in Subject
      /\ [agent |-> h.agent, subject |-> h.subject] \in given
  BY DEF IInv, TypeOK, ParkedOK, ApproveDisposed
<1>4. h.agent \in Agent /\ h.cred \in Cred \cup {NoCred} /\ column \in SandboxColumn
  BY <1>3 DEF Request, SandboxColumn
<1>5. /\ FinishApproval(plan, TRUE, h.agent, h.subject, h.cred, column)
      /\ UNCHANGED <<memberVars, published, given>>
  BY <1>2 DEF ApproveDisposed
<1> QED  BY <1>1, <1>2, <1>3, <1>4, <1>5, FinishedAgreement DEF AInv

----------------------------------------------------------------------------
LEMMA NextKeepsAInv ==
    ASSUME IInv, AInv, ~AgentRunConfigured, [Next]_vars
    PROVE  AInv'
<1>1. CASE UNCHANGED vars
  BY <1>1 DEF vars, memberVars, recordVars, AInv, Solo, UpToDate, VersionsOK,
     AgreementIsInformed, NoRevokedApproval, RecordIsCurrent
<1>2. CASE \E r \in Req : Resume(r)
  BY <1>2, ProposeGoesOnKeepsAInv, ProposeFinishKeepsAInv, ProposeFailsKeepsAInv,
     ApproveDisposedKeepsAInv DEF Resume
<1> QED
  BY <1>1, <1>2, JoinKeepsAInv, WithdrawKeepsAInv, RevokeKeepsAInv, AttenuateKeepsAInv,
     ProposeStartKeepsAInv, ApproveStartKeepsAInv, RestartKeepsAInv DEF Next

LEMMA AtomicInvariance == ~AgentRunConfigured => (Spec => []AInv)
<1> SUFFICES ASSUME ~AgentRunConfigured PROVE Spec => []AInv
  OBVIOUS
<1>1. IInv /\ AInv /\ [Next]_vars => AInv'
  BY NextKeepsAInv
<1> QED  BY <1>1, InitAInv, Invariance, PTL DEF Spec

\* §6.3.2 without AgentRun: no approval is ever attached to a text its human did
\* not read, and the plan locks only with both founders on board - for any number
\* of members and requests, of which only microtasks separate the pieces.
THEOREM AgreementIsAlwaysInformed == ~AgentRunConfigured => (Spec => []AgreementIsInformed)
<1>1. AInv => AgreementIsInformed
  BY DEF AInv
<1> QED  BY <1>1, AtomicInvariance, PTL

\* §6.3.7 without AgentRun: revoking an agent takes its approval away, and no
\* approval under way brings it back.
THEOREM RevocationWithdraws == ~AgentRunConfigured => (Spec => []NoRevokedApproval)
<1>1. AInv => NoRevokedApproval
  BY DEF AInv
<1> QED  BY <1>1, AtomicInvariance, PTL

\* §6.3.4 without AgentRun, once every agent pairs with a holder key: a satisfied
\* consent is a consent to the plan as it stands.
THEOREM ConsentStaysCurrent ==
    ~AgentRunConfigured /\ V3 = Agent => (Spec => []ConsentIsCurrent)
<1> SUFFICES ASSUME ~AgentRunConfigured, V3 = Agent PROVE Spec => []ConsentIsCurrent
  OBVIOUS
<1>1. AInv => ConsentIsCurrent
  BY DEF AInv, RecordIsCurrent, ConsentIsCurrent
<1> QED  BY <1>1, AtomicInvariance, PTL

----------------------------------------------------------------------------
\* The plan and consent rows implement PlanAgreement.

LEMMA PromiseInit == Init => Promise!Init
  BY RelayPlanAssumption
  DEF Init, Promise!Init, NoPlan, NoConsent, Principals

\* Handlers that write neither row do nothing the promise can see.
LEMMA PromiseStutter ==
    ASSUME UNCHANGED <<members, plan, consent>>
    PROVE  UNCHANGED Promise!vars
  BY DEF Promise!vars

LEMMA PromiseJoin ==
    ASSUME NEW a \in Agent, JoinExistingPairing(a)
    PROVE  Promise!Next
<1>1. Promise!Join(a)
  BY DEF JoinExistingPairing, MayJoin, recordVars, Promise!Join
<1> QED  BY <1>1 DEF Promise!Next

\* Withdrawing and revoking only take signatures away.
LEMMA PromiseUnsign ==
    ASSUME IInv, UNCHANGED <<members, plan>>,
           NEW left \in SUBSET consent.approvals,
           consent' = WithApprovals(consent, left)
    PROVE  Promise!Next
<1> DEFINE gone == Principals(consent.approvals) \ Principals(left)
<1>1. consent'.approvals = left /\ consent'.required = consent.required
  BY LeftOver
<1>2. gone \in SUBSET Agent
  BY DEF IInv, TypeOK, ConsentRecord, Approval, Principals
<1>3. Principals(left) = Principals(consent.approvals) \ gone
  BY DEF Principals
<1>4. Promise!Unsign(gone)
  BY <1>1, <1>3 DEF Promise!Unsign
<1> QED  BY <1>2, <1>4 DEF Promise!Next

LEMMA PromisePropose ==
    ASSUME IInv, AInv, V3 = Agent, NEW r \in Req, ProposeFinish(r)
    PROVE  Promise!Next
<1> DEFINE s == req[r].subject
<1>1. /\ s \in Subject /\ req[r].snapshot = members /\ members \subseteq V3
      /\ s.version = plan.subject.version + 1 /\ s.version <= MaxVersion
      /\ plan.subject.version \in Nat
  <2>1. /\ req[r].at = "suspend" /\ plan.subject.version \in Nat
        /\ members \subseteq Agent
    BY DEF IInv, TypeOK, ProposeFinish, Plan, Subject, NoSubject
  <2>2. s \in Subject
    BY <2>1 DEF IInv, ParkedOK
  <2> QED  BY <2>1, <2>2 DEF AInv, UpToDate
<1>2. s \in [goal : Goal, version : 1..MaxVersion]
  BY <1>1, RelayPlanAssumption DEF Subject
<1>3. /\ plan'.subject = s /\ plan'.approvedBy = {} /\ plan'.locked = FALSE
      /\ UNCHANGED members
  BY DEF ProposeFinish, WritePlan, memberVars
<1>4. consent'.required = members /\ Principals(consent'.approvals) = {}
  BY <1>1 DEF ProposeFinish, ReopenConsent, OpenConsent, Principals
<1>5. Promise!Propose(s)
  BY <1>1, <1>3, <1>4 DEF Promise!Propose
<1> QED  BY <1>2, <1>5 DEF Promise!Next

\* An approval whose row is the one it read counts once, and signs at most for
\* its own principal.
LEMMA PromiseApprove ==
    ASSUME IInv, NEW a \in members, NEW s \in Subject,
           NEW c \in Cred \cup {NoCred}, NEW column \in SandboxColumn,
           FinishApproval(plan, Unanimous(members, plan.approvedBy \cup {a}), a, s, c, column),
           Exists(plan), c # NoCred => CredOwner[c] = a, UNCHANGED members
    PROVE  Promise!Next
<1> DEFINE sig == [key |-> c, over |-> s]
           ap == [principal |-> CredOwner[c], credential |-> c, sig |-> sig]
           kept == {old \in consent.approvals : old.principal # ap.principal} \cup {ap}
           signed == /\ c # NoCred
                     /\ consent.subject = plan.subject
                     /\ MayApprove(consent, c, sig)
           signers == Principals(consent.approvals)
<1>1. /\ plan'.subject = plan.subject
      /\ plan'.approvedBy = plan.approvedBy \cup {a}
      /\ plan'.locked = (members \subseteq plan'.approvedBy)
  BY DEF IInv, TypeOK, FinishApproval, Plan, Unanimous
<1>2. /\ consent'.required = consent.required
      /\ Principals(consent'.approvals)
            \in {signers, signers \cup ({a} \cap consent.required)}
  <2>1. CASE ~signed
    <3>1. consent' = consent
      BY <2>1 DEF FinishApproval
    <3> QED  BY <3>1
  <2>2. CASE signed
    <3>1. consent' = WithApprovals(consent, kept)
      BY <2>2 DEF FinishApproval, WithApproval
    <3>2. ap \in Approval /\ ap.principal = a /\ a \in consent.required
      BY <2>2, ConsentAssumption DEF Approval, Signature, MayApprove
    <3>3. consent \in ConsentRecord /\ kept \in SUBSET Approval
      BY <3>2 DEF IInv, TypeOK, ConsentRecord
    <3>4. consent'.required = consent.required /\ consent'.approvals = kept
      BY <3>1, <3>3, WithApprovalsFields
    <3>5. Principals(kept) = signers \cup {a}
      BY <3>2 DEF Principals
    <3> QED  BY <3>2, <3>4, <3>5
  <2> QED  BY <2>1, <2>2
<1>3. plan.subject # NoSubject
  BY DEF Exists, NoSubject
<1>4. Promise!Approve(a)
  BY <1>1, <1>2, <1>3 DEF Promise!Approve
<1>5. a \in Agent
  BY DEF IInv, TypeOK
<1> QED  BY <1>4, <1>5 DEF Promise!Next

LEMMA PromiseApproveStart ==
    ASSUME IInv, AInv, NEW r \in Req, NEW a \in Agent,
           NEW s \in published, NEW c \in Cred \cup {NoCred}, ApproveStart(r, a, s, c)
    PROVE  [Promise!Next]_Promise!vars
<1> DEFINE locked == Unanimous(members, plan.approvedBy \cup {a})
           mustDispose == locked /\ wait # NoHandle
<1>1. /\ s \in Subject /\ Exists(plan) /\ a \in members
      /\ plan.sandbox \in SandboxColumn
      /\ c # NoCred => CredOwner[c] = a
      /\ UNCHANGED members
  BY DEF IInv, TypeOK, Plan, ApproveStart, NamesCurrent, Authenticated, LiveCred, memberVars
<1>2. CASE mustDispose
  BY <1>1, <1>2, PromiseStutter DEF ApproveStart
<1>3. CASE ~mustDispose
  <2>1. FinishApproval(plan, locked, a, s, c, plan.sandbox)
    BY <1>3 DEF ApproveStart
  <2> QED  BY <1>1, <2>1, PromiseApprove
<1> QED  BY <1>2, <1>3

LEMMA PromiseApproveDisposed ==
    ASSUME IInv, AInv, NEW r \in Req, ApproveDisposed(r)
    PROVE  Promise!Next
<1> DEFINE h == req[r]
           column == IF h.handle = Simulated THEN "simulated" ELSE "disposed"
<1>1. /\ h.row = plan /\ Exists(plan) /\ h.agent \in members
      /\ Unanimous(members, plan.approvedBy \cup {h.agent})
  BY DEF AInv, UpToDate, ApproveDisposed
<1>2. /\ h \in Request /\ h.subject \in Subject
      /\ h.cred # NoCred => CredOwner[h.cred] = h.agent
  BY DEF IInv, TypeOK, ParkedOK, ApproveDisposed
<1>3. h.cred \in Cred \cup {NoCred} /\ column \in SandboxColumn
  BY <1>2 DEF Request, SandboxColumn
<1>4. Unanimous(members, plan.approvedBy \cup {h.agent}) = TRUE
  BY <1>1 DEF Unanimous
<1>5. /\ FinishApproval(plan, TRUE, h.agent, h.subject, h.cred, column)
      /\ UNCHANGED members
  BY <1>1 DEF ApproveDisposed, memberVars
<1> QED  BY <1>1, <1>2, <1>3, <1>4, <1>5, PromiseApprove

LEMMA PromiseStep ==
    ASSUME IInv, AInv, V3 = Agent, [Next]_vars
    PROVE  [Promise!Next]_Promise!vars
<1>1. CASE UNCHANGED vars \/ Restart
  BY <1>1, PromiseStutter DEF vars, memberVars, recordVars, Restart
<1>2. CASE \E a \in Agent : JoinExistingPairing(a)
  BY <1>2, PromiseJoin
<1>3. ASSUME NEW a \in Agent, WithdrawConsent(a)
      PROVE  Promise!Next
  BY <1>3, PromiseUnsign DEF WithdrawConsent, WithoutPrincipal, memberVars
<1>4. ASSUME NEW a \in Agent, NEW t \in Agent, RevokeAgent(a, t)
      PROVE  [Promise!Next]_Promise!vars
  <2>1. CASE Exists(consent)
    BY <1>4, <2>1, PromiseUnsign DEF RevokeAgent, WithdrawRevoked, WithoutCredentials
  <2>2. CASE ~Exists(consent)
    BY <1>4, <2>2, PromiseStutter DEF RevokeAgent, WithdrawRevoked
  <2> QED  BY <2>1, <2>2
<1>5. CASE \E p, c \in Cred : Attenuate(p, c)
  BY <1>5, PromiseStutter DEF Attenuate, recordVars
<1>6. CASE \E r \in Req, a \in Agent, g \in Goal : ProposeStart(r, a, g)
  BY <1>6, PromiseStutter DEF ProposeStart, memberVars, recordVars
<1>7. CASE \E r \in Req, a \in Agent, s \in published, c \in Cred \cup {NoCred} :
              ApproveStart(r, a, s, c)
  BY <1>7, PromiseApproveStart
<1>8. ASSUME NEW r \in Req, Resume(r)
      PROVE  [Promise!Next]_Promise!vars
  <2>1. CASE ProposeDisposed(r) \/ ProposeBegun(r) \/ ProposeFails(r)
    BY <2>1, PromiseStutter
    DEF ProposeDisposed, ProposeBegun, ProposeFails, memberVars, recordVars
  <2> QED  BY <1>8, <2>1, PromisePropose, PromiseApproveDisposed DEF Resume
<1> QED  BY <1>1, <1>2, <1>3, <1>4, <1>5, <1>6, <1>7, <1>8 DEF Next

\* What PROTOCOL.md §6.3 promises of a pairing's plan the two rows do, without
\* AgentRun and once every agent pairs with a holder key: each handler's pieces
\* are one step of PlanAgreement or none.
THEOREM KeepsPlanAgreement ==
    ~AgentRunConfigured /\ V3 = Agent => (Spec => KeepsThePromise)
<1> SUFFICES ASSUME ~AgentRunConfigured, V3 = Agent PROVE Spec => KeepsThePromise
  OBVIOUS
<1>1. IInv /\ AInv /\ [Next]_vars => [Promise!Next]_Promise!vars
  BY PromiseStep
<1> QED
  BY <1>1, PromiseInit, Invariance, AtomicInvariance, PTL
  DEF Spec, KeepsThePromise, Promise!Spec

=============================================================================
