------------------------- MODULE CloudPairingProofs -------------------------
(***************************************************************************)
(* What holds of a pairing on the cloud relay for any number of agents,    *)
(* credentials, texts, items and handlers between two RPCs, any of which   *)
(* may die there.                                                          *)
(***************************************************************************)
EXTENDS CloudPairing, FiniteSetTheorems, TLAPS

----------------------------------------------------------------------------
\* The inductive invariant.

\* What a handler that is between two RPCs knows of what they left behind.
RequestOK(h) ==
    /\ h.at = "initialize" => members = {} /\ code = "used" /\ Founders \subseteq identities
    /\ h.at = "addMember" => members # {} /\ h.agent \in identities
    /\ h.at = "createInviteCode" => members # {}
    /\ h.at = "attenuateFrom" =>
          /\ h.cred \in Cred
          /\ \E p \in issued : CredOwner[p] = CredOwner[h.cred]
                               /\ Chain[h.cred] = Chain[p] \cup {p}
    /\ h.at \in {"getMembers", "proposePlan"} => h.goal \in Goal
    /\ h.at = "approvePlan" =>
          /\ h.subject \in published
          /\ [agent |-> h.agent, subject |-> h.subject] \in given
          /\ h.cred # NoCred => CredOwner[h.cred] = h.agent
    /\ h.at \in {"revokeAgent", "withdrawByCredentials"} => h.targets \subseteq identities

RequestsOK ==
    /\ \A r \in Req : RequestOK(req[r])
    /\ \A r, q \in Req : req[r].at = "initialize" /\ req[q].at = "initialize" => r = q

\* The founders are the first members, and nobody is invited before.
RoomOK ==
    /\ code = "open" => identities = {} /\ members = {}
    /\ members # {} => Founders \subseteq members
    /\ invites > 0 => members # {}

\* A version names one text.
PlanOK ==
    /\ Exists(plan) => plan.subject \in published
    /\ \A s \in published : s.version <= plan.subject.version
    /\ \A s, t \in published : s.version = t.version => s = t

\* RevokedIsDead, of the credentials that exist.
DeadOK ==
    \A t \in tokenRevoked : \A c \in issued :
        CredOwner[c] = t => (Chain[c] \cup {c}) \cap revokedCreds # {}

RowsOK == PlanOK /\ ConsentEvidence /\ AgreementIsInformed /\ WorkIsAgreed

IInv == TypeOK /\ RequestsOK /\ RoomOK /\ RowsOK /\ DeadOK

----------------------------------------------------------------------------
LEMMA IdleType == Idle \in Request /\ Idle.at = "idle" /\ RequestOK(Idle)
<1>1. Idle \in Request
  BY CloudPairingAssumption DEF Idle, Request, Rpc, Status
<1> QED  BY <1>1 DEF Idle, RequestOK

\* A writer of the consent record changes its approvals and recomputes the flag.
LEMMA WithApprovalsFields ==
    ASSUME NEW record \in ConsentRecord, NEW approvals \in SUBSET Approval
    PROVE  LET next == WithApprovals(record, approvals) IN
           /\ next \in ConsentRecord
           /\ next.subject = record.subject
           /\ next.required = record.required
           /\ next.approvals = approvals
           /\ next.satisfied <=> IsSatisfied(record.required, approvals)
  BY DEF WithApprovals, ConsentRecord, IsSatisfied

\* One more member never exceeds the cap that admitted it.
LEMMA MembersBounded ==
    ASSUME TypeOK, NEW a \in Agent, MayJoin(a)
    PROVE  Cardinality(members \cup {a}) <= MaxMembers
<1>1. IsFiniteSet(members)
  BY FS_Subset, CloudPairingAssumption DEF TypeOK
<1>2. Cardinality(members) \in Nat
  BY <1>1, FS_CardinalityType
<1>3. Cardinality(members \cup {a}) = Cardinality(members) + 1
  BY <1>1, FS_AddElement DEF MayJoin
<1> QED  BY <1>2, <1>3, CloudPairingAssumption DEF MayJoin

----------------------------------------------------------------------------
\* What a step leaves of the parts of the invariant it does not touch.

\* The other handlers keep what they know: rows are added and never taken away,
\* and the room is initialized once.
LEMMA RequestsKept ==
    ASSUME TypeOK, RequestsOK, NEW r \in Req, NEW h \in Request,
           Send(r, h), RequestOK(h)',
           code = "used" => code' = "used",
           identities \subseteq identities', issued \subseteq issued',
           published \subseteq published', given \subseteq given',
           members # {} => members' # {},
           \A q \in Req \ {r} : req[q].at = "initialize" =>
               members' = {} /\ h.at # "initialize"
    PROVE  RequestsOK' /\ req' \in [Req -> Request]
<1>1. /\ req' \in [Req -> Request] /\ req'[r] = h
      /\ \A q \in Req \ {r} : req'[q] = req[q]
  BY DEF TypeOK, Send
<1>2. ASSUME NEW q \in Req, q # r
      PROVE  RequestOK(req[q])'
  <2>1. req'[q] = req[q] /\ RequestOK(req[q])
    BY <1>1, <1>2 DEF RequestsOK
  <2>2. PICK k \in Request : k = req[q]
    BY DEF TypeOK
  <2>3. RequestOK(k)'
    BY <1>2, <2>1, <2>2 DEF RequestOK
  <2> QED  BY <2>1, <2>2, <2>3
<1>3. \A q \in Req : RequestOK(req[q])'
  BY <1>1, <1>2
<1>4. \A p, q \in Req : req'[p].at = "initialize" /\ req'[q].at = "initialize" => p = q
  BY <1>1 DEF RequestsOK
<1> QED  BY <1>1, <1>3, <1>4 DEF RequestsOK

LEMMA RowsKept ==
    ASSUME RowsOK, UNCHANGED <<plan, consent, status, published>>, given \subseteq given'
    PROVE  RowsOK'
<1>1. PlanOK' /\ AgreementIsInformed' /\ WorkIsAgreed'
  BY DEF RowsOK, PlanOK, AgreementIsInformed, WorkIsAgreed, Exists
<1>2. ConsentEvidence'
  BY DEF RowsOK, ConsentEvidence
<1> QED  BY <1>1, <1>2 DEF RowsOK

\* A request arrives: nothing but its record, and perhaps a yes, is new.
LEMMA Accepted ==
    ASSUME IInv, NEW r \in Req, NEW h \in Request, Accept(r, h),
           RequestOK(h)', h.at # "initialize",
           given \subseteq given', given' \subseteq [agent : Agent, subject : Subject]
    PROVE  IInv'
<1>1. /\ UNCHANGED <<code, invites, identities, tokenRevoked, issued, bound, revokedCreds>>
      /\ UNCHANGED <<members, plan, consent, status, crashes, published>>
      /\ Send(r, h)
  BY DEF Accept, registryVars, roomVars
<1>2. RequestsOK' /\ req' \in [Req -> Request]
  <2>1. \A q \in Req \ {r} : req[q].at = "initialize" => members' = {} /\ h.at # "initialize"
    BY <1>1 DEF IInv, RequestsOK, RequestOK
  <2> QED  BY <1>1, <2>1, RequestsKept DEF IInv
<1>3. TypeOK'
  BY <1>1, <1>2 DEF IInv, TypeOK
<1>4. RoomOK' /\ DeadOK'
  BY <1>1 DEF IInv, RoomOK, DeadOK
<1>5. RowsOK'
  BY <1>1, RowsKept DEF IInv
<1> QED  BY <1>2, <1>3, <1>4, <1>5 DEF IInv

\* A handler goes on, having changed nothing of the rows.
LEMMA GoesOn ==
    ASSUME IInv, NEW r \in Req, NEW h \in Request, Send(r, h), RequestOK(h),
           h.at # "initialize", crashes' \in Nat,
           UNCHANGED <<registryVars, roomVars, historyVars>>
    PROVE  IInv'
<1>1. /\ UNCHANGED <<code, invites, identities, tokenRevoked, issued, bound, revokedCreds>>
      /\ UNCHANGED <<members, plan, consent, status, published, given>>
  BY DEF registryVars, roomVars, historyVars
<1>2. RequestsOK' /\ req' \in [Req -> Request]
  <2>1. \A q \in Req \ {r} : req[q].at = "initialize" => members' = {} /\ h.at # "initialize"
    BY <1>1 DEF IInv, RequestsOK, RequestOK
  <2>2. RequestOK(h)'
    BY <1>1 DEF RequestOK
  <2> QED  BY <1>1, <2>1, <2>2, RequestsKept DEF IInv
<1>3. TypeOK'
  BY <1>1, <1>2 DEF IInv, TypeOK
<1>4. RoomOK' /\ DeadOK'
  BY <1>1 DEF IInv, RoomOK, DeadOK
<1>5. RowsOK'
  BY <1>1, RowsKept DEF IInv
<1> QED  BY <1>2, <1>3, <1>4, <1>5 DEF IInv

----------------------------------------------------------------------------
LEMMA InitIInv == Init => IInv
<1> SUFFICES ASSUME Init PROVE IInv
  OBVIOUS
<1>1. TypeOK
  <2>1. plan \in Plan /\ consent \in ConsentRecord
    BY DEF Init, Plan, NoPlan, ConsentRecord, NoConsent
  <2>2. issued \subseteq Cred
    BY CloudPairingAssumption DEF Init
  <2>3. Cardinality(members) <= MaxMembers
    BY FS_EmptySet, CloudPairingAssumption DEF Init
  <2>4. status \in [Item -> Status]
    BY DEF Init, AllPending, Status
  <2> QED  BY <2>1, <2>2, <2>3, <2>4, IdleType DEF Init, TypeOK
<1>2. RequestsOK
  BY IdleType DEF Init, RequestsOK
<1>3. RoomOK /\ DeadOK
  BY DEF Init, RoomOK, DeadOK
<1>4. RowsOK
  BY DEF Init, RowsOK, PlanOK, ConsentEvidence, AgreementIsInformed, WorkIsAgreed, NoPlan,
         NoConsent, NoSubject, Exists, IsSatisfied
<1> QED  BY <1>1, <1>2, <1>3, <1>4 DEF IInv

----------------------------------------------------------------------------
\* Requests that arrive.

LEMMA ArrivalsKeepIInv ==
    ASSUME IInv, NEW r \in Req, NEW a \in Agent,
           \/ AcceptInvite(r, a) \/ AcceptWithdraw(r, a)
           \/ \E g \in Goal : AcceptPropose(r, a, g)
           \/ \E i \in Item, to \in Status : AcceptItemStatus(r, a, i, to)
           \/ \E targets \in SUBSET Agent : AcceptRevoke(r, a, targets)
    PROVE  IInv'
<1>1. given \subseteq given' /\ given' \subseteq [agent : Agent, subject : Subject]
  BY DEF IInv, TypeOK, AcceptInvite, AcceptWithdraw, AcceptPropose, AcceptItemStatus,
         AcceptRevoke
<1>2. CASE AcceptInvite(r, a)
  <2>1. PICK h \in Request : /\ h = [Idle EXCEPT !.at = "inviteCheck", !.agent = a]
                             /\ h.at = "inviteCheck"
    <3>1. /\ [Idle EXCEPT !.at = "inviteCheck", !.agent = a] \in Request
          /\ [Idle EXCEPT !.at = "inviteCheck", !.agent = a].at = "inviteCheck"
      BY CloudPairingAssumption DEF Idle, Request, Rpc, Status
    <3> QED  BY <3>1, Zenon
  <2> QED  BY <1>1, <1>2, <2>1, Accepted DEF AcceptInvite, RequestOK
<1>3. CASE AcceptWithdraw(r, a)
  <2>1. PICK h \in Request : /\ h = [Idle EXCEPT !.at = "withdrawConsent", !.agent = a]
                             /\ h.at = "withdrawConsent"
    <3>1. /\ [Idle EXCEPT !.at = "withdrawConsent", !.agent = a] \in Request
          /\ [Idle EXCEPT !.at = "withdrawConsent", !.agent = a].at = "withdrawConsent"
      BY CloudPairingAssumption DEF Idle, Request, Rpc, Status
    <3> QED  BY <3>1, Zenon
  <2> QED  BY <1>1, <1>3, <2>1, Accepted DEF AcceptWithdraw, RequestOK
<1>4. ASSUME NEW g \in Goal, AcceptPropose(r, a, g)
      PROVE  IInv'
  <2>1. PICK h \in Request :
            /\ h = [Idle EXCEPT !.at = "getMembers", !.agent = a, !.goal = g]
            /\ h.at = "getMembers" /\ h.goal = g
    <3>1. /\ [Idle EXCEPT !.at = "getMembers", !.agent = a, !.goal = g] \in Request
          /\ [Idle EXCEPT !.at = "getMembers", !.agent = a, !.goal = g].at = "getMembers"
          /\ [Idle EXCEPT !.at = "getMembers", !.agent = a, !.goal = g].goal = g
      BY CloudPairingAssumption DEF Idle, Request, Rpc, Status
    <3> QED  BY <3>1, Zenon
  <2> QED  BY <1>1, <1>4, <2>1, Accepted DEF AcceptPropose, RequestOK
<1>5. ASSUME NEW i \in Item, NEW to \in Status, AcceptItemStatus(r, a, i, to)
      PROVE  IInv'
  <2>1. PICK h \in Request :
            /\ h = [Idle EXCEPT !.at = "updateItemStatus", !.agent = a, !.item = {i},
                                !.to = to]
            /\ h.at = "updateItemStatus"
    <3>1. /\ [Idle EXCEPT !.at = "updateItemStatus", !.agent = a, !.item = {i},
                           !.to = to] \in Request
          /\ [Idle EXCEPT !.at = "updateItemStatus", !.agent = a, !.item = {i},
                           !.to = to].at = "updateItemStatus"
      BY CloudPairingAssumption DEF Idle, Request, Rpc, Status
    <3> QED  BY <3>1, Zenon
  <2> QED  BY <1>1, <1>5, <2>1, Accepted DEF AcceptItemStatus, RequestOK
<1>6. ASSUME NEW targets \in SUBSET Agent, AcceptRevoke(r, a, targets)
      PROVE  IInv'
  <2>1. PICK h \in Request :
            /\ h = [Idle EXCEPT !.at = "revokeCheck", !.agent = a, !.targets = targets]
            /\ h.at = "revokeCheck"
    <3>1. /\ [Idle EXCEPT !.at = "revokeCheck", !.agent = a, !.targets = targets] \in Request
          /\ [Idle EXCEPT !.at = "revokeCheck", !.agent = a, !.targets = targets].at = "revokeCheck"
      BY CloudPairingAssumption DEF Idle, Request, Rpc, Status
    <3> QED  BY <3>1, Zenon
  <2> QED  BY <1>1, <1>6, <2>1, Accepted DEF AcceptRevoke, RequestOK
<1> QED  BY <1>2, <1>3, <1>4, <1>5, <1>6

\* Whoever sends an approval has read a text the plan once had.
LEMMA AcceptApproveKeepsIInv ==
    ASSUME IInv, NEW r \in Req, NEW a \in Agent, NEW s \in published,
           NEW c \in Cred \cup {NoCred}, AcceptApprove(r, a, s, c)
    PROVE  IInv'
<1>1. PICK t \in Subject : t = s
  BY DEF IInv, TypeOK
<1>2. PICK h \in Request :
          /\ h = [Idle EXCEPT !.at = "approvePlan", !.agent = a, !.subject = t, !.cred = c]
          /\ h.at = "approvePlan" /\ h.agent = a /\ h.subject = t /\ h.cred = c
  <2>1. /\ [Idle EXCEPT !.at = "approvePlan", !.agent = a, !.subject = t, !.cred = c] \in Request
        /\ [Idle EXCEPT !.at = "approvePlan", !.agent = a, !.subject = t, !.cred = c].at = "approvePlan"
        /\ [Idle EXCEPT !.at = "approvePlan", !.agent = a, !.subject = t, !.cred = c].agent = a
        /\ [Idle EXCEPT !.at = "approvePlan", !.agent = a, !.subject = t, !.cred = c].subject = t
        /\ [Idle EXCEPT !.at = "approvePlan", !.agent = a, !.subject = t, !.cred = c].cred = c
    BY CloudPairingAssumption DEF Idle, Request, Rpc, Status
  <2> QED  BY <2>1, Zenon
<1>3. Accept(r, h) /\ given' = given \cup {[agent |-> a, subject |-> t]}
  BY <1>1, <1>2 DEF AcceptApprove
<1>4. given' \subseteq [agent : Agent, subject : Subject]
  BY <1>3 DEF IInv, TypeOK
<1>5. c # NoCred => CredOwner[c] = a
  BY DEF AcceptApprove, Authenticates
<1>6. published' = published
  BY <1>3 DEF Accept
<1>7. RequestOK(h)'
  BY <1>1, <1>2, <1>3, <1>5, <1>6 DEF RequestOK
<1> QED  BY <1>2, <1>3, <1>4, <1>7, Accepted

LEMMA AcceptAttenuateKeepsIInv ==
    ASSUME IInv, NEW r \in Req, NEW p \in Cred, NEW child \in Cred,
           AcceptAttenuate(r, p, child)
    PROVE  IInv'
<1>1. CredOwner[p] \in Agent
  BY ConsentAssumption
<1>2. PICK h \in Request :
          /\ h = [Idle EXCEPT !.at = "attenuateFrom", !.agent = CredOwner[p], !.cred = child]
          /\ h.at = "attenuateFrom" /\ h.cred = child
  <2>1. /\ [Idle EXCEPT !.at = "attenuateFrom", !.agent = CredOwner[p], !.cred = child] \in Request
        /\ [Idle EXCEPT !.at = "attenuateFrom", !.agent = CredOwner[p], !.cred = child].at = "attenuateFrom"
        /\ [Idle EXCEPT !.at = "attenuateFrom", !.agent = CredOwner[p], !.cred = child].cred = child
    BY <1>1, CloudPairingAssumption DEF Idle, Request, Rpc, Status
  <2> QED  BY <2>1, Zenon
<1>3. /\ Accept(r, h) /\ given' = given /\ p \in issued
      /\ CredOwner[child] = CredOwner[p] /\ Chain[child] = Chain[p] \cup {p}
  BY <1>2 DEF AcceptAttenuate, Verifies
<1>4. issued' = issued
  BY <1>3 DEF Accept, registryVars
<1>5. RequestOK(h)'
  BY <1>2, <1>3, <1>4 DEF RequestOK
<1> QED  BY <1>2, <1>3, <1>5, Accepted DEF IInv, TypeOK

----------------------------------------------------------------------------
\* Pairing and inviting.

LEMMA JoinPairingKeepsIInv ==
    ASSUME IInv, NEW r \in Req, NEW a \in Agent, JoinPairing(r, a)
    PROVE  IInv'
<1>1. PICK h \in Request : h = [Idle EXCEPT !.at = "initialize"] /\ h.at = "initialize"
  <2>1. /\ [Idle EXCEPT !.at = "initialize"] \in Request
        /\ [Idle EXCEPT !.at = "initialize"].at = "initialize"
    BY CloudPairingAssumption DEF Idle, Request, Rpc, Status
  <2> QED  BY <2>1, Zenon
<1>2. /\ code = "open" /\ code' = "used" /\ identities' = Founders
      /\ issued' = issued \cup {Root[b] : b \in {a} \cap V3} /\ bound' = issued'
      /\ Send(r, h)
      /\ UNCHANGED <<invites, tokenRevoked, revokedCreds, members, plan, consent, status,
                     crashes, published, given>>
  BY <1>1 DEF JoinPairing, roomVars, historyVars
<1>3. identities = {} /\ members = {} /\ tokenRevoked = {}
  BY <1>2 DEF IInv, RoomOK, TypeOK
<1>4. RequestsOK' /\ req' \in [Req -> Request]
  <2>1. RequestOK(h)'
    BY <1>1, <1>2, <1>3 DEF RequestOK
  <2>2. \A q \in Req : req[q].at # "initialize"
    BY <1>2 DEF IInv, RequestsOK, RequestOK
  <2> QED  BY <1>2, <1>3, <2>1, <2>2, RequestsKept DEF IInv
<1>5. {Root[b] : b \in {a} \cap V3} \subseteq Cred
  BY CloudPairingAssumption
<1>6. TypeOK'
  BY <1>2, <1>3, <1>4, <1>5, CloudPairingAssumption DEF IInv, TypeOK
<1>7. RoomOK' /\ DeadOK'
  BY <1>2, <1>3 DEF IInv, RoomOK, DeadOK
<1>8. RowsOK'
  BY <1>2, RowsKept DEF IInv
<1> QED  BY <1>4, <1>6, <1>7, <1>8 DEF IInv

LEMMA InitializeKeepsIInv ==
    ASSUME IInv, NEW r \in Req, Initialize(r)
    PROVE  IInv'
<1>1. /\ req[r].at = "initialize" /\ members' = members \cup Founders /\ Send(r, Idle)
      /\ UNCHANGED <<code, invites, identities, tokenRevoked, issued, bound, revokedCreds>>
      /\ UNCHANGED <<plan, consent, status, crashes, published, given>>
  BY DEF Initialize, Turn, Answer, registryVars, historyVars
<1>2. members = {} /\ code = "used" /\ Founders \subseteq identities
  BY <1>1 DEF IInv, RequestsOK, RequestOK
<1>3. RequestsOK' /\ req' \in [Req -> Request]
  <2>1. \A q \in Req \ {r} : req[q].at # "initialize"
    BY <1>1 DEF IInv, RequestsOK
  <2>2. RequestOK(Idle)'
    BY IdleType DEF RequestOK
  <2> QED  BY <1>1, <1>2, <2>1, <2>2, IdleType, RequestsKept DEF IInv
<1>4. members' = Founders /\ Cardinality(Founders) <= MaxMembers
  BY <1>1, <1>2, CloudPairingAssumption
<1>5. TypeOK'
  BY <1>1, <1>2, <1>3, <1>4 DEF IInv, TypeOK
<1>6. RoomOK' /\ DeadOK'
  BY <1>1, <1>2, <1>4 DEF IInv, RoomOK, DeadOK
<1>7. RowsOK'
  BY <1>1, RowsKept DEF IInv
<1> QED  BY <1>3, <1>5, <1>6, <1>7 DEF IInv

LEMMA JoinExistingKeepsIInv ==
    ASSUME IInv, NEW r \in Req, NEW a \in Agent, JoinExistingPairing(r, a)
    PROVE  IInv'
<1>1. PICK h \in Request : /\ h = [Idle EXCEPT !.at = "addMember", !.agent = a]
                           /\ h.at = "addMember" /\ h.agent = a
  <2>1. /\ [Idle EXCEPT !.at = "addMember", !.agent = a] \in Request
        /\ [Idle EXCEPT !.at = "addMember", !.agent = a].at = "addMember"
        /\ [Idle EXCEPT !.at = "addMember", !.agent = a].agent = a
    BY CloudPairingAssumption DEF Idle, Request, Rpc, Status
  <2> QED  BY <2>1, Zenon
<1>2. PICK roots \in SUBSET Cred : /\ roots = {Root[b] : b \in {a} \cap V3}
                                   /\ \A c \in roots : CredOwner[c] = a
  <2>1. \A b \in {a} \cap V3 : Root[b] \in Cred /\ CredOwner[Root[b]] = a
    BY CloudPairingAssumption
  <2>2. {Root[b] : b \in {a} \cap V3} \in SUBSET Cred
    BY <2>1
  <2>3. \A c \in {Root[b] : b \in {a} \cap V3} : CredOwner[c] = a
    BY <2>1
  <2> QED  BY <2>2, <2>3
<1>3. /\ invites > 0 /\ invites' = invites - 1 /\ a \notin identities
      /\ identities' = identities \cup {a}
      /\ issued' = issued \cup roots /\ bound' = bound \cup roots
      /\ Send(r, h)
      /\ UNCHANGED <<code, tokenRevoked, revokedCreds, members, plan, consent, status,
                     crashes, published, given>>
  BY <1>1, <1>2 DEF JoinExistingPairing, roomVars, historyVars
<1>4. members # {}
  BY <1>3 DEF IInv, RoomOK
<1>5. RequestsOK' /\ req' \in [Req -> Request]
  <2>1. RequestOK(h)'
    BY <1>1, <1>3, <1>4 DEF RequestOK
  <2>2. \A q \in Req : req[q].at # "initialize"
    BY <1>4 DEF IInv, RequestsOK, RequestOK
  <2> QED  BY <1>3, <2>1, <2>2, RequestsKept DEF IInv
<1>6. TypeOK'
  BY <1>3, <1>5 DEF IInv, TypeOK
<1>7. RoomOK'
  BY <1>3, <1>4 DEF IInv, RoomOK
<1>8. DeadOK'
  <2>1. a \notin tokenRevoked
    BY <1>3 DEF IInv, TypeOK
  <2> QED  BY <1>2, <1>3, <2>1 DEF IInv, DeadOK
<1>9. RowsOK'
  BY <1>3, RowsKept DEF IInv
<1> QED  BY <1>5, <1>6, <1>7, <1>8, <1>9 DEF IInv

LEMMA AddMemberKeepsIInv ==
    ASSUME IInv, NEW r \in Req, AddMember(r)
    PROVE  IInv'
<1>1. PICK a \in Agent : a = req[r].agent
  BY DEF IInv, TypeOK, Request
<1>2. /\ req[r].at = "addMember" /\ Send(r, Idle)
      /\ members' = IF MayJoin(a) THEN members \cup {a} ELSE members
      /\ UNCHANGED <<code, invites, identities, tokenRevoked, issued, bound, revokedCreds>>
      /\ UNCHANGED <<plan, consent, status, crashes, published, given>>
  BY <1>1 DEF AddMember, Turn, Answer, registryVars, historyVars
<1>3. members # {} /\ a \in identities
  BY <1>1, <1>2 DEF IInv, RequestsOK, RequestOK
<1>4. RequestsOK' /\ req' \in [Req -> Request]
  <2>1. \A q \in Req : req[q].at # "initialize"
    BY <1>3 DEF IInv, RequestsOK, RequestOK
  <2>2. RequestOK(Idle)'
    BY IdleType DEF RequestOK
  <2> QED  BY <1>2, <1>3, <2>1, <2>2, IdleType, RequestsKept DEF IInv
<1>5. members' \subseteq identities' /\ Cardinality(members') <= MaxMembers
  BY <1>2, <1>3, MembersBounded DEF IInv, TypeOK
<1>6. TypeOK'
  BY <1>2, <1>4, <1>5 DEF IInv, TypeOK
<1>7. RoomOK' /\ DeadOK'
  BY <1>2, <1>3 DEF IInv, RoomOK, DeadOK
<1>8. RowsOK'
  BY <1>2, RowsKept DEF IInv
<1> QED  BY <1>4, <1>6, <1>7, <1>8 DEF IInv

LEMMA InviteCheckKeepsIInv ==
    ASSUME IInv, NEW r \in Req, InviteCheck(r)
    PROVE  IInv'
<1>1. PICK h \in Request :
          /\ h = IF req[r].agent \in members /\ Cardinality(members) < MaxMembers
                 THEN [req[r] EXCEPT !.at = "createInviteCode"] ELSE Idle
          /\ h.at = "createInviteCode" => members # {}
          /\ h.at \in {"createInviteCode", "idle"}
  <2>1. PICK k \in Request : k = req[r]
    BY DEF IInv, TypeOK
  <2>2. /\ [k EXCEPT !.at = "createInviteCode"] \in Request
        /\ [k EXCEPT !.at = "createInviteCode"].at = "createInviteCode"
    BY DEF Request, Rpc
  <2>3. CASE k.agent \in members /\ Cardinality(members) < MaxMembers
    BY <2>1, <2>2, <2>3
  <2>4. CASE ~(k.agent \in members /\ Cardinality(members) < MaxMembers)
    BY <2>1, <2>4, IdleType
  <2> QED  BY <2>3, <2>4
<1>2. /\ Send(r, h) /\ crashes' = crashes
      /\ UNCHANGED <<registryVars, roomVars, historyVars>>
  BY <1>1 DEF InviteCheck, Turn, Answer
<1>3. RequestOK(h)
  BY <1>1 DEF RequestOK
<1> QED  BY <1>1, <1>2, <1>3, GoesOn DEF IInv, TypeOK

LEMMA CreateInviteKeepsIInv ==
    ASSUME IInv, NEW r \in Req, CreateInviteCode(r)
    PROVE  IInv'
<1>1. /\ req[r].at = "createInviteCode" /\ Send(r, Idle) /\ invites' = invites + 1
      /\ UNCHANGED <<code, identities, tokenRevoked, issued, bound, revokedCreds>>
      /\ UNCHANGED <<members, plan, consent, status, crashes, published, given>>
  BY DEF CreateInviteCode, Turn, Answer, roomVars, historyVars
<1>2. members # {}
  BY <1>1 DEF IInv, RequestsOK, RequestOK
<1>3. RequestsOK' /\ req' \in [Req -> Request]
  <2>1. \A q \in Req : req[q].at # "initialize"
    BY <1>2 DEF IInv, RequestsOK, RequestOK
  <2>2. RequestOK(Idle)'
    BY IdleType DEF RequestOK
  <2> QED  BY <1>1, <2>1, <2>2, IdleType, RequestsKept DEF IInv
<1>4. TypeOK'
  BY <1>1, <1>3 DEF IInv, TypeOK
<1>5. RoomOK' /\ DeadOK'
  BY <1>1, <1>2 DEF IInv, RoomOK, DeadOK
<1>6. RowsOK'
  BY <1>1, RowsKept DEF IInv
<1> QED  BY <1>3, <1>4, <1>5, <1>6 DEF IInv

----------------------------------------------------------------------------
\* Credentials.

\* A child that was attenuated while its agent was revoked is issued dead: its
\* parent existed when the request came in, so the revocation caught it.
LEMMA AttenuateFromKeepsIInv ==
    ASSUME IInv, NEW r \in Req, AttenuateFrom(r)
    PROVE  IInv'
<1>1. /\ req[r].at = "attenuateFrom" /\ Send(r, Idle)
      /\ issued' = issued \cup {req[r].cred}
      /\ bound' = bound \cup BoundAtIssue(req[r].cred)
      /\ UNCHANGED <<code, invites, identities, tokenRevoked, revokedCreds>>
      /\ UNCHANGED <<members, plan, consent, status, crashes, published, given>>
  BY DEF AttenuateFrom, Turn, Answer, roomVars, historyVars
<1>2. PICK c \in Cred, p \in issued :
          c = req[r].cred /\ CredOwner[p] = CredOwner[c] /\ Chain[c] = Chain[p] \cup {p}
  BY <1>1 DEF IInv, RequestsOK, RequestOK
<1>3. RequestsOK' /\ req' \in [Req -> Request]
  <2>1. RequestOK(Idle)'
    BY IdleType DEF RequestOK
  <2>2. \A q \in Req \ {r} : req[q].at = "initialize" => members' = {}
    BY <1>1 DEF IInv, RequestsOK, RequestOK
  <2> QED  BY <1>1, <2>1, <2>2, IdleType, RequestsKept DEF IInv
<1>4. TypeOK'
  BY <1>1, <1>2, <1>3 DEF IInv, TypeOK, BoundAtIssue
<1>5. RoomOK'
  BY <1>1 DEF IInv, RoomOK
<1>6. DeadOK'
  <2>1. ASSUME NEW t \in tokenRevoked, CredOwner[c] = t
        PROVE  (Chain[c] \cup {c}) \cap revokedCreds # {}
    BY <1>2, <2>1 DEF IInv, DeadOK
  <2> QED  BY <1>1, <1>2, <2>1 DEF IInv, DeadOK
<1>7. RowsOK'
  BY <1>1, RowsKept DEF IInv
<1> QED  BY <1>3, <1>4, <1>5, <1>6, <1>7 DEF IInv

----------------------------------------------------------------------------
\* The plan, the consent record and progress.

LEMMA GetMembersKeepsIInv ==
    ASSUME IInv, NEW r \in Req, GetMembers(r)
    PROVE  IInv'
<1>1. PICK k \in Request : k = req[r]
  BY DEF IInv, TypeOK
<1>2. k.at = "getMembers" /\ k.goal \in Goal /\ crashes' = crashes
      /\ UNCHANGED <<registryVars, roomVars, historyVars>>
  BY <1>1 DEF IInv, RequestsOK, RequestOK, GetMembers, Turn
<1>3. CASE members = {}
  <2>1. Send(r, Idle)
    BY <1>3 DEF GetMembers, Answer
  <2> QED  BY <1>2, <2>1, IdleType, GoesOn DEF IInv, TypeOK
<1>4. CASE members # {}
  <2>1. PICK h \in Request : /\ h = [k EXCEPT !.at = "proposePlan", !.seen = members]
                             /\ h.at = "proposePlan" /\ h.goal = k.goal
    <3>1. members \subseteq Agent
      BY DEF IInv, TypeOK
    <3>2. /\ [k EXCEPT !.at = "proposePlan", !.seen = members] \in Request
          /\ [k EXCEPT !.at = "proposePlan", !.seen = members].at = "proposePlan"
          /\ [k EXCEPT !.at = "proposePlan", !.seen = members].goal = k.goal
      BY <3>1 DEF Request, Rpc
    <3> QED  BY <3>2, Zenon
  <2>2. Send(r, h)
    BY <1>1, <1>4, <2>1 DEF GetMembers
  <2>3. RequestOK(h)
    BY <1>2, <2>1 DEF RequestOK
  <2> QED  BY <1>2, <2>1, <2>2, <2>3, GoesOn DEF IInv, TypeOK
<1> QED  BY <1>3, <1>4

\* The frame of a step of the room that is its handler's last, given its rows.
LEMMA RoomAnswers ==
    ASSUME IInv, NEW r \in Req, NEW h \in Request, Send(r, h), RequestOK(h)',
           h.at # "initialize",
           UNCHANGED <<registryVars, members, crashes, given>>,
           plan' \in Plan, consent' \in ConsentRecord, status' \in [Item -> Status],
           published \subseteq published', published' \subseteq Subject,
           RowsOK'
    PROVE  IInv'
<1>1. UNCHANGED <<code, invites, identities, tokenRevoked, issued, bound, revokedCreds>>
  BY DEF registryVars
<1>2. RequestsOK' /\ req' \in [Req -> Request]
  <2>1. \A q \in Req \ {r} : req[q].at = "initialize" => members' = {} /\ h.at # "initialize"
    BY DEF IInv, RequestsOK, RequestOK
  <2> QED  BY <1>1, <2>1, RequestsKept DEF IInv
<1>3. TypeOK'
  BY <1>1, <1>2 DEF IInv, TypeOK
<1>4. RoomOK' /\ DeadOK'
  BY <1>1 DEF IInv, RoomOK, DeadOK
<1> QED  BY <1>2, <1>3, <1>4 DEF IInv

\* A new proposal gets a version no text had before it.
LEMMA ProposePlanKeepsIInv ==
    ASSUME IInv, NEW r \in Req, ProposePlan(r)
    PROVE  IInv'
<1>1. PICK h \in Request : h = req[r]
  BY DEF IInv, TypeOK
<1>2. h.at = "proposePlan" /\ h.goal \in Goal /\ Send(r, Idle)
      /\ UNCHANGED <<registryVars, members, crashes, given>>
  BY <1>1 DEF IInv, RequestsOK, RequestOK, ProposePlan, Answer
<1>3. RequestOK(Idle)'
  BY IdleType DEF RequestOK
<1>4. CASE h.agent \in members /\ \A i \in Item : Owner[h.goal][i] \in members
  <2>1. PICK s \in Subject : s = NextSubject(h.goal) /\ s.version = plan.subject.version + 1
    <3>1. plan.subject.version \in Nat
      BY DEF IInv, TypeOK, Subject, NoSubject, Plan
    <3>2. plan.subject.version + 1 \in Nat \ {0}
      BY <3>1
    <3>3. /\ NextSubject(h.goal) \in Subject
          /\ NextSubject(h.goal).version = plan.subject.version + 1
      BY <1>2, <3>2 DEF NextSubject, Subject
    <3> QED  BY <3>3, Zenon
  <2>2. /\ WritePlan(s) /\ ClearProgress /\ ReopenConsent(s, h.seen)
        /\ published' = published \cup {s}
    BY <1>1, <1>4, <2>1 DEF ProposePlan
  <2>3. /\ plan' \in Plan /\ plan'.subject = s /\ plan'.approvedBy = {} /\ ~plan'.locked
    BY <2>2 DEF WritePlan, Plan
  <2>4. published' \subseteq Subject /\ plan.subject.version \in Nat
    BY <2>2 DEF IInv, TypeOK, Plan, Subject, NoSubject
  <2>5. PlanOK'
    <3>1. \A t \in published : t.version \in Nat /\ t.version <= plan.subject.version
      BY DEF IInv, TypeOK, Subject, RowsOK, PlanOK
    <3>2. /\ \A t \in published : t.version <= s.version /\ t.version # s.version
          /\ s.version <= s.version
      BY <2>1, <2>4, <3>1
    <3>3. \A t \in published' : t.version <= plan'.subject.version
      BY <2>2, <2>3, <3>2, Zenon
    <3>4. \A t, u \in published' : t.version = u.version => t = u
      <4>1. \A t, u \in published : t.version = u.version => t = u
        BY DEF IInv, RowsOK, PlanOK
      <4> QED  BY <2>2, <3>2, <4>1, Zenon
    <3> QED  BY <2>2, <2>3, <3>3, <3>4 DEF PlanOK
  <2>6. AgreementIsInformed'
    BY <2>3 DEF AgreementIsInformed
  <2>7. WorkIsAgreed' /\ status' \in [Item -> Status]
    BY <2>2 DEF WorkIsAgreed, ClearProgress, AllPending, Status
  <2>8. ConsentEvidence' /\ consent' \in ConsentRecord
    <3>1. CASE consent' = consent
      BY <1>2, <3>1 DEF IInv, TypeOK, RowsOK, ConsentEvidence
    <3>2. CASE consent' = OpenConsent(s, h.seen \cap V3)
      <4>1. h.seen \cap V3 \subseteq Agent
        BY DEF Request
      <4>2. consent' \in ConsentRecord
        BY <3>2, <4>1 DEF OpenConsent, ConsentRecord
      <4>3. consent'.approvals = {} /\ ~consent'.satisfied
        BY <3>2 DEF OpenConsent
      <4>4. Principals(consent'.approvals) = {}
        BY <4>3 DEF Principals
      <4> QED  BY <4>2, <4>3, <4>4 DEF ConsentEvidence, IsSatisfied
    <3> QED  BY <2>2, <3>1, <3>2 DEF ReopenConsent
  <2>9. RowsOK'
    BY <2>5, <2>6, <2>7, <2>8 DEF RowsOK
  <2> QED  BY <1>2, <1>3, <2>2, <2>3, <2>4, <2>7, <2>8, <2>9, IdleType, RoomAnswers
<1>5. CASE ~(h.agent \in members /\ \A i \in Item : Owner[h.goal][i] \in members)
  <2>1. UNCHANGED <<plan, status, consent, published>>
    BY <1>1, <1>5 DEF ProposePlan
  <2>2. RowsOK'
    BY <1>2, <2>1, RowsKept DEF IInv
  <2> QED  BY <1>2, <1>3, <2>1, <2>2, IdleType, RoomAnswers DEF IInv, TypeOK
<1> QED  BY <1>4, <1>5

\* Re-approving replaces, so there is one approval per principal.
LEMMA OneApprovalEach ==
    ASSUME TypeOK, ConsentEvidence, NEW ap \in Approval
    PROVE  LET next == WithApproval(consent, ap) IN
           /\ next \in ConsentRecord
           /\ next.subject = consent.subject /\ next.required = consent.required
           /\ \A x \in next.approvals : x = ap \/ x \in consent.approvals
           /\ \A x, y \in next.approvals : x.principal = y.principal => x = y
           /\ next.satisfied <=> IsSatisfied(next.required, next.approvals)
<1> DEFINE kept == {old \in consent.approvals : old.principal # ap.principal} \cup {ap}
<1>1. consent \in ConsentRecord
  BY DEF TypeOK
<1>2. kept \subseteq Approval
  BY <1>1 DEF ConsentRecord
<1>3. /\ WithApproval(consent, ap) \in ConsentRecord
      /\ WithApproval(consent, ap).subject = consent.subject
      /\ WithApproval(consent, ap).required = consent.required
      /\ WithApproval(consent, ap).approvals = kept
      /\ WithApproval(consent, ap).satisfied <=> IsSatisfied(consent.required, kept)
  BY <1>1, <1>2, WithApprovalsFields DEF WithApproval
<1> QED  BY <1>2, <1>3 DEF ConsentEvidence

\* Withdrawing and revoking take approvals away.
LEMMA FewerApprovals ==
    ASSUME TypeOK, ConsentEvidence, NEW left \in SUBSET consent.approvals,
           consent' = WithApprovals(consent, left), given' = given
    PROVE  consent' \in ConsentRecord /\ ConsentEvidence'
<1>1. consent \in ConsentRecord /\ left \in SUBSET Approval
  BY DEF TypeOK, ConsentRecord
<1>2. /\ consent' \in ConsentRecord
      /\ consent'.subject = consent.subject /\ consent'.required = consent.required
      /\ consent'.approvals = left
      /\ consent'.satisfied <=> IsSatisfied(consent.required, left)
  BY <1>1, WithApprovalsFields
<1>3. \A ap \in left :
          /\ ap.principal \in consent.required
          /\ CredOwner[ap.credential] = ap.principal
          /\ VerifyApprovalSignature(ap.credential, ap.sig, consent.subject)
          /\ [agent |-> ap.principal, subject |-> consent.subject] \in given
  BY DEF ConsentEvidence
<1>4. \A x, y \in left : x.principal = y.principal => x = y
  BY DEF ConsentEvidence
<1> QED  BY <1>2, <1>3, <1>4 DEF ConsentEvidence

\* The version decides which text an approval is for, and a version names one
\* text, which is the one its human read.
LEMMA ApprovePlanKeepsIInv ==
    ASSUME IInv, NEW r \in Req, ApprovePlan(r)
    PROVE  IInv'
<1>1. PICK h \in Request : h = req[r]
  BY DEF IInv, TypeOK
<1>2. /\ h.at = "approvePlan" /\ Send(r, Idle)
      /\ UNCHANGED <<registryVars, members, status, crashes, published, given>>
  BY <1>1 DEF ApprovePlan, Turn, Answer, historyVars
<1>3. /\ h.subject \in published /\ h.subject \in Subject /\ h.agent \in Agent
      /\ [agent |-> h.agent, subject |-> h.subject] \in given
      /\ h.cred # NoCred => h.cred \in Cred /\ CredOwner[h.cred] = h.agent
  BY <1>1, <1>2 DEF IInv, RequestsOK, RequestOK, TypeOK, Request
<1>4. RequestOK(Idle)'
  BY IdleType DEF RequestOK
<1>5. CASE h.agent \in members /\ NamesCurrent(h.subject)
  <2>1. PICK approvedBy \in SUBSET Agent : approvedBy = plan.approvedBy \cup {h.agent}
    BY <1>3 DEF IInv, TypeOK, Plan
  <2>2. plan' = [plan EXCEPT !.approvedBy = approvedBy, !.locked = Unanimous(approvedBy)]
    BY <1>1, <1>5, <2>1 DEF ApprovePlan
  <2>3. /\ plan' \in Plan /\ plan'.subject = plan.subject /\ plan'.approvedBy = approvedBy
        /\ plan'.locked <=> Unanimous(approvedBy)
    <3>1. plan \in Plan
      BY DEF IInv, TypeOK
    <3>2. Unanimous(approvedBy) \in BOOLEAN
      BY DEF Unanimous
    <3> QED  BY <2>2, <3>1, <3>2 DEF Plan
  <2>4. h.subject = plan.subject
    BY <1>3, <1>5 DEF NamesCurrent, IInv, RowsOK, PlanOK
  <2>5. PlanOK'
    BY <1>2, <2>3 DEF IInv, RowsOK, PlanOK, Exists
  <2>6. AgreementIsInformed'
    <3>1. \A a \in approvedBy : [agent |-> a, subject |-> plan.subject] \in given
      BY <1>3, <2>1, <2>4 DEF IInv, RowsOK, AgreementIsInformed
    <3>2. Unanimous(approvedBy) => Founders \subseteq approvedBy
      BY <1>5 DEF Unanimous, IInv, RoomOK
    <3> QED  BY <1>2, <2>3, <3>1, <3>2 DEF AgreementIsInformed
  <2>7. WorkIsAgreed'
    BY <1>2, <2>3 DEF IInv, RowsOK, WorkIsAgreed
  <2>8. consent' \in ConsentRecord /\ ConsentEvidence'
    <3>1. CASE consent' = consent
      BY <1>2, <3>1 DEF IInv, TypeOK, RowsOK, ConsentEvidence
    <3>2. CASE consent' # consent
      <4>1. PICK ap \in Approval :
                /\ ap = SignedApproval(h.agent, h.cred, h.subject)
                /\ ap.principal = h.agent /\ ap.credential = h.cred
                /\ VerifyApprovalSignature(ap.credential, ap.sig, h.subject)
                /\ h.cred # NoCred
        <5>1. h.cred # NoCred
          BY <1>1, <1>5, <3>2 DEF ApprovePlan
        <5>2. SignedApproval(h.agent, h.cred, h.subject) \in Approval
          BY <1>3, <5>1 DEF SignedApproval, Approval, Signature
        <5>3. /\ SignedApproval(h.agent, h.cred, h.subject).principal = h.agent
              /\ SignedApproval(h.agent, h.cred, h.subject).credential = h.cred
              /\ VerifyApprovalSignature(h.cred, SignedApproval(h.agent, h.cred, h.subject).sig,
                                         h.subject)
          BY DEF SignedApproval, VerifyApprovalSignature
        <5> QED  BY <5>1, <5>2, <5>3, Zenon
      <4>2. consent' = WithApproval(consent, ap) /\ MayApprove(consent, h.cred, ap.sig)
        BY <1>1, <1>5, <3>2, <4>1 DEF ApprovePlan
      <4>3. h.agent \in consent.required /\ h.subject = consent.subject
        BY <1>3, <4>1, <4>2 DEF MayApprove, VerifyApprovalSignature
      <4>4. /\ consent' \in ConsentRecord
            /\ consent'.subject = consent.subject /\ consent'.required = consent.required
            /\ \A x \in consent'.approvals : x = ap \/ x \in consent.approvals
            /\ \A x, y \in consent'.approvals : x.principal = y.principal => x = y
            /\ consent'.satisfied <=> IsSatisfied(consent'.required, consent'.approvals)
        BY <4>2, OneApprovalEach DEF IInv, RowsOK
      <4>5. \A x \in consent'.approvals :
                /\ x.principal \in consent.required
                /\ CredOwner[x.credential] = x.principal
                /\ VerifyApprovalSignature(x.credential, x.sig, consent.subject)
                /\ [agent |-> x.principal, subject |-> consent.subject] \in given
        <5>1. \A x \in consent.approvals :
                  /\ x.principal \in consent.required
                  /\ CredOwner[x.credential] = x.principal
                  /\ VerifyApprovalSignature(x.credential, x.sig, consent.subject)
                  /\ [agent |-> x.principal, subject |-> consent.subject] \in given
          BY DEF IInv, RowsOK, ConsentEvidence
        <5>2. /\ ap.principal \in consent.required
              /\ CredOwner[ap.credential] = ap.principal
              /\ VerifyApprovalSignature(ap.credential, ap.sig, consent.subject)
              /\ [agent |-> ap.principal, subject |-> consent.subject] \in given
          BY <1>3, <4>1, <4>3
        <5> QED  BY <4>4, <5>1, <5>2
      <4> QED  BY <1>2, <4>4, <4>5 DEF ConsentEvidence
    <3> QED  BY <3>1, <3>2
  <2>9. RowsOK'
    BY <2>5, <2>6, <2>7, <2>8 DEF RowsOK
  <2> QED  BY <1>2, <1>4, <2>3, <2>8, <2>9, IdleType, RoomAnswers DEF IInv, TypeOK
<1>6. CASE ~(h.agent \in members /\ NamesCurrent(h.subject))
  <2>1. UNCHANGED <<plan, consent>>
    BY <1>1, <1>6 DEF ApprovePlan
  <2>2. RowsOK'
    BY <1>2, <2>1, RowsKept DEF IInv
  <2> QED  BY <1>2, <1>4, <2>1, <2>2, IdleType, RoomAnswers DEF IInv, TypeOK
<1> QED  BY <1>5, <1>6

LEMMA WithdrawKeepsIInv ==
    ASSUME IInv, NEW r \in Req, WithdrawConsent(r)
    PROVE  IInv'
<1>1. /\ Send(r, Idle)
      /\ UNCHANGED <<registryVars, members, plan, status, crashes, published, given>>
  BY DEF WithdrawConsent, Turn, Answer, historyVars
<1>2. consent' \in ConsentRecord /\ ConsentEvidence'
  <2>1. CASE Exists(consent)
    BY <1>1, <2>1, FewerApprovals
       DEF IInv, RowsOK, WithdrawConsent, WithoutPrincipal
  <2>2. CASE ~Exists(consent)
    BY <1>1, <2>2 DEF IInv, TypeOK, RowsOK, ConsentEvidence, WithdrawConsent
  <2> QED  BY <2>1, <2>2
<1>3. PlanOK' /\ AgreementIsInformed' /\ WorkIsAgreed'
  BY <1>1 DEF IInv, RowsOK, PlanOK, Exists, AgreementIsInformed, WorkIsAgreed
<1>4. RequestOK(Idle)'
  BY IdleType DEF RequestOK
<1> QED  BY <1>1, <1>2, <1>3, <1>4, IdleType, RoomAnswers DEF IInv, TypeOK, RowsOK

\* Progress is written against a locked plan only.
LEMMA UpdateItemKeepsIInv ==
    ASSUME IInv, NEW r \in Req, UpdateItemStatus(r)
    PROVE  IInv'
<1>1. PICK h \in Request : h = req[r]
  BY DEF IInv, TypeOK
<1>2. /\ Send(r, Idle)
      /\ UNCHANGED <<registryVars, members, plan, consent, crashes, published, given>>
      /\ status' = [i \in Item |-> IF i \in h.item /\ MayUpdate(h.agent, i, h.to)
                                   THEN h.to ELSE status[i]]
  BY <1>1 DEF UpdateItemStatus, Turn, Answer, historyVars
<1>3. status' \in [Item -> Status]
  BY <1>2 DEF IInv, TypeOK, Request
<1>4. WorkIsAgreed'
  <2>1. CASE plan.locked
    BY <1>2, <2>1 DEF IInv, RowsOK, AgreementIsInformed, WorkIsAgreed
  <2>2. CASE ~plan.locked
    <3>1. \A i \in Item : status'[i] = status[i]
      BY <1>2, <2>2 DEF MayUpdate
    <3>2. status' = status
      BY <1>3, <3>1 DEF IInv, TypeOK
    <3> QED  BY <1>2, <3>2 DEF IInv, RowsOK, WorkIsAgreed
  <2> QED  BY <2>1, <2>2
<1>5. PlanOK' /\ AgreementIsInformed' /\ ConsentEvidence'
  BY <1>2 DEF IInv, RowsOK, PlanOK, Exists, AgreementIsInformed, ConsentEvidence
<1>6. RequestOK(Idle)'
  BY IdleType DEF RequestOK
<1> QED  BY <1>2, <1>3, <1>4, <1>5, <1>6, IdleType, RoomAnswers DEF IInv, TypeOK, RowsOK

----------------------------------------------------------------------------
\* Revoking.

LEMMA NextTargetOK ==
    ASSUME NEW h \in Request, NEW targets \in SUBSET Agent
    PROVE  /\ NextTarget(h, targets) \in Request
           /\ NextTarget(h, targets).at \in {"idle", "revokeAgent"}
           /\ NextTarget(h, targets).at = "revokeAgent" => NextTarget(h, targets).targets = targets
<1>1. CASE targets = {}
  BY <1>1, IdleType DEF NextTarget
<1>2. CASE targets # {}
  BY <1>2 DEF NextTarget, Request, Rpc
<1> QED  BY <1>1, <1>2

LEMMA RevokeCheckKeepsIInv ==
    ASSUME IInv, NEW r \in Req, RevokeCheck(r)
    PROVE  IInv'
<1>1. PICK k \in Request : k = req[r]
  BY DEF IInv, TypeOK
<1>2. members \subseteq identities /\ identities \subseteq Agent
  BY DEF IInv, TypeOK
<1>3. PICK targets \in SUBSET Agent :
          /\ targets \subseteq identities
          /\ targets = IF k.targets = {} THEN members \ {k.agent} ELSE k.targets \cap members
  BY <1>2
<1>4. PICK h \in Request :
          /\ h = IF k.agent \in members THEN NextTarget(k, targets) ELSE Idle
          /\ h.at \in {"idle", "revokeAgent"}
          /\ h.at = "revokeAgent" => h.targets = targets
  BY IdleType, NextTargetOK
<1>5. Send(r, h) /\ crashes' = crashes /\ UNCHANGED <<registryVars, roomVars, historyVars>>
  BY <1>1, <1>3, <1>4 DEF RevokeCheck, Turn
<1>6. RequestOK(h)
  BY <1>3, <1>4 DEF RequestOK
<1> QED  BY <1>4, <1>5, <1>6, GoesOn DEF IInv, TypeOK

\* A revocation catches every credential its agent has at that moment.
LEMMA RevokeAgentKeepsIInv ==
    ASSUME IInv, NEW r \in Req, RevokeAgent(r)
    PROVE  IInv'
<1>1. PICK k \in Request : k = req[r]
  BY DEF IInv, TypeOK
<1>2. k.at = "revokeAgent" /\ k.targets \subseteq identities
  BY <1>1 DEF IInv, RequestsOK, RequestOK, RevokeAgent, Turn
<1>3. PICK t \in k.targets :
          /\ tokenRevoked' = tokenRevoked \cup {t}
          /\ revokedCreds' = revokedCreds \cup RevokedNow(t)
          /\ Send(r, IF RevokedNow(t) # {}
                     THEN [k EXCEPT !.at = "withdrawByCredentials",
                                    !.targets = @ \ {t}, !.dead = RevokedNow(t)]
                     ELSE NextTarget(k, k.targets \ {t}))
  BY <1>1 DEF RevokeAgent
<1>4. /\ UNCHANGED <<code, invites, identities, issued, bound>>
      /\ UNCHANGED <<members, plan, consent, status, crashes, published, given>>
  BY DEF RevokeAgent, Turn, roomVars, historyVars
<1>5. PICK dead \in SUBSET Cred : dead = RevokedNow(t) /\ dead \subseteq issued
  BY DEF IInv, TypeOK, RevokedNow
<1>6. PICK left \in SUBSET Agent : left = k.targets \ {t} /\ left \subseteq identities
  <2>1. k.targets \ {t} \in SUBSET Agent /\ k.targets \ {t} \subseteq identities
    BY <1>2 DEF Request
  <2> QED  BY <2>1, Zenon
<1>7. PICK h \in Request :
          /\ Send(r, h)
          /\ h.at \in {"idle", "revokeAgent", "withdrawByCredentials"}
          /\ h.at \in {"revokeAgent", "withdrawByCredentials"} => h.targets = left
  <2>1. CASE dead # {}
    <3>1. [k EXCEPT !.at = "withdrawByCredentials", !.targets = left, !.dead = dead] \in Request
      BY DEF Request, Rpc
    <3>2. PICK h \in Request :
              h = [k EXCEPT !.at = "withdrawByCredentials", !.targets = left, !.dead = dead]
      BY <3>1, Zenon
    <3>3. h.at = "withdrawByCredentials" /\ h.targets = left
      BY <3>2 DEF Request
    <3>4. Send(r, h)
      BY <1>3, <1>5, <1>6, <2>1, <3>2
    <3> QED  BY <3>3, <3>4
  <2>2. CASE dead = {}
    BY <1>3, <1>5, <1>6, <2>2, NextTargetOK
  <2> QED  BY <2>1, <2>2
<1>8. RequestsOK' /\ req' \in [Req -> Request]
  <2>1. RequestOK(h)'
    BY <1>4, <1>6, <1>7 DEF RequestOK
  <2>2. \A q \in Req \ {r} : req[q].at = "initialize" => members' = {} /\ h.at # "initialize"
    BY <1>4, <1>7 DEF IInv, RequestsOK, RequestOK
  <2> QED  BY <1>4, <1>7, <2>1, <2>2, RequestsKept DEF IInv
<1>9. TypeOK'
  BY <1>2, <1>3, <1>4, <1>5, <1>8 DEF IInv, TypeOK
<1>10. RoomOK'
  BY <1>4 DEF IInv, RoomOK
<1>11. DeadOK'
  <2>1. ASSUME NEW u \in tokenRevoked', NEW c \in issued, CredOwner[c] = u
        PROVE  (Chain[c] \cup {c}) \cap revokedCreds' # {}
    <3>1. CASE u \in tokenRevoked
      BY <1>3, <2>1, <3>1 DEF IInv, DeadOK
    <3>2. CASE u \notin tokenRevoked
      <4>1. u = t
        BY <1>3, <3>2
      <4>2. c \in revokedCreds \/ c \in RevokedNow(t)
        BY <2>1, <3>2, <4>1 DEF RevokedNow
      <4> QED  BY <1>3, <4>2
    <3> QED  BY <3>1, <3>2
  <2> QED  BY <1>4, <2>1 DEF DeadOK
<1>12. RowsOK'
  BY <1>4, RowsKept DEF IInv
<1> QED  BY <1>8, <1>9, <1>10, <1>11, <1>12 DEF IInv

LEMMA WithdrawByCredentialsKeepsIInv ==
    ASSUME IInv, NEW r \in Req, WithdrawByCredentials(r)
    PROVE  IInv'
<1>1. PICK k \in Request : k = req[r]
  BY DEF IInv, TypeOK
<1>2. /\ k.targets \subseteq identities /\ k.targets \in SUBSET Agent
      /\ UNCHANGED <<registryVars, members, plan, status, crashes, published, given>>
      /\ Send(r, NextTarget(k, k.targets))
  BY <1>1 DEF IInv, RequestsOK, RequestOK, TypeOK, Request, WithdrawByCredentials, Turn,
              historyVars
<1>3. PICK h \in Request : /\ Send(r, h) /\ h.at \in {"idle", "revokeAgent"}
                           /\ h.at = "revokeAgent" => h.targets = k.targets
  BY <1>2, NextTargetOK
<1>4. consent' \in ConsentRecord /\ ConsentEvidence'
  <2>1. CASE Exists(consent)
    BY <1>2, <2>1, FewerApprovals
       DEF IInv, RowsOK, WithdrawByCredentials, WithoutCredentials
  <2>2. CASE ~Exists(consent)
    BY <1>2, <2>2 DEF IInv, TypeOK, RowsOK, ConsentEvidence, WithdrawByCredentials
  <2> QED  BY <2>1, <2>2
<1>5. PlanOK' /\ AgreementIsInformed' /\ WorkIsAgreed'
  BY <1>2 DEF IInv, RowsOK, PlanOK, Exists, AgreementIsInformed, WorkIsAgreed
<1>6. RequestOK(h)'
  BY <1>2, <1>3 DEF RequestOK, registryVars
<1> QED  BY <1>2, <1>3, <1>4, <1>5, <1>6, RoomAnswers DEF IInv, TypeOK, RowsOK

LEMMA CrashKeepsIInv ==
    ASSUME IInv, NEW r \in Req, Crash(r)
    PROVE  IInv'
<1>1. Send(r, Idle) /\ UNCHANGED <<registryVars, roomVars, historyVars>> /\ crashes' \in Nat
  BY DEF IInv, TypeOK, Crash, Answer
<1> QED  BY <1>1, IdleType, GoesOn

----------------------------------------------------------------------------
LEMMA NextKeepsIInv == IInv /\ [Next]_vars => IInv'
<1> SUFFICES ASSUME IInv, [Next]_vars PROVE IInv'
  OBVIOUS
<1>1. ASSUME NEW r \in Req, Registry(r)
      PROVE  IInv'
  BY <1>1, CreateInviteKeepsIInv, AttenuateFromKeepsIInv, RevokeAgentKeepsIInv DEF Registry
<1>2. ASSUME NEW r \in Req, Room(r)
      PROVE  IInv'
  BY <1>2, InitializeKeepsIInv, AddMemberKeepsIInv, InviteCheckKeepsIInv,
     GetMembersKeepsIInv, ProposePlanKeepsIInv, ApprovePlanKeepsIInv, UpdateItemKeepsIInv,
     WithdrawKeepsIInv, RevokeCheckKeepsIInv, WithdrawByCredentialsKeepsIInv DEF Room
<1>3. ASSUME NEW r \in Req, Crash(r)
      PROVE  IInv'
  BY <1>3, CrashKeepsIInv
<1>4. ASSUME NEW r \in Req, NEW a \in Agent,
             \/ JoinPairing(r, a) \/ JoinExistingPairing(r, a)
             \/ \E s \in published, c \in Cred \cup {NoCred} : AcceptApprove(r, a, s, c)
      PROVE  IInv'
  BY <1>4, JoinPairingKeepsIInv, JoinExistingKeepsIInv, AcceptApproveKeepsIInv
<1>5. ASSUME NEW r \in Req, NEW a \in Agent,
             \/ AcceptInvite(r, a) \/ AcceptWithdraw(r, a)
             \/ \E g \in Goal : AcceptPropose(r, a, g)
             \/ \E i \in Item, to \in Status : AcceptItemStatus(r, a, i, to)
             \/ \E targets \in SUBSET Agent : AcceptRevoke(r, a, targets)
      PROVE  IInv'
  BY <1>5, ArrivalsKeepIInv
<1>6. ASSUME NEW r \in Req, NEW p \in Cred, NEW child \in Cred, AcceptAttenuate(r, p, child)
      PROVE  IInv'
  BY <1>6, AcceptAttenuateKeepsIInv
<1>7. CASE UNCHANGED vars
  <2>1. /\ UNCHANGED <<code, invites, identities, tokenRevoked, issued, bound, revokedCreds>>
        /\ UNCHANGED <<members, plan, consent, status, req, crashes, published, given>>
    BY <1>7 DEF vars, registryVars, roomVars, historyVars
  <2>2. TypeOK' /\ RoomOK' /\ DeadOK'
    BY <2>1 DEF IInv, TypeOK, RoomOK, DeadOK
  <2>3. RequestsOK'
    BY <2>1 DEF IInv, RequestsOK, RequestOK
  <2>4. RowsOK'
    BY <2>1, RowsKept DEF IInv
  <2> QED  BY <2>2, <2>3, <2>4 DEF IInv
<1>8. CASE Next
  BY <1>1, <1>2, <1>3, <1>4, <1>5, <1>6, <1>8 DEF Next
<1> QED  BY <1>7, <1>8

LEMMA Invariance == Spec => []IInv
<1>1. IInv /\ [Next]_vars => IInv'
  BY NextKeepsIInv
<1> QED  BY InitIInv, <1>1, PTL DEF Spec

----------------------------------------------------------------------------
\* Every row of the Registry and the PairingRoom and every handler between two
\* RPCs has its type; in particular racing invites never admit more than
\* MAX_MEMBERS.
THEOREM TypeCorrect == Spec => []TypeOK
<1>1. IInv => TypeOK
  BY DEF IInv
<1> QED  BY Invariance, <1>1, PTL

\* Once revokeAgent has run for an agent nothing it holds authenticates, not
\* even a credential that was being attenuated meanwhile.
THEOREM RevocationIsFinal == Spec => []RevokedIsDead
<1>1. IInv => RevokedIsDead
  BY DEF IInv, DeadOK, RevokedIsDead, Authenticates, Verifies
<1> QED  BY Invariance, <1>1, PTL

\* approvePlan in the room puts into the consent record only what the principal
\* signed over the record's own text and version, after reading them.
THEOREM ConsentIsEvidence == Spec => []ConsentEvidence
<1>1. IInv => ConsentEvidence
  BY DEF IInv, RowsOK
<1> QED  BY Invariance, <1>1, PTL

\* An approval never attaches to a text its human did not read, and a locked
\* plan was approved by both founders, however handlers interleave or die.
THEOREM AgreementIsAlwaysInformed == Spec => []AgreementIsInformed
<1>1. IInv => AgreementIsInformed
  BY DEF IInv, RowsOK
<1> QED  BY Invariance, <1>1, PTL

\* Progress is only ever reported against a text both founders agreed to.
THEOREM WorkIsAlwaysAgreed == Spec => []WorkIsAgreed
<1>1. IInv => WorkIsAgreed
  BY DEF IInv, RowsOK
<1> QED  BY Invariance, <1>1, PTL

=============================================================================
