------------------------- MODULE AgentSessionProofs -------------------------
(***************************************************************************)
(* What holds of one MCP server process for any number of tool calls under *)
(* way, of identities and of changes at the relay; and, in the second part,*)
(* of the usage such processes report and the budget they set.             *)
(***************************************************************************)
EXTENDS AgentSession, UsageRunway, FiniteSetTheorems, TLAPS

----------------------------------------------------------------------------
\* The inductive invariant.

\* One call: it has an answer when it is over, and one that is past the check of
\* consent saw an agreement.
AnsweredOK(h) == (h.answer = "none") = (h.at # "done")
GateOK(h) ==
    relay = "node" /\ h.tool = "run_shared_command" /\ ~h.self
        /\ h.at \in {"docker", "running", "exited", "killed"} => h.agreed
CallOK(h) == AnsweredOK(h) /\ GateOK(h)
CallsOK == call \in [Call -> Handler] /\ \A c \in Call : CallOK(call[c])

\* On the Node relay a revoked peer and an agreement exclude each other.
SidesOK == relay = "node" => \A k \in Identity : side[k].revoked => ~side[k].satisfied

\* Everything but the calls.
RelayOK ==
    /\ relay \in {"node", "cloud"}
    /\ session \in Session /\ identities \in Identity
    /\ row \in [Identity -> SUBSET Scope] /\ side \in [Identity -> Side]
    /\ changes \in 0..MaxChanges
    /\ given \in [Identity -> SUBSET Scope]
    /\ SidesOK

IInv == RelayOK /\ CallsOK

LEMMA InvImplies == IInv => TypeOK /\ GateSawAgreement
<1> SUFFICES ASSUME IInv PROVE TypeOK /\ GateSawAgreement
  OBVIOUS
<1>1. call \in [Call -> Handler]
  BY DEF IInv, CallsOK, CallOK
<1>2. \A c \in Call : (call[c].answer = "none") = (call[c].at # "done")
  BY DEF IInv, CallsOK, CallOK, AnsweredOK
<1>3. GateSawAgreement
  BY DEF IInv, CallsOK, CallOK, GateOK, GateSawAgreement
<1> QED  BY <1>1, <1>2, <1>3 DEF IInv, RelayOK, TypeOK

----------------------------------------------------------------------------
LEMMA FirstIdentity == 1 \in Identity /\ Identity \subseteq Nat
  BY AgentSessionAssumption DEF Identity

LEMMA RootType == \A k \in Identity : Root(k) \in Credential
  BY DEF Root, Credential

LEMMA IdleType ==
    /\ Idle \in Handler /\ Idle.at = "idle" /\ Idle.answer = "none"
    /\ Idle.tool = "run_shared_command"
<1>1. Root(1) \in Credential /\ 1 \in Identity /\ 0 \in 0..MaxIdentities
  BY FirstIdentity, RootType, AgentSessionAssumption
<1> QED  BY <1>1 DEF Idle, Handler, Stage, Tool

\* A step of one call leaves the others where they are.
LEMMA CallMoves ==
    ASSUME CallsOK, NEW c \in Call, NEW h \in Handler, AnsweredOK(h), GateOK(h),
           relay' = relay, call' = [call EXCEPT ![c] = h]
    PROVE  CallsOK'
<1>1. /\ call' \in [Call -> Handler] /\ call'[c] = h
      /\ \A d \in Call \ {c} : call'[d] = call[d]
  BY DEF CallsOK
<1>2. ASSUME NEW k, GateOK(k)
      PROVE  GateOK(k)'
  BY <1>2 DEF GateOK
<1>3. CallOK(h)'
  BY <1>2 DEF CallOK, AnsweredOK
<1>4. ASSUME NEW d \in Call, d # c
      PROVE  CallOK(call[d])'
  <2>1. PICK k \in Handler : k = call[d] /\ CallOK(k)
    BY DEF CallsOK, CallOK
  <2>2. CallOK(k)'
    BY <1>2, <2>1 DEF CallOK, AnsweredOK
  <2> QED  BY <1>1, <1>4, <2>1, <2>2
<1>5. \A d \in Call : CallOK(call[d])'
  BY <1>1, <1>3, <1>4
<1> QED  BY <1>1, <1>5 DEF CallsOK

LEMMA CallsKept ==
    ASSUME CallsOK, UNCHANGED <<relay, call>>
    PROVE  CallsOK'
  BY DEF CallsOK, CallOK, AnsweredOK, GateOK

\* A handler that returns keeps nothing but how its command ended.
LEMMA Answered ==
    ASSUME CallsOK, NEW c \in Call, NEW kind \in {"ok", "refused"}, Answer(c, kind),
           relay' = relay
    PROVE  CallsOK'
<1>1. PICK k \in Handler : k = call[c]
  BY DEF CallsOK, CallOK
<1>2. k.timedOut \in BOOLEAN /\ k.finished \in BOOLEAN
  BY DEF Handler
<1>3. [Idle EXCEPT !.at = "done", !.answer = kind, !.timedOut = k.timedOut,
                   !.finished = k.finished] \in Handler
  BY <1>2, IdleType DEF Handler, Stage
<1>4. PICK h \in Handler : h = [Idle EXCEPT !.at = "done", !.answer = kind,
                                !.timedOut = k.timedOut, !.finished = k.finished]
  BY <1>3, Zenon
<1>5. h.at = "done" /\ h.answer = kind
  BY <1>4, IdleType DEF Handler
<1>6. AnsweredOK(h) /\ GateOK(h)
  BY <1>5 DEF AnsweredOK, GateOK
<1>7. call' = [call EXCEPT ![c] = h]
  BY <1>1, <1>4 DEF Answer
<1> QED  BY <1>6, <1>7, CallMoves

----------------------------------------------------------------------------
LEMMA InitIInv == Init => IInv
<1> SUFFICES ASSUME Init PROVE IInv
  OBVIOUS
<1>1. PICK joined \in BOOLEAN :
          /\ session = [cred |-> Root(1), key |-> 1, pairing |-> IF joined THEN 1 ELSE 0,
                        scope |-> Scope]
          /\ side = [k \in Identity |-> NewSide(joined)]
  BY DEF Init
<1>2. session \in Session
  <2>1. Root(1) \in Credential /\ 1 \in Identity /\ {0, 1} \subseteq 0..MaxIdentities
    BY FirstIdentity, RootType, AgentSessionAssumption
  <2> QED  BY <1>1, <2>1 DEF Session
<1>3. side \in [Identity -> Side] /\ SidesOK
  BY <1>1 DEF NewSide, Side, SidesOK
<1>4. RelayOK
  BY <1>2, <1>3, FirstIdentity, AgentSessionAssumption DEF Init, RelayOK
<1>5. AnsweredOK(Idle) /\ GateOK(Idle)
  BY IdleType DEF AnsweredOK, GateOK
<1>6. CallsOK
  BY <1>5, IdleType DEF Init, CallsOK, CallOK
<1> QED  BY <1>4, <1>6 DEF IInv

----------------------------------------------------------------------------
\* The steps of the calls.

\* Before its check of consent a call has nothing to answer for.
LEMMA Early ==
    ASSUME NEW h \in Handler, h.answer = "none",
           h.at \in {"idle", "renewing", "asking", "consent"}
    PROVE  AnsweredOK(h) /\ GateOK(h)
  BY DEF AnsweredOK, GateOK

LEMMA Unanswered ==
    ASSUME CallsOK, NEW c \in Call, call[c].at # "done"
    PROVE  call[c].answer = "none"
  BY DEF CallsOK, CallOK, AnsweredOK

LEMMA StartsKeepIInv ==
    ASSUME IInv, NEW c \in Call, NEW tool \in Tool,
           \/ StartPairing(c, tool)
           \/ \E self \in BOOLEAN, keep \in SUBSET Scope : Start(c, tool, self, keep)
    PROVE  IInv'
<1>1. PICK k \in Handler : k = call[c] /\ k.at = "idle" /\ k.answer = "none"
  BY Unanswered DEF IInv, CallsOK, StartPairing, Start
<1>2. RelayOK'
  BY DEF IInv, RelayOK, SidesOK, StartPairing, Start, Outside
<1>3. CASE StartPairing(c, tool)
  <2>1. /\ [k EXCEPT !.tool = tool, !.at = "asking"] \in Handler
        /\ [k EXCEPT !.tool = tool, !.at = "asking"].at = "asking"
        /\ [k EXCEPT !.tool = tool, !.at = "asking"].answer = "none"
    BY <1>1 DEF Handler, Stage
  <2>2. PICK h \in Handler : /\ h = [k EXCEPT !.tool = tool, !.at = "asking"]
                             /\ h.at = "asking" /\ h.answer = "none"
    BY <2>1, Zenon
  <2>3. relay' = relay /\ call' = [call EXCEPT ![c] = h]
    BY <1>1, <1>3, <2>2 DEF StartPairing, Outside
  <2> QED  BY <1>2, <2>2, <2>3, Early, CallMoves DEF IInv
<1>4. ASSUME NEW self \in BOOLEAN, NEW keep \in SUBSET Scope, Start(c, tool, self, keep)
      PROVE  IInv'
  <2>1. PICK s \in Session : s = session
    BY DEF IInv, RelayOK
  <2>2. PICK at \in {"asking", "renewing"}, scope \in SUBSET Scope :
            /\ at = IF s.cred.fresh THEN "asking" ELSE "renewing"
            /\ scope = IF s.cred.fresh THEN {} ELSE s.scope
    BY DEF Session
  <2>3. s.cred \in Credential /\ s.key \in Identity /\ s.pairing \in 0..MaxIdentities
    BY DEF Session
  <2>4. /\ [k EXCEPT !.tool = tool, !.self = self, !.pairing = s.pairing, !.cred = s.cred,
                     !.key = s.key, !.keep = keep, !.at = at, !.scope = scope] \in Handler
        /\ [k EXCEPT !.tool = tool, !.self = self, !.pairing = s.pairing, !.cred = s.cred,
                     !.key = s.key, !.keep = keep, !.at = at, !.scope = scope].at = at
        /\ [k EXCEPT !.tool = tool, !.self = self, !.pairing = s.pairing, !.cred = s.cred,
                     !.key = s.key, !.keep = keep, !.at = at, !.scope = scope].answer = "none"
    BY <1>1, <2>3 DEF Handler, Stage
  <2>5. PICK h \in Handler :
            /\ h = [k EXCEPT !.tool = tool, !.self = self, !.pairing = s.pairing,
                             !.cred = s.cred, !.key = s.key, !.keep = keep, !.at = at,
                             !.scope = scope]
            /\ h.at = at /\ h.answer = "none"
    BY <2>4, Zenon
  <2>6. relay' = relay /\ call' = [call EXCEPT ![c] = h]
    <3>1. /\ relay' = relay
          /\ call' = [call EXCEPT ![c].tool = tool, ![c].self = self,
                        ![c].pairing = s.pairing, ![c].cred = s.cred, ![c].key = s.key,
                        ![c].keep = keep, ![c].at = at, ![c].scope = scope]
      BY <1>4, <2>1, <2>2, Zenon DEF Start, Outside
    <3> QED  BY <1>1, <2>5, <3>1
  <2> QED  BY <1>2, <2>5, <2>6, Early, CallMoves DEF IInv
<1> QED  BY <1>3, <1>4

LEMMA RenewKeepsIInv ==
    ASSUME IInv, NEW c \in Call, Renew(c)
    PROVE  IInv'
<1>1. PICK k \in Handler : k = call[c] /\ k.at = "renewing" /\ k.answer = "none"
  BY Unanswered DEF IInv, CallsOK, Renew
<1>2. PICK s \in Session : s = session
  BY DEF IInv, RelayOK
<1>3. Renewed(k) \in Session
  <2>1. k.cred \in Credential /\ k.scope \in SUBSET Scope
    BY DEF Handler
  <2>2. [of |-> k.cred.of, cap |-> k.scope, fresh |-> TRUE] \in Credential
    BY <2>1 DEF Credential
  <2>3. [s EXCEPT !.cred = [of |-> k.cred.of, cap |-> k.scope, fresh |-> TRUE]] \in Session
    BY <2>2 DEF Session
  <2> QED  BY <1>2, <2>3 DEF Renewed
<1>4. PICK t \in Session : t = session'
  BY <1>1, <1>2, <1>3 DEF Renew
<1>5. RelayOK'
  BY <1>4 DEF IInv, RelayOK, SidesOK, Renew, Outside
<1>6. t.cred \in Credential /\ t.key \in Identity
  BY DEF Session
<1>7. /\ [k EXCEPT !.at = "asking", !.scope = {}, !.cred = t.cred, !.key = t.key] \in Handler
      /\ [k EXCEPT !.at = "asking", !.scope = {}, !.cred = t.cred, !.key = t.key].at = "asking"
      /\ [k EXCEPT !.at = "asking", !.scope = {}, !.cred = t.cred,
                   !.key = t.key].answer = "none"
  BY <1>1, <1>6 DEF Handler, Stage
<1>8. PICK h \in Handler :
          /\ h = [k EXCEPT !.at = "asking", !.scope = {}, !.cred = t.cred, !.key = t.key]
          /\ h.at = "asking" /\ h.answer = "none"
  BY <1>7, Zenon
<1>9. relay' = relay /\ call' = [call EXCEPT ![c] = h]
  BY <1>1, <1>4, <1>8 DEF Renew, Outside
<1> QED  BY <1>5, <1>8, <1>9, Early, CallMoves DEF IInv

LEMMA GetIdentityKeepsIInv ==
    ASSUME IInv, NEW c \in Call, GetIdentity(c)
    PROVE  IInv'
<1>1. PICK k \in Identity : k = identities + 1
  BY AgentSessionAssumption DEF IInv, RelayOK, GetIdentity, Identity
<1>2. PICK joins \in BOOLEAN : joins = (call[c].tool = "join_pairing")
  OBVIOUS
<1>3. /\ identities' = k /\ side' = [side EXCEPT ![k] = NewSide(joins)]
      /\ session' = Paired(k, IF joins THEN k ELSE 0)
      /\ UNCHANGED <<relay, row, changes, given>>
  BY <1>1, <1>2 DEF GetIdentity
<1>4. session' \in Session
  <2>1. Root(k) \in Credential /\ k \in 0..MaxIdentities /\ 0 \in 0..MaxIdentities
    BY RootType, AgentSessionAssumption DEF Identity
  <2> QED  BY <1>3, <2>1 DEF Paired, Session
<1>5. side' \in [Identity -> Side] /\ SidesOK'
  <2>1. NewSide(joins) \in Side /\ ~NewSide(joins).revoked
    BY DEF NewSide, Side
  <2> QED  BY <1>3, <2>1 DEF IInv, RelayOK, SidesOK
<1>6. RelayOK'
  BY <1>3, <1>4, <1>5 DEF IInv, RelayOK
<1>7. Answer(c, "ok")
  BY DEF GetIdentity
<1> QED  BY <1>3, <1>6, <1>7, Answered DEF IInv

LEMMA CheckPairingKeepsIInv ==
    ASSUME IInv, NEW c \in Call, CheckPairing(c)
    PROVE  IInv'
<1>1. PICK k \in Handler : k = call[c]
  BY DEF IInv, CallsOK
<1>2. PICK s \in Session : s = session
  BY DEF IInv, RelayOK
<1>3. session' \in Session
  <2>1. k.cred.of \in 0..MaxIdentities /\ k.cred.cap \in SUBSET Scope
    BY AgentSessionAssumption DEF Handler, Credential, Identity
  <2>2. [s EXCEPT !.pairing = k.cred.of, !.scope = k.cred.cap] \in Session
    BY <2>1 DEF Session
  <2> QED  BY <1>1, <1>2, <2>2 DEF CheckPairing
<1>4. RelayOK' /\ relay' = relay
  BY <1>3 DEF IInv, RelayOK, SidesOK, CheckPairing, Outside
<1> QED  BY <1>4, Answered DEF IInv, CheckPairing

LEMMA LimitAgentKeepsIInv ==
    ASSUME IInv, NEW c \in Call, LimitAgent(c)
    PROVE  IInv'
<1>1. PICK k \in Handler : k = call[c]
  BY DEF IInv, CallsOK
<1>2. k.cred.of \in Identity /\ k.keep \in SUBSET Scope
  BY DEF Handler, Credential
<1>3. row' \in [Identity -> SUBSET Scope]
  BY <1>1, <1>2 DEF IInv, RelayOK, LimitAgent
<1>4. given' \in [Identity -> SUBSET Scope]
  BY <1>1, <1>2 DEF IInv, RelayOK, LimitAgent
<1>5. session' \in Session
  BY <1>1, <1>2 DEF IInv, RelayOK, LimitAgent, Session
<1>6. RelayOK' /\ relay' = relay
  BY <1>3, <1>4, <1>5 DEF IInv, RelayOK, SidesOK, LimitAgent
<1> QED  BY <1>6, Answered DEF IInv, LimitAgent

LEMMA AnswersKeepIInv ==
    ASSUME IInv, NEW c \in Call, Fail(c) \/ Close(c)
    PROVE  IInv'
<1>1. RelayOK' /\ relay' = relay
  BY DEF IInv, RelayOK, SidesOK, Fail, Close, Outside
<1> QED  BY <1>1, Answered DEF IInv, Fail, Close

LEMMA ReadMineKeepsIInv ==
    ASSUME IInv, NEW c \in Call, ReadMine(c)
    PROVE  IInv'
<1>1. PICK k \in Handler : k = call[c] /\ k.at = "asking" /\ k.answer = "none"
  BY Unanswered DEF IInv, CallsOK, ReadMine, Is
<1>2. RelayOK' /\ relay' = relay
  BY DEF IInv, RelayOK, SidesOK, ReadMine, Outside
<1>3. CASE k.self /\ Turn(c, "docker")
  <2>1. /\ [k EXCEPT !.at = "docker"] \in Handler
        /\ [k EXCEPT !.at = "docker"].at = "docker"
        /\ [k EXCEPT !.at = "docker"].self = k.self
        /\ [k EXCEPT !.at = "docker"].answer = "none"
    BY <1>1 DEF Handler, Stage
  <2>2. PICK h \in Handler : /\ h = [k EXCEPT !.at = "docker"]
                             /\ h.at = "docker" /\ h.self /\ h.answer = "none"
    BY <1>3, <2>1, Zenon
  <2>3. AnsweredOK(h) /\ GateOK(h)
    BY <2>2 DEF AnsweredOK, GateOK
  <2>4. call' = [call EXCEPT ![c] = h]
    BY <1>1, <1>3, <2>2 DEF Turn
  <2> QED  BY <1>2, <2>3, <2>4, CallMoves DEF IInv
<1>4. CASE \E runs \in BOOLEAN : call' = [call EXCEPT ![c].at = "consent", ![c].runs = runs]
  <2>1. PICK runs \in BOOLEAN : call' = [call EXCEPT ![c].at = "consent", ![c].runs = runs]
    BY <1>4
  <2>2. /\ [k EXCEPT !.at = "consent", !.runs = runs] \in Handler
        /\ [k EXCEPT !.at = "consent", !.runs = runs].at = "consent"
        /\ [k EXCEPT !.at = "consent", !.runs = runs].answer = "none"
    BY <1>1 DEF Handler, Stage
  <2>3. PICK h \in Handler : /\ h = [k EXCEPT !.at = "consent", !.runs = runs]
                             /\ h.at = "consent" /\ h.answer = "none"
    BY <2>2, Zenon
  <2>4. call' = [call EXCEPT ![c] = h]
    BY <1>1, <2>1, <2>3
  <2> QED  BY <1>2, <2>3, <2>4, Early, CallMoves DEF IInv
<1>5. k.cred.of \in Identity /\ side[k.cred.of].runs \in BOOLEAN
  BY DEF IInv, RelayOK, Handler, Credential, Side
<1> QED  BY <1>1, <1>3, <1>4, <1>5 DEF ReadMine

\* On the Node relay an agreement that is read there excludes a revocation.
LEMMA ReadConsentKeepsIInv ==
    ASSUME IInv, NEW c \in Call, ReadConsent(c)
    PROVE  IInv'
<1>1. PICK k \in Handler : k = call[c] /\ k.at = "consent" /\ k.answer = "none"
  BY Unanswered DEF IInv, CallsOK, ReadConsent, Is
<1>2. RelayOK' /\ relay' = relay
  BY DEF IInv, RelayOK, SidesOK, ReadConsent, Outside
<1>3. PICK agreed \in BOOLEAN : /\ agreed = Agreed(side[k.cred.of])
                                /\ relay = "node" => agreed
  <2>1. k.cred.of \in Identity /\ side[k.cred.of].satisfied
    BY <1>1 DEF Handler, Credential, ReadConsent
  <2>2. relay = "node" => Agreed(side[k.cred.of])
    BY <2>1 DEF IInv, RelayOK, SidesOK, Agreed
  <2>3. Agreed(side[k.cred.of]) \in BOOLEAN
    BY DEF Agreed
  <2> QED  BY <2>2, <2>3
<1>4. /\ [k EXCEPT !.at = "docker", !.agreed = agreed] \in Handler
      /\ [k EXCEPT !.at = "docker", !.agreed = agreed].at = "docker"
      /\ [k EXCEPT !.at = "docker", !.agreed = agreed].agreed = agreed
      /\ [k EXCEPT !.at = "docker", !.agreed = agreed].answer = "none"
  BY <1>1 DEF Handler, Stage
<1>5. PICK h \in Handler : /\ h = [k EXCEPT !.at = "docker", !.agreed = agreed]
                           /\ h.at = "docker" /\ h.agreed = agreed /\ h.answer = "none"
  BY <1>4, Zenon
<1>6. AnsweredOK(h) /\ GateOK(h)
  BY <1>3, <1>5 DEF AnsweredOK, GateOK
<1>7. call' = [call EXCEPT ![c] = h]
  BY <1>1, <1>3, <1>5 DEF ReadConsent
<1> QED  BY <1>2, <1>6, <1>7, CallMoves DEF IInv

\* A call that is past the gate goes on.
LEMMA SandboxKeepsIInv ==
    ASSUME IInv, NEW c \in Call, StartSandbox(c) \/ Exit(c) \/ TimeOut(c)
    PROVE  IInv'
<1>1. PICK k \in Handler : /\ k = call[c] /\ k.at \in {"docker", "running", "exited"}
                           /\ k.answer = "none" /\ GateOK(k)
  BY Unanswered DEF IInv, CallsOK, CallOK, StartSandbox, Exit, TimeOut, Fires
<1>2. RelayOK' /\ relay' = relay
  BY DEF IInv, RelayOK, SidesOK, StartSandbox, Exit, TimeOut, Outside
<1>3. \E at \in {"running", "exited", "killed"}, timedOut \in BOOLEAN, finished \in BOOLEAN :
          call' = [call EXCEPT ![c] = [k EXCEPT !.at = at, !.timedOut = timedOut,
                                                !.finished = finished]]
  <2>1. k.timedOut \in BOOLEAN /\ k.finished \in BOOLEAN
    BY DEF Handler
  <2>2. CASE StartSandbox(c)
    <3>1. call' = [call EXCEPT ![c] = [k EXCEPT !.at = "running", !.timedOut = k.timedOut,
                                                !.finished = k.finished]]
      BY <1>1, <2>2 DEF StartSandbox, Turn, Handler
    <3> QED  BY <2>1, <3>1
  <2>3. CASE Exit(c)
    <3>1. call' = [call EXCEPT ![c] = [k EXCEPT !.at = "exited", !.timedOut = k.timedOut,
                                                !.finished = TRUE]]
      BY <1>1, <2>3 DEF Exit, Handler
    <3> QED  BY <2>1, <3>1
  <2>4. CASE TimeOut(c)
    <3>1. call' = [call EXCEPT ![c] = [k EXCEPT
                      !.at = IF k.at = "running" THEN "killed" ELSE k.at,
                      !.timedOut = TRUE, !.finished = k.finished]]
      BY <1>1, <2>4 DEF TimeOut, Handler
    <3>2. (IF k.at = "running" THEN "killed" ELSE k.at) \in {"running", "exited", "killed"}
      BY <1>1, <2>4 DEF TimeOut, Fires
    <3> QED  BY <2>1, <3>1, <3>2
  <2> QED  BY <2>2, <2>3, <2>4
<1>4. PICK at \in {"running", "exited", "killed"}, timedOut \in BOOLEAN, finished \in BOOLEAN :
          call' = [call EXCEPT ![c] = [k EXCEPT !.at = at, !.timedOut = timedOut,
                                                !.finished = finished]]
  BY <1>3
<1>5. [k EXCEPT !.at = at, !.timedOut = timedOut, !.finished = finished] \in Handler
  BY DEF Handler, Stage
<1>6. PICK h \in Handler : h = [k EXCEPT !.at = at, !.timedOut = timedOut, !.finished = finished]
  BY <1>5, Zenon
<1>7. h.at = at /\ h.tool = k.tool /\ h.self = k.self /\ h.agreed = k.agreed /\ h.answer = "none"
  BY <1>1, <1>6 DEF Handler
<1>8. AnsweredOK(h) /\ GateOK(h)
  BY <1>1, <1>7 DEF AnsweredOK, GateOK
<1>9. call' = [call EXCEPT ![c] = h]
  BY <1>4, <1>6
<1> QED  BY <1>2, <1>8, <1>9, CallMoves DEF IInv

----------------------------------------------------------------------------
\* The relay's side, and time.

LEMMA ChangeKeepsIInv ==
    ASSUME IInv, NEW k \in Identity, NEW s \in Side, Change(k, s),
           relay = "node" => (s.revoked => ~s.satisfied)
    PROVE  IInv'
<1>1. /\ side' = [side EXCEPT ![k] = s] /\ changes' \in 0..MaxChanges
      /\ UNCHANGED <<relay, session, identities, row, call, given>>
  BY AgentSessionAssumption DEF IInv, RelayOK, Change
<1>2. side' \in [Identity -> Side] /\ SidesOK'
  BY <1>1 DEF IInv, RelayOK, SidesOK
<1>3. RelayOK'
  BY <1>1, <1>2 DEF IInv, RelayOK
<1> QED  BY <1>1, <1>3, CallsKept DEF IInv

LEMMA RelayKeepsIInv ==
    ASSUME IInv, NEW k \in Identity,
           \/ PeerIsRevoked(k) \/ PeerIsWithdrawn(k) \/ HumansAgree(k) \/ AgreementEnds(k)
           \/ PeerNarrows(k) \/ ThirdJoins(k)
    PROVE  IInv'
<1>1. PICK t \in Side : t = side[k] /\ (relay = "node" /\ t.revoked => ~t.satisfied)
  BY DEF IInv, RelayOK, SidesOK
<1>2. \E s \in Side : Change(k, s) /\ (relay = "node" => (s.revoked => ~s.satisfied))
  <2>1. CASE PeerIsRevoked(k)
    <3>1. /\ Revoked(t) \in Side /\ ~Revoked(t).satisfied
          /\ [t EXCEPT !.revoked = TRUE, !.withdrawing = TRUE] \in Side
      BY DEF Revoked, Side
    <3> QED  BY <1>1, <2>1, <3>1, Zenon DEF PeerIsRevoked
  <2>2. CASE PeerIsWithdrawn(k)
    <3>1. /\ [t EXCEPT !.withdrawing = FALSE, !.satisfied = FALSE] \in Side
          /\ ~[t EXCEPT !.withdrawing = FALSE, !.satisfied = FALSE].satisfied
      BY DEF Side
    <3> QED  BY <1>1, <2>2, <3>1, Zenon DEF PeerIsWithdrawn
  <2>3. CASE HumansAgree(k)
    <3>1. /\ [t EXCEPT !.satisfied = TRUE] \in Side
          /\ [t EXCEPT !.satisfied = TRUE].revoked = t.revoked
      BY DEF Side
    <3> QED  BY <1>1, <2>3, <3>1, Zenon DEF HumansAgree
  <2>4. CASE AgreementEnds(k)
    <3>1. /\ [t EXCEPT !.satisfied = FALSE] \in Side /\ ~[t EXCEPT !.satisfied = FALSE].satisfied
      BY DEF Side
    <3> QED  BY <1>1, <2>4, <3>1, Zenon DEF AgreementEnds
  <2>5. CASE PeerNarrows(k)
    <3>1. /\ [t EXCEPT !.runs = FALSE] \in Side
          /\ [t EXCEPT !.runs = FALSE].revoked = t.revoked
          /\ [t EXCEPT !.runs = FALSE].satisfied = t.satisfied
      BY DEF Side
    <3> QED  BY <1>1, <2>5, <3>1, Zenon DEF PeerNarrows
  <2>6. CASE ThirdJoins(k)
    <3>1. /\ [t EXCEPT !.many = TRUE] \in Side
          /\ [t EXCEPT !.many = TRUE].revoked = t.revoked
          /\ [t EXCEPT !.many = TRUE].satisfied = t.satisfied
      BY DEF Side
    <3> QED  BY <1>1, <2>6, <3>1, Zenon DEF ThirdJoins
  <2> QED  BY <2>1, <2>2, <2>3, <2>4, <2>5, <2>6
<1> QED  BY <1>2, ChangeKeepsIInv

LEMMA PeerJoinsKeepsIInv ==
    ASSUME IInv, NEW k \in Identity, PeerJoins(k)
    PROVE  IInv'
<1>1. PICK t \in Side : t = side[k] /\ (relay = "node" /\ t.revoked => ~t.satisfied)
  BY DEF IInv, RelayOK, SidesOK
<1>2. /\ [t EXCEPT !.joined = TRUE] \in Side
      /\ [t EXCEPT !.joined = TRUE].revoked = t.revoked
      /\ [t EXCEPT !.joined = TRUE].satisfied = t.satisfied
  BY DEF Side
<1>3. /\ side' = [side EXCEPT ![k] = [t EXCEPT !.joined = TRUE]]
      /\ UNCHANGED <<relay, session, identities, row, changes, call, given>>
  BY <1>1 DEF PeerJoins
<1>4. side' \in [Identity -> Side] /\ SidesOK'
  BY <1>1, <1>2, <1>3 DEF IInv, RelayOK, SidesOK
<1>5. RelayOK'
  BY <1>3, <1>4 DEF IInv, RelayOK
<1> QED  BY <1>3, <1>5, CallsKept DEF IInv

LEMMA AgeKeepsIInv ==
    ASSUME IInv, Age
    PROVE  IInv'
<1>1. PICK s \in Session : s = session
  BY DEF IInv, RelayOK
<1>2. [s EXCEPT !.cred.fresh = FALSE] \in Session
  BY DEF Session, Credential
<1>3. session' \in Session
  BY <1>1, <1>2 DEF Age
<1>4. RelayOK' /\ UNCHANGED <<relay, call>>
  BY <1>3 DEF IInv, RelayOK, SidesOK, Age, Outside
<1> QED  BY <1>4, CallsKept DEF IInv

----------------------------------------------------------------------------
LEMMA NextKeepsIInv == IInv /\ [Next]_vars => IInv'
<1> SUFFICES ASSUME IInv, [Next]_vars PROVE IInv'
  OBVIOUS
<1>1. ASSUME NEW c \in Call,
             \/ \E tool \in {"create_pairing_code", "join_pairing"} : StartPairing(c, tool)
             \/ Start(c, "check_pairing_code", FALSE, {})
             \/ \E keep \in SUBSET Scope \ {{}} : Start(c, "limit_my_agent", FALSE, keep)
             \/ \E self \in BOOLEAN : Start(c, "run_shared_command", self, {})
      PROVE  IInv'
  <2>1. {"create_pairing_code", "join_pairing", "check_pairing_code", "limit_my_agent",
         "run_shared_command"} \subseteq Tool /\ {} \in SUBSET Scope
    BY DEF Tool
  <2> QED  BY <1>1, <2>1, StartsKeepIInv
<1>2. ASSUME NEW c \in Call,
             \/ Renew(c) \/ GetIdentity(c) \/ CheckPairing(c) \/ LimitAgent(c) \/ Fail(c)
             \/ ReadMine(c) \/ ReadConsent(c) \/ StartSandbox(c) \/ Exit(c) \/ TimeOut(c)
             \/ Close(c)
      PROVE  IInv'
  BY <1>2, RenewKeepsIInv, GetIdentityKeepsIInv, CheckPairingKeepsIInv, LimitAgentKeepsIInv,
     AnswersKeepIInv, ReadMineKeepsIInv, ReadConsentKeepsIInv, SandboxKeepsIInv
<1>3. ASSUME NEW k \in Identity,
             \/ PeerIsRevoked(k) \/ PeerIsWithdrawn(k) \/ HumansAgree(k) \/ AgreementEnds(k)
             \/ PeerNarrows(k) \/ ThirdJoins(k) \/ PeerJoins(k)
      PROVE  IInv'
  BY <1>3, RelayKeepsIInv, PeerJoinsKeepsIInv
<1>4. CASE UNCHANGED vars
  <2>1. RelayOK' /\ UNCHANGED <<relay, call>>
    BY <1>4 DEF IInv, RelayOK, SidesOK, vars
  <2> QED  BY <2>1, CallsKept DEF IInv
<1>5. CASE Next
  BY <1>1, <1>2, <1>3, <1>5, AgeKeepsIInv DEF Next
<1> QED  BY <1>4, <1>5

LEMMA Invariance == Spec => []IInv
<1>1. IInv /\ [Next]_vars => IInv'
  BY NextKeepsIInv
<1> QED  BY InitIInv, <1>1, PTL DEF Spec

----------------------------------------------------------------------------
\* The session, the relay's side and every call keep their types, and a call has
\* an answer exactly when it is over: no handler answers twice.
THEOREM TypeCorrect == Spec => []TypeOK
<1>1. IInv => TypeOK
  BY InvImplies
<1> QED  BY Invariance, <1>1, PTL

\* However calls, renewals and changes at the relay interleave, on the Node relay
\* run_shared_command starts a peer's command only after an instant at which the
\* plan was agreed and the peer not revoked.
THEOREM GateIsSound == Spec => []GateSawAgreement
<1>1. IInv => GateSawAgreement
  BY InvImplies
<1> QED  BY Invariance, <1>1, PTL

----------------------------------------------------------------------------
(***************************************************************************)
(* What the tools report_usage and set_budget make of the relay's rows:    *)
(* theorems about UsageRunway, for any number of agents, meters, reports,  *)
(* restarts and clock changes.                                             *)
(***************************************************************************)
Row == [agent : Agent, used : Totals, min : Nat, at : Nat]

\* What an agent counted, what is on its way and what is in the table is work
\* that was done.
CountedOK ==
    /\ clock \in Nat
    /\ spent \in [Agent -> Totals]
    /\ counted \in [Agent -> [used : Totals, min : Nat]]
    /\ \A a \in Agent, m \in Meter : counted[a].used[m] <= spent[a][m]
SentOK ==
    \A r \in sent : /\ r.agent \in Agent /\ r.used \in Totals /\ r.min \in Nat
                    /\ \A m \in Meter : r.used[m] <= spent[r.agent][m]
ReportsOK ==
    /\ reports \in Seq(Row)
    /\ \A i \in DOMAIN reports : \A m \in Meter :
          reports[i].used[m] <= spent[reports[i].agent][m]

\* Among the rows of an agent one is the first and one is the last.
IsFirst(rs, I, i) == i \in I /\ \A j \in I \ {i} : Before(rs, i, j)
IsLast(rs, I, i) == i \in I /\ \A j \in I \ {i} : Before(rs, j, i)
OrderOK ==
    \A a \in Agent : RowsOf(reports, a) # {} =>
        /\ \E i \in RowsOf(reports, a) : IsFirst(reports, RowsOf(reports, a), i)
        /\ \E i \in RowsOf(reports, a) : IsLast(reports, RowsOf(reports, a), i)

UsageInv == CountedOK /\ SentOK /\ ReportsOK /\ OrderOK

\* The CHOOSE of First and Last finds a row where there is one to find.
LEMMA FirstInRows ==
    ASSUME NEW rs, NEW I, \E i \in I : IsFirst(rs, I, i)
    PROVE  First(rs, I) \in I
BY DEF First, IsFirst

LEMMA LastInRows ==
    ASSUME NEW rs, NEW I, \E i \in I : IsLast(rs, I, i)
    PROVE  Last(rs, I) \in I
BY DEF Last, IsLast

\* The rows between which usage and burn are computed are rows of the agent, and
\* each is at most what it spent.
LEMMA UsageInvImplies == UsageInv => CountsAreReal
<1> SUFFICES ASSUME UsageInv, NEW a \in Agent, NEW m \in Meter
             PROVE  /\ ByAgent(reports, a)[m] <= spent[a][m]
                    /\ Delta(reports, a, UsedOf(reports, m)) \in 0..spent[a][m]
  BY DEF CountsAreReal
<1>1. spent[a][m] \in Nat
  BY DEF UsageInv, CountedOK, Totals
<1>2. ASSUME NEW i \in RowsOf(reports, a)
      PROVE  /\ i \in DOMAIN reports
             /\ reports[i].used[m] \in Nat /\ reports[i].used[m] <= spent[a][m]
  <2>1. i \in DOMAIN reports /\ reports[i].agent = a
    BY DEF RowsOf
  <2>2. reports[i] \in Row
    BY <2>1 DEF UsageInv, ReportsOK
  <2>3. reports[i].used[m] \in Nat
    BY <2>2 DEF Row, Totals
  <2> QED  BY <2>1, <2>3 DEF UsageInv, ReportsOK
<1>3. CASE RowsOf(reports, a) = {}
  <2>1. ByAgent(reports, a)[m] = 0
    BY <1>3 DEF ByAgent, None
  <2>2. Cardinality(RowsOf(reports, a)) < 2
    BY <1>3, FS_EmptySet 
  <2> QED  BY <1>1, <2>1, <2>2 DEF Delta
<1>4. CASE RowsOf(reports, a) # {}
  <2>1. PICK f \in RowsOf(reports, a) :
           f = First(reports, RowsOf(reports, a))
    BY <1>4, FirstInRows DEF UsageInv, OrderOK
  <2>2. PICK l \in RowsOf(reports, a) :
           l = Last(reports, RowsOf(reports, a))
    BY <1>4, LastInRows DEF UsageInv, OrderOK
  <2>3. ByAgent(reports, a)[m] = reports[l].used[m]
    BY <1>4, <2>2 DEF ByAgent
  <2>4. /\ UsedOf(reports, m)[f] = reports[f].used[m]
        /\ UsedOf(reports, m)[l] = reports[l].used[m]
    BY <1>2 DEF UsedOf
  <2>5. \/ Delta(reports, a, UsedOf(reports, m)) = 0
        \/ Delta(reports, a, UsedOf(reports, m))
              = Clamp(reports[l].used[m] - reports[f].used[m])
    BY <2>1, <2>2, <2>4 DEF Delta
  <2>6. Clamp(reports[l].used[m] - reports[f].used[m]) \in 0 .. spent[a][m]
    BY <1>1, <1>2 DEF Clamp
  <2> QED  BY <1>1, <1>2, <2>3, <2>5, <2>6
<1> QED  BY <1>3, <1>4

\* An empty table has no rows to order.
LEMMA UsageStarts == UsageInit => UsageInv
<1> SUFFICES ASSUME UsageInit PROVE UsageInv
  OBVIOUS
<1>1. None \in Totals /\ \A m \in Meter : None[m] = 0
  BY DEF None, Totals
<1>2. CountedOK
  BY <1>1 DEF UsageInit, CountedOK
<1>3. SentOK /\ ReportsOK
  BY DEF UsageInit, SentOK, ReportsOK
<1>4. \A a \in Agent : RowsOf(reports, a) = {}
  BY DEF UsageInit, RowsOf
<1> QED  BY <1>2, <1>3, <1>4 DEF UsageInv, OrderOK

\* Work only adds to what was spent.
LEMMA WorkKeeps ==
    ASSUME UsageInv, NEW a \in Agent, NEW used \in [Meter -> 0..1], Work(a, used)
    PROVE  UsageInv'
<1>1. PICK old \in Totals : old = spent[a]
  BY DEF UsageInv, CountedOK
<1>2. PICK mine \in Totals, min \in Nat :
         mine = counted[a].used /\ min = counted[a].min
  <2>1. counted[a] \in [used : Totals, min : Nat]
    BY DEF UsageInv, CountedOK
  <2>2. counted[a].used \in Totals /\ counted[a].min \in Nat
    BY <2>1
  <2> QED  BY <2>2, Zenon
<1>3. PICK new \in Totals : new = [m \in Meter |-> old[m] + used[m]]
  <2>1. [m \in Meter |-> old[m] + used[m]] \in Totals
    BY <1>1 DEF Totals
  <2> QED  BY <2>1, Zenon
<1>4. PICK more \in Totals : more = [m \in Meter |-> mine[m] + used[m]]
  <2>1. [m \in Meter |-> mine[m] + used[m]] \in Totals
    BY <1>2 DEF Totals
  <2> QED  BY <2>1, Zenon
<1>5. /\ spent' = [spent EXCEPT ![a] = new]
      /\ counted' = [counted EXCEPT ![a] = [used |-> more, min |-> min + 1]]
      /\ UNCHANGED <<clock, sent, reports>>
  BY <1>1, <1>2, <1>3, <1>4 DEF Work, UsageInv, CountedOK
<1>6. /\ spent' \in [Agent -> Totals] /\ spent'[a] = new
      /\ \A b \in Agent \ {a} : spent'[b] = spent[b]
  BY <1>5 DEF UsageInv, CountedOK
<1>7. /\ counted' \in [Agent -> [used : Totals, min : Nat]] /\ counted'[a].used = more
      /\ \A b \in Agent \ {a} : counted'[b] = counted[b]
  BY <1>2, <1>5 DEF UsageInv, CountedOK
<1>8. ASSUME NEW m \in Meter
      PROVE  old[m] <= new[m] /\ more[m] <= new[m]
  <2>1. old[m] \in Nat /\ mine[m] \in Nat /\ used[m] \in Nat /\ mine[m] <= old[m]
    BY <1>1, <1>2 DEF Totals, UsageInv, CountedOK
  <2> QED  BY <1>3, <1>4, <2>1
<1>9. ASSUME NEW b \in Agent, NEW m \in Meter
      PROVE  spent[b][m] \in Nat /\ spent'[b][m] \in Nat /\ spent[b][m] <= spent'[b][m]
  <2>1. spent[b] \in Totals /\ spent'[b] \in Totals
    BY <1>6 DEF UsageInv, CountedOK
  <2>2. spent[b][m] \in Nat /\ spent'[b][m] \in Nat
    BY <2>1 DEF Totals
  <2> QED  BY <1>1, <1>6, <1>8, <2>2
<1>10. CountedOK'
  BY <1>5, <1>6, <1>7, <1>8 DEF UsageInv, CountedOK
<1>11. SentOK'
  <2> SUFFICES ASSUME NEW r \in sent
               PROVE  /\ r.agent \in Agent /\ r.used \in Totals /\ r.min \in Nat
                      /\ \A m \in Meter : r.used[m] <= spent'[r.agent][m]
    BY <1>5 DEF SentOK
  <2>1. /\ r.agent \in Agent /\ r.used \in Totals /\ r.min \in Nat
        /\ \A m \in Meter : r.used[m] <= spent[r.agent][m]
    BY DEF UsageInv, SentOK
  <2>2. \A m \in Meter : r.used[m] \in Nat
    BY <2>1 DEF Totals
  <2> QED  BY <1>9, <2>1, <2>2
<1>12. ReportsOK'
  <2> SUFFICES ASSUME NEW i \in DOMAIN reports, NEW m \in Meter
               PROVE  reports[i].used[m] <= spent'[reports[i].agent][m]
    BY <1>5 DEF UsageInv, ReportsOK
  <2>1. reports[i] \in Row /\ reports[i].used[m] <= spent[reports[i].agent][m]
    BY DEF UsageInv, ReportsOK
  <2>2. reports[i].agent \in Agent /\ reports[i].used[m] \in Nat
    BY <2>1 DEF Row, Totals
  <2> QED  BY <1>9, <2>1, <2>2
<1>13. OrderOK'
  BY <1>5 DEF UsageInv, OrderOK, RowsOf, IsFirst, IsLast, Before
<1> QED  BY <1>10, <1>11, <1>12, <1>13 DEF UsageInv

\* Where the rows are left alone so is their order.
LEMMA RowsQuiet ==
    ASSUME UsageInv, UNCHANGED <<reports, spent>>
    PROVE  ReportsOK' /\ OrderOK'
BY DEF UsageInv, ReportsOK, OrderOK, RowsOf, IsFirst, IsLast, Before

\* A restarted agent counts nothing, which is less than it spent.
LEMMA RestartKeeps ==
    ASSUME UsageInv, NEW a \in Agent, Restart(a)
    PROVE  UsageInv'
<1>1. /\ counted' = [counted EXCEPT ![a] = [used |-> None, min |-> 0]]
      /\ UNCHANGED <<clock, spent, sent, reports>>
  BY DEF Restart
<1>2. None \in Totals /\ \A m \in Meter : None[m] = 0
  BY DEF None, Totals
<1>3. /\ counted' \in [Agent -> [used : Totals, min : Nat]]
      /\ counted'[a].used = None
      /\ \A b \in Agent \ {a} : counted'[b] = counted[b]
  BY <1>1, <1>2 DEF UsageInv, CountedOK
<1>4. \A m \in Meter : spent[a][m] \in Nat
  BY DEF UsageInv, CountedOK, Totals
<1>5. CountedOK'
  BY <1>1, <1>2, <1>3, <1>4 DEF UsageInv, CountedOK
<1>6. SentOK'
  BY <1>1 DEF UsageInv, SentOK
<1> QED  BY <1>1, <1>5, <1>6, RowsQuiet DEF UsageInv

\* A report says what was counted.
LEMMA SendKeeps ==
    ASSUME UsageInv, NEW a \in Agent, Send(a)
    PROVE  UsageInv'
<1>1. UNCHANGED <<clock, counted, spent, reports>>
  BY DEF Send
<1>2. CountedOK'
  BY <1>1 DEF UsageInv, CountedOK
<1>3. SentOK'
  <2> SUFFICES ASSUME NEW r \in sent'
               PROVE  /\ r.agent \in Agent /\ r.used \in Totals /\ r.min \in Nat
                      /\ \A m \in Meter : r.used[m] <= spent[r.agent][m]
    BY <1>1 DEF SentOK
  <2>1. CASE r \in sent
    BY <2>1 DEF UsageInv, SentOK
  <2>2. CASE r \notin sent
    <3>1. r.agent = a /\ r.used = counted[a].used /\ r.min = counted[a].min
      BY <2>2 DEF Send
    <3> QED  BY <3>1 DEF UsageInv, CountedOK
  <2> QED  BY <2>1, <2>2
<1> QED  BY <1>1, <1>2, <1>3, RowsQuiet DEF UsageInv

\* A row more has a place before, between or after the others of its agent.
LEMMA ReportKeeps ==
    ASSUME UsageInv, NEW r \in sent, ReportUsage(r)
    PROVE  UsageInv'
<1> DEFINE n == Len(reports)
<1>1. PICK entry \in Row :
         /\ entry = [agent |-> r.agent, used |-> r.used, min |-> r.min, at |-> clock]
         /\ entry.agent = r.agent /\ entry.used = r.used
  <2>1. r.agent \in Agent /\ r.used \in Totals /\ r.min \in Nat /\ clock \in Nat
    BY DEF UsageInv, SentOK, CountedOK
  <2>2. /\ [agent |-> r.agent, used |-> r.used, min |-> r.min, at |-> clock] \in Row
        /\ [agent |-> r.agent, used |-> r.used, min |-> r.min, at |-> clock].agent = r.agent
        /\ [agent |-> r.agent, used |-> r.used, min |-> r.min, at |-> clock].used = r.used
    BY <2>1 DEF Row
  <2> QED  BY <2>2, Zenon
<1>2. /\ reports' = Append(reports, entry) /\ sent' = sent \ {r}
      /\ UNCHANGED <<clock, counted, spent>>
  BY <1>1 DEF ReportUsage
<1>3. reports \in Seq(Row) /\ n \in Nat
  BY DEF UsageInv, ReportsOK
<1>4. /\ reports' \in Seq(Row) /\ DOMAIN reports' = DOMAIN reports \cup {n + 1}
      /\ reports'[n + 1] = entry
      /\ \A i \in DOMAIN reports : reports'[i] = reports[i] /\ i < n + 1
  BY <1>2, <1>3
<1> HIDE DEF n
<1>5. CountedOK' /\ SentOK'
  BY <1>2 DEF UsageInv, CountedOK, SentOK
<1>6. ReportsOK'
  <2> SUFFICES ASSUME NEW i \in DOMAIN reports', NEW m \in Meter
               PROVE  reports'[i].used[m] <= spent[reports'[i].agent][m]
    BY <1>2, <1>4 DEF ReportsOK
  <2>1. CASE i \in DOMAIN reports
    BY <1>4, <2>1 DEF UsageInv, ReportsOK
  <2>2. CASE i = n + 1
    BY <1>1, <1>4, <2>2 DEF UsageInv, SentOK
  <2> QED  BY <1>4, <2>1, <2>2
<1>7. OrderOK'
  <2> SUFFICES ASSUME NEW a \in Agent, RowsOf(reports', a) # {}
               PROVE  /\ \E i \in RowsOf(reports', a) :
                            IsFirst(reports', RowsOf(reports', a), i)
                      /\ \E i \in RowsOf(reports', a) :
                            IsLast(reports', RowsOf(reports', a), i)
    BY DEF OrderOK
  <2>1. PICK I : I = RowsOf(reports, a)
    OBVIOUS
  <2>2. I \subseteq DOMAIN reports /\ \A i \in I : i \in Nat /\ reports[i].at \in Nat
    <3>1. I \subseteq DOMAIN reports
      BY <2>1 DEF RowsOf
    <3>2. \A i \in DOMAIN reports : i \in Nat /\ reports[i] \in Row
      BY <1>3
    <3> QED  BY <3>1, <3>2 DEF Row
  <2>3. RowsOf(reports', a) = IF entry.agent = a THEN I \cup {n + 1} ELSE I
    BY <1>4, <2>1 DEF RowsOf
  <2>4. \A i, j \in I : Before(reports', i, j) <=> Before(reports, i, j)
    BY <1>4, <2>2 DEF Before
  <2>5. I # {} => /\ \E i \in I : IsFirst(reports, I, i)
                  /\ \E i \in I : IsLast(reports, I, i)
    BY <2>1 DEF UsageInv, OrderOK
  <2>6. CASE entry.agent # a
    BY <2>3, <2>4, <2>5, <2>6 DEF IsFirst, IsLast
  <2>7. CASE entry.agent = a /\ I = {}
    BY <2>3, <2>7 DEF IsFirst, IsLast
  <2>8. CASE entry.agent = a /\ I # {}
    <3>1. PICK J : J = I \cup {n + 1} /\ J = RowsOf(reports', a)
      BY <2>3, <2>8
    <3>2. entry.at \in Nat /\ n + 1 \notin I
      BY <1>3, <1>4, <2>2 DEF Row
    <3>3. \A i \in I : /\ Before(reports', i, n + 1) <=> reports[i].at <= entry.at
                       /\ Before(reports', n + 1, i) <=> entry.at < reports[i].at
      BY <1>3, <1>4, <2>2, <3>2 DEF Before
    <3>4. \A i, j \in I : Before(reports, i, j) => reports[i].at <= reports[j].at
      BY <2>2 DEF Before
    <3>5. \E i \in J : IsFirst(reports', J, i)
      <4>1. PICK f \in I : \A j \in I \ {f} : Before(reports, f, j)
        BY <2>5, <2>8 DEF IsFirst
      <4>2. CASE reports[f].at <= entry.at
        <5>1. \A j \in J \ {f} : Before(reports', f, j)
          BY <2>4, <3>1, <3>3, <4>1, <4>2
        <5> QED  BY <3>1, <5>1 DEF IsFirst
      <4>3. CASE ~ (reports[f].at <= entry.at)
        <5>1. \A j \in I : entry.at < reports[j].at
          BY <2>2, <3>2, <3>4, <4>1, <4>3
        <5>2. \A j \in J \ {n + 1} : Before(reports', n + 1, j)
          BY <3>1, <3>3, <5>1
        <5> QED  BY <3>1, <5>2 DEF IsFirst
      <4> QED  BY <4>2, <4>3
    <3>6. \E i \in J : IsLast(reports', J, i)
      <4>1. PICK l \in I : \A j \in I \ {l} : Before(reports, j, l)
        BY <2>5, <2>8 DEF IsLast
      <4>2. CASE reports[l].at <= entry.at
        <5>1. \A j \in I : reports[j].at <= entry.at
          BY <2>2, <3>2, <3>4, <4>1, <4>2
        <5>2. \A j \in J \ {n + 1} : Before(reports', j, n + 1)
          BY <3>1, <3>3, <5>1
        <5> QED  BY <3>1, <5>2 DEF IsLast
      <4>3. CASE ~ (reports[l].at <= entry.at)
        <5>1. entry.at < reports[l].at
          BY <2>2, <3>2, <4>3
        <5>2. \A j \in J \ {l} : Before(reports', j, l)
          BY <2>4, <3>1, <3>3, <4>1, <5>1
        <5> QED  BY <3>1, <5>2 DEF IsLast
      <4> QED  BY <4>2, <4>3
    <3> QED  BY <3>1, <3>5, <3>6
  <2> QED  BY <2>6, <2>7, <2>8
<1> QED  BY <1>5, <1>6, <1>7 DEF UsageInv

\* Reports lost, budgets set and clocks changed leave the work and its rows alone.
LEMMA UsageOthersKeep ==
    ASSUME UsageInv, UNCHANGED <<counted, spent, reports>>,
           sent' \subseteq sent, clock' \in Nat
    PROVE  UsageInv'
<1>1. CountedOK' /\ SentOK'
  BY DEF UsageInv, CountedOK, SentOK
<1> QED  BY <1>1, RowsQuiet DEF UsageInv

LEMMA UsageInvariance == UsageSpec => []UsageInv
<1>1. UsageInv /\ [UsageNext]_usageVars => UsageInv'
  <2> SUFFICES ASSUME UsageInv, [UsageNext]_usageVars PROVE UsageInv'
    OBVIOUS
  <2> DEFINE Rest == /\ UNCHANGED <<counted, spent, reports>>
                     /\ sent' \subseteq sent /\ clock' \in Nat
  <2>1. CASE \E a \in Agent, used \in [Meter -> 0..1] : Work(a, used)
    BY <2>1, WorkKeeps
  <2>2. CASE \E a \in Agent : Restart(a) \/ Send(a)
    BY <2>2, RestartKeeps, SendKeeps
  <2>3. CASE \E r \in sent : ReportUsage(r)
    BY <2>3, ReportKeeps
  <2>4. ASSUME NEW r \in sent, Lose(r) PROVE Rest
    BY <2>4 DEF Lose, UsageInv, CountedOK
  <2>5. ASSUME NEW input \in BudgetInput, SetBudget(input) PROVE Rest
    BY <2>5 DEF SetBudget, UsageInv, CountedOK
  <2>6. ASSUME NEW t \in 0..MaxClock, SetClock(t) PROVE Rest
    BY <2>6 DEF SetClock
  <2>7. CASE UNCHANGED usageVars
    <3>1. Rest
      BY <2>7 DEF usageVars, UsageInv, CountedOK
    <3> QED  BY <3>1, UsageOthersKeep
  <2>8. CASE Rest
    BY <2>8, UsageOthersKeep
  <2> HIDE DEF Rest
  <2> QED  BY <2>1, <2>2, <2>3, <2>4, <2>5, <2>6, <2>7, <2>8 DEF UsageNext
<1> QED  BY UsageStarts, <1>1, PTL DEF UsageSpec

\* However reports are lost, repeated or overtaken, agents restart and the relay's
\* clock is set back, the usage shown for an agent and its burn are never more than
\* what it really used: foldUsage and computeRunway invent no work.
THEOREM UsageIsReal == UsageSpec => []CountsAreReal
BY UsageInvariance, UsageInvImplies, PTL

=============================================================================
