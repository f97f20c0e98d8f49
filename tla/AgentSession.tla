---------------------------- MODULE AgentSession ----------------------------
(***************************************************************************)
(* One MCP server process: the session it keeps for the human's agent, the *)
(* tools that read and write it, and run_shared_command with its checks    *)
(* against the relay and its sandbox.                                      *)
(*                                                                         *)
(* The agent may call tools while others are under way.  A handler runs    *)
(* without interruption between two awaits, and it may wait for the relay  *)
(* twice before it does anything: once to renew a credential that is about *)
(* to expire, once for the request itself.  What a call holds in its local *)
(* variables meanwhile is its record in `call'; the relay's handling of a  *)
(* request and the handler's next turn are one step.                       *)
(*                                                                         *)
(* An identity is what one pairing tool obtained: a token, a holder key    *)
(* and a root credential.  The relay's side is what the checks read of     *)
(* each identity's pairing; it changes at any time.                        *)
(***************************************************************************)
EXTENDS Naturals

CONSTANTS
    Call,           \* tool calls, each made once
    CommandsRun,    \* the capability commands:run
    OtherScope,     \* the other capabilities
    MaxIdentities,  \* bound: pairing tools that succeed
    MaxChanges      \* bound: changes of the relay's side

ASSUME AgentSessionAssumption ==
    /\ CommandsRun \notin OtherScope
    /\ MaxIdentities \in Nat \ {0} /\ MaxChanges \in Nat

VARIABLES
    relay,       \* "node": a Node relay without AgentRun; "cloud"; never changes
    session,     \* sessionState
    identities,  \* how many identities the relay has issued
    row,         \* agent_tokens.scope of each
    side,        \* what the relay knows of each identity's pairing
    changes,     \* how often that changed
    call,
    given        \* history: what each identity was limited to no longer do

vars == <<relay, session, identities, row, side, changes, call, given>>

Scope == {CommandsRun} \cup OtherScope
Identity == 1..MaxIdentities
Credential == [of : Identity, cap : SUBSET Scope, fresh : BOOLEAN]
Session == [cred : Credential, key : Identity, pairing : 0..MaxIdentities, scope : SUBSET Scope]

\* joined: the pairing exists.  many: it has a third member.  runs: the peer's
\* row has commands:run.  withdrawing: a cloud revocation between its two calls.
Side == [joined : BOOLEAN, many : BOOLEAN, revoked : BOOLEAN, runs : BOOLEAN,
         satisfied : BOOLEAN, withdrawing : BOOLEAN]

Tool == {"create_pairing_code", "join_pairing", "check_pairing_code", "limit_my_agent",
         "run_shared_command"}
Stage == {"idle", "renewing", "asking", "consent", "docker", "running", "exited", "killed",
          "done"}

\* pairing, cred and key are locals, scope the capabilities to renew for, keep
\* limit_my_agent's argument; runs is pairing.peerScope as getMine gave it; agreed
\* is history: the relay's side at the instant consent was read.
Handler == [at : Stage, tool : Tool, self : BOOLEAN, pairing : 0..MaxIdentities,
            cred : Credential, key : Identity, scope : SUBSET Scope,
            keep : SUBSET Scope, runs : BOOLEAN, agreed : BOOLEAN, timedOut : BOOLEAN,
            finished : BOOLEAN, answer : {"none", "ok", "refused"}]

TypeOK ==
    /\ relay \in {"node", "cloud"}
    /\ session \in Session /\ identities \in Identity
    /\ row \in [Identity -> SUBSET Scope] /\ side \in [Identity -> Side]
    /\ changes \in 0..MaxChanges
    /\ call \in [Call -> Handler]
    /\ \A c \in Call : (call[c].answer = "none") = (call[c].at # "done")
    /\ given \in [Identity -> SUBSET Scope]

----------------------------------------------------------------------------
\* Seeded defects: each is a plausible slip in the definition it stands in for.

AnswersTwice(c, kind) == call' = [call EXCEPT ![c].answer = kind]
LeavesConsent(s) == [s EXCEPT !.revoked = TRUE]
NeverFires(c) == FALSE

----------------------------------------------------------------------------
Root(k) == [of |-> k, cap |-> Scope, fresh |-> TRUE]
NewSide(joined) == [joined |-> joined, many |-> FALSE, revoked |-> FALSE, runs |-> TRUE,
                    satisfied |-> FALSE, withdrawing |-> FALSE]

Idle == [at |-> "idle", tool |-> "run_shared_command", self |-> FALSE, pairing |-> 0,
         cred |-> Root(1), key |-> 1, scope |-> {}, keep |-> {}, runs |-> FALSE,
         agreed |-> FALSE, timedOut |-> FALSE, finished |-> FALSE, answer |-> "none"]

\* The session has paired once, as creator or as joiner.
Init ==
    /\ relay \in {"node", "cloud"}
    /\ \E joined \in BOOLEAN :
           /\ session = [cred |-> Root(1), key |-> 1, pairing |-> IF joined THEN 1 ELSE 0,
                         scope |-> Scope]
           /\ side = [k \in Identity |-> NewSide(joined)]
    /\ identities = 1 /\ row = [k \in Identity |-> Scope]
    /\ changes = 0
    /\ call = [c \in Call |-> Idle]
    /\ given = [k \in Identity |-> {}]

Is(c, tool, at) == call[c].tool = tool /\ call[c].at = at
Turn(c, at) == call' = [call EXCEPT ![c].at = at]

\* The handler returns; its locals are gone.
Answer(c, kind) ==
    call' = [call EXCEPT ![c] = [Idle EXCEPT !.at = "done", !.answer = kind,
                !.timedOut = call[c].timedOut, !.finished = call[c].finished]]
Outside == <<relay, identities, row, side, changes, given>>

----------------------------------------------------------------------------
\* The session.

\* create_pairing_code and join_pairing present no credential.
StartPairing(c, tool) ==
    /\ call[c].at = "idle"
    /\ call' = [call EXCEPT ![c].tool = tool, ![c].at = "asking"]
    /\ UNCHANGED <<Outside, session>>

\* Every other tool looks up its pairing and then awaits auth(), which renews
\* first when the credential is close to its expiry.
Start(c, tool, self, keep) ==
    /\ call[c].at = "idle"
    /\ tool = "run_shared_command" => session.pairing # 0
    /\ call' = [call EXCEPT
           ![c].tool = tool, ![c].self = self, ![c].pairing = session.pairing,
           ![c].cred = session.cred, ![c].key = session.key, ![c].keep = keep,
           ![c].at = IF session.cred.fresh THEN "asking" ELSE "renewing",
           ![c].scope = IF session.cred.fresh THEN {} ELSE session.scope]
    /\ UNCHANGED <<Outside, session>>

\* The relay accepts a request whose proof fits its credential.
Proves(h) == h.cred.of = h.key

\* The child is signed for the capabilities the session believed it had; asking
\* for more than the parent's is refused, and a refusal is swallowed.
Renewed(h) ==
    IF Proves(h) /\ h.scope \subseteq h.cred.cap
    THEN [session EXCEPT !.cred = [of |-> h.cred.of, cap |-> h.scope, fresh |-> TRUE]]
    ELSE session

\* setCredential, and the pair that auth() returns is read after it.
Renew(c) ==
    /\ call[c].at = "renewing"
    /\ session' \in {session, Renewed(call[c])}
    /\ call' = [call EXCEPT ![c].at = "asking", ![c].scope = {},
                            ![c].cred = session'.cred, ![c].key = session'.key]
    /\ UNCHANGED Outside

Paired(k, pairing) == [cred |-> Root(k), key |-> k, pairing |-> pairing, scope |-> Scope]

\* setIdentity: everything at once.
GetIdentity(c) ==
    LET k == identities + 1
        joins == call[c].tool = "join_pairing"
    IN
    /\ \E tool \in {"create_pairing_code", "join_pairing"} : Is(c, tool, "asking")
    /\ identities < MaxIdentities /\ identities' = k
    /\ side' = [side EXCEPT ![k] = NewSide(joins)]
    /\ session' = Paired(k, IF joins THEN k ELSE 0)
    /\ Answer(c, "ok")
    /\ UNCHANGED <<relay, row, changes, given>>

\* check_pairing_code: the pairing of the credential it presented, and that
\* credential's capabilities.
CheckPairing(c) ==
    LET h == call[c] IN
    /\ Is(c, "check_pairing_code", "asking") /\ Proves(h)
    /\ session' = IF side[h.cred.of].joined
                  THEN [session EXCEPT !.pairing = h.cred.of, !.scope = h.cred.cap]
                  ELSE session
    /\ Answer(c, "ok")
    /\ UNCHANGED Outside

\* limit_my_agent: the row is narrowed, the signed credential is not.  The answer
\* may not arrive.
LimitAgent(c) ==
    LET h == call[c] IN
    /\ Is(c, "limit_my_agent", "asking")
    /\ Proves(h) /\ h.keep \subseteq row[h.cred.of]
    /\ row' = [row EXCEPT ![h.cred.of] = h.keep]
    /\ \/ /\ session' = [session EXCEPT !.scope = h.keep]
          /\ given' = [given EXCEPT ![h.cred.of] = Scope \ h.keep]
          /\ Answer(c, "ok")
       \/ Answer(c, "refused") /\ UNCHANGED <<session, given>>
    /\ UNCHANGED <<relay, identities, side, changes>>

\* The request is refused, or does not reach the relay, or is not answered.
Fail(c) ==
    /\ call[c].at \in {"asking", "consent", "docker"}
    /\ call[c].at = "asking" => ~(call[c].tool = "run_shared_command" /\ call[c].self)
    /\ Answer(c, "refused")
    /\ UNCHANGED <<Outside, session>>

----------------------------------------------------------------------------
\* run_shared_command.

\* GET /pairings/mine, unless the human's own agent asks: two members, and a
\* peer that is not revoked.  peerScope is kept for later.
ReadMine(c) ==
    LET h == call[c]
        s == side[h.cred.of]
    IN
    /\ Is(c, "run_shared_command", "asking")
    /\ \/ h.self /\ Turn(c, "docker")
       \/ /\ ~h.self /\ Proves(h) /\ s.joined /\ ~s.many /\ ~s.revoked
          /\ call' = [call EXCEPT ![c].at = "consent", ![c].runs = s.runs]
    /\ UNCHANGED <<Outside, session>>

Agreed(s) == s.satisfied /\ ~s.revoked

\* GET consent of the pairing looked up at the start.
ReadConsent(c) ==
    LET h == call[c]
        s == side[h.cred.of]
    IN
    /\ Is(c, "run_shared_command", "consent")
    /\ Proves(h) /\ h.pairing = h.cred.of /\ s.satisfied /\ h.runs
    /\ call' = [call EXCEPT ![c].at = "docker", ![c].agreed = Agreed(s)]
    /\ UNCHANGED <<Outside, session>>

\* resolveWorkspace, docker info, docker run.
StartSandbox(c) ==
    /\ call[c].at = "docker"
    /\ Turn(c, "running")
    /\ UNCHANGED <<Outside, session>>

\* The command ends; Node has not yet seen its output close.
Exit(c) ==
    /\ call[c].at = "running"
    /\ call' = [call EXCEPT ![c].at = "exited", ![c].finished = TRUE]
    /\ UNCHANGED <<Outside, session>>

Fires(c) == call[c].at \in {"running", "exited"} /\ ~call[c].timedOut

\* The timer kills the docker client, if it still runs.
TimeOut(c) ==
    /\ Fires(c)
    /\ call' = [call EXCEPT ![c].timedOut = TRUE,
                            ![c].at = IF @ = "running" THEN "killed" ELSE @]
    /\ UNCHANGED <<Outside, session>>

\* child's close event settles the promise.
Close(c) ==
    /\ call[c].at \in {"exited", "killed"}
    /\ Answer(c, "ok")
    /\ UNCHANGED <<Outside, session>>

----------------------------------------------------------------------------
\* The relay's side, and time.

\* revokeAgent and withdrawByCredentials in one handler.
Revoked(s) == [s EXCEPT !.revoked = TRUE, !.satisfied = FALSE]

Change(k, s) ==
    /\ changes < MaxChanges /\ changes' = changes + 1
    /\ k <= identities /\ side[k].joined
    /\ side' = [side EXCEPT ![k] = s]
    /\ UNCHANGED <<relay, session, identities, row, call, given>>

PeerIsRevoked(k) ==
    /\ ~side[k].revoked
    /\ Change(k, IF relay = "node" THEN Revoked(side[k])
                 ELSE [side[k] EXCEPT !.revoked = TRUE, !.withdrawing = TRUE])

PeerIsWithdrawn(k) ==
    /\ side[k].withdrawing
    /\ Change(k, [side[k] EXCEPT !.withdrawing = FALSE, !.satisfied = FALSE])

\* With AgentRun, as on the cloud relay, an approval under way outlives the
\* revocation of its author.
HumansAgree(k) ==
    /\ relay = "node" => ~side[k].revoked
    /\ Change(k, [side[k] EXCEPT !.satisfied = TRUE])

\* A proposal or a withdrawal.
AgreementEnds(k) == side[k].satisfied /\ Change(k, [side[k] EXCEPT !.satisfied = FALSE])

PeerNarrows(k) == side[k].runs /\ Change(k, [side[k] EXCEPT !.runs = FALSE])
ThirdJoins(k) == ~side[k].many /\ Change(k, [side[k] EXCEPT !.many = TRUE])

\* The code of create_pairing_code is redeemed.
PeerJoins(k) ==
    /\ k <= identities /\ ~side[k].joined
    /\ side' = [side EXCEPT ![k].joined = TRUE]
    /\ UNCHANGED <<relay, session, identities, row, changes, call, given>>

\* The session's credential comes within five minutes of its expiry.
Age ==
    /\ session.cred.fresh
    /\ session' = [session EXCEPT !.cred.fresh = FALSE]
    /\ UNCHANGED <<Outside, call>>

Next ==
    \/ \E c \in Call, tool \in {"create_pairing_code", "join_pairing"} : StartPairing(c, tool)
    \/ \E c \in Call : Start(c, "check_pairing_code", FALSE, {})
    \/ \E c \in Call, keep \in SUBSET Scope \ {{}} : Start(c, "limit_my_agent", FALSE, keep)
    \/ \E c \in Call, self \in BOOLEAN : Start(c, "run_shared_command", self, {})
    \/ \E c \in Call : Renew(c)
    \/ \E c \in Call : GetIdentity(c)
    \/ \E c \in Call : CheckPairing(c)
    \/ \E c \in Call : LimitAgent(c)
    \/ \E c \in Call : Fail(c)
    \/ \E c \in Call : ReadMine(c)
    \/ \E c \in Call : ReadConsent(c)
    \/ \E c \in Call : StartSandbox(c)
    \/ \E c \in Call : Exit(c)
    \/ \E c \in Call : TimeOut(c)
    \/ \E c \in Call : Close(c)
    \/ \E k \in Identity : PeerIsRevoked(k)
    \/ \E k \in Identity : PeerIsWithdrawn(k)
    \/ \E k \in Identity : HumansAgree(k)
    \/ \E k \in Identity : AgreementEnds(k)
    \/ \E k \in Identity : PeerNarrows(k)
    \/ \E k \in Identity : ThirdJoins(k)
    \/ \E k \in Identity : PeerJoins(k)
    \/ Age

Spec == Init /\ [][Next]_vars

\* Requests are answered or fail, docker info has a timeout, and Node's timers
\* and events fire.  A command need never end.
Proceed(c) ==
    \/ Renew(c) \/ GetIdentity(c) \/ CheckPairing(c) \/ LimitAgent(c) \/ Fail(c)
    \/ ReadMine(c) \/ ReadConsent(c) \/ StartSandbox(c) \/ TimeOut(c) \/ Close(c)
FairSpec == Spec /\ \A c \in Call : WF_vars(Proceed(c))

----------------------------------------------------------------------------
\* Safety and liveness.

\* On the Node relay a peer's command starts only if there was an instant, after
\* the call was made, at which the plan was agreed and the peer not revoked:
\* reading the two one after the other is enough because a revocation ends the
\* agreement in the same handler.
GateSawAgreement ==
    \A c \in Call :
        LET h == call[c] IN
        relay = "node" /\ h.tool = "run_shared_command" /\ ~h.self
            /\ h.at \in {"docker", "running", "exited", "killed"} => h.agreed

\* Every call is answered, the command of a run that never ends too.
CallEnds == \A c \in Call : call[c].at # "idle" ~> call[c].at = "done"

----------------------------------------------------------------------------
\* What the code's comments promise and concurrent calls can break.

GateSawAgreementAnywhere ==
    \A c \in Call :
        LET h == call[c] IN
        h.tool = "run_shared_command" /\ ~h.self
            /\ h.at \in {"docker", "running", "exited", "killed"} => h.agreed

\* The credential and the holder key of the session belong together.
KeyFitsCredential == session.cred.of = session.key

\* Once the human has limited the agent, no later credential has it back.
LimitSticks ==
    [][session'.cred # session.cred /\ session'.cred.of = session.cred.of
           => \/ session'.cred.cap \cap given[session.cred.of] = {}
              \/ session'.cred = [session.cred EXCEPT !.fresh = FALSE]]_vars

\* A command that finished is not reported as killed.
TimeoutIsTrue == \A c \in Call : call[c].answer = "ok" => ~(call[c].timedOut /\ call[c].finished)
=============================================================================
