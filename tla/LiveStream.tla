----------------------------- MODULE LiveStream -----------------------------
(***************************************************************************)
(* The thread of one pairing and the clients that follow it live: the     *)
(* message log and its event stream on both relays, and the loops that     *)
(* read them, the shell's useStream and the `watch' command.               *)
(*                                                                         *)
(* A loop replays the log after its cursor, reads the plan, and only then  *)
(* subscribes.  An event goes to the connections open at that moment; on   *)
(* its way to the client it is in `wire', and is lost with the connection. *)
(* The Node relay authenticates and subscribes in one synchronous handler  *)
(* and revokes in another; the cloud relay does both in two RPCs.          *)
(***************************************************************************)
EXTENDS Integers, FiniteSets, Sequences

CONSTANTS
    Agent,
    Loop,           \* one run of the hook's effect, or of `watch'
    Watch,          \* the loops of `watch': no cursor, no plan, no retry
    Viewer,         \* Viewer[l]: the agent whose credential the loop sends
    MaxChanges,     \* bound: messages and changes of the plans row, together
    MaxDrops,       \* bound: connections and requests the network loses
    MaxRevocations  \* bound: revocations asked for

ASSUME LiveStreamAssumption ==
    /\ Watch \subseteq Loop
    /\ Viewer \in [Loop -> Agent]
    /\ {MaxChanges, MaxDrops, MaxRevocations} \subseteq Nat

VARIABLES
    host,        \* "node" or "cloud", chosen initially
    log,         \* rows of messages; the cursor of a message is its place
    planRev,     \* how often the plans row changed
    revoked,     \* agents whose token and credentials are dead
    pending,     \* cloud: revoked at the Registry, not yet told to the room
    revocations, \* how many were asked for
    open,        \* loops with a subscriber at the relay
    wire,        \* what a subscriber was sent and its loop has not read
    at,          \* where a loop stands
    cursor,      \* the newest cursor it saw
    seen,        \* the messages it handed on, in order
    shown,       \* the plan it handed on last
    stopped,     \* loops told to end
    aborted,     \* loops whose AbortController fired
    drops,       \* what the network lost
    missable     \* history: messages sent between a loop's replay and its subscription

relayVars == <<log, planRev, revoked, pending, revocations>>
loopVars == <<at, cursor, seen, shown, stopped, aborted>>
vars == <<host, relayVars, open, wire, loopVars, drops, missable>>

Place == {"idle", "backfill", "plan", "connect", "admitted", "streaming", "backoff", "ended"}
Gap == {"plan", "connect", "admitted"}
Event == [type : {"message.created", "plan.updated", "pairing.revoked", "end"}, n : Nat]

TypeOK ==
    /\ host \in {"node", "cloud"}
    /\ {log, planRev, revocations, drops} \subseteq Nat
    /\ revoked \subseteq Agent /\ pending \subseteq revoked
    /\ open \subseteq Loop
    /\ wire \in [Loop -> Seq(Event)]
    /\ at \in [Loop -> Place]
    /\ cursor \in [Loop -> 0 .. log]
    /\ seen \in [Loop -> Seq(1 .. log)]
    /\ shown \in [Loop -> 0 .. planRev]
    /\ stopped \subseteq Loop /\ aborted \subseteq Loop
    /\ missable \in [Loop -> SUBSET (1 .. log)]

Init ==
    /\ host \in {"node", "cloud"}
    /\ log = 0 /\ planRev = 0
    /\ revoked = {} /\ pending = {} /\ revocations = 0
    /\ open = {} /\ wire = [l \in Loop |-> <<>>]
    /\ at = [l \in Loop |-> "idle"]
    /\ cursor = [l \in Loop |-> 0]
    /\ seen = [l \in Loop |-> <<>>]
    /\ shown = [l \in Loop |-> 0]
    /\ stopped = {} /\ aborted = {}
    /\ drops = 0
    /\ missable = [l \in Loop |-> {}]

----------------------------------------------------------------------------
\* Seeded defects: each is a plausible slip in the definition it stands in for.

LeavesOpen(a) == {}
AllRows(l) == [i \in 1 .. log |-> i]
LatestOnly(l) == IF log > cursor[l] THEN <<log>> ELSE <<>>
GivesUp(l) == "ended"
KeepsBuffer(l) == open' = open \ {l} /\ UNCHANGED wire
NextCursor(l, n) == IF l \in Watch THEN cursor[l] ELSE n + 1

----------------------------------------------------------------------------
\* The relay.

\* publish and broadcast: every open connection of the pairing gets the event.
Sent(type, n) ==
    [l \in Loop |-> IF l \in open THEN Append(wire[l], [type |-> type, n |-> n]) ELSE wire[l]]

AddMessage ==
    /\ log + planRev < MaxChanges /\ revoked # Agent
    /\ log' = log + 1
    /\ wire' = Sent("message.created", log')
    /\ missable' = [l \in Loop |-> missable[l] \cup (IF at[l] \in Gap THEN {log'} ELSE {})]
    /\ UNCHANGED <<host, planRev, revoked, pending, revocations, open, loopVars, drops>>

\* Any change of the plans row; the routes that make it are in RelayPlan.
UpdatePlan ==
    /\ log + planRev < MaxChanges /\ revoked # Agent
    /\ planRev' = planRev + 1
    /\ wire' = Sent("plan.updated", planRev')
    /\ UNCHANGED <<host, log, revoked, pending, revocations, open, loopVars, drops, missable>>

\* The connections of the revoked agent itself: told, and then closed.
Ejected(a) == {l \in open : Viewer[l] = a}

Eject(a) ==
    LET told == Sent("pairing.revoked", 0)
        out == Ejected(a)
    IN  /\ wire' = [l \in Loop |-> IF l \in out THEN Append(told[l], [type |-> "end", n |-> 0])
                                              ELSE told[l]]
        /\ open' = open \ out

MayRevoke(a) == revocations < MaxRevocations /\ revoked # Agent /\ a \notin pending

\* Node: tokens and credentials die and the event goes out in one handler.
RevokeAgent(a) ==
    /\ host = "node" /\ MayRevoke(a)
    /\ a \notin revoked                       \* again: nothing is written or sent
    /\ revocations' = revocations + 1
    /\ revoked' = revoked \cup {a}
    /\ Eject(a)
    /\ UNCHANGED <<host, log, planRev, pending, loopVars, drops, missable>>

\* Cloud: the Registry first, the room three RPCs later.
RevokeAtRegistry(a) ==
    /\ host = "cloud" /\ MayRevoke(a)
    /\ revocations' = revocations + 1
    /\ revoked' = revoked \cup {a}
    /\ pending' = pending \cup {a}
    /\ UNCHANGED <<host, log, planRev, open, wire, loopVars, drops, missable>>

BroadcastRevocation(a) ==
    /\ a \in pending
    /\ pending' = pending \ {a}
    /\ Eject(a)
    /\ UNCHANGED <<host, log, planRev, revoked, revocations, loopVars, drops, missable>>

\* The handler is cut off before it reaches the room.
RevocationDies(a) ==
    /\ a \in pending
    /\ pending' = pending \ {a}
    /\ UNCHANGED <<host, log, planRev, revoked, revocations, open, wire, loopVars, drops, missable>>

----------------------------------------------------------------------------
\* A loop.

Authenticated(l) == Viewer[l] \notin revoked

Go(l, place) == at' = [at EXCEPT ![l] = place]

\* The effect is mounted, or the command is run.
Start(l) ==
    /\ at[l] = "idle"
    /\ Go(l, "backfill")
    /\ UNCHANGED <<host, relayVars, open, wire, cursor, seen, shown, stopped, aborted, drops, missable>>

\* Number(since) || the whole thread: the replay begins after the cursor.
Newer(l) == [i \in 1 .. log - cursor[l] |-> cursor[l] + i]

\* The rows, in their order, are handed on before anything else is awaited.
Backfill(l) ==
    /\ at[l] = "backfill" /\ Authenticated(l)
    /\ seen' = [seen EXCEPT ![l] = @ \o Newer(l)]
    /\ cursor' = [cursor EXCEPT ![l] = IF l \in Watch THEN @ ELSE log]
    /\ Go(l, IF l \in Watch THEN "connect" ELSE "plan")
    /\ UNCHANGED <<host, relayVars, open, wire, shown, stopped, aborted, drops, missable>>

FetchPlan(l) ==
    /\ at[l] = "plan" /\ Authenticated(l)
    /\ shown' = [shown EXCEPT ![l] = planRev]
    /\ Go(l, IF l \in aborted THEN "ended" ELSE "connect")  \* fetch on a fired signal throws
    /\ UNCHANGED <<host, relayVars, open, wire, cursor, seen, stopped, aborted, drops, missable>>

Subscribed(l) ==
    /\ open' = open \cup {l}
    /\ Go(l, "streaming")
    /\ UNCHANGED <<host, relayVars, wire, cursor, seen, shown, stopped, aborted, drops, missable>>

Connect(l) ==
    /\ host = "node" /\ at[l] = "connect" /\ l \notin aborted /\ Authenticated(l)
    /\ Subscribed(l)

Authenticate(l) ==
    /\ host = "cloud" /\ at[l] = "connect" /\ l \notin aborted /\ Authenticated(l)
    /\ Go(l, "admitted")
    /\ UNCHANGED <<host, relayVars, open, wire, cursor, seen, shown, stopped, aborted, drops, missable>>

Subscribe(l) ==
    /\ at[l] = "admitted"
    /\ Subscribed(l)

\* The end of an iteration: `while (!stopped)' behind a capped backoff.
AfterLoss(l) == IF l \in Watch \cup stopped \cup aborted THEN "ended" ELSE "backoff"

Disconnected(l) ==
    /\ open' = open \ {l}
    /\ wire' = [wire EXCEPT ![l] = <<>>]

\* A request refused, or lost by the network.
Fail(l) ==
    /\ at[l] \in {"backfill", "plan", "connect", "admitted"}
    /\ \/ at[l] # "admitted" /\ (~Authenticated(l) \/ (at[l] = "connect" /\ l \in aborted))
          /\ UNCHANGED drops
       \/ drops < MaxDrops /\ drops' = drops + 1
    /\ Go(l, AfterLoss(l))
    /\ UNCHANGED <<host, relayVars, open, wire, cursor, seen, shown, stopped, aborted, missable>>

\* The connection breaks or the relay restarts: what was under way is gone.
Drop(l) ==
    /\ at[l] = "streaming" /\ drops < MaxDrops
    /\ drops' = drops + 1
    /\ Disconnected(l)
    /\ Go(l, AfterLoss(l))
    /\ UNCHANGED <<host, relayVars, cursor, seen, shown, stopped, aborted, missable>>

Retry(l) ==
    /\ at[l] = "backoff"
    /\ Go(l, IF l \in stopped THEN "ended" ELSE "backfill")
    /\ UNCHANGED <<host, relayVars, open, wire, cursor, seen, shown, stopped, aborted, drops, missable>>

\* Unmounting, a new credential, or ctrl-c.  Requests do not carry the signal,
\* only the stream does.
Abort(l) ==
    /\ at[l] \notin {"idle", "ended"} /\ l \notin aborted
    /\ aborted' = aborted \cup {l}
    /\ stopped' = stopped \cup {l}
    /\ Disconnected(l)
    /\ IF at[l] \in {"admitted", "streaming"} THEN Go(l, "ended") ELSE UNCHANGED at
    /\ UNCHANGED <<host, relayVars, cursor, seen, shown, drops, missable>>

\* Math.max: the cursor never goes back.
Advanced(l, n) == IF l \in Watch THEN cursor[l] ELSE IF n > cursor[l] THEN n ELSE cursor[l]

Receive(l, type) ==
    /\ at[l] = "streaming" /\ wire[l] # <<>> /\ Head(wire[l]).type = type
    /\ UNCHANGED <<host, relayVars, aborted, drops, missable>>
Read(l) == wire' = [wire EXCEPT ![l] = Tail(@)]

OnMessage(l) ==
    /\ Receive(l, "message.created")
    /\ seen' = [seen EXCEPT ![l] = Append(@, Head(wire[l]).n)]
    /\ cursor' = [cursor EXCEPT ![l] = Advanced(l, Head(wire[l]).n)]
    /\ Read(l)
    /\ UNCHANGED <<at, open, shown, stopped>>

OnPlan(l) ==
    /\ Receive(l, "plan.updated")
    /\ shown' = [shown EXCEPT ![l] = Head(wire[l]).n]
    /\ Read(l)
    /\ UNCHANGED <<at, open, cursor, seen, stopped>>

\* Whoever was revoked: the hook reads on until the connection ends and then
\* stops; `watch' closes the connection and returns.
OnRevoked(l) ==
    /\ Receive(l, "pairing.revoked")
    /\ IF l \in Watch
       THEN Disconnected(l) /\ Go(l, "ended") /\ UNCHANGED stopped
       ELSE Read(l) /\ stopped' = stopped \cup {l} /\ UNCHANGED <<open, at>>
    /\ UNCHANGED <<cursor, seen, shown>>

OnEnd(l) ==
    /\ Receive(l, "end")
    /\ Disconnected(l)
    /\ Go(l, AfterLoss(l))
    /\ UNCHANGED <<cursor, seen, shown, stopped>>

Proceed(l) ==
    \/ Backfill(l) \/ FetchPlan(l) \/ Connect(l) \/ Authenticate(l) \/ Subscribe(l)
    \/ OnMessage(l) \/ OnPlan(l) \/ OnRevoked(l) \/ OnEnd(l) \/ Retry(l)

Next ==
    \/ AddMessage \/ UpdatePlan
    \/ \E a \in Agent :
         RevokeAgent(a) \/ RevokeAtRegistry(a) \/ BroadcastRevocation(a) \/ RevocationDies(a)
    \/ \E l \in Loop : Start(l) \/ Proceed(l) \/ Fail(l) \/ Drop(l) \/ Abort(l)

Spec == Init /\ [][Next]_vars
FairSpec == Spec /\ \A l \in Loop : WF_vars(Proceed(l))

----------------------------------------------------------------------------
Seen(l) == {seen[l][i] : i \in DOMAIN seen[l]}

\* A viewer is shown every message at most once and in the order of the
\* thread, through any number of reconnects.
InOrder == \A l \in Loop : \A i, j \in DOMAIN seen[l] : i < j => seen[l][i] < seen[l][j]

\* Lost connections and relay restarts lose nothing by themselves: the only
\* message a viewer can skip and never come back to is one that was sent
\* between its replay and its subscription (`useStream' subscribes last).
GapOnlyInWindow ==
    \A l \in Loop : \A m \in 1 .. log :
        (\E n \in Seen(l) : m < n) => m \in Seen(l) \cup missable[l]

\* On the Node relay a revoked agent's live streams are closed in the step
\* that revokes it, and none opens afterwards.
RevokedIsCutOff == host = "node" => \A l \in open : Viewer[l] \notin revoked

\* The plan pane of one run of the hook never goes back to an older plan,
\* whichever of the replayed row and the streamed events comes last.
PlanForward == [][\A l \in Loop : shown'[l] >= shown[l]]_shown

\* A dropped connection costs nothing: what is in the thread reaches every
\* loop that is left running, unless it fell into the window or a revocation
\* ended the loop.
Reaches ==
    \A l \in Loop \ Watch : \A m \in 1 .. MaxChanges :
        (at[l] # "idle" /\ m <= log) ~>
            (m \in Seen(l) \cup missable[l] \/ l \in stopped \/ Viewer[l] \in revoked)

\* What useStream.ts says of reconnecting: "a dropped connection costs you
\* nothing", it "first replays the messages after the last cursor it saw".
NothingSkipped ==
    \A l \in Loop \ Watch : \A n \in Seen(l) : \A m \in 1 .. n : m \in Seen(l)

\* pairingRoom.ts on broadcastRevocation: a revoked agent's own stream is
\* ejected, on the cloud relay too, once the revocation has been announced.
StreamsFailClosed == \A l \in open : Viewer[l] \notin revoked \ pending
=============================================================================
