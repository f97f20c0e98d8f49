---------------------------- MODULE RequestAuth -----------------------------
(***************************************************************************)
(* What happens to one agent's requests before a handler runs: the         *)
(* credential or token, the proof of possession and its time window, the   *)
(* replay guard, the capability the route asks for; and the one request    *)
(* that changes the outcome of later ones, POST /pairings/mine/scope.      *)
(*                                                                         *)
(* A signed request is a member of Proof: method, path, body, nonce and    *)
(* timestamp are what its signature covers.  A request presents it as a    *)
(* text: the check of the signature reads what the text decodes to, and    *)
(* the decoder takes more than one text for the same signature, while the  *)
(* guard's key is the text.  The network delivers a request at any time,   *)
(* any number of times.                                                    *)
(* The Node relay checks and handles a request in one go.  On the          *)
(* Cloudflare relay each call to the Registry is an await, and every       *)
(* isolate of the Worker has a guard of its own.  `handling' holds the     *)
(* requests that are between two steps.                                    *)
(***************************************************************************)
EXTENDS Integers, FiniteSets

CONSTANTS
    Proof, Scope,
    Text,          \* the texts that decode to one signature; signProof writes one of them
    Instance,      \* processes or isolates, each with its replay guard
    Never,
    Window,        \* PROOF_WINDOW_SECONDS
    StreamWindow,  \* STREAM_PROOF_WINDOW_SECONDS
    MaxSkew,       \* bound: how far off a client's clock is
    MaxTime,       \* bound: the last instant
    MaxRestarts,   \* bound: guards lost
    MaxHandling    \* bound: requests in flight

ASSUME RequestAuthAssumption ==
    /\ Never \notin Int /\ Never \notin Proof \X Text
    /\ Window \in Nat /\ StreamWindow \in 0..Window
    /\ {MaxSkew, MaxTime, MaxRestarts, MaxHandling} \subseteq Nat

VARIABLES
    relay,     \* "node" or "cloud"; never changes
    now,
    signed,    \* the signed requests in circulation
    seen,      \* ProofReplayGuard.seen
    scope,     \* agent_tokens.scope of the agent
    handling,
    restarts,
    \* history
    admitted,  \* how often each guard let in what was presented, since it started
    stripped,  \* capabilities the agent has ever given up
    done       \* the last capability used, and what had been stripped by then

vars == <<relay, now, signed, seen, scope, handling, restarts, admitted, stripped, done>>
history == <<admitted, stripped, done>>

\* The header Inzo-Proof: a signature in one of its texts.
Presented == Proof \X Text
unb64u(r) == r[1]

Narrow == "narrow"                  \* asks for no capability
Ask == [need : Scope, keep : {{}}] \cup [need : {Narrow}, keep : SUBSET Scope]
SignedRequest == [ts : Int, stream : BOOLEAN, ask : Ask]

\* had: the capabilities of the credential or token that was presented;
\* before: what the agent had ever given up when it was looked at.
Handled ==
    [at : {"proof", "run"}, via : Presented \cup {Never}, on : Instance, ask : Ask,
     had : SUBSET Scope, before : SUBSET Scope]
Use == [pop : BOOLEAN, need : Scope, before : SUBSET Scope, by : SUBSET Scope]

TypeOK ==
    /\ relay \in {"node", "cloud"} /\ now \in 0..MaxTime
    /\ DOMAIN signed \subseteq Proof
    /\ \A p \in DOMAIN signed : signed[p] \in SignedRequest
    /\ seen \in [Instance -> [Presented -> (0..now) \cup {Never}]]
    /\ scope \subseteq Scope
    /\ handling \subseteq Handled /\ restarts \in 0..MaxRestarts
    /\ admitted \in [Instance -> [Presented -> Nat]] /\ stripped \subseteq Scope
    /\ done \subseteq Use

----------------------------------------------------------------------------
\* Seeded defects: each is a plausible slip in the definition it stands in for.

ForgetsAtTwice(i, r) == seen[i][r] # Never /\ now - seen[i][r] >= 2 * Window
RemembersClaim(h) == signed[unb64u(h.via)].ts
NarrowsWhatItHad(h) == IF h.ask.keep \subseteq h.had THEN h.ask.keep ELSE scope
KeepsAll == Scope

----------------------------------------------------------------------------
Init ==
    /\ relay \in {"node", "cloud"} /\ now = 0
    /\ signed = <<>>
    /\ seen = [i \in Instance |-> [r \in Presented |-> Never]]
    /\ scope = Scope
    /\ handling = {} /\ restarts = 0
    /\ admitted = [i \in Instance |-> [r \in Presented |-> 0]] /\ stripped = {} /\ done = {}

\* No other request runs while a Node handler is on the stack.
Free == relay = "node" => handling = {}

Put(p, s) == [q \in DOMAIN signed \cup {p} |-> IF q = p THEN s ELSE signed[q]]

\* signProof, at the client's own clock; a nonce makes every request new.
SignProof(p, skew, stream, ask) ==
    /\ Free /\ p \notin DOMAIN signed
    /\ signed' = Put(p, [ts |-> now + skew, stream |-> stream, ask |-> ask])
    /\ UNCHANGED <<relay, now, seen, scope, handling, restarts, history>>

Begin(h) ==
    /\ Free /\ Cardinality(handling) < MaxHandling
    /\ handling' = handling \cup {h}
    /\ UNCHANGED <<relay, now, signed, seen, scope, restarts, history>>

\* The credential verifies, and its signed payload says what it may do.
ReceiveSigned(r, i) ==
    /\ unb64u(r) \in DOMAIN signed
    /\ Begin([at |-> "proof", via |-> r, on |-> i, ask |-> signed[unb64u(r)].ask,
              had |-> Scope, before |-> stripped])

TokenScope == scope

\* resolveToken: the row of agent_tokens says it.
ReceiveBearer(i, ask) ==
    Begin([at |-> "run", via |-> Never, on |-> i, ask |-> ask,
           had |-> TokenScope, before |-> stripped])

----------------------------------------------------------------------------
Abs(n) == IF n < 0 THEN -n ELSE n
Fresh(s) == Abs(now - s.ts) <= IF s.stream THEN StreamWindow ELSE Window

\* The guard drops old proofs before it looks; it measures from their arrival,
\* and by the longer window whatever the route.
Forgets(i, r) == seen[i][r] # Never /\ now - seen[i][r] > 2 * Window
Remembered(i) == [r \in Presented |-> IF Forgets(i, r) THEN Never ELSE seen[i][r]]

Arrival(h) == now

\* verifyProof, of what the text decodes to, and replayGuard.admit, of the text: no
\* await between them.
CheckProof(h) ==
    LET mem == Remembered(h.on)
        fresh == Fresh(signed[unb64u(h.via)])
        new == mem[h.via] = Never
    IN
    /\ h.at = "proof"
    /\ seen' = [seen EXCEPT ![h.on] =
                   IF ~fresh THEN @
                   ELSE IF new THEN [mem EXCEPT ![h.via] = Arrival(h)] ELSE mem]
    /\ IF fresh /\ new
       THEN /\ handling' = (handling \ {h}) \cup {[h EXCEPT !.at = "run"]}
            /\ admitted' = [admitted EXCEPT ![h.on][h.via] = @ + 1]
       ELSE handling' = handling \ {h} /\ UNCHANGED admitted
    /\ UNCHANGED <<relay, now, signed, scope, restarts, stripped, done>>

\* narrowedScope against the row as it is now: keeping what it lacks is a 400.
NarrowedScope(h) == IF h.ask.keep \subseteq scope THEN h.ask.keep ELSE scope

\* requireScope and the handler.
Run(h) ==
    /\ h.at = "run"
    /\ handling' = handling \ {h}
    /\ IF h.ask.need = Narrow
       THEN /\ scope' = NarrowedScope(h)
            /\ stripped' = stripped \cup (Scope \ scope')
            /\ UNCHANGED done
       ELSE /\ done' = IF h.ask.need \in h.had
                       THEN {[pop |-> h.via # Never, need |-> h.ask.need,
                              before |-> h.before, by |-> stripped]}
                       ELSE done
            /\ UNCHANGED <<scope, stripped>>
    /\ UNCHANGED <<relay, now, signed, seen, restarts, admitted>>

Tick ==
    /\ Free /\ now < MaxTime
    /\ now' = now + 1
    /\ UNCHANGED <<relay, signed, seen, scope, handling, restarts, history>>

\* The guard is memory of the process.
Restart(i) ==
    /\ Free /\ restarts < MaxRestarts /\ restarts' = restarts + 1
    /\ seen' = [seen EXCEPT ![i] = [r \in Presented |-> Never]]
    /\ admitted' = [admitted EXCEPT ![i] = [r \in Presented |-> 0]]
    /\ handling' = {h \in handling : h.on # i}
    /\ UNCHANGED <<relay, now, signed, scope, stripped, done>>

Next ==
    \/ \E p \in Proof, d \in -MaxSkew..MaxSkew, stream \in BOOLEAN, ask \in Ask :
           SignProof(p, d, stream, ask)
    \/ \E r \in Presented, i \in Instance : ReceiveSigned(r, i)
    \/ \E i \in Instance, ask \in Ask : ReceiveBearer(i, ask)
    \/ \E h \in handling : CheckProof(h)
    \/ \E h \in handling : Run(h)
    \/ Tick
    \/ \E i \in Instance : Restart(i)

Spec == Init /\ [][Next]_vars

----------------------------------------------------------------------------
\* Safety.

\* The comment on the replay guard: "A replay is byte-identical by definition".  A
\* guard lets the same bytes in at most once while it lives, however far in the
\* future their timestamp was, whichever window the route has and whatever else was
\* presented meanwhile.  It says nothing of another text of the same signature.
AdmittedOnce == \A i \in Instance, r \in Presented : admitted[i][r] <= 1

\* A capability once stripped is gone from the token: no token presented later
\* uses it, not even after two overlapping requests to narrow.  On the Node
\* relay not even a request that was being handled then.
StrippedIsGone ==
    \A u \in done : ~u.pop =>
        u.need \notin u.before /\ (relay = "node" => u.need \notin u.by)

\* What a comment says of every credential: v3 requests go by the payload.
StrippedIsGoneForAll == \A u \in done : u.need \notin u.before
=============================================================================
