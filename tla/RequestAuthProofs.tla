------------------------- MODULE RequestAuthProofs -------------------------
(***************************************************************************)
(* What holds of the replay guards and of the narrowing of a token for any *)
(* windows, any clock skew, any number of guards and of requests that are  *)
(* handled at once, on both relays.                                        *)
(***************************************************************************)
EXTENDS RequestAuth, TLAPS

----------------------------------------------------------------------------
\* The inductive invariant.

\* What a guard's memory says of what it has let in: while it remembers it,
\* the claimed time was within the window of the arrival; once it has forgotten
\* it, the claimed time is out of every window for good.
GuardOK(i, r) ==
    /\ admitted[i][r] \in 0..1
    /\ seen[i][r] # Never =>
          unb64u(r) \in DOMAIN signed /\ seen[i][r] - signed[unb64u(r)].ts >= -Window
    /\ seen[i][r] = Never /\ admitted[i][r] = 1 =>
          unb64u(r) \in DOMAIN signed /\ now - signed[unb64u(r)].ts > Window

GuardsOK == \A i \in Instance, r \in Presented : GuardOK(i, r)

\* What a request under way carries: a proof that was signed, or the scopes of
\* the token as it was then.  The Node relay has one such request at most, and
\* nothing was stripped since it was received.
HandlerOK(h) ==
    /\ h.at = "proof" => h.via \in Presented /\ unb64u(h.via) \in DOMAIN signed
    /\ h.via = Never => h.had \cap h.before = {}
    /\ relay = "node" => h.before = stripped

HandlersOK ==
    /\ \A h \in handling : HandlerOK(h)
    /\ relay = "node" => \A g, h \in handling : g = h

\* The row of the token never holds what was stripped.
RowOK == scope \cap stripped = {}

IInv == TypeOK /\ GuardsOK /\ HandlersOK /\ RowOK /\ StrippedIsGone

USE RequestAuthAssumption
USE DEF history, Narrow

LEMMA InitIInv == Init => IInv
  BY DEF Init, IInv, TypeOK, GuardsOK, GuardOK, HandlersOK, RowOK, StrippedIsGone

----------------------------------------------------------------------------
\* The window, the guard's memory and the clock.

\* Whatever the route, a fresh proof is within the longer window.
LEMMA FreshIsRecent ==
    ASSUME now \in Nat, NEW s \in SignedRequest, Fresh(s)
    PROVE  now - s.ts <= Window /\ now - s.ts >= -Window
  BY DEF Fresh, Abs, SignedRequest

\* Time and further requests do not disturb what a guard knows.
LEMMA GuardsStay ==
    ASSUME TypeOK, GuardsOK, now' \in Nat, now' >= now,
           UNCHANGED <<seen, admitted>>,
           \A p \in DOMAIN signed : p \in DOMAIN signed' /\ signed'[p] = signed[p]
    PROVE  GuardsOK'
<1> SUFFICES ASSUME NEW i \in Instance, NEW r \in Presented PROVE GuardOK(i, r)'
  BY DEF GuardsOK
<1>1. GuardOK(i, r)
  BY DEF GuardsOK
<1>2. unb64u(r) \in DOMAIN signed => signed[unb64u(r)].ts \in Int
  BY DEF TypeOK, SignedRequest
<1> QED  BY <1>1, <1>2 DEF GuardOK, TypeOK

\* Forgetting is safe: the guard waits twice the window from the arrival, and
\* the claimed time was at most one window after it.
LEMMA ForgottenIsStale ==
    ASSUME TypeOK, GuardsOK, NEW i \in Instance, NEW r \in Presented, Forgets(i, r)
    PROVE  unb64u(r) \in DOMAIN signed /\ now - signed[unb64u(r)].ts > Window
<1>1. GuardOK(i, r)
  BY DEF GuardsOK
<1>2. seen[i][r] # Never /\ seen[i][r] \in Nat /\ now \in Nat
  BY DEF Forgets, TypeOK
<1>3. unb64u(r) \in DOMAIN signed /\ signed[unb64u(r)].ts \in Int
  BY <1>1, <1>2 DEF GuardOK, TypeOK, SignedRequest
<1> QED  BY <1>1, <1>2, <1>3 DEF GuardOK, Forgets

----------------------------------------------------------------------------
\* One lemma per action.

LEMMA SignKeeps ==
    ASSUME IInv, NEW p \in Proof, NEW d \in -MaxSkew..MaxSkew, NEW stream \in BOOLEAN,
           NEW ask \in Ask, SignProof(p, d, stream, ask)
    PROVE  IInv'
<1> DEFINE s == [ts |-> now + d, stream |-> stream, ask |-> ask]
<1>1. s \in SignedRequest
  BY DEF IInv, TypeOK, SignedRequest
<1>2. /\ DOMAIN signed' = DOMAIN signed \cup {p}
      /\ signed'[p] = s
      /\ \A q \in DOMAIN signed : signed'[q] = signed[q]
  BY DEF SignProof, Put
<1>3. TypeOK'
  BY <1>1, <1>2 DEF IInv, TypeOK, SignProof
<1>4. GuardsOK'
  BY <1>2, GuardsStay DEF IInv, TypeOK, SignProof
<1>5. HandlersOK' /\ RowOK' /\ StrippedIsGone'
  BY <1>2 DEF IInv, HandlersOK, HandlerOK, RowOK, StrippedIsGone, SignProof
<1> QED  BY <1>3, <1>4, <1>5 DEF IInv

\* A request enters: what it carries is right at that instant.
LEMMA BeginKeeps ==
    ASSUME IInv, NEW h \in Handled, Begin(h), HandlerOK(h)
    PROVE  IInv'
<1>1. TypeOK'
  BY DEF IInv, TypeOK, Begin
<1>2. GuardsOK'
  BY DEF IInv, GuardsOK, GuardOK, Begin
<1>3. HandlersOK'
  BY DEF IInv, HandlersOK, HandlerOK, Begin, Free
<1>4. RowOK' /\ StrippedIsGone'
  BY DEF IInv, RowOK, StrippedIsGone, Begin
<1> QED  BY <1>1, <1>2, <1>3, <1>4 DEF IInv

LEMMA ReceiveSignedKeeps ==
    ASSUME IInv, NEW r \in Presented, NEW i \in Instance, ReceiveSigned(r, i)
    PROVE  IInv'
<1> DEFINE h == [at |-> "proof", via |-> r, on |-> i, ask |-> signed[unb64u(r)].ask,
                 had |-> Scope, before |-> stripped]
<1>1. unb64u(r) \in DOMAIN signed /\ signed[unb64u(r)].ask \in Ask
  BY DEF ReceiveSigned, IInv, TypeOK, SignedRequest
<1>2. h \in Handled
  BY <1>1 DEF Handled, IInv, TypeOK
<1>3. r # Never
  BY DEF Presented
<1> QED  BY <1>1, <1>2, <1>3, BeginKeeps DEF HandlerOK, ReceiveSigned

LEMMA ReceiveBearerKeeps ==
    ASSUME IInv, NEW i \in Instance, NEW ask \in Ask, ReceiveBearer(i, ask)
    PROVE  IInv'
<1> DEFINE h == [at |-> "run", via |-> Never, on |-> i, ask |-> ask,
                 had |-> TokenScope, before |-> stripped]
<1>1. h \in Handled
  BY DEF Handled, TokenScope, IInv, TypeOK
<1>2. HandlerOK(h)
  BY DEF HandlerOK, TokenScope, IInv, RowOK
<1> QED  BY <1>1, <1>2, BeginKeeps DEF ReceiveBearer

\* The guard lets in only what it has never let in: what it has forgotten is no
\* longer fresh.
LEMMA CheckProofKeepsGuards ==
    ASSUME IInv, NEW h \in handling, CheckProof(h)
    PROVE  GuardsOK'
<1> DEFINE mem == Remembered(h.on)
           sign == unb64u(h.via)
           fresh == Fresh(signed[sign])
           new == mem[h.via] = Never
<1>1. h \in Handled /\ h.at = "proof" /\ sign \in DOMAIN signed /\ h.via \in Presented
  BY DEF IInv, TypeOK, HandlersOK, HandlerOK, CheckProof
<1>2. h.on \in Instance /\ signed[sign] \in SignedRequest /\ now \in Nat
  BY <1>1 DEF IInv, TypeOK, Handled
<1>3. /\ UNCHANGED <<now, signed>>
      /\ seen' = [seen EXCEPT ![h.on] =
                     IF ~fresh THEN @
                     ELSE IF new THEN [mem EXCEPT ![h.via] = now] ELSE mem]
      /\ admitted' = IF fresh /\ new THEN [admitted EXCEPT ![h.on][h.via] = @ + 1]
                                     ELSE admitted
  BY DEF CheckProof, Arrival
<1>4. CASE ~fresh
  <2>1. UNCHANGED <<seen, admitted>>
    BY <1>3, <1>4 DEF IInv, TypeOK
  <2> QED  BY <1>3, <2>1 DEF IInv, GuardsOK, GuardOK
<1>5. CASE fresh
  <2> SUFFICES ASSUME NEW i \in Instance, NEW r \in Presented PROVE GuardOK(i, r)'
    BY DEF GuardsOK
  <2>1. GuardOK(i, r) /\ now - signed[sign].ts <= Window /\ now - signed[sign].ts >= -Window
    BY <1>2, <1>5, FreshIsRecent DEF IInv, GuardsOK
  <2>2. signed[sign].ts \in Int
    BY <1>2 DEF SignedRequest
  <2>3. CASE i # h.on
    <3>1. seen'[i][r] = seen[i][r] /\ admitted'[i][r] = admitted[i][r]
      BY <1>3, <2>3 DEF IInv, TypeOK
    <3> QED  BY <1>3, <2>1, <3>1 DEF GuardOK
  <2>4. CASE i = h.on /\ ~(new /\ r = h.via)
    <3>1. seen'[i][r] = mem[r] /\ admitted'[i][r] = admitted[i][r]
      BY <1>1, <1>3, <1>5, <2>4 DEF IInv, TypeOK, Remembered
    <3>2. CASE Forgets(i, r)
      <4>1. mem[r] = Never
        BY <2>4, <3>2 DEF Remembered
      <4>2. unb64u(r) \in DOMAIN signed /\ now - signed[unb64u(r)].ts > Window
        BY <3>2, ForgottenIsStale DEF IInv
      <4> QED  BY <1>3, <2>1, <3>1, <4>1, <4>2 DEF GuardOK
    <3>3. CASE ~Forgets(i, r)
      <4>1. mem[r] = seen[i][r]
        BY <2>4, <3>3 DEF Remembered
      <4> QED  BY <1>3, <2>1, <3>1, <4>1 DEF GuardOK
    <3> QED  BY <3>2, <3>3
  <2>5. CASE i = h.on /\ new /\ r = h.via
    <3>1. seen'[i][r] = now
      BY <1>1, <1>3, <1>5, <2>5 DEF IInv, TypeOK, Remembered
    <3>2. admitted'[i][r] = admitted[i][r] + 1
      BY <1>1, <1>3, <1>5, <2>5 DEF IInv, TypeOK
    <3>3. ~Forgets(i, r)
      BY <1>1, <1>2, <2>1, <2>2, <2>5, ForgottenIsStale DEF IInv
    <3>4. seen[i][r] = Never
      BY <2>5, <3>3 DEF Remembered
    <3>5. admitted[i][r] = 0
      BY <1>2, <2>1, <2>2, <2>5, <3>4 DEF GuardOK
    <3> QED  BY <1>1, <1>2, <1>3, <2>1, <2>2, <2>5, <3>1, <3>2, <3>5 DEF GuardOK
  <2> QED  BY <2>3, <2>4, <2>5
<1> QED  BY <1>4, <1>5

LEMMA CheckProofKeeps ==
    ASSUME IInv, NEW h \in handling, CheckProof(h)
    PROVE  IInv'
<1> DEFINE g == [h EXCEPT !.at = "run"]
<1>1. h \in Handled /\ HandlerOK(h) /\ h.at = "proof" /\ h.via \in Presented
  BY DEF IInv, TypeOK, HandlersOK, HandlerOK, CheckProof
<1>2. g \in Handled /\ g.via = h.via /\ g.had = h.had /\ g.before = h.before /\ g.at = "run"
  BY <1>1 DEF Handled
<1>3. handling' \subseteq (handling \ {h}) \cup {g}
  BY DEF CheckProof
<1>4. TypeOK'
  <2>1. seen' \in [Instance -> [Presented -> (0..now) \cup {Never}]]
    <3>1. h.on \in Instance /\ Arrival(h) \in 0..now
      BY <1>1 DEF Handled, Arrival, IInv, TypeOK
    <3>2. Remembered(h.on) \in [Presented -> (0..now) \cup {Never}]
      BY <3>1 DEF Remembered, IInv, TypeOK
    <3>3. [Remembered(h.on) EXCEPT ![h.via] = Arrival(h)] \in [Presented -> (0..now) \cup {Never}]
      BY <3>1, <3>2
    <3> QED  BY <3>1, <3>2, <3>3 DEF CheckProof, IInv, TypeOK
  <2>2. admitted' \in [Instance -> [Presented -> Nat]]
    <3>1. h.on \in Instance /\ admitted[h.on][h.via] + 1 \in Nat
      BY <1>1 DEF Handled, IInv, TypeOK
    <3>2. admitted' = admitted \/ admitted' = [admitted EXCEPT ![h.on][h.via] = @ + 1]
      BY DEF CheckProof
    <3>3. admitted \in [Instance -> [Presented -> Nat]]
      BY DEF IInv, TypeOK
    <3>4. [admitted[h.on] EXCEPT ![h.via] = @ + 1] \in [Presented -> Nat]
      BY <1>1, <3>1, <3>3
    <3>5. [admitted EXCEPT ![h.on][h.via] = @ + 1] \in [Instance -> [Presented -> Nat]]
      BY <3>1, <3>3, <3>4
    <3> QED  BY <3>2, <3>3, <3>5
  <2> QED  BY <1>2, <1>3, <2>1, <2>2 DEF CheckProof, IInv, TypeOK
<1>5. HandlersOK'
  BY <1>1, <1>2, <1>3 DEF CheckProof, IInv, HandlersOK, HandlerOK
<1>6. RowOK' /\ StrippedIsGone'
  BY DEF CheckProof, IInv, RowOK, StrippedIsGone
<1> QED  BY <1>4, <1>5, <1>6, CheckProofKeepsGuards DEF IInv

\* A request to narrow only takes away, whatever the row has become since it was
\* received; any other uses only what its token had.
LEMMA RunKeeps ==
    ASSUME IInv, NEW h \in handling, Run(h)
    PROVE  IInv'
<1>1. h \in Handled /\ HandlerOK(h) /\ h.ask \in Ask
  BY DEF IInv, TypeOK, HandlersOK, Handled
<1>2. handling' = handling \ {h} /\ UNCHANGED <<relay, now, signed, seen, restarts, admitted>>
  BY DEF Run
<1>3. GuardsOK'
  BY <1>2 DEF IInv, GuardsOK, GuardOK
<1>4. CASE h.ask.need = Narrow
  <2>1. scope' = NarrowedScope(h) /\ stripped' = stripped \cup (Scope \ scope') /\ done' = done
    BY <1>4 DEF Run
  <2>2. scope' \subseteq scope
    BY <2>1 DEF NarrowedScope
  <2>3. TypeOK' /\ RowOK' /\ StrippedIsGone'
    BY <1>2, <2>1, <2>2 DEF IInv, TypeOK, RowOK, StrippedIsGone
  <2>4. HandlersOK'
    BY <1>2, <2>1 DEF IInv, HandlersOK, HandlerOK
  <2> QED  BY <1>3, <2>3, <2>4 DEF IInv
<1>5. CASE h.ask.need # Narrow
  <2> DEFINE use == [pop |-> h.via # Never, need |-> h.ask.need,
                     before |-> h.before, by |-> stripped]
  <2>1. UNCHANGED <<scope, stripped>>
    BY <1>5 DEF Run
  <2>2. done' = done \/ (done' = {use} /\ h.ask.need \in h.had)
    BY <1>5 DEF Run
  <2>3. h.ask.need \in Scope
    BY <1>1, <1>5 DEF Ask
  <2>4. use \in Use
    BY <1>1, <2>3 DEF Use, Handled, IInv, TypeOK
  <2>5. TypeOK' /\ RowOK'
    BY <1>2, <2>1, <2>2, <2>4 DEF IInv, TypeOK, RowOK
  <2>6. HandlersOK'
    BY <1>2, <2>1 DEF IInv, HandlersOK, HandlerOK
  <2>7. StrippedIsGone'
    <3>1. CASE done' = done
      BY <1>2, <3>1 DEF IInv, StrippedIsGone
    <3>2. CASE done' = {use} /\ h.ask.need \in h.had
      <4>1. h.via = Never => /\ h.ask.need \notin h.before
                             /\ relay = "node" => h.ask.need \notin stripped
        BY <1>1, <3>2 DEF HandlerOK
      <4>2. ASSUME NEW u \in done', ~u.pop
            PROVE  u.need \notin u.before /\ (relay' = "node" => u.need \notin u.by)
        <5>1. u = use
          BY <3>2
        <5> QED  BY <1>2, <4>1, <4>2, <5>1
      <4> QED  BY <4>2 DEF StrippedIsGone
    <3> QED  BY <2>2, <3>1, <3>2
  <2> QED  BY <1>3, <2>5, <2>6, <2>7 DEF IInv
<1> QED  BY <1>4, <1>5

LEMMA TickKeeps == IInv /\ Tick => IInv'
<1> SUFFICES ASSUME IInv, Tick PROVE IInv'
  OBVIOUS
<1>1. now \in Nat /\ now' \in 0..MaxTime /\ now' >= now
  BY DEF Tick, IInv, TypeOK
<1>2. TypeOK'
  BY <1>1 DEF Tick, IInv, TypeOK
<1>3. GuardsOK'
  BY <1>1, GuardsStay DEF Tick, IInv
<1>4. HandlersOK' /\ RowOK' /\ StrippedIsGone'
  BY DEF Tick, IInv, HandlersOK, HandlerOK, RowOK, StrippedIsGone
<1> QED  BY <1>2, <1>3, <1>4 DEF IInv

LEMMA RestartKeeps ==
    ASSUME IInv, NEW i \in Instance, Restart(i)
    PROVE  IInv'
<1>1. /\ seen' \in [Instance -> [Presented -> (0..now) \cup {Never}]]
      /\ admitted' \in [Instance -> [Presented -> Nat]]
  BY DEF Restart, IInv, TypeOK
<1>2. \A j \in Instance, r \in Presented :
          IF j = i THEN seen'[j][r] = Never /\ admitted'[j][r] = 0
                   ELSE seen'[j][r] = seen[j][r] /\ admitted'[j][r] = admitted[j][r]
  BY DEF Restart, IInv, TypeOK
<1>3. handling' \subseteq handling
  BY DEF Restart
<1>4. TypeOK'
  BY <1>1, <1>3 DEF Restart, IInv, TypeOK
<1>5. GuardsOK'
  BY <1>2 DEF Restart, IInv, GuardsOK, GuardOK
<1>6. HandlersOK' /\ RowOK' /\ StrippedIsGone'
  BY <1>3 DEF Restart, IInv, HandlersOK, HandlerOK, RowOK, StrippedIsGone
<1> QED  BY <1>4, <1>5, <1>6 DEF IInv

LEMMA NextIInv == IInv /\ [Next]_vars => IInv'
<1> SUFFICES ASSUME IInv, [Next]_vars PROVE IInv'
  OBVIOUS
<1>1. CASE UNCHANGED vars
  BY <1>1 DEF vars, IInv, TypeOK, GuardsOK, GuardOK, HandlersOK, HandlerOK, RowOK, StrippedIsGone
<1> QED  BY <1>1, SignKeeps, ReceiveSignedKeeps, ReceiveBearerKeeps, CheckProofKeeps, RunKeeps,
            TickKeeps, RestartKeeps DEF Next

----------------------------------------------------------------------------
LEMMA InvariantHolds == Spec => []IInv
  BY InitIInv, NextIInv, PTL DEF Spec

\* The types of every variable: a guard never remembers an arrival in the future.
THEOREM TypeCorrect == Spec => []TypeOK
<1>1. IInv => TypeOK
  BY DEF IInv
<1> QED  BY <1>1, InvariantHolds, PTL

\* For any window, any skew of the clients' clocks, any shorter window of the stream
\* route and any number of texts of one signature, no guard lets the same bytes in
\* twice while it lives.
THEOREM NoReplay == Spec => []AdmittedOnce
<1>1. IInv => AdmittedOnce
  BY DEF IInv, GuardsOK, GuardOK, AdmittedOnce
<1> QED  BY <1>1, InvariantHolds, PTL

\* However requests to narrow overlap, no token presented later uses what one of
\* them gave up; on the Node relay no request at all does.
THEOREM NarrowingIsFinal == Spec => []StrippedIsGone
<1>1. IInv => StrippedIsGone
  BY DEF IInv
<1> QED  BY <1>1, InvariantHolds, PTL

=============================================================================
