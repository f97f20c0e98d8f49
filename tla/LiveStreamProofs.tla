--------------------------- MODULE LiveStreamProofs ---------------------------
(***************************************************************************)
(* What holds of the thread and of every client that follows it, for any   *)
(* number of agents, loops and messages: the order in which a viewer is    *)
(* shown the thread, what it can miss, that its plan never goes back, and  *)
(* that the Node relay closes the streams of a revoked agent.              *)
(***************************************************************************)
EXTENDS LiveStream, SequenceTheorems, TLAPS

----------------------------------------------------------------------------
\* What a buffer of events holds.

IsMessage(e) == e.type = "message.created"
IsPlan(e) == e.type = "plan.updated"

Carries(s, m) == \E i \in DOMAIN s : IsMessage(s[i]) /\ s[i].n = m

\* Messages are buffered in the order of the thread, and plans in theirs.
InTurn(s) == \A i, j \in DOMAIN s : i < j =>
    /\ IsMessage(s[i]) /\ IsMessage(s[j]) => s[i].n < s[j].n
    /\ IsPlan(s[i]) /\ IsPlan(s[j]) => s[i].n <= s[j].n

\* Nothing in a buffer is newer than the thread or the plans row, nor older than plan.
Current(s, plan) == \A i \in DOMAIN s :
    /\ IsMessage(s[i]) => s[i].n \in 1 .. log
    /\ IsPlan(s[i]) => s[i].n \in plan .. planRev

----------------------------------------------------------------------------
\* The inductive invariant.

\* Only a stream has a subscriber or a buffer.
StreamOK(l) ==
    /\ l \in open => at[l] = "streaming"
    /\ at[l] # "streaming" => wire[l] = <<>>
    /\ at[l] = "admitted" => host = "cloud"

\* What a loop handed on is behind its cursor; `watch' has no cursor and replays once.
CursorOK(l) ==
    /\ l \notin Watch => \A i \in DOMAIN seen[l] : seen[l][i] <= cursor[l]
    /\ l \in Watch => /\ cursor[l] = 0 /\ at[l] # "backoff"
                      /\ at[l] \in {"idle", "backfill"} => seen[l] = <<>>

\* Messages are handed on in order, and what is on its way comes after them.
OrderOK(l) ==
    /\ \A i, j \in DOMAIN seen[l] : i < j => seen[l][i] < seen[l][j]
    /\ InTurn(wire[l]) /\ Current(wire[l], shown[l])
    /\ \A i \in DOMAIN seen[l], j \in DOMAIN wire[l] :
          IsMessage(wire[l][j]) => seen[l][i] < wire[l][j].n

\* A message that was neither handed on nor sent in the window is still to come: it is
\* after the cursor while the loop is away, and in the buffer while it streams.
Had(l, m) == m \in Seen(l) \cup missable[l]
Due(l, m) == Had(l, m) \/ Carries(wire[l], m)
CoverOK(l) ==
    /\ \A m \in 1 .. cursor[l] : Had(l, m)
    /\ \A n \in Seen(l) : \A m \in 1 .. n : Had(l, m)
    /\ at[l] \in Gap => \A m \in 1 .. log : Had(l, m)
    /\ l \in open => \A m \in 1 .. log : Due(l, m)
    /\ \A n \in 1 .. log : Carries(wire[l], n) => \A m \in 1 .. n : Due(l, m)

LoopOK(l) == StreamOK(l) /\ CursorOK(l) /\ OrderOK(l) /\ CoverOK(l)

IInv == TypeOK /\ (\A l \in Loop : LoopOK(l)) /\ RevokedIsCutOff

----------------------------------------------------------------------------
\* Buffers.

LEMMA MadeEvent ==
    ASSUME NEW type \in {"message.created", "plan.updated", "pairing.revoked", "end"}, NEW n \in Nat
    PROVE  \E e \in Event : /\ e = [type |-> type, n |-> n] /\ e.n = n
                            /\ IsMessage(e) <=> type = "message.created"
                            /\ IsPlan(e) <=> type = "plan.updated"
<1>1. [type |-> type, n |-> n] \in Event
  BY DEF Event
<1>2. [type |-> type, n |-> n].type = type /\ [type |-> type, n |-> n].n = n
  OBVIOUS
<1> WITNESS [type |-> type, n |-> n] \in Event
<1> QED  BY <1>2 DEF IsMessage, IsPlan

LEMMA Appended ==
    ASSUME NEW s \in Seq(Event), NEW e \in Event
    PROVE  /\ Append(s, e) \in Seq(Event)
           /\ \A i \in DOMAIN s : i \in DOMAIN Append(s, e) /\ Append(s, e)[i] = s[i]
           /\ \A i \in DOMAIN Append(s, e) : i \in DOMAIN s \/ Append(s, e)[i] = e
           /\ \A i, j \in DOMAIN Append(s, e) : i < j => i \in DOMAIN s
           /\ \A m : Carries(Append(s, e), m) <=> Carries(s, m) \/ (IsMessage(e) /\ e.n = m)
<1>1. /\ Append(s, e) \in Seq(Event) /\ Len(s) \in Nat
      /\ DOMAIN s = 1 .. Len(s) /\ DOMAIN Append(s, e) = 1 .. (Len(s) + 1)
      /\ \A i \in 1 .. Len(s) : Append(s, e)[i] = s[i]
      /\ Append(s, e)[Len(s) + 1] = e
  BY AppendProperties, LenProperties
<1>2. PICK n \in Nat, t \in Seq(Event) :
          /\ t = Append(s, e) /\ n = Len(s)
          /\ DOMAIN s = 1 .. n /\ DOMAIN t = 1 .. (n + 1)
          /\ \A i \in 1 .. n : t[i] = s[i]
          /\ t[n + 1] = e
  BY <1>1
<1>3. \A i \in 1 .. n : i \in 1 .. (n + 1)
  OBVIOUS
<1>4. \A i \in 1 .. (n + 1) : i \in 1 .. n \/ i = n + 1
  OBVIOUS
<1>5. \A i \in DOMAIN s : i \in DOMAIN t /\ t[i] = s[i]
  BY <1>2, <1>3
<1>6. \A i \in DOMAIN t : i \in DOMAIN s \/ t[i] = e
  BY <1>2, <1>4
<1>7. \A i, j \in DOMAIN t : i < j => i \in DOMAIN s
  BY <1>2
<1>8. n + 1 \in DOMAIN t
  BY <1>2
<1>9. \A m : Carries(t, m) <=> Carries(s, m) \/ (IsMessage(e) /\ e.n = m)
  BY <1>2, <1>5, <1>6, <1>8 DEF Carries
<1> QED  BY <1>1, <1>2, <1>5, <1>6, <1>7, <1>9

LEMMA TakenOff ==
    ASSUME NEW s \in Seq(Event), s # <<>>
    PROVE  /\ Head(s) \in Event /\ Tail(s) \in Seq(Event)
           /\ \A i \in DOMAIN Tail(s) : i + 1 \in DOMAIN s /\ Tail(s)[i] = s[i + 1]
           /\ 1 \in DOMAIN s /\ s[1] = Head(s) /\ \A i \in DOMAIN Tail(s) : i \in Nat /\ 1 < i + 1
           /\ \A m : Carries(s, m)
                 <=> Carries(Tail(s), m) \/ (IsMessage(Head(s)) /\ Head(s).n = m)
<1>1. /\ Head(s) \in Event /\ Tail(s) \in Seq(Event) /\ Len(s) \in Nat \ {0}
      /\ DOMAIN s = 1 .. Len(s) /\ DOMAIN Tail(s) = 1 .. Len(Tail(s))
      /\ Len(Tail(s)) = Len(s) - 1 /\ Head(s) = s[1]
      /\ \A i \in 1 .. Len(Tail(s)) : Tail(s)[i] = s[i + 1]
  BY HeadTailProperties, LenProperties, EmptySeq
<1>2. PICK n \in Nat, t \in Seq(Event) :
          /\ t = Tail(s) /\ n = Len(Tail(s))
          /\ DOMAIN s = 1 .. (n + 1) /\ DOMAIN t = 1 .. n
          /\ \A i \in 1 .. n : t[i] = s[i + 1]
  <2>1. Len(Tail(s)) \in Nat /\ Len(s) = Len(Tail(s)) + 1
    BY <1>1
  <2> QED  BY <1>1, <2>1
<1>3. \A i \in DOMAIN t : i \in Nat /\ 1 < i + 1 /\ i + 1 \in DOMAIN s /\ t[i] = s[i + 1]
  BY <1>2
<1>4. 1 \in DOMAIN s
  BY <1>2
<1>5. \A j \in DOMAIN s : j = 1 \/ \E i \in DOMAIN t : j = i + 1
  <2> SUFFICES ASSUME NEW j \in DOMAIN s, j # 1 PROVE \E i \in DOMAIN t : j = i + 1
    OBVIOUS
  <2>1. j - 1 \in 1 .. n /\ j = (j - 1) + 1
    BY <1>2
  <2> QED  BY <1>2, <2>1
<1>6. \A m : Carries(s, m) <=> Carries(t, m) \/ (IsMessage(s[1]) /\ s[1].n = m)
  BY <1>3, <1>4, <1>5 DEF Carries
<1> QED  BY <1>1, <1>2, <1>3, <1>4, <1>6

\* t is s with only news of a revocation, or of the end, added.
Quiet(s, t) ==
    /\ t \in Seq(Event)
    /\ \A m : Carries(t, m) <=> Carries(s, m)
    /\ \A i \in DOMAIN t : IsMessage(t[i]) \/ IsPlan(t[i]) => i \in DOMAIN s /\ t[i] = s[i]

LEMMA QuietEvents ==
    ASSUME NEW s \in Seq(Event), NEW t \in Seq(Event), Quiet(s, t),
           NEW e \in Event, ~IsMessage(e), ~IsPlan(e)
    PROVE  Quiet(s, Append(t, e))
<1>1. PICK u : u = Append(t, e)
  OBVIOUS
<1>2. /\ u \in Seq(Event)
      /\ \A i \in DOMAIN t : u[i] = t[i]
      /\ \A i \in DOMAIN u : i \in DOMAIN t \/ u[i] = e
      /\ \A m : Carries(u, m) <=> Carries(t, m)
  BY <1>1, Appended
<1> QED  BY <1>1, <1>2 DEF Quiet

----------------------------------------------------------------------------
\* Steps of the relay, as a loop sees them.

\* A loop that is told nothing but of revocations, and may be told the last of it.
LEMMA LoopTold ==
    ASSUME TypeOK, NEW l \in Loop, LoopOK(l), UNCHANGED <<host, log, planRev>>,
           missable'[l] = missable[l], at'[l] = at[l], cursor'[l] = cursor[l], seen'[l] = seen[l], shown'[l] = shown[l],
           Quiet(wire[l], wire'[l]), l \in open \/ wire'[l] = wire[l],
           l \in open' => l \in open
    PROVE  LoopOK(l)'
<1>1. StreamOK(l)' /\ CursorOK(l)'
  BY DEF LoopOK, StreamOK, CursorOK
<1>2. OrderOK(l)'
  <2>1. InTurn(wire'[l]) /\ \A i \in DOMAIN wire'[l] :
            /\ IsMessage(wire'[l][i]) => wire'[l][i].n \in 1 .. log
            /\ IsPlan(wire'[l][i]) => wire'[l][i].n \in shown[l] .. planRev
    BY DEF LoopOK, OrderOK, InTurn, Current, Quiet
  <2> QED  BY <2>1 DEF LoopOK, OrderOK, Current, InTurn, Quiet, IsMessage, IsPlan
<1>3. CoverOK(l)'
  <2>1. \A m : (Had(l, m)' <=> Had(l, m)) /\ (Due(l, m)' <=> Due(l, m))
    BY DEF Had, Due, Seen, Quiet, Carries, IsMessage
  <2>2. Seen(l)' = Seen(l)
    BY DEF Seen
  <2> QED  BY <2>1, <2>2 DEF LoopOK, CoverOK, Quiet, Carries, IsMessage
<1> QED  BY <1>1, <1>2, <1>3 DEF LoopOK

\* A loop that a step does not concern.
LEMMA LoopKept ==
    ASSUME TypeOK, NEW l \in Loop, LoopOK(l), UNCHANGED <<host, log, planRev>>,
           missable'[l] = missable[l], at'[l] = at[l], cursor'[l] = cursor[l],
           seen'[l] = seen[l], shown'[l] = shown[l], wire'[l] = wire[l],
           l \in open' => l \in open
    PROVE  LoopOK(l)'
<1>1. Quiet(wire[l], wire'[l])
  BY DEF Quiet, TypeOK
<1> QED  BY <1>1, LoopTold

LEMMA LoopPosted ==
    ASSUME TypeOK, NEW l \in Loop, LoopOK(l), AddMessage
    PROVE  LoopOK(l)'
<1>1. /\ log \in Nat /\ planRev \in Nat /\ log' = log + 1
      /\ UNCHANGED <<host, planRev, open, at, cursor, seen, shown>>
      /\ missable'[l] = missable[l] \cup (IF at[l] \in Gap THEN {log + 1} ELSE {})
      /\ seen[l] \in Seq(1 .. log) /\ wire[l] \in Seq(Event) /\ cursor[l] \in 0 .. log
      /\ shown[l] \in 0 .. planRev
  BY DEF TypeOK, AddMessage, loopVars
<1>0. PICK new \in Nat : new = log + 1
  BY <1>1
<1>2. PICK e \in Event : /\ e = [type |-> "message.created", n |-> log + 1]
                         /\ IsMessage(e) /\ ~IsPlan(e) /\ e.n = log + 1
  BY <1>1, MadeEvent
<1>3. wire'[l] = IF l \in open THEN Append(wire[l], e) ELSE wire[l]
  BY <1>1, <1>2 DEF AddMessage, Sent
<1>4. StreamOK(l)' /\ CursorOK(l)'
  BY <1>1, <1>3 DEF LoopOK, StreamOK, CursorOK
<1>5. \A i \in DOMAIN seen[l] : seen[l][i] \in 1 .. log
  BY <1>1, ElementOfSeq, LenProperties
<1>6. Seen(l)' = Seen(l) /\ \A m : Had(l, m) => Had(l, m)'
  BY <1>1 DEF Seen, Had
<1>7. CASE l \in open
  <2>1. PICK t \in Seq(Event) :
            /\ t = wire'[l]
            /\ \A i \in DOMAIN wire[l] : i \in DOMAIN t /\ t[i] = wire[l][i]
            /\ \A i \in DOMAIN t : i \in DOMAIN wire[l] \/ t[i] = e
            /\ \A i, j \in DOMAIN t : i < j => i \in DOMAIN wire[l]
            /\ \A m : Carries(t, m) <=> Carries(wire[l], m) \/ m = new
    <3>1. PICK w \in Seq(Event) : w = wire[l]
      BY <1>1
    <3>2. /\ Append(w, e) \in Seq(Event)
          /\ \A i \in DOMAIN w : i \in DOMAIN Append(w, e) /\ Append(w, e)[i] = w[i]
          /\ \A i \in DOMAIN Append(w, e) : i \in DOMAIN w \/ Append(w, e)[i] = e
          /\ \A i, j \in DOMAIN Append(w, e) : i < j => i \in DOMAIN w
          /\ \A m : Carries(Append(w, e), m) <=> Carries(w, m) \/ (IsMessage(e) /\ e.n = m)
      BY Appended
    <3>3. wire'[l] = Append(w, e)
      BY <1>3, <1>7, <3>1
    <3> QED  BY <1>0, <1>2, <3>1, <3>2, <3>3
  <2>2. InTurn(wire[l]) /\ Current(wire[l], shown[l])
    BY DEF LoopOK, OrderOK
  <2>3. Current(t, shown[l])'
    <3>1. ASSUME NEW i \in DOMAIN t
          PROVE  /\ IsMessage(t[i]) => t[i].n \in 1 .. log'
                 /\ IsPlan(t[i]) => t[i].n \in shown[l] .. planRev
      <4>1. CASE i \in DOMAIN wire[l]
        BY <1>1, <2>1, <2>2, <4>1 DEF Current
      <4>2. CASE t[i] = e
        BY <1>1, <1>2, <4>2
      <4> QED  BY <2>1, <4>1, <4>2
    <3> QED  BY <1>1, <3>1 DEF Current
  <2>4. InTurn(t)
    <3> SUFFICES ASSUME NEW i \in DOMAIN t, NEW j \in DOMAIN t, i < j
        PROVE  /\ IsMessage(t[i]) /\ IsMessage(t[j]) => t[i].n < t[j].n
               /\ IsPlan(t[i]) /\ IsPlan(t[j]) => t[i].n <= t[j].n
      BY DEF InTurn
    <3>1. i \in DOMAIN wire[l] /\ t[i] = wire[l][i]
      BY <2>1
    <3>2. CASE j \in DOMAIN wire[l]
      BY <2>1, <2>2, <3>1, <3>2 DEF InTurn
    <3>3. CASE t[j] = e
      <4>1. IsMessage(t[i]) => t[i].n \in 1 .. log
        BY <2>2, <3>1 DEF Current
      <4>2. t[j].n = log + 1 /\ ~IsPlan(t[j])
        BY <1>2, <3>3
      <4>3. IsMessage(t[i]) => t[i].n < t[j].n
        <5>1. \A k \in 1 .. log : k < log + 1
          BY <1>1
        <5> QED  BY <4>1, <4>2, <5>1
      <4> QED  BY <4>2, <4>3
    <3> QED  BY <2>1, <3>2, <3>3
  <2>5. ASSUME NEW i \in DOMAIN seen[l], NEW j \in DOMAIN t, IsMessage(t[j])
        PROVE  seen[l][i] < t[j].n
    <3>1. CASE j \in DOMAIN wire[l]
      BY <2>1, <2>5, <3>1 DEF LoopOK, OrderOK
    <3>2. CASE t[j] = e
      BY <1>1, <1>2, <1>5, <3>2
    <3> QED  BY <2>1, <3>1, <3>2
  <2>6. OrderOK(l)'
    BY <1>1, <2>1, <2>3, <2>4, <2>5 DEF LoopOK, OrderOK
  <2>7. \A m : (Due(l, m) => Due(l, m)') /\ Due(l, new)'
    BY <1>6, <2>1 DEF Due
  <2>8. \A m \in 1 .. log' : Due(l, m)'
    <3>1. \A m \in 1 .. log' : m \in 1 .. log \/ m = new
      BY <1>0, <1>1
    <3> QED  BY <1>7, <2>7, <3>1 DEF LoopOK, CoverOK
  <2>9. at[l] \notin Gap
    BY <1>7 DEF LoopOK, StreamOK, Gap
  <2>10. \A n \in 1 .. log' : \A m \in 1 .. n : m \in 1 .. log'
    BY <1>1
  <2>11. CoverOK(l)'
    BY <1>1, <1>6, <2>8, <2>9, <2>10 DEF LoopOK, CoverOK
  <2> QED  BY <1>4, <2>6, <2>11 DEF LoopOK
<1>8. CASE l \notin open
  <2>1. wire'[l] = wire[l]
    BY <1>3, <1>8
  <2>2. Current(wire[l], shown[l])'
    BY <1>1, <2>1 DEF LoopOK, OrderOK, Current
  <2>3. OrderOK(l)'
    BY <1>1, <2>1, <2>2 DEF LoopOK, OrderOK
  <2>4. \A m : Due(l, m) => Due(l, m)'
    BY <1>6, <2>1 DEF Due
  <2>5. at[l] \in Gap => Had(l, new)'
    BY <1>0, <1>1 DEF Had
  <2>6. at'[l] \in Gap => \A m \in 1 .. log' : Had(l, m)'
    <3>1. \A m \in 1 .. log' : m \in 1 .. log \/ m = new
      BY <1>0, <1>1
    <3> QED  BY <1>1, <1>6, <2>5, <3>1 DEF LoopOK, CoverOK
  <2>7. \A n \in 1 .. log' : Carries(wire[l], n) => n \in 1 .. log
    BY DEF LoopOK, OrderOK, Current, Carries
  <2>8. CoverOK(l)'
    BY <1>1, <1>6, <1>8, <2>1, <2>4, <2>6, <2>7 DEF LoopOK, CoverOK
  <2> QED  BY <1>4, <2>3, <2>8 DEF LoopOK
<1> QED  BY <1>7, <1>8

LEMMA LoopReplanned ==
    ASSUME TypeOK, NEW l \in Loop, LoopOK(l), UpdatePlan
    PROVE  LoopOK(l)'
<1>1. /\ log \in Nat /\ planRev \in Nat /\ planRev' = planRev + 1
      /\ UNCHANGED <<host, log, open, at, cursor, seen, shown, missable>>
      /\ wire[l] \in Seq(Event) /\ shown[l] \in 0 .. planRev
  BY DEF TypeOK, UpdatePlan, loopVars
<1>2. PICK e \in Event : /\ e = [type |-> "plan.updated", n |-> planRev + 1]
                         /\ IsPlan(e) /\ ~IsMessage(e) /\ e.n = planRev + 1
  BY <1>1, MadeEvent
<1>3. wire'[l] = IF l \in open THEN Append(wire[l], e) ELSE wire[l]
  BY <1>1, <1>2 DEF UpdatePlan, Sent
<1>4. StreamOK(l)' /\ CursorOK(l)'
  BY <1>1, <1>3 DEF LoopOK, StreamOK, CursorOK
<1>5. PICK t \in Seq(Event) :
          /\ t = wire'[l]
          /\ \A i \in DOMAIN t : (i \in DOMAIN wire[l] /\ t[i] = wire[l][i]) \/ t[i] = e
          /\ \A i, j \in DOMAIN t : i < j => i \in DOMAIN wire[l] /\ t[i] = wire[l][i]
          /\ \A m : Carries(t, m) <=> Carries(wire[l], m)
  <2>1. PICK w \in Seq(Event) : w = wire[l]
    BY <1>1
  <2>2. /\ Append(w, e) \in Seq(Event)
        /\ \A i \in DOMAIN w : i \in DOMAIN Append(w, e) /\ Append(w, e)[i] = w[i]
        /\ \A i \in DOMAIN Append(w, e) : i \in DOMAIN w \/ Append(w, e)[i] = e
        /\ \A i, j \in DOMAIN Append(w, e) : i < j => i \in DOMAIN w
        /\ \A m : Carries(Append(w, e), m) <=> Carries(w, m) \/ (IsMessage(e) /\ e.n = m)
    BY Appended
  <2>3. wire'[l] = w \/ wire'[l] = Append(w, e)
    BY <1>3, <2>1
  <2>4. CASE wire'[l] = w
    <3>1. \A i, j \in DOMAIN w : i < j => i \in DOMAIN w /\ w[i] = w[i]
      OBVIOUS
    <3> QED  BY <2>1, <2>4
  <2>5. CASE wire'[l] = Append(w, e)
    BY <1>2, <2>1, <2>2, <2>5
  <2> QED  BY <2>3, <2>4, <2>5
<1>6. InTurn(wire[l]) /\ Current(wire[l], shown[l])
  BY DEF LoopOK, OrderOK
<1>7. OrderOK(l)'
  <2>1. Current(t, shown[l])'
    BY <1>1, <1>2, <1>5, <1>6 DEF Current
  <2>2. InTurn(t)
    <3> SUFFICES ASSUME NEW i \in DOMAIN t, NEW j \in DOMAIN t, i < j
        PROVE  /\ IsMessage(t[i]) /\ IsMessage(t[j]) => t[i].n < t[j].n
               /\ IsPlan(t[i]) /\ IsPlan(t[j]) => t[i].n <= t[j].n
      BY DEF InTurn
    <3>1. i \in DOMAIN wire[l] /\ t[i] = wire[l][i]
      BY <1>5
    <3>2. CASE j \in DOMAIN wire[l] /\ t[j] = wire[l][j]
      BY <1>6, <3>1, <3>2 DEF InTurn
    <3>3. CASE t[j] = e
      BY <1>1, <1>2, <1>6, <3>1, <3>3 DEF Current
    <3> QED  BY <1>5, <3>2, <3>3
  <2>3. \A i \in DOMAIN seen[l], j \in DOMAIN t : IsMessage(t[j]) => seen[l][i] < t[j].n
    BY <1>2, <1>5 DEF LoopOK, OrderOK
  <2> QED  BY <1>1, <1>5, <2>1, <2>2, <2>3 DEF LoopOK, OrderOK
<1>8. CoverOK(l)'
  <2>1. Seen(l)' = Seen(l) /\ \A m : (Had(l, m)' <=> Had(l, m)) /\ (Due(l, m)' <=> Due(l, m))
    BY <1>1, <1>5 DEF Seen, Had, Due
  <2> QED  BY <1>1, <1>5, <2>1 DEF LoopOK, CoverOK
<1> QED  BY <1>4, <1>7, <1>8 DEF LoopOK

\* The revoked agent's own streams are told and closed, the others are told.
LEMMA LoopEjected ==
    ASSUME TypeOK, NEW l \in Loop, LoopOK(l), NEW a \in Agent, Eject(a),
           UNCHANGED <<host, log, planRev, loopVars, missable>>
    PROVE  LoopOK(l)'
<1>1. PICK news \in Event, end \in Event :
          /\ news = [type |-> "pairing.revoked", n |-> 0] /\ ~IsMessage(news) /\ ~IsPlan(news)
          /\ end = [type |-> "end", n |-> 0] /\ ~IsMessage(end) /\ ~IsPlan(end)
  <2>1. \E e \in Event : e = [type |-> "pairing.revoked", n |-> 0] /\ ~IsMessage(e) /\ ~IsPlan(e)
    BY MadeEvent
  <2>2. \E e \in Event : e = [type |-> "end", n |-> 0] /\ ~IsMessage(e) /\ ~IsPlan(e)
    BY MadeEvent
  <2> QED  BY <2>1, <2>2
<1>2. wire'[l] \in {wire[l], Append(wire[l], news), Append(Append(wire[l], news), end)}
      /\ (l \notin open => wire'[l] = wire[l]) /\ open' \subseteq open
  BY <1>1 DEF Eject, Sent, Ejected
<1>3. Quiet(wire[l], wire'[l])
  <2>1. PICK s \in Seq(Event) : s = wire[l]
    BY DEF TypeOK
  <2>2. Quiet(s, s)
    BY DEF Quiet
  <2>3. Append(s, news) \in Seq(Event) /\ Quiet(s, Append(s, news))
    BY <1>1, <2>2, Appended, QuietEvents
  <2>4. Quiet(s, Append(Append(s, news), end))
    BY <1>1, <2>3, QuietEvents
  <2> QED  BY <1>2, <2>1, <2>2, <2>3, <2>4
<1> QED  BY <1>2, <1>3, LoopTold DEF loopVars

----------------------------------------------------------------------------
\* Steps of a loop, and what they leave of the others.

\* Off the stream nothing is buffered: where it goes next is all that changes.
LEMMA LoopMoves ==
    ASSUME TypeOK, NEW l \in Loop, LoopOK(l), UNCHANGED <<host, log, planRev>>,
           missable'[l] = missable[l], cursor'[l] = cursor[l], seen'[l] = seen[l],
           wire'[l] = <<>>, l \notin open',
           at'[l] = "admitted" => host = "cloud",
           at'[l] \in Gap => at[l] \in Gap,
           l \in Watch => /\ at'[l] # "backoff"
                          /\ at'[l] \in {"idle", "backfill"} => at[l] \in {"idle", "backfill"}
    PROVE  LoopOK(l)'
<1>1. StreamOK(l)' /\ CursorOK(l)'
  BY DEF LoopOK, StreamOK, CursorOK
<1>2. DOMAIN wire'[l] = {}
  BY LenProperties, EmptySeq
<1>3. OrderOK(l)'
  BY <1>2 DEF LoopOK, OrderOK, InTurn, Current
<1>4. Seen(l)' = Seen(l) /\ \A m : (Had(l, m)' <=> Had(l, m)) /\ ~Carries(wire'[l], m)
  BY <1>2 DEF Seen, Had, Carries
<1>5. CoverOK(l)'
  BY <1>4 DEF LoopOK, CoverOK
<1> QED  BY <1>1, <1>3, <1>5 DEF LoopOK

LEMMA LoopSubscribes ==
    ASSUME TypeOK, NEW l \in Loop, LoopOK(l), at[l] \in {"connect", "admitted"}, Subscribed(l)
    PROVE  LoopOK(l)'
<1>1. /\ at'[l] = "streaming" /\ wire[l] = <<>>
      /\ UNCHANGED <<host, log, planRev, wire, cursor, seen, shown, missable>>
  BY DEF TypeOK, LoopOK, StreamOK, Subscribed, Go, relayVars
<1>2. StreamOK(l)' /\ CursorOK(l)'
  BY <1>1 DEF LoopOK, StreamOK, CursorOK
<1>3. OrderOK(l)'
  BY <1>1 DEF LoopOK, OrderOK, InTurn, Current
<1>4. CoverOK(l)'
  <2>1. Seen(l)' = Seen(l) /\ \A m : (Had(l, m)' <=> Had(l, m)) /\ (Due(l, m)' <=> Due(l, m))
    BY <1>1 DEF Seen, Had, Due
  <2>2. \A m \in 1 .. log : Had(l, m)
    BY DEF LoopOK, CoverOK, Gap
  <2>3. \A m : Had(l, m) => Due(l, m)
    BY DEF Due
  <2> QED  BY <1>1, <2>1, <2>2, <2>3 DEF LoopOK, CoverOK, Gap
<1> QED  BY <1>2, <1>3, <1>4 DEF LoopOK

LEMMA Replayed ==
    ASSUME TypeOK, NEW l \in Loop, Backfill(l)
    PROVE  LET k == Len(seen[l]) IN
           /\ seen'[l] \in Seq(1 .. log) /\ k \in Nat
           /\ DOMAIN seen[l] = 1 .. k /\ DOMAIN seen'[l] = 1 .. (k + (log - cursor[l]))
           /\ \A i \in 1 .. k : seen'[l][i] = seen[l][i]
           /\ \A i \in 1 .. (log - cursor[l]) : seen'[l][k + i] = cursor[l] + i
<1>1. /\ log \in Nat /\ cursor[l] \in 0 .. log /\ seen[l] \in Seq(1 .. log)
      /\ seen'[l] = seen[l] \o Newer(l)
  BY DEF TypeOK, Backfill
<1>2. PICK d \in Nat, c \in Nat, s \in Seq(1 .. log) :
          c = cursor[l] /\ d = log - c /\ log = c + d /\ s = seen[l]
  <2>1. cursor[l] \in Nat /\ log - cursor[l] \in Nat /\ log = cursor[l] + (log - cursor[l])
    BY <1>1
  <2> QED  BY <1>1, <2>1, Zenon
<1>3. PICK new : new = [i \in 1 .. d |-> c + i]
  OBVIOUS
<1>4. new = Newer(l)
  BY <1>2, <1>3 DEF Newer
<1>5. new \in Seq(1 .. log) /\ Len(new) = d
  <2>0. log = c + d
    BY <1>2
  <2>1. \A i \in 1 .. d : c + i \in 1 .. log
    <3> SUFFICES ASSUME NEW i \in 1 .. d PROVE c + i \in 1 .. (c + d)
      BY <2>0
    <3> QED  OBVIOUS
  <2>2. new \in [1 .. d -> 1 .. log] /\ DOMAIN new = 1 .. d
    BY <1>3, <2>1
  <2>3. new \in Seq(1 .. log)
    BY <2>2, SeqDef
  <2>4. Len(new) \in Nat /\ DOMAIN new = 1 .. Len(new)
    BY <2>3, LenProperties
  <2> QED  BY <2>2, <2>3, <2>4
<1>6. /\ s \o new \in Seq(1 .. log) /\ Len(s) \in Nat /\ DOMAIN s = 1 .. Len(s)
      /\ DOMAIN (s \o new) = 1 .. (Len(s) + d)
  <2>1. s \o new \in Seq(1 .. log) /\ Len(s \o new) = Len(s) + Len(new)
    BY <1>5, ConcatProperties, Zenon
  <2>2. DOMAIN (s \o new) = 1 .. Len(s \o new)
    BY <2>1, LenProperties, Zenon
  <2>3. Len(s) \in Nat /\ DOMAIN s = 1 .. Len(s)
    BY LenProperties, Zenon
  <2> QED  BY <1>5, <2>1, <2>2, <2>3, Zenon
<1>7. \A i \in 1 .. Len(s) : (s \o new)[i] = s[i]
  BY <1>5, <1>6
<1>8. \A i \in 1 .. d : (s \o new)[Len(s) + i] = c + i
  BY <1>3, <1>5, <1>6
<1> QED  BY <1>1, <1>2, <1>4, <1>6, <1>7, <1>8

LEMMA LoopReplays ==
    ASSUME TypeOK, NEW l \in Loop, LoopOK(l), Backfill(l)
    PROVE  LoopOK(l)'
<1>1. /\ at[l] = "backfill" /\ wire[l] = <<>> /\ l \notin open
      /\ UNCHANGED <<host, log, planRev, open, wire, shown, missable>>
      /\ at'[l] \in {"connect", "plan"}
      /\ cursor'[l] = IF l \in Watch THEN cursor[l] ELSE log
      /\ log \in Nat /\ cursor[l] \in 0 .. log
  BY DEF TypeOK, LoopOK, StreamOK, Backfill, Go, relayVars
<1>2. PICK k \in Nat, c \in 0 .. log :
          /\ c = cursor[l] /\ k = Len(seen[l])
          /\ DOMAIN seen[l] = 1 .. k /\ DOMAIN seen'[l] = 1 .. (k + (log - c))
          /\ \A i \in 1 .. k : seen'[l][i] = seen[l][i]
          /\ \A i \in 1 .. (log - c) : seen'[l][k + i] = c + i
          /\ \A i \in DOMAIN seen'[l] : seen'[l][i] \in 1 .. log
  BY <1>1, Replayed, ElementOfSeq, LenProperties
<1>3. \A i \in 1 .. k : seen[l][i] \in 1 .. c
  <2>1. \A i \in 1 .. k : seen[l][i] \in 1 .. log
    BY <1>2, ElementOfSeq DEF TypeOK
  <2>2. CASE l \in Watch
    <3>1. k = 0
      BY <1>1, <1>2, <2>2, EmptySeq DEF LoopOK, CursorOK
    <3> QED  BY <3>1
  <2>3. CASE l \notin Watch
    BY <1>2, <2>1, <2>3 DEF LoopOK, CursorOK
  <2> QED  BY <2>2, <2>3
<1>4. \A i \in 1 .. (k + (log - c)) : i \in 1 .. k \/ (i - k \in 1 .. (log - c) /\ i = k + (i - k))
  BY <1>1, <1>2
<1>5. \A i \in 1 .. (k + (log - c)) :
          IF i \in 1 .. k THEN seen'[l][i] = seen[l][i] /\ seen'[l][i] \in 1 .. c
                          ELSE seen'[l][i] = c + (i - k)
  BY <1>1, <1>2, <1>3, <1>4
<1>6. \A i, j \in DOMAIN seen'[l] : i < j => seen'[l][i] < seen'[l][j]
  <2> SUFFICES ASSUME NEW i \in 1 .. (k + (log - c)), NEW j \in 1 .. (k + (log - c)), i < j
      PROVE  seen'[l][i] < seen'[l][j]
    BY <1>2
  <2>1. CASE j \in 1 .. k
    <3>1. i \in 1 .. k
      BY <2>1
    <3> QED  BY <1>2, <1>5, <2>1, <3>1 DEF LoopOK, OrderOK
  <2>2. CASE j \notin 1 .. k
    <3>1. seen'[l][j] = c + (j - k) /\ j > k
      BY <1>2, <1>5, <2>2
    <3>2. CASE i \in 1 .. k
      <4>1. seen'[l][i] <= c /\ seen'[l][i] \in Nat
        BY <1>5, <3>2
      <4> QED  BY <3>1, <4>1
    <3>3. CASE i \notin 1 .. k
      <4>1. seen'[l][i] = c + (i - k)
        BY <1>5, <3>3
      <4> QED  BY <3>1, <4>1
    <3> QED  BY <3>2, <3>3
  <2> QED  BY <2>1, <2>2
<1>7. \A m \in Seen(l) : m \in Seen(l)'
  <2>1. \A i \in 1 .. k : i \in 1 .. (k + (log - c))
    BY <1>1, <1>2
  <2> QED  BY <1>2, <2>1 DEF Seen
<1>8. \A m \in 1 .. log : Had(l, m)'
  <2> SUFFICES ASSUME NEW m \in 1 .. log, m \notin missable[l]
      PROVE  m \in Seen(l)'
    BY <1>1 DEF Had
  <2>1. CASE m <= c
    <3>1. m \in 1 .. cursor[l]
      BY <1>1, <1>2, <2>1
    <3>2. m \in Seen(l)
      BY <3>1 DEF LoopOK, CoverOK, Had
    <3> QED  BY <1>7, <3>2
  <2>2. CASE m > c
    <3>0. PICK n \in Nat : n = log
      BY <1>1
    <3>1. m - c \in 1 .. (log - c) /\ m = c + (m - c) /\ k + (m - c) \in 1 .. (k + (log - c))
      <4>1. m \in 1 .. n /\ c \in 0 .. n
        BY <3>0
      <4>2. m - c \in 1 .. (n - c) /\ m = c + (m - c) /\ k + (m - c) \in 1 .. (k + (n - c))
        BY <2>2, <4>1
      <4> QED  BY <3>0, <4>2
    <3>2. seen'[l][k + (m - c)] = m
      BY <1>2, <3>1
    <3> QED  BY <1>2, <3>1, <3>2 DEF Seen
  <2> QED  BY <1>2, <2>1, <2>2
<1>9. StreamOK(l)'
  BY <1>1 DEF StreamOK
<1>10. CursorOK(l)'
  BY <1>1, <1>2 DEF LoopOK, CursorOK
<1>11. \A i : i \notin DOMAIN wire[l]
  BY <1>1, LenProperties, EmptySeq
<1>12. OrderOK(l)'
  BY <1>1, <1>6, <1>11 DEF OrderOK, InTurn, Current
<1>13. CoverOK(l)'
  <2>1. \A m : ~Carries(wire[l], m)
    BY <1>11 DEF Carries
  <2>2. \A n \in Seen(l)' : n \in 1 .. log
    BY <1>2 DEF Seen
  <2>3. \A n \in 1 .. log : \A m \in 1 .. n : m \in 1 .. log
    BY <1>1
  <2>4. cursor'[l] \in 0 .. log
    BY <1>1
  <2> QED  BY <1>1, <1>8, <2>1, <2>2, <2>3, <2>4 DEF CoverOK
<1> QED  BY <1>9, <1>10, <1>12, <1>13 DEF LoopOK

\* What is left of a buffer when its first event is read.
LEMMA AfterRead ==
    ASSUME TypeOK, NEW l \in Loop, LoopOK(l), wire[l] # <<>>,
           NEW e \in Event, e = Head(wire[l]), NEW t \in Seq(Event), t = Tail(wire[l])
    PROVE  /\ InTurn(t) /\ Current(t, shown[l])
           /\ \A j \in DOMAIN t : /\ IsMessage(e) /\ IsMessage(t[j]) => e.n < t[j].n
                                  /\ IsPlan(e) /\ IsPlan(t[j]) => e.n <= t[j].n
           /\ \A i \in DOMAIN seen[l] : /\ IsMessage(e) => seen[l][i] < e.n
                                        /\ \A j \in DOMAIN t : IsMessage(t[j]) => seen[l][i] < t[j].n
           /\ IsMessage(e) => e.n \in 1 .. log
           /\ IsPlan(e) => e.n \in shown[l] .. planRev
           /\ \A m : Carries(wire[l], m) <=> Carries(t, m) \/ (IsMessage(e) /\ e.n = m)
<1>1. PICK s \in Seq(Event) : s = wire[l]
  BY DEF TypeOK
<1>2. /\ \A i \in DOMAIN t : i + 1 \in DOMAIN s /\ t[i] = s[i + 1]
      /\ 1 \in DOMAIN s /\ s[1] = e /\ \A i \in DOMAIN t : i \in Nat /\ 1 < i + 1
      /\ \A m : Carries(s, m) <=> Carries(t, m) \/ (IsMessage(e) /\ e.n = m)
  <2>1. s # <<>>
    BY <1>1
  <2>2. /\ \A i \in DOMAIN Tail(s) : i + 1 \in DOMAIN s /\ Tail(s)[i] = s[i + 1]
        /\ 1 \in DOMAIN s /\ s[1] = Head(s) /\ \A i \in DOMAIN Tail(s) : i \in Nat /\ 1 < i + 1
        /\ \A m : Carries(s, m)
              <=> Carries(Tail(s), m) \/ (IsMessage(Head(s)) /\ Head(s).n = m)
    BY <2>1, TakenOff
  <2> QED  BY <1>1, <2>2
<1>3. InTurn(s) /\ Current(s, shown[l])
  BY <1>1 DEF LoopOK, OrderOK
<1>4. \A i \in DOMAIN seen[l], j \in DOMAIN s : IsMessage(s[j]) => seen[l][i] < s[j].n
  BY <1>1 DEF LoopOK, OrderOK
<1>5. InTurn(t)
  <2> SUFFICES ASSUME NEW i \in DOMAIN t, NEW j \in DOMAIN t, i < j
      PROVE  /\ IsMessage(t[i]) /\ IsMessage(t[j]) => t[i].n < t[j].n
             /\ IsPlan(t[i]) /\ IsPlan(t[j]) => t[i].n <= t[j].n
    BY DEF InTurn
  <2>1. i + 1 < j + 1 /\ i + 1 \in DOMAIN s /\ j + 1 \in DOMAIN s
    BY <1>2
  <2> QED  BY <1>2, <1>3, <2>1 DEF InTurn
<1>6. Current(t, shown[l])
  BY <1>2, <1>3 DEF Current
<1>7. \A j \in DOMAIN t : /\ IsMessage(e) /\ IsMessage(t[j]) => e.n < t[j].n
                          /\ IsPlan(e) /\ IsPlan(t[j]) => e.n <= t[j].n
  BY <1>2, <1>3 DEF InTurn
<1>8. /\ IsMessage(e) => e.n \in 1 .. log
      /\ IsPlan(e) => e.n \in shown[l] .. planRev
  BY <1>2, <1>3 DEF Current
<1>9. \A i \in DOMAIN seen[l] : /\ IsMessage(e) => seen[l][i] < e.n
                                /\ \A j \in DOMAIN t : IsMessage(t[j]) => seen[l][i] < t[j].n
  BY <1>2, <1>4
<1> QED  BY <1>1, <1>2, <1>5, <1>6, <1>7, <1>8, <1>9

LEMMA LoopReads ==
    ASSUME TypeOK, NEW l \in Loop, LoopOK(l), UNCHANGED <<host, log, planRev, missable>>,
           at[l] = "streaming", at'[l] = at[l], wire[l] # <<>>, wire'[l] = Tail(wire[l]),
           ~IsMessage(Head(wire[l])), cursor'[l] = cursor[l], seen'[l] = seen[l],
           shown'[l] = IF IsPlan(Head(wire[l])) THEN Head(wire[l]).n ELSE shown[l],
           l \in open' => l \in open
    PROVE  LoopOK(l)'
<1>1. PICK e \in Event, t \in Seq(Event) : e = Head(wire[l]) /\ t = Tail(wire[l])
  BY TakenOff DEF TypeOK
<1>2. /\ InTurn(t) /\ Current(t, shown[l])
      /\ \A j \in DOMAIN t : IsPlan(e) /\ IsPlan(t[j]) => e.n <= t[j].n
      /\ \A i \in DOMAIN seen[l], j \in DOMAIN t : IsMessage(t[j]) => seen[l][i] < t[j].n
      /\ IsPlan(e) => e.n \in shown[l] .. planRev
      /\ \A m : Carries(t, m) <=> Carries(wire[l], m)
  BY <1>1, AfterRead
<1>3. StreamOK(l)' /\ CursorOK(l)'
  BY DEF LoopOK, StreamOK, CursorOK
<1>4. OrderOK(l)'
  <2>1. Current(t, shown'[l])
    BY <1>1, <1>2 DEF Current, TypeOK
  <2>2. Current(t, shown[l])'
    BY <2>1 DEF Current
  <2> QED  BY <1>1, <1>2, <2>2 DEF LoopOK, OrderOK
<1>5. CoverOK(l)'
  <2>1. Seen(l)' = Seen(l) /\ \A m : (Had(l, m)' <=> Had(l, m)) /\ (Due(l, m)' <=> Due(l, m))
    BY <1>1, <1>2 DEF Seen, Had, Due
  <2> QED  BY <1>1, <1>2, <2>1 DEF LoopOK, CoverOK
<1> QED  BY <1>3, <1>4, <1>5 DEF LoopOK

LEMMA LoopShows ==
    ASSUME TypeOK, NEW l \in Loop, LoopOK(l), OnMessage(l)
    PROVE  LoopOK(l)'
<1>1. /\ UNCHANGED <<host, log, planRev, missable, at, open, shown>> /\ at[l] = "streaming"
      /\ wire[l] # <<>> /\ wire'[l] = Tail(wire[l]) /\ log \in Nat /\ cursor[l] \in 0 .. log
      /\ seen'[l] = Append(seen[l], Head(wire[l]).n) /\ seen[l] \in Seq(1 .. log)
      /\ cursor'[l] = Advanced(l, Head(wire[l]).n) /\ IsMessage(Head(wire[l]))
  BY DEF TypeOK, OnMessage, Receive, Read, relayVars, IsMessage
<1>2. PICK e \in Event, t \in Seq(Event) : e = Head(wire[l]) /\ t = Tail(wire[l])
  BY <1>1, TakenOff DEF TypeOK
<1>3. /\ InTurn(t) /\ Current(t, shown[l])
      /\ \A j \in DOMAIN t : IsMessage(t[j]) => e.n < t[j].n
      /\ \A i \in DOMAIN seen[l] : /\ seen[l][i] < e.n
                                   /\ \A j \in DOMAIN t : IsMessage(t[j]) => seen[l][i] < t[j].n
      /\ e.n \in 1 .. log
      /\ \A m : Carries(wire[l], m) <=> Carries(t, m) \/ e.n = m
  BY <1>1, <1>2, AfterRead
<1>4. PICK n \in 1 .. log : n = e.n
  BY <1>3
<1>5. /\ \A i \in DOMAIN seen[l] : i \in DOMAIN seen'[l] /\ seen'[l][i] = seen[l][i]
      /\ \A i \in DOMAIN seen'[l] : i \in DOMAIN seen[l] \/ seen'[l][i] = n
      /\ \A i, j \in DOMAIN seen'[l] : i < j => i \in DOMAIN seen[l]
      /\ \E i \in DOMAIN seen'[l] : seen'[l][i] = n
  <2>1. PICK k \in Nat : /\ k = Len(seen[l]) /\ DOMAIN seen[l] = 1 .. k
                         /\ DOMAIN seen'[l] = 1 .. (k + 1)
                         /\ \A i \in 1 .. k : seen'[l][i] = seen[l][i]
                         /\ seen'[l][k + 1] = n
    <3>1. seen'[l] = Append(seen[l], n)
      BY <1>1, <1>2, <1>4
    <3>2. /\ Append(seen[l], n) \in Seq(1 .. log) /\ Len(seen[l]) \in Nat
          /\ DOMAIN seen[l] = 1 .. Len(seen[l])
          /\ DOMAIN Append(seen[l], n) = 1 .. (Len(seen[l]) + 1)
          /\ \A i \in 1 .. Len(seen[l]) : Append(seen[l], n)[i] = seen[l][i]
          /\ Append(seen[l], n)[Len(seen[l]) + 1] = n
      BY <1>1, AppendProperties, LenProperties
    <3> QED  BY <3>1, <3>2
  <2>2. /\ \A i \in 1 .. k : i \in 1 .. (k + 1)
        /\ \A i \in 1 .. (k + 1) : i \in 1 .. k \/ i = k + 1
        /\ \A i, j \in 1 .. (k + 1) : i < j => i \in 1 .. k
        /\ k + 1 \in 1 .. (k + 1)
    OBVIOUS
  <2> QED  BY <2>1, <2>2
<1>6. \A i \in DOMAIN seen[l] : seen[l][i] < n /\ seen[l][i] \in Nat
  BY <1>1, <1>3, <1>4, ElementOfSeq, LenProperties
<1>7. StreamOK(l)'
  BY <1>1 DEF StreamOK, LoopOK
<1>8. CursorOK(l)'
  <2>1. CASE l \in Watch
    BY <1>1, <2>1 DEF LoopOK, CursorOK, Advanced
  <2>2. CASE l \notin Watch
    <3>1. cursor'[l] \in Nat /\ n <= cursor'[l] /\ cursor[l] <= cursor'[l]
      BY <1>1, <1>2, <1>4, <2>2 DEF Advanced
    <3>2. \A i \in DOMAIN seen[l] : seen[l][i] <= cursor'[l]
      BY <1>6, <3>1
    <3>3. \A i \in DOMAIN seen'[l] : seen'[l][i] <= cursor'[l]
      BY <1>5, <3>1, <3>2
    <3> QED  BY <2>2, <3>3 DEF CursorOK
  <2> QED  BY <2>1, <2>2
<1>9. OrderOK(l)'
  <2>1. Current(t, shown[l])'
    BY <1>1, <1>3 DEF Current
  <2>2. \A i \in DOMAIN seen'[l], j \in DOMAIN t : IsMessage(t[j]) => seen'[l][i] < t[j].n
    BY <1>3, <1>4, <1>5
  <2>3. ASSUME NEW i \in DOMAIN seen'[l], NEW j \in DOMAIN seen'[l], i < j
        PROVE  seen'[l][i] < seen'[l][j]
    <3>1. i \in DOMAIN seen[l] /\ seen'[l][i] = seen[l][i]
      BY <1>5, <2>3
    <3>2. CASE j \in DOMAIN seen[l]
      BY <1>5, <2>3, <3>1, <3>2 DEF LoopOK, OrderOK
    <3>3. CASE seen'[l][j] = n
      BY <1>6, <3>1, <3>3
    <3> QED  BY <1>5, <3>2, <3>3
  <2> QED  BY <1>1, <1>2, <1>3, <2>1, <2>2, <2>3 DEF OrderOK
<1>10. CoverOK(l)'
  <2>1. \A m : m \in Seen(l)' <=> m \in Seen(l) \/ m = n
    BY <1>5 DEF Seen
  <2>2. \A m : (Had(l, m) => Had(l, m)') /\ (m = n => m \in Seen(l)')
    BY <1>1, <2>1 DEF Had
  <2>3. \A m : m = n => Had(l, m)'
    BY <2>2 DEF Had
  <2>4. \A m : Due(l, m) => Due(l, m)'
    BY <1>1, <1>2, <1>3, <1>4, <2>2, <2>3 DEF Due
  <2>5. \A m \in 1 .. n : Due(l, m)
    BY <1>3, <1>4 DEF LoopOK, CoverOK
  <2>6. \A m \in 1 .. n : ~Carries(t, m)
    BY <1>3, <1>4 DEF Carries
  <2>7. \A m \in 1 .. n : Had(l, m)'
    BY <1>3, <1>4, <2>2, <2>3, <2>5, <2>6 DEF Due
  <2>8. \A m \in 1 .. cursor'[l] : m \in 1 .. cursor[l] \/ m \in 1 .. n
    BY <1>1, <1>2, <1>4 DEF Advanced
  <2>9. \A m \in 1 .. cursor'[l] : Had(l, m)'
    BY <2>2, <2>7, <2>8 DEF LoopOK, CoverOK
  <2>10. \A x \in Seen(l)' : \A m \in 1 .. x : Had(l, m)'
    BY <2>1, <2>2, <2>7 DEF LoopOK, CoverOK
  <2>11. \A x \in 1 .. log : Carries(t, x) => \A m \in 1 .. x : Due(l, m)'
    BY <1>3, <2>4 DEF LoopOK, CoverOK
  <2> QED  BY <1>1, <1>2, <2>4, <2>9, <2>10, <2>11 DEF LoopOK, CoverOK, Gap
<1> QED  BY <1>7, <1>8, <1>9, <1>10 DEF LoopOK

Steps(l) == Start(l) \/ Proceed(l) \/ Fail(l) \/ Drop(l) \/ Abort(l)

LEMMA LoopSteps ==
    ASSUME TypeOK, NEW l \in Loop, LoopOK(l), Steps(l)
    PROVE  LoopOK(l)'
<1>1. /\ at \in [Loop -> Place] /\ wire \in [Loop -> Seq(Event)]
      /\ shown \in [Loop -> 0 .. planRev]
      /\ at[l] # "streaming" => wire[l] = <<>>
      /\ l \in open => at[l] = "streaming"
      /\ at[l] = "admitted" => host = "cloud"
      /\ l \in Watch => at[l] # "backoff"
  BY DEF TypeOK, LoopOK, StreamOK, CursorOK
<1>2. UNCHANGED <<host, log, planRev, missable>>
  BY DEF Steps, Proceed, Start, Backfill, FetchPlan, Connect, Authenticate, Subscribe,
     Subscribed, OnMessage, OnPlan, OnRevoked, OnEnd, Receive, Retry, Fail, Drop, Abort,
     relayVars
<1>3. CASE Start(l) \/ Authenticate(l) \/ Retry(l) \/ Fail(l)
  <2>1. UNCHANGED <<open, wire, cursor, seen>> /\ at[l] \notin {"streaming"}
    BY <1>3 DEF Start, Authenticate, Retry, Fail
  <2>2. /\ at'[l] = "admitted" => host = "cloud"
        /\ at'[l] \in Gap => at[l] \in Gap
        /\ l \in Watch => /\ at'[l] # "backoff"
                          /\ at'[l] \in {"idle", "backfill"} => at[l] \in {"idle", "backfill"}
    BY <1>1, <1>3 DEF Start, Authenticate, Retry, Fail, AfterLoss, Go, Gap
  <2> QED  BY <1>1, <1>2, <2>1, <2>2, LoopMoves
<1>4. CASE FetchPlan(l)
  <2>1. /\ UNCHANGED <<open, wire, cursor, seen>> /\ at[l] = "plan"
        /\ at'[l] \in {"ended", "connect"}
    BY <1>1, <1>4 DEF FetchPlan, Go
  <2> QED  BY <1>1, <1>2, <2>1, LoopMoves DEF Gap
<1>5. CASE Drop(l) \/ Abort(l) \/ OnEnd(l) \/ (OnRevoked(l) /\ l \in Watch)
  <2>1. UNCHANGED <<cursor, seen>> /\ wire'[l] = <<>> /\ l \notin open'
    BY <1>1, <1>5 DEF Drop, Abort, OnEnd, OnRevoked, Receive, Disconnected
  <2>2. \/ at'[l] = at[l]
        \/ at'[l] = "ended"
        \/ at'[l] = "backoff" /\ l \notin Watch
    BY <1>1, <1>5 DEF Drop, Abort, OnEnd, OnRevoked, AfterLoss, Go
  <2> QED  BY <1>1, <1>2, <2>1, <2>2, LoopMoves DEF Gap
<1>6. CASE Backfill(l)
  BY <1>6, LoopReplays
<1>7. CASE Connect(l) \/ Subscribe(l)
  BY <1>7, LoopSubscribes DEF Connect, Subscribe
<1>8. CASE OnMessage(l)
  BY <1>8, LoopShows
<1>9. CASE OnPlan(l) \/ (OnRevoked(l) /\ l \notin Watch)
  <2>1. /\ at[l] = "streaming" /\ wire[l] # <<>> /\ wire'[l] = Tail(wire[l])
        /\ UNCHANGED <<at, open, cursor, seen>>
    BY <1>1, <1>9 DEF OnPlan, OnRevoked, Receive, Read
  <2>2. /\ ~IsMessage(Head(wire[l]))
        /\ shown'[l] = IF IsPlan(Head(wire[l])) THEN Head(wire[l]).n ELSE shown[l]
    BY <1>1, <1>9 DEF OnPlan, OnRevoked, Receive, IsMessage, IsPlan
  <2> QED  BY <1>2, <2>1, <2>2, LoopReads
<1> QED
  BY <1>3, <1>4, <1>5, <1>6, <1>7, <1>8, <1>9 DEF Steps, Proceed

LEMMA OthersKept ==
    ASSUME TypeOK, NEW k \in Loop, NEW l \in Loop, l # k, LoopOK(l), Steps(k)
    PROVE  LoopOK(l)'
<1>1. UNCHANGED <<host, log, planRev, missable>>
  BY DEF Steps, Proceed, Start, Backfill, FetchPlan, Connect, Authenticate, Subscribe,
     Subscribed, OnMessage, OnPlan, OnRevoked, OnEnd, Receive, Retry, Fail, Drop, Abort,
     relayVars
<1>2. at'[l] = at[l] /\ cursor'[l] = cursor[l] /\ seen'[l] = seen[l]
  BY DEF TypeOK, Steps, Proceed, Start, Backfill, FetchPlan, Connect, Authenticate, Subscribe,
     Subscribed, OnMessage, OnPlan, OnRevoked, OnEnd, Receive, Retry, Fail, Drop, Abort, Go
<1>3. shown'[l] = shown[l] /\ wire'[l] = wire[l] /\ (l \in open' => l \in open)
  BY DEF TypeOK, Steps, Proceed, Start, Backfill, FetchPlan, Connect, Authenticate, Subscribe,
     Subscribed, OnMessage, OnPlan, OnRevoked, OnEnd, Receive, Read, Disconnected, Retry, Fail,
     Drop, Abort
<1> QED  BY <1>1, <1>2, <1>3, LoopKept

----------------------------------------------------------------------------
\* Types and the Node relay's revocation.

LEMMA SentEvents ==
    ASSUME TypeOK, NEW type \in {"message.created", "plan.updated", "pairing.revoked", "end"},
           NEW n \in Nat
    PROVE  Sent(type, n) \in [Loop -> Seq(Event)]
<1>1. [type |-> type, n |-> n] \in Event
  BY DEF Event
<1>2. \A l \in Loop : Append(wire[l], [type |-> type, n |-> n]) \in Seq(Event)
  BY <1>1, AppendProperties DEF TypeOK
<1> QED  BY <1>2 DEF Sent, TypeOK

LEMMA EjectTypes ==
    ASSUME TypeOK, NEW a \in Agent, Eject(a)
    PROVE  wire' \in [Loop -> Seq(Event)] /\ open' \subseteq Loop
<1>1. Sent("pairing.revoked", 0) \in [Loop -> Seq(Event)]
  BY SentEvents
<1>2. [type |-> "end", n |-> 0] \in Event
  BY DEF Event
<1>3. PICK told \in [Loop -> Seq(Event)] : told = Sent("pairing.revoked", 0)
  BY <1>1
<1>4. \A l \in Loop : Append(told[l], [type |-> "end", n |-> 0]) \in Seq(Event)
  BY <1>2, AppendProperties
<1> QED  BY <1>3, <1>4 DEF Eject, TypeOK

LEMMA RelayTypes ==
    ASSUME TypeOK,
           \/ AddMessage \/ UpdatePlan
           \/ \E a \in Agent : \/ RevokeAgent(a) \/ RevokeAtRegistry(a)
                               \/ BroadcastRevocation(a) \/ RevocationDies(a)
    PROVE  TypeOK'
<1>1. CASE AddMessage
  <2>1. log \in Nat /\ log' = log + 1 /\ wire' \in [Loop -> Seq(Event)]
    <3>1. PICK n \in Nat : n = log + 1
      BY DEF TypeOK
    <3>2. Sent("message.created", n) \in [Loop -> Seq(Event)]
      BY SentEvents
    <3> QED  BY <1>1, <3>1, <3>2 DEF TypeOK, AddMessage
  <2>2. 1 .. log \subseteq 1 .. log' /\ 0 .. log \subseteq 0 .. log' /\ log' \in 1 .. log'
    BY <2>1
  <2>3. seen \in [Loop -> Seq(1 .. log')]
    BY <2>2, SeqMonotonic DEF TypeOK
  <2>4. missable' \in [Loop -> SUBSET (1 .. log')]
    BY <1>1, <2>2 DEF TypeOK, AddMessage
  <2> QED  BY <1>1, <2>1, <2>2, <2>3, <2>4 DEF TypeOK, AddMessage, loopVars
<1>2. CASE UpdatePlan
  <2>1. planRev \in Nat /\ planRev' = planRev + 1 /\ wire' \in [Loop -> Seq(Event)]
    <3>1. PICK n \in Nat : n = planRev + 1
      BY DEF TypeOK
    <3>2. Sent("plan.updated", n) \in [Loop -> Seq(Event)]
      BY SentEvents
    <3> QED  BY <1>2, <3>1, <3>2 DEF TypeOK, UpdatePlan
  <2>2. 0 .. planRev \subseteq 0 .. planRev'
    BY <2>1
  <2> QED  BY <1>2, <2>1, <2>2 DEF TypeOK, UpdatePlan, loopVars
<1>3. ASSUME NEW a \in Agent, RevokeAgent(a) \/ BroadcastRevocation(a) PROVE TypeOK'
  <2>1. wire' \in [Loop -> Seq(Event)] /\ open' \subseteq Loop
    BY <1>3, EjectTypes DEF RevokeAgent, BroadcastRevocation
  <2> QED  BY <1>3, <2>1 DEF TypeOK, RevokeAgent, BroadcastRevocation, loopVars
<1>4. ASSUME NEW a \in Agent, RevokeAtRegistry(a) \/ RevocationDies(a) PROVE TypeOK'
  BY <1>4 DEF TypeOK, RevokeAtRegistry, RevocationDies, loopVars
<1> QED  BY <1>1, <1>2, <1>3, <1>4

LEMMA LoopTypes ==
    ASSUME TypeOK, NEW l \in Loop, LoopOK(l), Steps(l)
    PROVE  TypeOK'
<1>1. UNCHANGED <<host, relayVars, missable>>
  BY DEF Steps, Proceed, Start, Backfill, FetchPlan, Connect, Authenticate, Subscribe,
     Subscribed, OnMessage, OnPlan, OnRevoked, OnEnd, Receive, Retry, Fail, Drop, Abort
<1>2. /\ at' \in [Loop -> Place] /\ open' \subseteq Loop /\ drops' \in Nat
      /\ stopped' \subseteq Loop /\ aborted' \subseteq Loop
  <2>1. at' = at \/ \E place \in Place : at' = [at EXCEPT ![l] = place]
    BY DEF Steps, Proceed, Start, Backfill, FetchPlan, Connect, Authenticate, Subscribe,
       Subscribed, OnMessage, OnPlan, OnRevoked, OnEnd, Retry, Fail, Drop, Abort, Go,
       AfterLoss, Place
  <2>2. drops' = drops \/ drops' = drops + 1
    BY DEF Steps, Proceed, Start, Backfill, FetchPlan, Connect, Authenticate, Subscribe,
       Subscribed, OnMessage, OnPlan, OnRevoked, OnEnd, Receive, Retry, Fail, Drop, Abort
  <2>3. open' \subseteq open \cup {l} /\ stopped' \subseteq stopped \cup {l}
    BY DEF Steps, Proceed, Start, Backfill, FetchPlan, Connect, Authenticate, Subscribe,
       Subscribed, OnMessage, OnPlan, OnRevoked, OnEnd, Disconnected, Retry, Fail, Drop, Abort
  <2>4. aborted' \subseteq aborted \cup {l}
    BY DEF Steps, Proceed, Start, Backfill, FetchPlan, Connect, Authenticate, Subscribe,
       Subscribed, OnMessage, OnPlan, OnRevoked, OnEnd, Receive, Retry, Fail, Drop, Abort
  <2>5. at' \in [Loop -> Place]
    BY <2>1 DEF TypeOK
  <2> QED  BY <2>2, <2>3, <2>4, <2>5 DEF TypeOK
<1>3. wire[l] # <<>> => Head(wire[l]) \in Event /\ Tail(wire[l]) \in Seq(Event)
  BY HeadTailProperties DEF TypeOK
<1>4. wire' \in [Loop -> Seq(Event)]
  <2>1. \/ wire' = wire \/ wire' = [wire EXCEPT ![l] = <<>>]
        \/ wire[l] # <<>> /\ wire' = [wire EXCEPT ![l] = Tail(@)]
    BY DEF Steps, Proceed, Start, Backfill, FetchPlan, Connect, Authenticate, Subscribe,
       Subscribed, OnMessage, OnPlan, OnRevoked, OnEnd, Receive, Read, Disconnected, Retry,
       Fail, Drop, Abort
  <2>2. <<>> \in Seq(Event)
    BY EmptySeq
  <2> QED  BY <1>3, <2>1, <2>2 DEF TypeOK
<1>5. CASE Backfill(l)
  <2>1. seen'[l] \in Seq(1 .. log)
    BY <1>5, Replayed
  <2>2. seen' \in [Loop -> Seq(1 .. log)]
    BY <1>5, <2>1 DEF TypeOK, Backfill
  <2>3. cursor' \in [Loop -> 0 .. log] /\ shown' = shown
    BY <1>5 DEF TypeOK, Backfill
  <2> QED  BY <1>1, <1>2, <1>4, <2>2, <2>3 DEF TypeOK, relayVars
<1>6. CASE OnMessage(l)
  <2>1. /\ wire[l] # <<>> /\ IsMessage(Head(wire[l])) /\ shown' = shown
        /\ seen' = [seen EXCEPT ![l] = Append(@, Head(wire[l]).n)]
        /\ cursor' = [cursor EXCEPT ![l] = Advanced(l, Head(wire[l]).n)]
    BY <1>6 DEF OnMessage, Receive, IsMessage
  <2>2. PICK n \in 1 .. log : n = Head(wire[l]).n
    BY <1>3, <2>1, AfterRead
  <2>3. Append(seen[l], n) \in Seq(1 .. log)
    BY AppendProperties DEF TypeOK
  <2>4. Advanced(l, n) \in 0 .. log
    BY DEF TypeOK, Advanced
  <2> QED  BY <1>1, <1>2, <1>4, <2>1, <2>2, <2>3, <2>4 DEF TypeOK, relayVars
<1>7. CASE OnPlan(l)
  <2>1. /\ wire[l] # <<>> /\ IsPlan(Head(wire[l])) /\ UNCHANGED <<seen, cursor>>
        /\ shown' = [shown EXCEPT ![l] = Head(wire[l]).n]
    BY <1>7 DEF OnPlan, Receive, IsPlan
  <2>2. PICK n \in shown[l] .. planRev : n = Head(wire[l]).n
    BY <1>3, <2>1, AfterRead
  <2>3. n \in 0 .. planRev
    BY DEF TypeOK
  <2> QED  BY <1>1, <1>2, <1>4, <2>1, <2>2, <2>3 DEF TypeOK, relayVars
<1>8. CASE UNCHANGED <<seen, cursor>> /\ (shown' = shown \/ shown' = [shown EXCEPT ![l] = planRev])
  BY <1>1, <1>2, <1>4, <1>8 DEF TypeOK, relayVars
<1> QED
  BY <1>5, <1>6, <1>7, <1>8
  DEF Steps, Proceed, Start, FetchPlan, Connect, Authenticate, Subscribe, Subscribed,
      OnRevoked, OnEnd, Retry, Fail, Drop, Abort

LEMMA CutOffKept ==
    ASSUME IInv, Next
    PROVE  RevokedIsCutOff'
<1> SUFFICES ASSUME host' = "node", NEW l \in open' PROVE Viewer[l] \notin revoked'
  BY DEF RevokedIsCutOff
<1>1. host = "node"
  BY DEF Next, AddMessage, UpdatePlan, RevokeAgent, RevokeAtRegistry, BroadcastRevocation,
     RevocationDies, Proceed, Start, Backfill, FetchPlan, Connect, Authenticate, Subscribe,
     Subscribed, OnMessage, OnPlan, OnRevoked, OnEnd, Receive, Retry, Fail, Drop, Abort
<1>2. \A k \in open : Viewer[k] \notin revoked
  BY <1>1 DEF IInv, RevokedIsCutOff
<1>3. ASSUME NEW a \in Agent, RevokeAgent(a) PROVE Viewer[l] \notin revoked'
  BY <1>2, <1>3 DEF RevokeAgent, Eject, Ejected
<1>4. ASSUME NEW k \in Loop, Steps(k) PROVE Viewer[l] \notin revoked'
  <2>1. revoked' = revoked
    BY <1>4 DEF Steps, Proceed, Start, Backfill, FetchPlan, Connect, Authenticate, Subscribe,
       Subscribed, OnMessage, OnPlan, OnRevoked, OnEnd, Receive, Retry, Fail, Drop, Abort,
       relayVars
  <2>2. ~Subscribe(k)
    BY <1>1 DEF IInv, LoopOK, StreamOK, Subscribe
  <2>3. open' \subseteq open \/ (open' = open \cup {k} /\ Authenticated(k))
    BY <1>4, <2>2 DEF Steps, Proceed, Start, Backfill, FetchPlan, Connect, Authenticate,
       Subscribed, OnMessage, OnPlan, OnRevoked, OnEnd, Retry, Fail, Drop, Abort, Disconnected
  <2> QED  BY <1>2, <2>1, <2>3 DEF Authenticated
<1>5. CASE open' \subseteq open /\ revoked' = revoked
  BY <1>2, <1>5
<1> QED
  BY <1>1, <1>3, <1>4, <1>5
  DEF Next, Steps, AddMessage, UpdatePlan, RevokeAtRegistry, BroadcastRevocation, Eject,
      RevocationDies

----------------------------------------------------------------------------
LEMMA InitIInv == Init => IInv
<1> SUFFICES ASSUME Init PROVE IInv
  OBVIOUS
<1>1. <<>> \in Seq(Event) /\ <<>> \in Seq(1 .. 0) /\ \A i : i \notin DOMAIN <<>>
  BY EmptySeq, LenProperties
<1>2. TypeOK
  BY <1>1 DEF Init, TypeOK, Place
<1>3. ASSUME NEW l \in Loop PROVE LoopOK(l)
  <2>1. /\ log = 0 /\ planRev = 0 /\ open = {} /\ wire[l] = <<>> /\ at[l] = "idle"
        /\ cursor[l] = 0 /\ seen[l] = <<>> /\ shown[l] = 0
    BY DEF Init
  <2> QED
    BY <1>1, <2>1 DEF LoopOK, StreamOK, CursorOK, OrderOK, CoverOK, InTurn, Current, Seen, Gap
<1> QED  BY <1>2, <1>3 DEF Init, IInv, RevokedIsCutOff

LEMMA NextKeepsIInv ==
    ASSUME IInv, [Next]_vars
    PROVE  IInv'
<1> USE DEF IInv
<1>1. CASE UNCHANGED vars
  <2>1. TypeOK'
    BY <1>1 DEF TypeOK, vars, relayVars, loopVars
  <2>2. \A l \in Loop : LoopOK(l)'
    BY <1>1, LoopKept DEF vars, relayVars, loopVars
  <2>3. RevokedIsCutOff'
    BY <1>1 DEF RevokedIsCutOff, vars, relayVars
  <2> QED  BY <2>1, <2>2, <2>3
<1>2. CASE Next
  <2>1. TypeOK'
    BY <1>2, RelayTypes, LoopTypes DEF Next, Steps
  <2>2. ASSUME NEW l \in Loop PROVE LoopOK(l)'
    <3>1. ASSUME NEW k \in Loop, Steps(k) PROVE LoopOK(l)'
      BY <3>1, LoopSteps, OthersKept
    <3>2. ASSUME NEW a \in Agent, RevokeAgent(a) \/ BroadcastRevocation(a) PROVE LoopOK(l)'
      <4>1. Eject(a) /\ UNCHANGED <<host, log, planRev, loopVars, missable>>
        BY <3>2 DEF RevokeAgent, BroadcastRevocation
      <4> QED  BY <4>1, LoopEjected
    <3>3. ASSUME NEW a \in Agent, RevokeAtRegistry(a) \/ RevocationDies(a) PROVE LoopOK(l)'
      BY <3>3, LoopKept DEF RevokeAtRegistry, RevocationDies, loopVars
    <3> QED  BY <1>2, <3>1, <3>2, <3>3, LoopPosted, LoopReplanned DEF Next, Steps
  <2>3. RevokedIsCutOff'
    BY <1>2, CutOffKept
  <2> QED  BY <2>1, <2>2, <2>3
<1> QED  BY <1>1, <1>2

LEMMA Invariance == Spec => []IInv
  BY InitIInv, NextKeepsIInv, PTL DEF Spec

----------------------------------------------------------------------------
\* Every reachable state is well formed: no loop is ever ahead of the thread, of its
\* cursor or of the plans row.
THEOREM TypeCorrect == Spec => []TypeOK
  BY Invariance, PTL DEF IInv

\* A viewer is shown the thread in order and nothing twice, however replays, streamed
\* messages, lost connections and revocations interleave.
THEOREM ShownInOrder == Spec => []InOrder
<1>1. IInv => InOrder
  BY DEF IInv, LoopOK, OrderOK, InOrder
<1> QED  BY <1>1, Invariance, PTL

\* What a viewer skips for ever was sent between its replay and its subscription; no
\* other loss, refusal, restart or order of steps costs it a message.
THEOREM OnlyTheWindowLoses == Spec => []GapOnlyInWindow
<1>1. IInv => GapOnlyInWindow
  <2> SUFFICES ASSUME IInv, NEW l \in Loop, NEW m \in 1 .. log, NEW n \in Seen(l), m < n
      PROVE  m \in Seen(l) \cup missable[l]
    BY DEF GapOnlyInWindow
  <2>1. n \in 1 .. log
    BY ElementOfSeq, LenProperties DEF IInv, TypeOK, Seen
  <2>2. m \in 1 .. n
    BY <2>1 DEF IInv, TypeOK
  <2> QED  BY <2>2 DEF IInv, LoopOK, CoverOK, Had
<1> QED  BY <1>1, Invariance, PTL

\* On the Node relay no interleaving leaves a revoked agent with an open stream.
THEOREM RevocationCutsStreams == Spec => []RevokedIsCutOff
  BY Invariance, PTL DEF IInv

\* The plan a viewer is shown never goes back, whether it was fetched or streamed.
THEOREM PlanNeverGoesBack == Spec => PlanForward
<1>1. ASSUME IInv, Next, NEW l \in Loop
      PROVE  shown'[l] >= shown[l]
  <2>1. shown \in [Loop -> 0 .. planRev] /\ planRev \in Nat /\ shown[l] \in 0 .. planRev
    BY <1>1 DEF IInv, TypeOK
  <2>2. ASSUME NEW k \in Loop, OnPlan(k) PROVE shown'[l] >= shown[l]
    <3>1. /\ wire[k] # <<>> /\ IsPlan(Head(wire[k]))
          /\ shown' = [shown EXCEPT ![k] = Head(wire[k]).n]
      BY <2>2 DEF OnPlan, Receive, IsPlan
    <3>2. Head(wire[k]) \in Event /\ Tail(wire[k]) \in Seq(Event)
      BY <1>1, <3>1, HeadTailProperties DEF IInv, TypeOK
    <3>3. Head(wire[k]).n \in shown[k] .. planRev
      BY <1>1, <3>1, <3>2, AfterRead DEF IInv
    <3> QED  BY <2>1, <3>1, <3>3
  <2>3. ASSUME NEW k \in Loop, FetchPlan(k) PROVE shown'[l] >= shown[l]
    BY <2>1, <2>3 DEF FetchPlan
  <2>4. CASE shown' = shown
    BY <2>1, <2>4
  <2> QED
    BY <1>1, <2>2, <2>3, <2>4
    DEF Next, AddMessage, UpdatePlan, RevokeAgent, RevokeAtRegistry, BroadcastRevocation,
        RevocationDies, loopVars, Proceed, Start, Backfill, Connect, Authenticate, Subscribe,
        Subscribed, OnMessage, OnRevoked, OnEnd, Retry, Fail, Drop, Abort
<1>2. IInv /\ [Next]_vars => [\A l \in Loop : shown'[l] >= shown[l]]_shown
  BY <1>1 DEF vars, loopVars
<1> QED  BY <1>2, Invariance, PTL DEF Spec, PlanForward
=============================================================================
