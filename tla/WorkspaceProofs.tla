-------------------------- MODULE WorkspaceProofs --------------------------
(***************************************************************************)
(* What holds of the shells of a pairing for any number of agents, paths,  *)
(* passes, claims and commits, however long the thread and however often a *)
(* stream breaks, replays it or is answered late.                          *)
(***************************************************************************)
EXTENDS Workspace, FiniteSetTheorems, WellFoundedInduction, TLAPS

----------------------------------------------------------------------------
\* Induction: a set of numbers has a least element.  (The library's induction
\* rules take the predicate as a parameter; this one takes a set.)
LEMMA LeastNumber ==
    ASSUME NEW T \in SUBSET Nat, T # {}
    PROVE  \E m \in T : \A k \in T : m <= k
<1>1. PICK R : /\ IsWellFoundedOn(R, Nat)
               /\ \A x, y \in Nat : <<y, x>> \in R <=> y < x
  <2>1. IsWellFoundedOn(OpToRel(<, Nat), Nat)
    BY NatLessThanWellFounded
  <2>2. \A x, y \in Nat : <<y, x>> \in OpToRel(<, Nat) <=> y < x
    BY DEF OpToRel
  <2> QED  BY <2>1, <2>2, Zenon
<1>2. PICK m \in T : \A k \in T : ~ (<<k, m>> \in R)
  BY <1>1, WFMin, Zenon
<1>3. \A k \in T : ~ (k < m)
  BY <1>1, <1>2
<1> QED  BY <1>2, <1>3

LEMMA Induction ==
    ASSUME NEW S \in SUBSET Nat, 0 \in S, \A n \in S : n + 1 \in S
    PROVE  S = Nat
<1> SUFFICES ASSUME Nat \ S # {} PROVE FALSE
  OBVIOUS
<1>1. PICK m \in Nat \ S : \A k \in Nat \ S : m <= k
  BY LeastNumber
<1>2. m # 0 /\ m - 1 \in Nat
  BY <1>1
<1>3. m - 1 \in S
  BY <1>1, <1>2
<1> QED  BY <1>1, <1>2, <1>3

----------------------------------------------------------------------------
\* FoldLeft, one element at a time.

LEMMA LargestOf ==
    ASSUME NEW k \in Nat, NEW s \in SUBSET (1 .. (k + 1)), k + 1 \in s
    PROVE  Max(s) = k + 1
<1>1. \A y \in s : k + 1 >= y
  OBVIOUS
<1>2. \A x \in s : (\A y \in s : x >= y) => x = k + 1
  OBVIOUS
<1> QED  BY <1>1, <1>2 DEF Max

\* What FoldLeft's recursive function is over the subsets of S.
Unfolds(g, view, e, S) ==
    g = [s \in SUBSET S |-> IF s = {} THEN view ELSE Apply(g[s \ {Max(s)}], e[Max(s)])]

LEMMA UnfoldingExists ==
    ASSUME NEW view, NEW e
    PROVE  \A n \in Nat : \E g : Unfolds(g, view, e, 1 .. n)
<1>1. PICK T \in SUBSET Nat : T = {n \in Nat : \E g : Unfolds(g, view, e, 1 .. n)}
  OBVIOUS
<1>2. 0 \in T
  <2>1. PICK g : g = [s \in SUBSET (1 .. 0) |-> view]
    OBVIOUS
  <2>2. \A s \in SUBSET (1 .. 0) : s = {}
    OBVIOUS
  <2>3. g = [s \in SUBSET (1 .. 0) |-> IF s = {} THEN view ELSE Apply(g[s \ {Max(s)}], e[Max(s)])]
    BY <2>1, <2>2
  <2> QED  BY <1>1, <2>3 DEF Unfolds
<1>3. ASSUME NEW n \in T
      PROVE  n + 1 \in T
  <2>1. PICK g : g = [s \in SUBSET (1 .. n) |->
                        IF s = {} THEN view ELSE Apply(g[s \ {Max(s)}], e[Max(s)])]
    BY <1>1 DEF Unfolds
  <2>2. PICK h : h = [s \in SUBSET (1 .. (n + 1)) |->
                        IF n + 1 \in s THEN Apply(g[s \ {n + 1}], e[n + 1]) ELSE g[s]]
    OBVIOUS
  <2>3. n \in Nat
    BY <1>1
  <2>4. \A s \in SUBSET (1 .. (n + 1)) : n + 1 \notin s => s \in SUBSET (1 .. n)
    BY <2>3
  <2>5. SUBSET (1 .. n) \subseteq SUBSET (1 .. (n + 1)) /\ \A s \in SUBSET (1 .. n) : n + 1 \notin s
    BY <2>3
  <2>6. \A s \in SUBSET (1 .. n) : h[s] = g[s]
    BY <2>2, <2>5
  <2>7. ASSUME NEW s \in SUBSET (1 .. (n + 1))
        PROVE  h[s] = IF s = {} THEN view ELSE Apply(h[s \ {Max(s)}], e[Max(s)])
    <3>1. CASE n + 1 \in s
      <4>1. Max(s) = n + 1
        BY <2>3, <3>1, LargestOf
      <4>2. s \ {n + 1} \in SUBSET (1 .. n)
        BY <2>4
      <4>3. h[s] = Apply(g[s \ {n + 1}], e[n + 1])
        BY <2>2, <3>1
      <4>4. h[s \ {n + 1}] = g[s \ {n + 1}]
        BY <2>6, <4>2
      <4> QED  BY <3>1, <4>1, <4>3, <4>4
    <3>2. CASE n + 1 \notin s
      <4>1. s \in SUBSET (1 .. n) /\ s \ {Max(s)} \in SUBSET (1 .. n)
        BY <2>4, <3>2
      <4>2. g[s] = IF s = {} THEN view ELSE Apply(g[s \ {Max(s)}], e[Max(s)])
        BY <2>1, <4>1
      <4> QED  BY <2>6, <4>1, <4>2
    <3> QED  BY <3>1, <3>2
  <2>8. h = [s \in SUBSET (1 .. (n + 1)) |->
               IF s = {} THEN view ELSE Apply(h[s \ {Max(s)}], e[Max(s)])]
    BY <2>2, <2>7
  <2>9. Unfolds(h, view, e, 1 .. (n + 1))
    BY <2>8 DEF Unfolds
  <2> QED  BY <1>1, <2>3, <2>9
<1>4. T = Nat
  BY <1>2, <1>3, Induction
<1> QED  BY <1>1, <1>4

\* h is the fold, prefix by prefix.
Chain(h, view, e, n) == h[0] = view /\ \A k \in 1 .. n : h[k] = Apply(h[k - 1], e[k])

LEMMA FoldIsChain ==
    ASSUME NEW view, NEW n \in Nat, NEW e, DOMAIN e = 1 .. n
    PROVE  \E h : Chain(h, view, e, n) /\ foldPresence(view, e) = h[n]
<1>1. \E g : g = [s \in SUBSET DOMAIN e |->
                    IF s = {} THEN view ELSE Apply(g[s \ {Max(s)}], e[Max(s)])]
  <2>1. \E g : Unfolds(g, view, e, DOMAIN e)
    BY UnfoldingExists
  <2> QED  BY <2>1 DEF Unfolds
<1>2. PICK g : /\ g = [s \in SUBSET DOMAIN e |->
                         IF s = {} THEN view ELSE Apply(g[s \ {Max(s)}], e[Max(s)])]
               /\ foldPresence(view, e) = g[DOMAIN e]
  BY <1>1 DEF foldPresence, FoldLeft, MapThenFoldSet
<1>3. PICK h : h = [k \in 0 .. n |-> g[1 .. k]]
  OBVIOUS
<1>4. h[0] = view
  <2>1. 1 .. 0 = {} /\ 0 \in 0 .. n
    OBVIOUS
  <2> QED  BY <1>2, <1>3, <2>1
<1>5. ASSUME NEW k \in 1 .. n
      PROVE  h[k] = Apply(h[k - 1], e[k])
  <2>1. k - 1 \in Nat /\ k = (k - 1) + 1 /\ k \in 0 .. n /\ k - 1 \in 0 .. n
    OBVIOUS
  <2>2. 1 .. k \in SUBSET DOMAIN e /\ 1 .. k # {} /\ k \in 1 .. k
    <3>1. \A j \in 1 .. k : j \in 1 .. n
      OBVIOUS
    <3>2. k \in 1 .. k
      OBVIOUS
    <3> QED  BY <3>1, <3>2
  <2>3. Max(1 .. k) = k
    BY <2>1, <2>2, LargestOf
  <2>4. (1 .. k) \ {k} = 1 .. (k - 1)
    BY <2>1
  <2>5. g[1 .. k] = Apply(g[1 .. (k - 1)], e[k])
    BY <1>2, <2>2, <2>3, <2>4
  <2> QED  BY <1>3, <2>1, <2>5
<1>6. foldPresence(view, e) = h[n]
  BY <1>2, <1>3
<1> QED  BY <1>4, <1>5, <1>6 DEF Chain

\* Two folds over sequences that agree so far agree so far.
LEMMA ChainsAgree ==
    ASSUME NEW view, NEW n \in Nat, NEW e, NEW f, NEW g, NEW h,
           Chain(g, view, e, n), Chain(h, view, f, n), \A k \in 1 .. n : e[k] = f[k]
    PROVE  \A k \in 0 .. n : g[k] = h[k]
<1>1. PICK T \in SUBSET Nat : T = {k \in Nat : k <= n => g[k] = h[k]}
  OBVIOUS
<1>2. 0 \in T
  BY <1>1 DEF Chain
<1>3. ASSUME NEW k \in T
      PROVE  k + 1 \in T
  <2>1. CASE k + 1 <= n
    <3>1. k \in Nat /\ k + 1 \in 1 .. n /\ (k + 1) - 1 = k
      BY <1>1, <2>1
    <3>2. g[k] = h[k]
      BY <1>1, <2>1, <3>1
    <3> QED  BY <1>1, <3>1, <3>2 DEF Chain
  <2>2. CASE ~ (k + 1 <= n)
    BY <1>1, <2>2
  <2> QED  BY <2>1, <2>2
<1>4. T = Nat
  BY <1>2, <1>3, Induction
<1> QED  BY <1>1, <1>4

----------------------------------------------------------------------------
\* What one envelope settles, whatever was shown before it.

ClaimsSaid(e, b, x) ==
    /\ e.from = b
    /\ \/ e.kind = "claim" /\ x \in e.globs
       \/ e.kind = "release" /\ (e.globs = {} \/ x \in e.globs)
HeadSaid(e, b) == e.from = b /\ e.kind = "head"

View == [Agent -> Member]

LEMMA ApplySettles ==
    ASSUME NEW view \in View, NEW e \in Envelope
    PROVE  /\ Apply(view, e) \in View
           /\ \A b \in Agent : \A x \in Glob :
                 x \in Apply(view, e)[b].claims <=>
                     IF ClaimsSaid(e, b, x) THEN e.kind = "claim" ELSE x \in view[b].claims
           /\ \A b \in Agent :
                 Apply(view, e)[b].head =
                     IF HeadSaid(e, b) THEN [at |-> e.at, files |-> e.files] ELSE view[b].head
<1>1. /\ e.kind \in {"claim", "release", "head"} /\ e.from \in Agent
      /\ e.globs \in SUBSET Glob /\ e.files \in SUBSET Entry /\ e.at \in SUBSET Commit
  BY DEF Envelope
<1>2. PICK m \in Member : m = view[e.from]
  BY <1>1 DEF View
<1>3. \A b \in Agent : view[b] \in Member
  BY DEF View
<1>4. ASSUME NEW next \in Member, Apply(view, e) = [view EXCEPT ![e.from] = next]
      PROVE  /\ Apply(view, e) \in View /\ Apply(view, e)[e.from] = next
             /\ \A b \in Agent \ {e.from} : Apply(view, e)[b] = view[b]
  BY <1>1, <1>4 DEF View
<1>5. CASE e.kind = "claim"
  <2>1. PICK next \in Member : /\ next = [m EXCEPT !.claims = @ \cup e.globs]
                               /\ next.claims = m.claims \cup e.globs /\ next.head = m.head
    <3>1. /\ [m EXCEPT !.claims = @ \cup e.globs] \in Member
          /\ [m EXCEPT !.claims = @ \cup e.globs].claims = m.claims \cup e.globs
          /\ [m EXCEPT !.claims = @ \cup e.globs].head = m.head
      BY <1>1 DEF Member
    <3> QED  BY <3>1, Zenon
  <2>2. Apply(view, e) = [view EXCEPT ![e.from] = next]
    BY <1>2, <1>5, <2>1 DEF Apply, View
  <2> QED  BY <1>1, <1>2, <1>4, <1>5, <2>1, <2>2 DEF ClaimsSaid, HeadSaid
<1>6. CASE e.kind = "release"
  <2>1. PICK left \in SUBSET Glob : left = IF e.globs = {} THEN {} ELSE m.claims \ e.globs
    BY <1>1 DEF Member
  <2>2. PICK next \in Member : /\ next = [m EXCEPT !.claims = left]
                               /\ next.claims = left /\ next.head = m.head
    <3>1. /\ [m EXCEPT !.claims = left] \in Member
          /\ [m EXCEPT !.claims = left].claims = left
          /\ [m EXCEPT !.claims = left].head = m.head
      BY <1>1 DEF Member
    <3> QED  BY <3>1, Zenon
  <2>3. Apply(view, e) = [view EXCEPT ![e.from] = next]
    BY <1>2, <1>6, <2>1, <2>2 DEF Apply, View
  <2>4. Apply(view, e) \in View /\ Apply(view, e)[e.from] = next
    BY <1>4, <2>3
  <2>5. \A b \in Agent \ {e.from} : Apply(view, e)[b] = view[b]
    BY <1>4, <2>3
  <2>6. ASSUME NEW b \in Agent, NEW x \in Glob
        PROVE  x \in Apply(view, e)[b].claims <=>
                  IF ClaimsSaid(e, b, x) THEN e.kind = "claim" ELSE x \in view[b].claims
    <3>1. CASE b = e.from
      <4>1. ClaimsSaid(e, b, x) <=> (e.globs = {} \/ x \in e.globs)
        BY <1>6, <3>1 DEF ClaimsSaid
      <4>2. x \in left <=> ~ (e.globs = {} \/ x \in e.globs) /\ x \in m.claims
        BY <2>1
      <4> QED  BY <1>2, <1>6, <2>2, <2>4, <3>1, <4>1, <4>2
    <3>2. CASE b # e.from
      BY <2>5, <3>2 DEF ClaimsSaid
    <3> QED  BY <3>1, <3>2
  <2>7. \A b \in Agent : Apply(view, e)[b].head = view[b].head /\ ~ HeadSaid(e, b)
    BY <1>2, <1>6, <2>2, <2>4, <2>5 DEF HeadSaid
  <2> QED  BY <2>4, <2>6, <2>7
<1>7. CASE e.kind = "head"
  <2>1. PICK next \in Member : /\ next = [m EXCEPT !.head = [at |-> e.at, files |-> e.files]]
                               /\ next.claims = m.claims
                               /\ next.head = [at |-> e.at, files |-> e.files]
    <3>1. /\ [m EXCEPT !.head = [at |-> e.at, files |-> e.files]] \in Member
          /\ [m EXCEPT !.head = [at |-> e.at, files |-> e.files]].claims = m.claims
          /\ [m EXCEPT !.head = [at |-> e.at, files |-> e.files]].head
                = [at |-> e.at, files |-> e.files]
      BY <1>1 DEF Member
    <3> QED  BY <3>1, Zenon
  <2>2. Apply(view, e) = [view EXCEPT ![e.from] = next]
    BY <1>2, <1>7, <2>1 DEF Apply, View
  <2> QED  BY <1>1, <1>2, <1>4, <1>7, <2>1, <2>2 DEF ClaimsSaid, HeadSaid
<1> QED  BY <1>1, <1>5, <1>6, <1>7

\* What the first k envelopes leave of the view a fold began with.
ClaimsOpen(e, k, b, x) == \A j \in 1 .. k : ~ ClaimsSaid(e[j], b, x)
HeadOpen(e, k, b) == \A j \in 1 .. k : ~ HeadSaid(e[j], b)

Keeps(g, view, e, k) ==
    /\ g[k] \in View
    /\ \A b \in Agent : \A x \in Glob :
          ClaimsOpen(e, k, b, x) => (x \in g[k][b].claims <=> x \in view[b].claims)
    /\ \A b \in Agent : HeadOpen(e, k, b) => g[k][b].head = view[b].head

Settled(g, h, e, k) ==
    /\ \A b \in Agent : \A x \in Glob :
          ~ ClaimsOpen(e, k, b, x) => (x \in g[k][b].claims <=> x \in h[k][b].claims)
    /\ \A b \in Agent : ~ HeadOpen(e, k, b) => g[k][b].head = h[k][b].head

Moves(old, new, e) ==
    /\ \A b \in Agent : \A x \in Glob :
          x \in new[b].claims <=>
              IF ClaimsSaid(e, b, x) THEN e.kind = "claim" ELSE x \in old[b].claims
    /\ \A b \in Agent :
          new[b].head = IF HeadSaid(e, b) THEN [at |-> e.at, files |-> e.files] ELSE old[b].head

LEMMA ChainStep ==
    ASSUME NEW view, NEW n \in Nat, NEW e, NEW g, Chain(g, view, e, n),
           \A k \in 1 .. n : e[k] \in Envelope,
           NEW k \in Nat, k + 1 <= n, g[k] \in View
    PROVE  /\ g[k + 1] = Apply(g[k], e[k + 1]) /\ e[k + 1] \in Envelope
           /\ g[k + 1] \in View
           /\ Moves(g[k], g[k + 1], e[k + 1])
<1>1. k + 1 \in 1 .. n /\ (k + 1) - 1 = k
  OBVIOUS
<1>2. g[k + 1] = Apply(g[k], e[k + 1]) /\ e[k + 1] \in Envelope
  BY <1>1 DEF Chain
<1> QED  BY <1>2, ApplySettles DEF Moves

LEMMA OneMoreOpen ==
    ASSUME NEW e, NEW k \in Nat, NEW b, NEW x
    PROVE  /\ ClaimsOpen(e, k + 1, b, x) <=> ClaimsOpen(e, k, b, x) /\ ~ ClaimsSaid(e[k + 1], b, x)
           /\ HeadOpen(e, k + 1, b) <=> HeadOpen(e, k, b) /\ ~ HeadSaid(e[k + 1], b)
<1>1. \A j : j \in 1 .. (k + 1) <=> j \in 1 .. k \/ j = k + 1
  OBVIOUS
<1> QED  BY <1>1, Zenon DEF ClaimsOpen, HeadOpen

LEMMA ChainKeeps ==
    ASSUME NEW view \in View, NEW n \in Nat, NEW e, NEW g, Chain(g, view, e, n),
           \A k \in 1 .. n : e[k] \in Envelope
    PROVE  \A k \in 0 .. n : Keeps(g, view, e, k)
<1>1. PICK T \in SUBSET Nat : T = {k \in Nat : k <= n => Keeps(g, view, e, k)}
  OBVIOUS
<1>2. 0 \in T
  <2>1. g[0] = view
    BY DEF Chain
  <2> QED  BY <1>1, <2>1 DEF Keeps
<1>3. ASSUME NEW k \in T
      PROVE  k + 1 \in T
  <2>1. CASE k + 1 <= n
    <3>1. k \in Nat /\ Keeps(g, view, e, k)
      BY <1>1, <2>1
    <3>2. g[k] \in View
      BY <3>1 DEF Keeps
    <3>3. g[k + 1] \in View /\ Moves(g[k], g[k + 1], e[k + 1])
      BY <2>1, <3>1, <3>2, ChainStep
    <3>4. ASSUME NEW b \in Agent, NEW x \in Glob, ClaimsOpen(e, k + 1, b, x)
          PROVE  x \in g[k + 1][b].claims <=> x \in view[b].claims
      <4>1. ClaimsOpen(e, k, b, x) /\ ~ ClaimsSaid(e[k + 1], b, x)
        BY <3>1, <3>4, OneMoreOpen
      <4> QED  BY <3>1, <3>3, <4>1 DEF Keeps, Moves
    <3>5. ASSUME NEW b \in Agent, HeadOpen(e, k + 1, b)
          PROVE  g[k + 1][b].head = view[b].head
      <4>1. HeadOpen(e, k, b) /\ ~ HeadSaid(e[k + 1], b)
        BY <3>1, <3>5, OneMoreOpen
      <4> QED  BY <3>1, <3>3, <4>1 DEF Keeps, Moves
    <3>6. Keeps(g, view, e, k + 1)
      BY <3>3, <3>4, <3>5 DEF Keeps
    <3> QED  BY <1>1, <3>1, <3>6
  <2>2. CASE ~ (k + 1 <= n)
    BY <1>1, <2>2
  <2> QED  BY <2>1, <2>2
<1>4. T = Nat
  BY <1>2, <1>3, Induction
<1> QED  BY <1>1, <1>4

\* Once an envelope has spoken of a claim or a head, two folds over the same
\* thread agree on it, whatever they began with.
LEMMA ChainsSettle ==
    ASSUME NEW v \in View, NEW w \in View, NEW n \in Nat, NEW e, NEW g, NEW h,
           Chain(g, v, e, n), Chain(h, w, e, n), \A k \in 1 .. n : e[k] \in Envelope
    PROVE  \A k \in 0 .. n : Settled(g, h, e, k)
<1>1. PICK T \in SUBSET Nat : T = {k \in Nat : k <= n => Settled(g, h, e, k)}
  OBVIOUS
<1>2. 0 \in T
  <2>1. Settled(g, h, e, 0)
    BY DEF Settled, ClaimsOpen, HeadOpen
  <2> QED  BY <1>1, <2>1
<1>3. \A k \in 0 .. n : g[k] \in View /\ h[k] \in View
  BY ChainKeeps DEF Keeps
<1>4. ASSUME NEW k \in T
      PROVE  k + 1 \in T
  <2>1. CASE k + 1 <= n
    <3>1. k \in Nat /\ k \in 0 .. n /\ Settled(g, h, e, k)
      BY <1>1, <2>1
    <3>2. Moves(g[k], g[k + 1], e[k + 1]) /\ Moves(h[k], h[k + 1], e[k + 1])
      BY <1>3, <2>1, <3>1, ChainStep
    <3>3. ASSUME NEW b \in Agent, NEW x \in Glob, ~ ClaimsOpen(e, k + 1, b, x)
          PROVE  x \in g[k + 1][b].claims <=> x \in h[k + 1][b].claims
      <4>1. ~ ClaimsOpen(e, k, b, x) \/ ClaimsSaid(e[k + 1], b, x)
        BY <3>1, <3>3, OneMoreOpen
      <4> QED  BY <3>1, <3>2, <4>1 DEF Settled, Moves
    <3>4. ASSUME NEW b \in Agent, ~ HeadOpen(e, k + 1, b)
          PROVE  g[k + 1][b].head = h[k + 1][b].head
      <4>1. ~ HeadOpen(e, k, b) \/ HeadSaid(e[k + 1], b)
        BY <3>1, <3>4, OneMoreOpen
      <4> QED  BY <3>1, <3>2, <4>1 DEF Settled, Moves
    <3>5. Settled(g, h, e, k + 1)
      BY <3>3, <3>4 DEF Settled
    <3> QED  BY <1>1, <3>1, <3>5
  <2>2. CASE ~ (k + 1 <= n)
    BY <1>1, <2>2
  <2> QED  BY <2>1, <2>2
<1>5. T = Nat
  BY <1>2, <1>4, Induction
<1> QED  BY <1>1, <1>5

----------------------------------------------------------------------------
\* What a shell that heard the first m envelopes shows.

Heard(e, m) == foldPresence(Nobody, SubSeq(e, 1, m))

LEMMA NobodyType == Nobody \in View
BY DEF Nobody, View, Unseen, Member, NoHead

LEMMA PrefixFacts ==
    ASSUME NEW e \in Seq(Envelope), NEW m \in 0 .. Len(e)
    PROVE  /\ DOMAIN SubSeq(e, 1, m) = 1 .. m
           /\ \A k \in 1 .. m : SubSeq(e, 1, m)[k] = e[k]
           /\ \A k \in 1 .. Len(e) : e[k] \in Envelope
           /\ DOMAIN e = 1 .. Len(e)
OBVIOUS

Starts(f, e, m) == DOMAIN f = 1 .. m /\ \A k \in 1 .. m : f[k] = e[k]

LEMMA PrefixFold ==
    ASSUME NEW view, NEW m \in Nat, NEW e, NEW f, NEW h, Chain(h, view, e, m), Starts(f, e, m)
    PROVE  foldPresence(view, f) = h[m]
<1>1. PICK g : Chain(g, view, f, m) /\ foldPresence(view, f) = g[m]
  BY FoldIsChain DEF Starts
<1>2. \A k \in 1 .. m : f[k] = e[k]
  BY DEF Starts
<1>3. \A k \in 0 .. m : g[k] = h[k]
  BY <1>1, <1>2, ChainsAgree
<1> QED  BY <1>1, <1>3

LEMMA HeardIsChain ==
    ASSUME NEW e \in Seq(Envelope)
    PROVE  \E h : /\ Chain(h, Nobody, e, Len(e))
                  /\ \A m \in 0 .. Len(e) : Heard(e, m) = h[m] /\ h[m] \in View
                  /\ \A m \in 0 .. Len(e) : Keeps(h, Nobody, e, m)
                  /\ foldPresence(Nobody, e) = h[Len(e)]
<1>1. Len(e) \in Nat /\ DOMAIN e = 1 .. Len(e) /\ \A k \in 1 .. Len(e) : e[k] \in Envelope
  OBVIOUS
<1>2. PICK h : Chain(h, Nobody, e, Len(e)) /\ foldPresence(Nobody, e) = h[Len(e)]
  BY <1>1, FoldIsChain
<1>3. \A m \in 0 .. Len(e) : Keeps(h, Nobody, e, m)
  BY <1>1, <1>2, ChainKeeps, NobodyType
<1>4. ASSUME NEW m \in 0 .. Len(e)
      PROVE  Heard(e, m) = h[m]
  <2>1. Chain(h, Nobody, e, m)
    BY <1>1, <1>2 DEF Chain
  <2>2. m \in Nat
    OBVIOUS
  <2>3. Starts(SubSeq(e, 1, m), e, m)
    BY PrefixFacts DEF Starts
  <2>4. foldPresence(Nobody, SubSeq(e, 1, m)) = h[m]
    BY <2>1, <2>2, <2>3, PrefixFold
  <2> QED  BY <2>4 DEF Heard
<1>5. \A m \in 0 .. Len(e) : h[m] \in View
  BY <1>3 DEF Keeps
<1> QED  BY <1>2, <1>3, <1>4, <1>5

LEMMA ViewsEqual ==
    ASSUME NEW v \in View, NEW w \in View,
           \A b \in Agent : \A x \in Glob : x \in v[b].claims <=> x \in w[b].claims,
           \A b \in Agent : v[b].head = w[b].head
    PROVE  v = w
<1>1. ASSUME NEW b \in Agent
      PROVE  v[b] = w[b]
  <2>1. PICK p \in Member : p = v[b]
    BY DEF View
  <2>2. PICK q \in Member : q = w[b]
    BY DEF View
  <2>3. p.claims = q.claims
    BY <2>1, <2>2 DEF Member
  <2>4. p.head = q.head
    BY <2>1, <2>2
  <2>5. p = q
    BY <2>3, <2>4 DEF Member
  <2> QED  BY <2>1, <2>2, <2>5
<1> QED  BY <1>1 DEF View

LEMMA HeardOfMore ==
    ASSUME NEW e \in Seq(Envelope), NEW x \in Envelope, NEW m \in 0 .. Len(e)
    PROVE  Heard(Append(e, x), m) = Heard(e, m)
<1>1. SubSeq(Append(e, x), 1, m) = SubSeq(e, 1, m)
  OBVIOUS
<1> QED  BY <1>1 DEF Heard

----------------------------------------------------------------------------
\* A shell is handed slices of the thread.

LEMMA FoldKeeps ==
    ASSUME NEW v \in View, NEW f \in Seq(Envelope)
    PROVE  /\ foldPresence(v, f) \in View
           /\ \A b \in Agent : \A x \in Glob :
                 ClaimsOpen(f, Len(f), b, x) =>
                    (x \in foldPresence(v, f)[b].claims <=> x \in v[b].claims)
           /\ \A b \in Agent :
                 HeadOpen(f, Len(f), b) => foldPresence(v, f)[b].head = v[b].head
<1>1. Len(f) \in Nat /\ DOMAIN f = 1 .. Len(f) /\ \A k \in 1 .. Len(f) : f[k] \in Envelope
  OBVIOUS
<1>2. PICK g : Chain(g, v, f, Len(f)) /\ foldPresence(v, f) = g[Len(f)]
  BY <1>1, FoldIsChain
<1>3. Keeps(g, v, f, Len(f))
  BY <1>1, <1>2, ChainKeeps
<1> QED  BY <1>2, <1>3 DEF Keeps

LEMMA FoldOfNone ==
    ASSUME NEW v, NEW f \in Seq(Envelope), Len(f) = 0
    PROVE  foldPresence(v, f) = v
<1>1. DOMAIN f = 1 .. 0
  OBVIOUS
<1>2. PICK g : Chain(g, v, f, 0) /\ foldPresence(v, f) = g[0]
  BY <1>1, FoldIsChain
<1> QED  BY <1>2 DEF Chain

\* A sequence folded into a view that shows nothing but what the sequence speaks
\* of ends where a fresh fold ends.
LEMMA FoldIsFresh ==
    ASSUME NEW f \in Seq(Envelope), NEW v \in View,
           \A b \in Agent : \A x \in Glob : ClaimsOpen(f, Len(f), b, x) => x \notin v[b].claims,
           \A b \in Agent : HeadOpen(f, Len(f), b) => v[b].head = NoHead
    PROVE  foldPresence(v, f) = foldPresence(Nobody, f)
<1> DEFINE n == Len(f)
<1>1. n \in Nat /\ n \in 0 .. n /\ DOMAIN f = 1 .. n /\ \A k \in 1 .. n : f[k] \in Envelope
  OBVIOUS
<1>2. PICK g : Chain(g, v, f, n) /\ foldPresence(v, f) = g[n]
  BY <1>1, FoldIsChain
<1>3. PICK h : Chain(h, Nobody, f, n) /\ foldPresence(Nobody, f) = h[n]
  BY <1>1, FoldIsChain
<1>4. \A b \in Agent : \A x \in Glob : ClaimsOpen(f, n, b, x) => x \notin v[b].claims
  OBVIOUS
<1>5. \A b \in Agent : HeadOpen(f, n, b) => v[b].head = NoHead
  OBVIOUS
<1> HIDE DEF n
<1>6. Settled(g, h, f, n) /\ Keeps(g, v, f, n) /\ Keeps(h, Nobody, f, n)
  BY <1>1, <1>2, <1>3, ChainKeeps, ChainsSettle, NobodyType
<1>7. g[n] \in View /\ h[n] \in View
  BY <1>6 DEF Keeps
<1>8. \A b \in Agent : Nobody[b].claims = {} /\ Nobody[b].head = NoHead
  BY DEF Nobody, Unseen
<1>9. ASSUME NEW b \in Agent, NEW x \in Glob
      PROVE  x \in g[n][b].claims <=> x \in h[n][b].claims
  <2>1. CASE ~ ClaimsOpen(f, n, b, x)
    BY <1>6, <2>1 DEF Settled
  <2>2. CASE ClaimsOpen(f, n, b, x)
    BY <1>4, <1>6, <1>8, <2>2 DEF Keeps
  <2> QED  BY <2>1, <2>2
<1>10. ASSUME NEW b \in Agent
       PROVE  g[n][b].head = h[n][b].head
  <2>1. CASE ~ HeadOpen(f, n, b)
    BY <1>6, <2>1 DEF Settled
  <2>2. CASE HeadOpen(f, n, b)
    BY <1>5, <1>6, <1>8, <2>2 DEF Keeps
  <2> QED  BY <2>1, <2>2
<1>11. g[n] = h[n]
  BY <1>7, <1>9, <1>10, ViewsEqual
<1> QED  BY <1>2, <1>3, <1>11

\* f is the thread from just after m up to n.
Slice(f, e, m, n) ==
    /\ f \in Seq(Envelope) /\ Len(f) = n - m
    /\ \A j \in 1 .. (n - m) : f[j] = e[m + j]

LEMMA SubSeqIsSlice ==
    ASSUME NEW e \in Seq(Envelope), NEW m \in 0 .. Len(e), NEW n \in m .. Len(e)
    PROVE  Slice(SubSeq(e, m + 1, n), e, m, n)
<1>1. SubSeq(e, m + 1, n) \in Seq(Envelope)
  OBVIOUS
<1>2. Len(SubSeq(e, m + 1, n)) = n - m
  OBVIOUS
<1>3. ASSUME NEW j \in 1 .. (n - m)
      PROVE  SubSeq(e, m + 1, n)[j] = e[m + j]
  OBVIOUS
<1> QED  BY <1>1, <1>2, <1>3 DEF Slice

\* The fold of the first m envelopes, continued to n.
LEMMA FoldContinues ==
    ASSUME NEW e \in Seq(Envelope), NEW m \in 0 .. Len(e), NEW n \in m .. Len(e),
           NEW f, Slice(f, e, m, n)
    PROVE  foldPresence(Heard(e, m), f) = Heard(e, n)
<1>1. PICK h : /\ Chain(h, Nobody, e, Len(e))
               /\ \A k \in 0 .. Len(e) : Heard(e, k) = h[k]
  BY HeardIsChain
<1>2. PICK d \in Nat : d = n - m /\ m + d = n /\ m + d <= Len(e)
  OBVIOUS
<1>3. PICK g : g = [j \in 0 .. d |-> h[m + j]]
  OBVIOUS
<1>4. PICK v : v = Heard(e, m) /\ v = h[m]
  BY <1>1
<1>5. Chain(g, v, f, d)
  <2>1. g[0] = v
    BY <1>2, <1>3, <1>4
  <2>2. ASSUME NEW j \in 1 .. d
        PROVE  g[j] = Apply(g[j - 1], f[j])
    <3>1. f[j] = e[m + j]
      BY <1>2 DEF Slice
    <3>2. m + j \in 1 .. Len(e) /\ (m + j) - 1 = m + (j - 1) /\ j - 1 \in 0 .. d /\ j \in 0 .. d
      BY <1>2
    <3>3. h[m + j] = Apply(h[(m + j) - 1], e[m + j])
      BY <1>1, <3>2 DEF Chain
    <3> QED  BY <1>3, <3>1, <3>2, <3>3
  <2> QED  BY <2>1, <2>2 DEF Chain
<1>6. DOMAIN f = 1 .. d
  BY <1>2 DEF Slice
<1>7. PICK k : Chain(k, v, f, d) /\ foldPresence(v, f) = k[d]
  BY <1>6, FoldIsChain
<1>8. k[d] = g[d]
  <2>1. \A j \in 0 .. d : k[j] = g[j]
    BY <1>5, <1>7, ChainsAgree
  <2> QED  BY <2>1
<1> QED  BY <1>1, <1>2, <1>3, <1>4, <1>7, <1>8

\* A claim shown after a fold was shown before it or made in between.
LEMMA FoldClaims ==
    ASSUME NEW v \in View, NEW f \in Seq(Envelope), NEW S \in [Agent -> SUBSET Glob],
           \A b \in Agent : v[b].claims \subseteq S[b],
           \A i \in 1 .. Len(f) : f[i].kind = "claim" => f[i].globs \subseteq S[f[i].from],
           NEW b \in Agent
    PROVE  foldPresence(v, f)[b].claims \subseteq S[b]
<1> DEFINE n == Len(f)
<1>1. n \in Nat /\ DOMAIN f = 1 .. n /\ \A k \in 1 .. n : f[k] \in Envelope
  OBVIOUS
<1>2. PICK h : Chain(h, v, f, n) /\ foldPresence(v, f) = h[n]
  BY <1>1, FoldIsChain
<1>3. PICK T \in SUBSET Nat : T = {k \in Nat : k <= n => h[k][b].claims \subseteq S[b]}
  OBVIOUS
<1>4. \A k \in 0 .. n : h[k] \in View
  BY <1>1, <1>2, ChainKeeps DEF Keeps
<1>5. \A k \in 1 .. n : f[k].kind = "claim" => f[k].globs \subseteq S[f[k].from]
  OBVIOUS
<1> HIDE DEF n
<1>6. 0 \in T
  <2>1. h[0][b].claims = v[b].claims
    BY <1>2 DEF Chain
  <2> QED  BY <1>3, <2>1
<1>7. ASSUME NEW k \in T
      PROVE  k + 1 \in T
  <2>1. CASE k + 1 <= n
    <3>1. k \in Nat /\ k \in 0 .. n /\ k + 1 \in 0 .. n /\ k + 1 \in 1 .. n
      BY <1>1, <1>3, <2>1
    <3>2. h[k][b].claims \subseteq S[b]
      BY <1>3, <3>1
    <3>3. Moves(h[k], h[k + 1], f[k + 1]) /\ h[k + 1] \in View
      BY <1>1, <1>2, <1>4, <2>1, <3>1, ChainStep
    <3>4. f[k + 1].kind = "claim" => f[k + 1].globs \subseteq S[f[k + 1].from]
      BY <1>5, <3>1
    <3>5. ASSUME NEW x \in Glob, x \in h[k + 1][b].claims
          PROVE  x \in S[b]
      BY <3>2, <3>3, <3>4, <3>5 DEF Moves, ClaimsSaid
    <3>6. h[k + 1][b].claims \subseteq Glob
      BY <3>3 DEF View, Member
    <3> QED  BY <1>3, <3>1, <3>5, <3>6
  <2>2. CASE ~ (k + 1 <= n)
    BY <1>1, <1>3, <2>2
  <2> QED  BY <2>1, <2>2
<1>8. T = Nat
  BY <1>6, <1>7, Induction
<1>9. h[n][b].claims \subseteq S[b]
  BY <1>1, <1>3, <1>8
<1> QED  BY <1>2, <1>9

----------------------------------------------------------------------------
\* The inductive invariant.

\* The number of a new commit is the size of a finite set.
Countable == IsFiniteSet(made) /\ IsFiniteSet(origin[Main])

\* Every claim on the thread, and every claim a shell shows, is one its agent made.
ClaimsOK ==
    \A i \in 1 .. Len(thread) :
        thread[i].kind = "claim" => thread[i].globs \subseteq claimed[thread[i].from]
ShowsClaimed == \A a, b \in Agent : presence[a][b].claims \subseteq claimed[b]

\* In order or not, a shell shows only what the rows it was handed speak of.  That is
\* why a replay of those rows from the start settles everything it shows.
SaidOf(v, b, top) ==
    /\ \A x \in Glob : ClaimsOpen(thread, top, b, x) => x \notin v[b].claims
    /\ HeadOpen(thread, top, b) => v[b].head = NoHead
ShownWasSaid == \A a, b \in Agent : SaidOf(presence[a], b, seen[a].top)

\* While all came in order, the cursor of a run is where the fold is, or at the start.
InOrder(s, top) ==
    /\ s.cursor # 0 \/ s.at \in {"replayed", "live"} => s.cursor = top
    /\ s.at = "asking" => top <= s.place
StreamOK ==
    \A a \in Agent :
        /\ stream[a].cursor <= seen[a].top
        /\ stream[a].at \in {"asking", "live"} => stream[a].cursor <= stream[a].place
        /\ \A f \in late[a] : f.from <= seen[a].top /\ f.from <= f.place
        /\ seen[a].whole => InOrder(stream[a], seen[a].top)

ThreadOK == PresenceIsTheThread /\ ClaimsOK /\ ShowsClaimed /\ ShownWasSaid /\ StreamOK

\* What a pass took up: claims its agent made, entries those claims match, and no
\* directory that holds a file the repository has.
New(e) == e \in Dir => Holds[e] \cap Base = {}
PassOK ==
    \A s \in Slot :
        /\ pass[s].mine \subseteq claimed[SlotOwner[s]]
        /\ \A e \in pass[s].dirty \cup pass[s].paths : New(e)
        /\ \A e \in pass[s].paths : \E g \in claimed[SlotOwner[s]] : e \in Matches[g]

ThreadTypes ==
    /\ thread \in Seq(Envelope)
    /\ stream \in [Agent -> Stream] /\ late \in [Agent -> SUBSET Fetching]
    /\ breaks \in 0 .. MaxBreaks
    /\ presence \in [Agent -> View]
    /\ seen \in [Agent -> [top : 0 .. Len(thread), whole : BOOLEAN]]
Repos == [Agent -> [{Main, Own} -> SUBSET Commit]]
Remotes == [{Main} \cup Agent -> SUBSET Commit]
GitTypes ==
    /\ local \in Repos /\ head \in [Agent -> {Main, Own}]
    /\ origin \in Remotes /\ tracked \in [Agent -> Remotes]
    /\ dirty \in [Agent -> SUBSET Path] /\ busy \subseteq Agent
    /\ pass \in [Slot -> Pass]
    /\ made \subseteq Commit /\ \A c \in made : c.by \in Agent
    /\ Countable
ClaimTypes == claimed \in [Agent -> SUBSET Glob]

IInv == ThreadTypes /\ GitTypes /\ ClaimTypes /\ ThreadOK /\ PassOK /\ OnlyClaimedRides

LEMMA InvImplies == IInv => TypeOK /\ PresenceIsTheThread /\ OnlyClaimedRides
BY DEF IInv, ThreadOK, ThreadTypes, GitTypes, ClaimTypes, TypeOK, View, Repos, Remotes

LEMMA Constants ==
    /\ SlotOwner \in [Slot -> Agent] /\ Modes \in [Slot -> SUBSET Mode]
    /\ Main \notin Agent /\ Main # Own
    /\ Holds \in [Dir -> SUBSET Path] /\ Matches \in [Glob -> SUBSET Entry]
    /\ Base \subseteq Path /\ Path \cap Dir = {} /\ Restless \subseteq Agent /\ Human \subseteq Agent
    /\ MaxBreaks \in Nat
BY WorkspaceAssumption, WorkspaceBranches DEF Main, Own, Team, Mode

LEMMA NoPassType ==
    /\ NoPass \in Pass /\ NoPass.mine = {} /\ NoPass.paths = {} /\ NoPass.dirty = {}
    /\ NoPass.made = {} /\ NoPass.branch = Main /\ NoPass.at = "idle"
BY DEF NoPass, Pass, Step, Mode, Main

LEMMA NobodyShows ==
    \A b \in Agent : Nobody[b].claims = {} /\ Nobody[b].head = NoHead
BY DEF Nobody, Unseen

LEMMA HeardNone ==
    ASSUME NEW e \in Seq(Envelope)
    PROVE  Heard(e, 0) = Nobody
<1>1. 0 \in 0 .. Len(e)
  OBVIOUS
<1>2. PICK h : Chain(h, Nobody, e, Len(e)) /\ Heard(e, 0) = h[0]
  BY <1>1, HeardIsChain
<1> QED  BY <1>2 DEF Chain

LEMMA InitIInv == Init => IInv
<1> SUFFICES ASSUME Init PROVE IInv
  OBVIOUS
<1>1. thread \in Seq(Envelope) /\ Len(thread) = 0
  BY DEF Init
<1>2. ThreadTypes
  <2>1. presence \in [Agent -> View]
    BY NobodyType DEF Init, Nobody
  <2>2. /\ stream \in [Agent -> Stream] /\ late \in [Agent -> SUBSET Fetching]
        /\ breaks \in 0 .. MaxBreaks
        /\ seen \in [Agent -> [top : 0 .. Len(thread), whole : BOOLEAN]]
    BY <1>1, Constants DEF Init, Stream
  <2> QED  BY <1>1, <2>1, <2>2 DEF ThreadTypes
<1>3. GitTypes /\ ClaimTypes
  <2>1. /\ local \in Repos /\ head \in [Agent -> {Main, Own}]
        /\ origin \in Remotes /\ tracked \in [Agent -> Remotes]
        /\ dirty \in [Agent -> SUBSET Path] /\ busy \subseteq Agent
        /\ made = {} /\ claimed \in [Agent -> SUBSET Glob]
    BY DEF Init, Repos, Remotes
  <2>2. pass \in [Slot -> Pass]
    BY NoPassType DEF Init
  <2>3. Countable
    BY FS_EmptySet DEF Init, Countable
  <2> QED  BY <2>1, <2>2, <2>3 DEF GitTypes, ClaimTypes
<1>4. ThreadOK
  <2>1. \A a \in Agent : presence[a] = Nobody /\ seen[a].top = 0
    BY DEF Init, Nobody
  <2>2. PresenceIsTheThread
    BY <1>1, <2>1, HeardNone DEF PresenceIsTheThread, Heard
  <2>3. ClaimsOK
    BY <1>1 DEF ClaimsOK
  <2>4. ShowsClaimed /\ ShownWasSaid
    BY <2>1, NobodyShows DEF ShowsClaimed, ShownWasSaid, SaidOf
  <2>5. StreamOK
    BY DEF Init, StreamOK, InOrder
  <2> QED  BY <2>2, <2>3, <2>4, <2>5 DEF ThreadOK
<1>5. PassOK
  BY NoPassType DEF Init, PassOK
<1>6. OnlyClaimedRides
  BY DEF Init, OnlyClaimedRides
<1> QED  BY <1>2, <1>3, <1>4, <1>5, <1>6 DEF IInv

----------------------------------------------------------------------------
\* What a step leaves alone.

LEMMA ThreadQuiet ==
    ASSUME IInv, UNCHANGED <<threadVars, claimed>>
    PROVE  ThreadOK'
BY DEF IInv, ThreadOK, threadVars, streamVars, PresenceIsTheThread, ClaimsOK, ShowsClaimed,
       ShownWasSaid, SaidOf, ClaimsOpen, HeadOpen, StreamOK

LEMMA PassQuiet ==
    ASSUME IInv, UNCHANGED <<pass, claimed>>
    PROVE  PassOK'
BY DEF IInv, PassOK

LEMMA MadeQuiet ==
    ASSUME IInv, UNCHANGED <<made, claimed>>
    PROVE  OnlyClaimedRides'
BY DEF IInv, OnlyClaimedRides

LEMMA TypesQuiet ==
    ASSUME IInv
    PROVE  /\ UNCHANGED threadVars => ThreadTypes'
           /\ UNCHANGED gitVars => GitTypes'
           /\ UNCHANGED claimed => ClaimTypes'
BY DEF IInv, ThreadTypes, GitTypes, ClaimTypes, threadVars, streamVars, gitVars, repoVars,
       Stream, Fetching, Countable

----------------------------------------------------------------------------
\* The thread.

LEMMA SendKeeps ==
    ASSUME IInv, NEW e \in Envelope, Send(e),
           ClaimTypes', \A b \in Agent : claimed[b] \subseteq claimed'[b],
           e.kind = "claim" => e.globs \subseteq claimed'[e.from]
    PROVE  ThreadTypes' /\ ThreadOK'
<1>1. /\ thread' = Append(thread, e) /\ thread \in Seq(Envelope)
      /\ UNCHANGED <<stream, late, breaks, presence, seen>>
  BY DEF Send, streamVars, IInv, ThreadTypes
<1>2. /\ thread' \in Seq(Envelope) /\ Len(thread) \in Nat /\ Len(thread') = Len(thread) + 1
      /\ thread'[Len(thread) + 1] = e
      /\ \A i \in 1 .. Len(thread) : thread'[i] = thread[i]
  BY <1>1
<1>3. 0 .. Len(thread) \subseteq 0 .. Len(thread')
  BY <1>2
<1>4. ThreadTypes'
  <2>1. Stream \subseteq Stream' /\ Fetching \subseteq Fetching'
    BY <1>3 DEF Stream, Fetching
  <2>2. stream' \in [Agent -> Stream'] /\ late' \in [Agent -> SUBSET Fetching']
    BY <1>1, <2>1 DEF IInv, ThreadTypes
  <2>3. seen' \in [Agent -> [top : 0 .. Len(thread'), whole : BOOLEAN]]
    <3>1. [top : 0 .. Len(thread), whole : BOOLEAN] \subseteq [top : 0 .. Len(thread'), whole : BOOLEAN]
      BY <1>3
    <3> QED  BY <1>1, <3>1 DEF IInv, ThreadTypes
  <2> QED  BY <1>1, <1>2, <2>2, <2>3 DEF IInv, ThreadTypes
<1>5. \A a \in Agent : seen[a].top \in 0 .. Len(thread) /\ seen'[a] = seen[a] /\ presence'[a] = presence[a]
  BY <1>1 DEF IInv, ThreadTypes
<1>6. PresenceIsTheThread'
  <2>1. \A a \in Agent : Heard(thread', seen[a].top) = Heard(thread, seen[a].top)
    BY <1>1, <1>5, HeardOfMore
  <2>2. \A a \in Agent : seen[a].whole => presence[a] = Heard(thread, seen[a].top)
    BY DEF IInv, ThreadOK, PresenceIsTheThread, Heard
  <2>3. \A a \in Agent : seen'[a].whole => presence'[a] = Heard(thread', seen'[a].top)
    BY <1>5, <2>1, <2>2
  <2> QED  BY <2>3 DEF PresenceIsTheThread, Heard
<1>7. ClaimsOK'
  <2> SUFFICES ASSUME NEW i \in 1 .. Len(thread'), thread'[i].kind = "claim"
               PROVE  thread'[i].globs \subseteq claimed'[thread'[i].from]
    BY DEF ClaimsOK
  <2>1. CASE i \in 1 .. Len(thread)
    <3>1. thread[i] \in Envelope /\ thread'[i] = thread[i]
      BY <1>1, <1>2, <2>1
    <3>2. thread[i].globs \subseteq claimed[thread[i].from] /\ thread[i].from \in Agent
      BY <2>1, <3>1 DEF IInv, ThreadOK, ClaimsOK, Envelope
    <3> QED  BY <3>1, <3>2
  <2>2. CASE i = Len(thread) + 1
    BY <1>2, <2>2
  <2> QED  BY <1>2, <2>1, <2>2
<1>8. ShowsClaimed'
  BY <1>1 DEF IInv, ThreadOK, ShowsClaimed
<1>9. ShownWasSaid'
  <2> SUFFICES ASSUME NEW a \in Agent, NEW b \in Agent
               PROVE  SaidOf(presence[a], b, seen[a].top)'
    BY DEF ShownWasSaid
  <2>1. SaidOf(presence[a], b, seen[a].top)
    BY DEF IInv, ThreadOK, ShownWasSaid
  <2>2. \A j \in 1 .. seen[a].top : thread'[j] = thread[j]
    BY <1>2, <1>5
  <2>3. \A x \in Glob : ClaimsOpen(thread', seen[a].top, b, x) => ClaimsOpen(thread, seen[a].top, b, x)
    BY <2>2 DEF ClaimsOpen
  <2>4. HeadOpen(thread', seen[a].top, b) => HeadOpen(thread, seen[a].top, b)
    BY <2>2 DEF HeadOpen
  <2> QED  BY <1>5, <2>1, <2>3, <2>4 DEF SaidOf
<1>10. StreamOK'
  BY <1>1 DEF IInv, ThreadOK, StreamOK, InOrder
<1> QED  BY <1>4, <1>6, <1>7, <1>8, <1>9, <1>10 DEF ThreadOK

LEMMA NoticeType ==
    ASSUME NEW kind \in {"claim", "release"}, NEW a \in Agent, NEW globs \in SUBSET Glob
    PROVE  /\ Notice(kind, a, globs) \in Envelope
           /\ Notice(kind, a, globs).kind = kind /\ Notice(kind, a, globs).from = a
           /\ Notice(kind, a, globs).globs = globs
BY DEF Notice, Envelope

LEMMA ClaimKeeps ==
    ASSUME IInv, NEW a \in Agent, NEW globs \in SUBSET Glob, Claim(a, globs)
    PROVE  IInv'
<1>1. PICK e \in Envelope : e = Notice("claim", a, globs) /\ e.from = a /\ e.globs = globs
  BY NoticeType
<1>2. Send(e) /\ claimed' = [claimed EXCEPT ![a] = @ \cup globs] /\ UNCHANGED gitVars
  BY <1>1 DEF Claim
<1>3. /\ ClaimTypes' /\ \A b \in Agent : claimed[b] \subseteq claimed'[b]
      /\ globs \subseteq claimed'[a]
  BY <1>2 DEF IInv, ClaimTypes
<1>4. ThreadTypes' /\ ThreadOK'
  BY <1>1, <1>2, <1>3, SendKeeps
<1>5. PassOK'
  <2>1. \A s \in Slot : SlotOwner[s] \in Agent
    BY Constants
  <2> QED  BY <1>2, <1>3, <2>1 DEF IInv, PassOK, gitVars
<1>6. OnlyClaimedRides'
  <2>1. made' = made /\ \A c \in made : c.by \in Agent
    BY <1>2 DEF gitVars, IInv, GitTypes
  <2> QED  BY <1>3, <2>1 DEF IInv, OnlyClaimedRides
<1> QED  BY <1>2, <1>3, <1>4, <1>5, <1>6, TypesQuiet DEF IInv

LEMMA ReleaseKeeps ==
    ASSUME IInv, NEW a \in Agent, NEW globs \in SUBSET Glob, Release(a, globs)
    PROVE  IInv'
<1>1. PICK e \in Envelope : e = Notice("release", a, globs) /\ e.kind # "claim"
  BY NoticeType
<1>2. Send(e) /\ UNCHANGED <<gitVars, claimed>>
  BY <1>1 DEF Release
<1>3. UNCHANGED <<pass, claimed>> /\ UNCHANGED <<made, claimed>> /\ UNCHANGED gitVars
  BY <1>2 DEF gitVars
<1>4. ClaimTypes' /\ \A b \in Agent : claimed[b] \subseteq claimed'[b]
  BY <1>3, TypesQuiet
<1>5. ThreadTypes' /\ ThreadOK'
  BY <1>1, <1>2, <1>4, SendKeeps
<1> QED  BY <1>3, <1>4, <1>5, TypesQuiet, PassQuiet, MadeQuiet DEF IInv

----------------------------------------------------------------------------
\* The stream of a shell.

\* What a shell is handed: a slice of the thread.  All is in order after it if it was
\* before and the slice continues it, begins at the start or is empty, or if the
\* slice begins at the start and reaches as far as any row before.
InOrderAfter(a, from, upto) ==
    \/ seen[a].whole /\ from = seen[a].top
    \/ seen[a].whole /\ from = upto /\ from <= seen[a].top
    \/ from = 0 /\ seen[a].top <= upto

LEMMA ShowKeeps ==
    ASSUME IInv, NEW a \in Agent, NEW from \in 0 .. Len(thread), NEW upto \in from .. Len(thread),
           NEW rows, Slice(rows, thread, from, upto), NEW whole \in BOOLEAN,
           whole => InOrderAfter(a, from, upto),
           Show(a, rows, upto, whole), UNCHANGED <<thread, claimed>>
    PROVE  /\ presence' \in [Agent -> View]
           /\ seen' \in [Agent -> [top : 0 .. Len(thread), whole : BOOLEAN]]
           /\ \A b \in Agent \ {a} : seen'[b] = seen[b]
           /\ seen'[a].whole = whole
           /\ seen'[a].top = IF upto > seen[a].top THEN upto ELSE seen[a].top
           /\ PresenceIsTheThread' /\ ClaimsOK' /\ ShowsClaimed' /\ ShownWasSaid'
<1> DEFINE v == presence[a]
           w == foldPresence(v, rows)
           top == IF upto > seen[a].top THEN upto ELSE seen[a].top
<1>1. /\ thread \in Seq(Envelope) /\ Len(thread) \in Nat /\ presence \in [Agent -> View]
      /\ seen \in [Agent -> [top : 0 .. Len(thread), whole : BOOLEAN]]
      /\ v \in View /\ seen[a].top \in 0 .. Len(thread) /\ seen[a].whole \in BOOLEAN
  BY DEF IInv, ThreadTypes
<1>2. /\ rows \in Seq(Envelope) /\ Len(rows) = upto - from
      /\ \A j \in 1 .. (upto - from) : rows[j] = thread[from + j]
  BY DEF Slice
<1>3. w \in View
  BY <1>1, <1>2, FoldKeeps
<1>4. presence' \in [Agent -> View] /\ presence'[a] = w
      /\ \A b \in Agent \ {a} : presence'[b] = presence[b]
  BY <1>1, <1>3 DEF Show
<1>5. PICK r \in [top : 0 .. Len(thread), whole : BOOLEAN] :
         /\ r = [top |-> top, whole |-> whole] /\ r.top = top /\ r.whole = whole
  <2>1. top \in 0 .. Len(thread)
    BY <1>1
  <2>2. /\ [top |-> top, whole |-> whole] \in [top : 0 .. Len(thread), whole : BOOLEAN]
        /\ [top |-> top, whole |-> whole].top = top /\ [top |-> top, whole |-> whole].whole = whole
    BY <2>1
  <2> QED  BY <2>2, Zenon
<1>6. seen' \in [Agent -> [top : 0 .. Len(thread), whole : BOOLEAN]] /\ seen'[a] = r
      /\ \A b \in Agent \ {a} : seen'[b] = seen[b]
  <2>1. seen' = [seen EXCEPT ![a] = r]
    BY <1>1, <1>5 DEF Show
  <2> QED  BY <1>1, <2>1
<1>7. top \in Nat /\ seen[a].top \in Nat /\ upto <= top /\ seen[a].top <= top
  BY <1>1
<1>8. seen[a].whole => v = Heard(thread, seen[a].top)
  BY DEF IInv, ThreadOK, PresenceIsTheThread, Heard
<1>9. \A b \in Agent : SaidOf(v, b, seen[a].top)
  BY DEF IInv, ThreadOK, ShownWasSaid
<1> HIDE DEF w, top
<1>10. whole => w = Heard(thread, top)
  <2>1. CASE seen[a].whole /\ from = seen[a].top
    <3>1. top = upto
      BY <1>1, <2>1 DEF top
    <3>2. foldPresence(Heard(thread, from), rows) = Heard(thread, upto)
      BY <1>1, FoldContinues
    <3> QED  BY <1>8, <2>1, <3>1, <3>2 DEF w
  <2>2. CASE seen[a].whole /\ from = upto /\ from <= seen[a].top
    <3>1. Len(rows) = 0
      BY <1>1, <1>2, <2>2
    <3>2. w = v
      BY <1>2, <3>1, FoldOfNone DEF w
    <3>3. top = seen[a].top
      BY <1>1, <2>2 DEF top
    <3> QED  BY <1>8, <2>2, <3>2, <3>3
  <2>3. CASE from = 0 /\ seen[a].top <= upto
    <3>1. top = upto
      BY <1>1, <2>3 DEF top
    <3>2. rows = SubSeq(thread, 1, upto)
      <4>1. SubSeq(thread, 1, upto) \in Seq(Envelope) /\ Len(SubSeq(thread, 1, upto)) = upto
            /\ \A j \in 1 .. upto : SubSeq(thread, 1, upto)[j] = thread[j]
        BY <1>1, <2>3
      <4>2. Len(rows) = upto /\ \A j \in 1 .. upto : rows[j] = thread[j]
        BY <1>1, <1>2, <2>3
      <4> QED  BY <1>2, <4>1, <4>2
    <3>3. \A j \in 1 .. seen[a].top : j \in 1 .. Len(rows) /\ rows[j] = thread[j]
      BY <1>1, <1>2, <2>3
    <3>4. ASSUME NEW b \in Agent, NEW x \in Glob, ClaimsOpen(rows, Len(rows), b, x)
          PROVE  x \notin v[b].claims
      <4>1. ClaimsOpen(thread, seen[a].top, b, x)
        BY <3>3, <3>4 DEF ClaimsOpen
      <4> QED  BY <1>9, <4>1 DEF SaidOf
    <3>5. ASSUME NEW b \in Agent, HeadOpen(rows, Len(rows), b)
          PROVE  v[b].head = NoHead
      <4>1. HeadOpen(thread, seen[a].top, b)
        BY <3>3, <3>5 DEF HeadOpen
      <4> QED  BY <1>9, <4>1 DEF SaidOf
    <3>6. foldPresence(v, rows) = foldPresence(Nobody, rows)
      BY <1>1, <1>2, <3>4, <3>5, FoldIsFresh
    <3> QED  BY <3>1, <3>2, <3>6 DEF w, Heard
  <2> QED  BY <2>1, <2>2, <2>3 DEF InOrderAfter
<1>11. PresenceIsTheThread'
  <2> SUFFICES ASSUME NEW b \in Agent, seen'[b].whole
               PROVE  presence'[b] = foldPresence(Nobody, SubSeq(thread', 1, seen'[b].top))
    BY DEF PresenceIsTheThread
  <2>1. CASE b = a
    BY <1>4, <1>5, <1>6, <1>10, <2>1 DEF Heard
  <2>2. CASE b # a
    <3>1. presence'[b] = presence[b] /\ seen'[b] = seen[b]
      BY <1>4, <1>6, <2>2
    <3> QED  BY <3>1 DEF IInv, ThreadOK, PresenceIsTheThread
  <2> QED  BY <2>1, <2>2
<1>12. ClaimsOK'
  BY DEF IInv, ThreadOK, ClaimsOK
<1>13. ShowsClaimed'
  <2>1. claimed \in [Agent -> SUBSET Glob] /\ \A b \in Agent : v[b].claims \subseteq claimed[b]
    BY DEF IInv, ClaimTypes, ThreadOK, ShowsClaimed
  <2>2. ASSUME NEW i \in 1 .. Len(rows), rows[i].kind = "claim"
        PROVE  rows[i].globs \subseteq claimed[rows[i].from]
    <3>1. rows[i] = thread[from + i] /\ from + i \in 1 .. Len(thread)
      BY <1>1, <1>2
    <3> QED  BY <2>2, <3>1 DEF IInv, ThreadOK, ClaimsOK
  <2>3. \A b \in Agent : w[b].claims \subseteq claimed[b]
    BY <1>1, <1>2, <2>1, <2>2, FoldClaims DEF w
  <2> QED  BY <1>4, <2>3 DEF IInv, ThreadOK, ShowsClaimed
<1>14. ShownWasSaid'
  <2> SUFFICES ASSUME NEW c \in Agent, NEW b \in Agent
               PROVE  SaidOf(presence[c], b, seen[c].top)'
    BY DEF ShownWasSaid
  <2>1. CASE c = a
    <3>1. \A j \in 1 .. Len(rows) : rows[j] = thread[from + j] /\ from + j \in 1 .. top
      BY <1>1, <1>2, <1>7
    <3>2. \A j \in 1 .. seen[a].top : j \in 1 .. top
      BY <1>7
    <3>3. ASSUME NEW x \in Glob, ClaimsOpen(thread, top, b, x)
          PROVE  x \notin w[b].claims
      <4>1. ClaimsOpen(rows, Len(rows), b, x) /\ ClaimsOpen(thread, seen[a].top, b, x)
        BY <3>1, <3>2, <3>3 DEF ClaimsOpen
      <4>2. x \notin v[b].claims
        BY <1>9, <4>1 DEF SaidOf
      <4> QED  BY <1>1, <1>2, <4>1, <4>2, FoldKeeps DEF w
    <3>4. ASSUME HeadOpen(thread, top, b)
          PROVE  w[b].head = NoHead
      <4>1. HeadOpen(rows, Len(rows), b) /\ HeadOpen(thread, seen[a].top, b)
        BY <3>1, <3>2, <3>4 DEF HeadOpen
      <4>2. v[b].head = NoHead
        BY <1>9, <4>1 DEF SaidOf
      <4> QED  BY <1>1, <1>2, <4>1, <4>2, FoldKeeps DEF w
    <3> QED  BY <1>4, <1>5, <1>6, <2>1, <3>3, <3>4 DEF SaidOf, ClaimsOpen, HeadOpen
  <2>2. CASE c # a
    <3>1. presence'[c] = presence[c] /\ seen'[c] = seen[c]
      BY <1>4, <1>6, <2>2
    <3>2. SaidOf(presence[c], b, seen[c].top)
      BY DEF IInv, ThreadOK, ShownWasSaid
    <3> QED  BY <3>1, <3>2 DEF SaidOf, ClaimsOpen, HeadOpen
  <2> QED  BY <2>1, <2>2
<1> QED  BY <1>4, <1>5, <1>6, <1>11, <1>12, <1>13, <1>14 DEF top

\* A step of a stream, together with what it shows.
LEMMA StreamStep ==
    ASSUME IInv, NEW a \in Agent, NEW s \in Stream, stream' = [stream EXCEPT ![a] = s],
           UNCHANGED thread, late' \in [Agent -> SUBSET Fetching], breaks' \in 0 .. MaxBreaks,
           presence' \in [Agent -> View],
           seen' \in [Agent -> [top : 0 .. Len(thread), whole : BOOLEAN]],
           \A b \in Agent \ {a} : seen'[b] = seen[b] /\ late'[b] = late[b],
           seen'[a].top >= seen[a].top,
           \A f \in late'[a] \ late[a] : f.from <= seen[a].top /\ f.from <= f.place,
           s.cursor <= seen'[a].top,
           s.at \in {"asking", "live"} => s.cursor <= s.place,
           seen'[a].whole => InOrder(s, seen'[a].top)
    PROVE  ThreadTypes' /\ StreamOK'
<1>1. stream \in [Agent -> Stream]
  BY DEF IInv, ThreadTypes
<1>2. stream' \in [Agent -> Stream] /\ stream'[a] = s /\ \A b \in Agent \ {a} : stream'[b] = stream[b]
  BY <1>1
<1>3. ThreadTypes'
  <2>1. Stream' = Stream /\ Fetching' = Fetching
    BY DEF Stream, Fetching
  <2> QED  BY <1>2, <2>1 DEF IInv, ThreadTypes
<1>4. ASSUME NEW b \in Agent
      PROVE  /\ stream'[b].cursor <= seen'[b].top
             /\ stream'[b].at \in {"asking", "live"} => stream'[b].cursor <= stream'[b].place
             /\ \A f \in late'[b] : f.from <= seen'[b].top /\ f.from <= f.place
             /\ seen'[b].whole => InOrder(stream'[b], seen'[b].top)
  <2>1. CASE b = a
    <3>1. ASSUME NEW f \in late'[a]
          PROVE  f.from <= seen'[a].top /\ f.from <= f.place
      <4>1. f.from <= seen[a].top /\ f.from <= f.place
        <5>1. CASE f \in late[a]
          BY <5>1 DEF IInv, ThreadOK, StreamOK
        <5>2. CASE f \in late'[a] \ late[a]
          BY <5>2
        <5> QED  BY <5>1, <5>2
      <4>2. seen[a].top \in Nat
        BY DEF IInv, ThreadTypes
      <4>3. seen'[a].top \in Nat
        OBVIOUS
      <4>4. f \in Fetching
        OBVIOUS
      <4>5. f.from \in Nat
        BY <4>4 DEF Fetching
      <4> QED  BY <4>1, <4>2, <4>3, <4>5
    <3> QED  BY <1>2, <2>1, <3>1
  <2>2. CASE b # a
    BY <1>2, <2>2 DEF IInv, ThreadOK, StreamOK
  <2> QED  BY <2>1, <2>2
<1>5. StreamOK'
  BY <1>4 DEF StreamOK, InOrder
<1> QED  BY <1>3, <1>5

\* A step of a stream that shows nothing.
LEMMA SilentStep ==
    ASSUME IInv, NEW a \in Agent, NEW s \in Stream, stream' = [stream EXCEPT ![a] = s],
           UNCHANGED <<thread, presence, seen, gitVars, claimed>>,
           late' \in [Agent -> SUBSET Fetching], breaks' \in 0 .. MaxBreaks,
           \A b \in Agent \ {a} : late'[b] = late[b],
           \A f \in late'[a] \ late[a] : f.from <= seen[a].top /\ f.from <= f.place,
           s.cursor <= seen[a].top,
           s.at \in {"asking", "live"} => s.cursor <= s.place,
           seen[a].whole => InOrder(s, seen[a].top)
    PROVE  IInv'
<1>1. ThreadTypes' /\ StreamOK'
  <2>1. /\ presence' \in [Agent -> View]
        /\ seen' \in [Agent -> [top : 0 .. Len(thread), whole : BOOLEAN]] /\ seen'[a] = seen[a]
        /\ seen'[a].top >= seen[a].top
    BY DEF IInv, ThreadTypes
  <2> QED  BY <2>1, StreamStep
<1>2. PresenceIsTheThread' /\ ClaimsOK' /\ ShowsClaimed' /\ ShownWasSaid'
  BY DEF IInv, ThreadOK, PresenceIsTheThread, ClaimsOK, ShowsClaimed, ShownWasSaid, SaidOf,
         ClaimsOpen, HeadOpen
<1>3. UNCHANGED <<pass, claimed>> /\ UNCHANGED <<made, claimed>>
  BY DEF gitVars
<1> QED  BY <1>1, <1>2, <1>3, TypesQuiet, PassQuiet, MadeQuiet DEF IInv, ThreadOK

\* A step of a stream that shows a slice of the thread.
Shows(a, s, from, upto, rows, whole) ==
    /\ stream' = [stream EXCEPT ![a] = s]
    /\ UNCHANGED <<thread, breaks, gitVars, claimed>>
    /\ late' \in [Agent -> SUBSET Fetching] /\ \A b \in Agent : late'[b] \subseteq late[b]
    /\ \A b \in Agent \ {a} : late'[b] = late[b]
    /\ Slice(rows, thread, from, upto)
    /\ whole => InOrderAfter(a, from, upto)
    /\ Show(a, rows, upto, whole)
    /\ s.cursor <= upto \/ s.cursor <= seen[a].top
    /\ s.at \in {"asking", "live"} => s.cursor <= s.place
    /\ whole => InOrder(s, IF upto > seen[a].top THEN upto ELSE seen[a].top)

LEMMA ShowStep ==
    ASSUME IInv, NEW a \in Agent, NEW s \in Stream,
           NEW from \in 0 .. Len(thread), NEW upto \in from .. Len(thread),
           NEW rows, NEW whole \in BOOLEAN, Shows(a, s, from, upto, rows, whole)
    PROVE  IInv'
<1> USE DEF Shows
<1>1. /\ presence' \in [Agent -> View]
      /\ seen' \in [Agent -> [top : 0 .. Len(thread), whole : BOOLEAN]]
      /\ \A b \in Agent \ {a} : seen'[b] = seen[b]
      /\ seen'[a].whole = whole
      /\ seen'[a].top = IF upto > seen[a].top THEN upto ELSE seen[a].top
      /\ PresenceIsTheThread' /\ ClaimsOK' /\ ShowsClaimed' /\ ShownWasSaid'
  BY ShowKeeps
<1>2. ThreadTypes' /\ StreamOK'
  <2>1. seen[a].top \in Nat /\ upto \in Nat /\ s.cursor \in Nat /\ breaks \in 0 .. MaxBreaks
    BY DEF IInv, ThreadTypes, Stream
  <2>2. seen'[a].top >= seen[a].top /\ s.cursor <= seen'[a].top
    BY <1>1, <2>1
  <2>3. \A f \in late'[a] \ late[a] : f.from <= seen[a].top /\ f.from <= f.place
    OBVIOUS
  <2>4. seen'[a].whole => InOrder(s, seen'[a].top)
    BY <1>1
  <2> QED  BY <1>1, <2>1, <2>2, <2>3, <2>4, StreamStep
<1>3. UNCHANGED <<pass, claimed>> /\ UNCHANGED <<made, claimed>>
  BY DEF gitVars
<1> QED  BY <1>1, <1>2, <1>3, TypesQuiet, PassQuiet, MadeQuiet DEF IInv, ThreadOK

LEMMA StreamFacts ==
    ASSUME IInv, NEW a \in Agent
    PROVE  /\ thread \in Seq(Envelope) /\ Len(thread) \in Nat /\ breaks \in 0 .. MaxBreaks
           /\ stream[a].cursor \in 0 .. Len(thread) /\ stream[a].place \in 0 .. Len(thread)
           /\ seen[a].top \in 0 .. Len(thread) /\ seen[a].whole \in BOOLEAN
           /\ late \in [Agent -> SUBSET Fetching]
           /\ stream[a].cursor <= seen[a].top
           /\ stream[a].at \in {"asking", "live"} => stream[a].cursor <= stream[a].place
           /\ \A f \in late[a] : /\ f.from \in 0 .. Len(thread) /\ f.place \in 0 .. Len(thread)
                                 /\ f.from <= seen[a].top /\ f.from <= f.place
           /\ seen[a].whole => InOrder(stream[a], seen[a].top)
<1>1. /\ stream[a] \in Stream /\ thread \in Seq(Envelope) /\ breaks \in 0 .. MaxBreaks
      /\ seen[a] \in [top : 0 .. Len(thread), whole : BOOLEAN]
      /\ late \in [Agent -> SUBSET Fetching]
  BY DEF IInv, ThreadTypes
<1>2. \A f \in late[a] : f \in Fetching
  BY <1>1
<1>3. \A f \in late[a] : f.from \in 0 .. Len(thread) /\ f.place \in 0 .. Len(thread)
  BY <1>2 DEF Fetching
<1>4. stream[a].cursor \in 0 .. Len(thread) /\ stream[a].place \in 0 .. Len(thread)
  BY <1>1 DEF Stream
<1> QED  BY <1>1, <1>3, <1>4 DEF IInv, ThreadOK, StreamOK

LEMMA StreamRecord ==
    ASSUME NEW at \in {"waiting", "asking", "replayed", "live"},
           NEW cursor \in 0 .. Len(thread), NEW place \in 0 .. Len(thread)
    PROVE  \E s \in Stream : /\ s = [at |-> at, cursor |-> cursor, place |-> place]
                             /\ s.at = at /\ s.cursor = cursor /\ s.place = place
<1>1. /\ [at |-> at, cursor |-> cursor, place |-> place] \in Stream
      /\ [at |-> at, cursor |-> cursor, place |-> place].at = at
      /\ [at |-> at, cursor |-> cursor, place |-> place].cursor = cursor
      /\ [at |-> at, cursor |-> cursor, place |-> place].place = place
  BY DEF Stream
<1> QED  BY <1>1, Zenon

LEMMA AskKeeps ==
    ASSUME IInv, NEW a \in Agent, Ask(a)
    PROVE  IInv'
<1>1. PICK place \in 0 .. Len(thread), cursor \in 0 .. Len(thread) :
         place = Len(thread) /\ cursor = stream[a].cursor
  BY StreamFacts
<1>2. PICK s \in Stream : /\ s = [at |-> "asking", cursor |-> cursor, place |-> place]
                          /\ s.at = "asking" /\ s.cursor = cursor /\ s.place = place
  BY StreamRecord
<1>3. /\ stream' = [stream EXCEPT ![a] = s] /\ stream[a].at = "waiting"
      /\ UNCHANGED <<thread, late, breaks, presence, seen, gitVars, claimed>>
  BY <1>1, <1>2 DEF Ask, MoveTo
<1>4. s.cursor <= s.place
  BY <1>1, <1>2, StreamFacts
<1>5. seen[a].whole => InOrder(s, seen[a].top)
  BY <1>1, <1>2, <1>3, StreamFacts DEF InOrder
<1>6. s.cursor <= seen[a].top
  BY <1>1, <1>2, StreamFacts
<1> QED  BY <1>2, <1>3, <1>4, <1>5, <1>6, StreamFacts, SilentStep

LEMMA LandKeeps ==
    ASSUME IInv, NEW a \in Agent, Land(a)
    PROVE  IInv'
<1> DEFINE from == stream[a].cursor
           whole(upto) == seen[a].whole \/ (from = 0 /\ seen[a].top <= upto)
<1>1. PICK upto \in stream[a].place .. Len(thread) :
         /\ MoveTo(a, "replayed", upto, stream[a].place)
         /\ Show(a, Rows(from, upto), upto, whole(upto))
  BY DEF Land
<1>2. stream[a].at = "asking" /\ UNCHANGED <<thread, late, breaks, gitVars, claimed>>
  BY DEF Land
<1>3. from \in 0 .. Len(thread) /\ upto \in from .. Len(thread) /\ upto \in 0 .. Len(thread)
  BY <1>1, <1>2, StreamFacts
<1>4. PICK s \in Stream : /\ s = [at |-> "replayed", cursor |-> upto, place |-> stream[a].place]
                          /\ s.at = "replayed" /\ s.cursor = upto /\ s.place = stream[a].place
  BY <1>3, StreamFacts, StreamRecord
<1>5. stream' = [stream EXCEPT ![a] = s]
  BY <1>1, <1>4 DEF MoveTo
<1>6. PICK rows : rows = Rows(from, upto) /\ Slice(rows, thread, from, upto)
  BY <1>3, StreamFacts, SubSeqIsSlice DEF Rows
<1>7. seen[a].whole => seen[a].top <= upto /\ (from = 0 \/ from = seen[a].top)
  BY <1>1, <1>2, StreamFacts DEF InOrder
<1>8. PICK w \in BOOLEAN : w = whole(upto)
  BY StreamFacts
<1>9. w => InOrderAfter(a, from, upto) /\ seen[a].top <= upto
  BY <1>7, <1>8 DEF InOrderAfter
<1>10. w => InOrder(s, IF upto > seen[a].top THEN upto ELSE seen[a].top)
  <2>1. w => (IF upto > seen[a].top THEN upto ELSE seen[a].top) = upto
    BY <1>3, <1>9, StreamFacts
  <2> QED  BY <1>4, <2>1 DEF InOrder
<1>11. Show(a, rows, upto, w) /\ s.cursor <= upto
  BY <1>1, <1>3, <1>4, <1>6, <1>8
<1>12. late' \in [Agent -> SUBSET Fetching] /\ late' = late
  BY <1>2, StreamFacts
<1> HIDE DEF from, whole
<1>13. Shows(a, s, from, upto, rows, w)
  BY <1>2, <1>4, <1>5, <1>6, <1>9, <1>10, <1>11, <1>12 DEF Shows
<1> QED  BY <1>3, <1>13, ShowStep

LEMMA OpenKeeps ==
    ASSUME IInv, NEW a \in Agent, Open(a)
    PROVE  IInv'
<1>1. PICK place \in 0 .. Len(thread), cursor \in 0 .. Len(thread) :
         place = Len(thread) /\ cursor = stream[a].cursor
  BY StreamFacts
<1>2. PICK s \in Stream : /\ s = [at |-> "live", cursor |-> cursor, place |-> place]
                          /\ s.at = "live" /\ s.cursor = cursor /\ s.place = place
  BY StreamRecord
<1>3. /\ stream' = [stream EXCEPT ![a] = s] /\ stream[a].at = "replayed"
      /\ UNCHANGED <<thread, late, breaks, presence, seen, gitVars, claimed>>
  BY <1>1, <1>2 DEF Open, MoveTo
<1>4. s.cursor <= s.place
  BY <1>1, <1>2, StreamFacts
<1>5. seen[a].whole => InOrder(s, seen[a].top)
  BY <1>1, <1>2, <1>3, StreamFacts DEF InOrder
<1>6. s.cursor <= seen[a].top
  BY <1>1, <1>2, StreamFacts
<1> QED  BY <1>2, <1>3, <1>4, <1>5, <1>6, StreamFacts, SilentStep

LEMMA HearKeeps ==
    ASSUME IInv, NEW a \in Agent, Hear(a)
    PROVE  IInv'
<1>1. PICK place \in Nat : place = stream[a].place
  BY StreamFacts
<1>2. PICK next \in Nat : next = place + 1
  BY <1>1
<1>3. PICK w \in BOOLEAN : w = (seen[a].whole /\ stream[a].cursor = place)
  BY StreamFacts
<1>4. /\ stream[a].at = "live" /\ next <= Len(thread)
      /\ MoveTo(a, "live", next, next) /\ Show(a, <<thread[next]>>, next, w)
      /\ UNCHANGED <<thread, late, breaks, gitVars, claimed>>
  BY <1>1, <1>2, <1>3 DEF Hear
<1>5. place \in 0 .. Len(thread) /\ next \in place .. Len(thread) /\ next \in 0 .. Len(thread)
  BY <1>1, <1>2, <1>4, StreamFacts
<1>6. PICK s \in Stream : /\ s = [at |-> "live", cursor |-> next, place |-> next]
                          /\ s.at = "live" /\ s.cursor = next /\ s.place = next
  BY <1>5, StreamRecord
<1>7. stream' = [stream EXCEPT ![a] = s]
  BY <1>4, <1>6 DEF MoveTo
<1>8. PICK rows : rows = <<thread[next]>> /\ Slice(rows, thread, place, next)
  <2>1. thread[next] \in Envelope
    BY <1>2, <1>5, StreamFacts
  <2>2. <<thread[next]>> \in Seq(Envelope) /\ Len(<<thread[next]>>) = 1
    BY <2>1
  <2>3. next - place = 1 /\ \A j \in 1 .. 1 : <<thread[next]>>[j] = thread[place + j]
    BY <1>2
  <2> QED  BY <2>2, <2>3 DEF Slice
<1>9. w => seen[a].whole /\ place = seen[a].top
  BY <1>1, <1>3, <1>4, StreamFacts DEF InOrder
<1>10. w => InOrderAfter(a, place, next)
  BY <1>9 DEF InOrderAfter
<1>11. w => InOrder(s, IF next > seen[a].top THEN next ELSE seen[a].top)
  <2>1. w => (IF next > seen[a].top THEN next ELSE seen[a].top) = next
    BY <1>2, <1>9
  <2> QED  BY <1>6, <2>1 DEF InOrder
<1>12. late' \in [Agent -> SUBSET Fetching] /\ late' = late
  BY <1>4, StreamFacts
<1>13. s.cursor <= next /\ s.cursor <= s.place
  BY <1>6
<1>14. Shows(a, s, place, next, rows, w)
  BY <1>4, <1>6, <1>7, <1>8, <1>10, <1>11, <1>12, <1>13 DEF Shows
<1> QED  BY <1>5, <1>14, ShowStep

LEMMA CountBreakType ==
    ASSUME IInv, CountBreak
    PROVE  breaks' \in 0 .. MaxBreaks
BY Constants DEF CountBreak, IInv, ThreadTypes

LEMMA BreakKeeps ==
    ASSUME IInv, NEW a \in Agent, Break(a)
    PROVE  IInv'
<1>1. 0 \in 0 .. Len(thread)
  BY StreamFacts
<1>2. PICK s \in Stream : /\ s = [at |-> "waiting", cursor |-> stream[a].cursor, place |-> 0]
                          /\ s.at = "waiting" /\ s.cursor = stream[a].cursor /\ s.place = 0
  BY <1>1, StreamFacts, StreamRecord
<1>3. /\ stream' = [stream EXCEPT ![a] = s] /\ CountBreak
      /\ UNCHANGED <<thread, late, presence, seen, gitVars, claimed>>
  BY <1>2 DEF Break, MoveTo
<1>4. seen[a].whole => InOrder(s, seen[a].top)
  BY <1>2, StreamFacts DEF InOrder
<1> QED  BY <1>2, <1>3, <1>4, StreamFacts, CountBreakType, SilentStep

LEMMA RestreamKeeps ==
    ASSUME IInv, NEW a \in Agent, Restream(a)
    PROVE  IInv'
<1>1. 0 \in 0 .. Len(thread)
  BY StreamFacts
<1>2. PICK s \in Stream : /\ s = [at |-> "waiting", cursor |-> 0, place |-> 0]
                          /\ s.at = "waiting" /\ s.cursor = 0 /\ s.place = 0
  BY <1>1, StreamRecord
<1>3. PICK f \in Fetching : /\ f = [from |-> stream[a].cursor, place |-> stream[a].place, run |-> breaks]
                            /\ f.from = stream[a].cursor /\ f.place = stream[a].place
  <2>1. /\ [from |-> stream[a].cursor, place |-> stream[a].place, run |-> breaks] \in Fetching
        /\ [from |-> stream[a].cursor, place |-> stream[a].place, run |-> breaks].from = stream[a].cursor
        /\ [from |-> stream[a].cursor, place |-> stream[a].place, run |-> breaks].place = stream[a].place
    BY StreamFacts DEF Fetching
  <2> QED  BY <2>1, Zenon
<1>4. /\ stream' = [stream EXCEPT ![a] = s] /\ CountBreak
      /\ UNCHANGED <<thread, presence, seen, gitVars, claimed>>
      /\ late' = [late EXCEPT ![a] = IF stream[a].at # "asking" THEN @ ELSE @ \cup {f}]
  BY <1>2, <1>3 DEF Restream, MoveTo
<1>5. /\ late' \in [Agent -> SUBSET Fetching]
      /\ \A b \in Agent \ {a} : late'[b] = late[b]
      /\ late'[a] \ late[a] # {} => stream[a].at = "asking"
      /\ late'[a] \ late[a] \subseteq {f}
  BY <1>4, StreamFacts
<1>6. \A g \in late'[a] \ late[a] : g.from <= seen[a].top /\ g.from <= g.place
  BY <1>3, <1>5, StreamFacts
<1>7. s.cursor <= seen[a].top /\ seen[a].whole => InOrder(s, seen[a].top)
  BY <1>2, StreamFacts DEF InOrder
<1>8. s.cursor <= seen[a].top
  BY <1>2, StreamFacts
<1> QED  BY <1>2, <1>4, <1>5, <1>6, <1>7, <1>8, CountBreakType, SilentStep

LEMMA SameStream ==
    ASSUME IInv, NEW a \in Agent
    PROVE  stream[a] \in Stream /\ stream = [stream EXCEPT ![a] = stream[a]]
BY DEF IInv, ThreadTypes

LEMMA LateLandKeeps ==
    ASSUME IInv, NEW a \in Agent, NEW f \in late[a], LateLand(a, f)
    PROVE  IInv'
<1>1. PICK upto \in f.place .. Len(thread) :
         Show(a, Rows(f.from, upto), upto, seen[a].whole /\ upto = f.from)
  BY DEF LateLand
<1>2. /\ late' = [late EXCEPT ![a] = @ \ {f}]
      /\ UNCHANGED <<thread, stream, breaks, gitVars, claimed>>
  BY DEF LateLand
<1>3. PICK from \in 0 .. Len(thread) : from = f.from /\ from <= seen[a].top
  BY StreamFacts
<1>4. upto \in from .. Len(thread)
  BY <1>1, <1>3, StreamFacts
<1>5. PICK rows : rows = Rows(from, upto) /\ Slice(rows, thread, from, upto)
  BY <1>4, StreamFacts, SubSeqIsSlice DEF Rows
<1>6. PICK w \in BOOLEAN : w = (seen[a].whole /\ upto = from)
  BY StreamFacts
<1>7. w => InOrderAfter(a, from, upto)
  BY <1>3, <1>6 DEF InOrderAfter
<1>8. Show(a, rows, upto, w)
  BY <1>1, <1>3, <1>5, <1>6
<1>9. PICK s \in Stream : s = stream[a] /\ stream' = [stream EXCEPT ![a] = s]
  BY <1>2, SameStream
<1>10. w => InOrder(s, IF upto > seen[a].top THEN upto ELSE seen[a].top)
  <2>1. PICK top \in Nat : top = seen[a].top
    BY StreamFacts
  <2>2. ASSUME w
        PROVE  ~ (upto > top)
    <3>1. upto = from
      BY <1>6, <2>2, Zenon
    <3>2. from <= top /\ from \in Nat
      BY <1>3, <2>1
    <3> QED  BY <2>1, <3>1, <3>2
  <2>3. w => InOrder(s, seen[a].top)
    BY <1>6, <1>9, StreamFacts
  <2> QED  BY <2>1, <2>2, <2>3
<1>11. s.cursor <= seen[a].top /\ (s.at \in {"asking", "live"} => s.cursor <= s.place)
  BY <1>9, StreamFacts
<1>12. /\ late' \in [Agent -> SUBSET Fetching] /\ \A b \in Agent : late'[b] \subseteq late[b]
       /\ \A b \in Agent \ {a} : late'[b] = late[b]
  BY <1>2, StreamFacts
<1>13. Shows(a, s, from, upto, rows, w)
  BY <1>2, <1>5, <1>7, <1>8, <1>9, <1>10, <1>11, <1>12 DEF Shows
<1> QED  BY <1>4, <1>13, ShowStep

LEMMA LateFailKeeps ==
    ASSUME IInv, NEW a \in Agent, NEW f \in late[a], LateFail(a, f)
    PROVE  IInv'
<1>1. /\ late' = [late EXCEPT ![a] = @ \ {f}]
      /\ UNCHANGED <<thread, stream, breaks, presence, seen, gitVars, claimed>>
  BY DEF LateFail
<1>2. PICK s \in Stream : s = stream[a] /\ stream' = [stream EXCEPT ![a] = s]
  BY <1>1, SameStream
<1>3. /\ late' \in [Agent -> SUBSET Fetching] /\ late'[a] \subseteq late[a]
      /\ \A b \in Agent \ {a} : late'[b] = late[b]
  BY <1>1, StreamFacts
<1> QED  BY <1>1, <1>2, <1>3, StreamFacts, SilentStep

----------------------------------------------------------------------------
\* The human and the team.

LEMMA HumanKeeps ==
    ASSUME IInv, NEW a \in Agent,
           (\E p \in Path : Edit(a, p)) \/ (\E b \in {Main, Own} : Switch(a, b)) \/ Resolve(a)
    PROVE  IInv'
<1>1. /\ UNCHANGED <<threadVars, local, tracked, origin, pass, made, claimed>>
      /\ head' \in [Agent -> {Main, Own}] /\ dirty' \in [Agent -> SUBSET Path] /\ busy' \subseteq Agent
  <2>1. ASSUME NEW p \in Path, Edit(a, p) PROVE <1>1!:
    BY <2>1 DEF Edit, IInv, GitTypes
  <2>2. ASSUME NEW b \in {Main, Own}, Switch(a, b) PROVE <1>1!:
    BY <2>2 DEF Switch, IInv, GitTypes
  <2>3. ASSUME Resolve(a) PROVE <1>1!:
    BY <2>3 DEF Resolve, IInv, GitTypes
  <2> QED  BY <2>1, <2>2, <2>3
<1>2. GitTypes'
  BY <1>1 DEF IInv, GitTypes, Countable
<1> QED  BY <1>1, <1>2, TypesQuiet, ThreadQuiet, PassQuiet, MadeQuiet DEF IInv

LEMMA PushMainKeeps ==
    ASSUME IInv, PushMain
    PROVE  IInv'
<1>1. UNCHANGED <<threadVars, repoVars, pass, made, claimed>>
  BY DEF PushMain
<1>2. PICK old \in SUBSET Commit : old = origin[Main] /\ IsFiniteSet(old)
  BY DEF IInv, GitTypes, Remotes, Countable
<1>3. PICK c \in Commit : c = [by |-> Team, n |-> Cardinality(old), files |-> {}]
  BY <1>2, FS_CardinalityType DEF Commit
<1>4. origin' = [origin EXCEPT ![Main] = old \cup {c}]
  BY <1>2, <1>3 DEF PushMain
<1>5. IsFiniteSet(old \cup {c})
  BY <1>2, FS_AddElement
<1>6. origin' \in Remotes /\ origin'[Main] = old \cup {c}
  BY <1>2, <1>3, <1>4 DEF IInv, GitTypes, Remotes
<1>7. GitTypes'
  BY <1>1, <1>5, <1>6 DEF IInv, GitTypes, Countable, repoVars
<1> QED  BY <1>1, <1>7, TypesQuiet, ThreadQuiet, PassQuiet, MadeQuiet DEF IInv

----------------------------------------------------------------------------
\* What git status lists.

LEMMA ListedFacts ==
    ASSUME IInv, NEW a \in Agent
    PROVE  status(a) \in SUBSET Entry /\ \A e \in status(a) : New(e)
<1>1. ASSUME NEW p \in dirty[a], NEW e \in Listed(a, p)
      PROVE  e \in Entry /\ New(e)
  <2>1. p \in Path
    BY DEF IInv, GitTypes
  <2>2. CASE e \in NewDirs(a)
    BY <2>2 DEF NewDirs, Tree, Entry, New
  <2>3. CASE e = p
    BY <2>1, <2>3, Constants DEF Entry, New
  <2>4. e \in NewDirs(a) \/ e = p
    BY DEF Listed
  <2> QED  BY <2>2, <2>3, <2>4
<1> QED  BY <1>1, Zenon DEF status

----------------------------------------------------------------------------
\* The passes.

Held(s, record) ==
    /\ record \in Pass
    /\ record.mine \subseteq claimed[SlotOwner[s]]
    /\ \A e \in record.dirty \cup record.paths : New(e)
    /\ \A e \in record.paths : \E g \in claimed[SlotOwner[s]] : e \in Matches[g]

LEMMA PassMoves ==
    ASSUME IInv, NEW s \in Slot, NEW record, Held(s, record), Then(s, record), UNCHANGED claimed
    PROVE  pass' \in [Slot -> Pass] /\ PassOK'
<1>1. /\ pass' \in [Slot -> Pass] /\ pass'[s] = record
      /\ \A t \in Slot \ {s} : pass'[t] = pass[t]
  BY DEF IInv, GitTypes, Then, Held
<1>2. PassOK'
  BY <1>1 DEF IInv, PassOK, Held
<1> QED  BY <1>1, <1>2

LEMMA PassHeld ==
    ASSUME IInv, NEW s \in Slot
    PROVE  Held(s, pass[s])
BY DEF IInv, GitTypes, PassOK, Held

LEMMA DoneHeld ==
    ASSUME NEW s \in Slot
    PROVE  /\ Held(s, NoPass) /\ Held(s, Done(s))
           /\ Done(s).made = {} /\ Done(s).branch = Main /\ Done(s).at # "commit"
<1>1. Held(s, NoPass)
  BY NoPassType DEF Held
<1>2. PICK next \in Pass : /\ next = [NoPass EXCEPT !.at = "merge"]
                           /\ next.mine = {} /\ next.paths = {} /\ next.dirty = {}
                           /\ next.made = {} /\ next.branch = Main /\ next.at # "commit"
  <2>1. /\ [NoPass EXCEPT !.at = "merge"] \in Pass
        /\ [NoPass EXCEPT !.at = "merge"].mine = {} /\ [NoPass EXCEPT !.at = "merge"].paths = {}
        /\ [NoPass EXCEPT !.at = "merge"].dirty = {} /\ [NoPass EXCEPT !.at = "merge"].made = {}
        /\ [NoPass EXCEPT !.at = "merge"].branch = Main
        /\ [NoPass EXCEPT !.at = "merge"].at # "commit"
    BY DEF NoPass, Pass, Step, Mode, Main
  <2> QED  BY <2>1, Zenon
<1>3. Held(s, next)
  BY <1>2 DEF Held
<1>4. Done(s) = next \/ Done(s) = NoPass
  BY <1>2 DEF Done
<1> QED  BY <1>1, <1>2, <1>3, <1>4, NoPassType

LEMMA DecideHeld ==
    ASSUME NEW s \in Slot, NEW record, Held(s, record)
    PROVE  /\ Held(s, Decide(s, record))
           /\ Decide(s, record).made = {} /\ Decide(s, record).branch = Main
           /\ Decide(s, record).at = "commit" => record.branch = Own
<1>1. PICK paths \in SUBSET Entry :
         /\ paths = collisions(record.dirty, record.mine)
         /\ \A e \in paths : New(e) /\ \E g \in claimed[SlotOwner[s]] : e \in Matches[g]
  <2>1. collisions(record.dirty, record.mine) \in SUBSET Entry
    BY DEF Held, Pass, collisions
  <2>2. \A e \in collisions(record.dirty, record.mine) :
           New(e) /\ \E g \in claimed[SlotOwner[s]] : e \in Matches[g]
    BY DEF Held, collisions
  <2> QED  BY <2>1, <2>2, Zenon
<1>2. PICK step \in Step : step = IF record.branch = Own THEN "commit" ELSE "checkout"
  BY DEF Step
<1>3. PICK mode \in Mode : mode = record.mode
  BY DEF Held, Pass
<1>4. PICK next \in Pass : /\ next = [NoPass EXCEPT !.at = step, !.mode = mode, !.paths = paths]
                           /\ next.mine = {} /\ next.paths = paths /\ next.dirty = {}
                           /\ next.made = {} /\ next.branch = Main /\ next.at = step
  <2>1. /\ [NoPass EXCEPT !.at = step, !.mode = mode, !.paths = paths] \in Pass
        /\ [NoPass EXCEPT !.at = step, !.mode = mode, !.paths = paths].mine = {}
        /\ [NoPass EXCEPT !.at = step, !.mode = mode, !.paths = paths].paths = paths
        /\ [NoPass EXCEPT !.at = step, !.mode = mode, !.paths = paths].dirty = {}
        /\ [NoPass EXCEPT !.at = step, !.mode = mode, !.paths = paths].made = {}
        /\ [NoPass EXCEPT !.at = step, !.mode = mode, !.paths = paths].branch = Main
        /\ [NoPass EXCEPT !.at = step, !.mode = mode, !.paths = paths].at = step
    BY DEF NoPass, Pass, Main
  <2> QED  BY <2>1, Zenon
<1>5. Held(s, next)
  BY <1>1, <1>4 DEF Held
<1>6. Decide(s, record) = IF record.mode = "plan" \/ paths = {} THEN Done(s) ELSE next
  BY <1>1, <1>2, <1>3, <1>4 DEF Decide
<1>7. next.at = "commit" => record.branch = Own
  BY <1>2, <1>4
<1> QED  BY <1>4, <1>5, <1>6, <1>7, DoneHeld

\* A pass that only moves on.
LEMMA StageHeld ==
    ASSUME IInv, NEW s \in Slot, NEW step \in Step
    PROVE  /\ Held(s, [pass[s] EXCEPT !.at = step])
           /\ [pass[s] EXCEPT !.at = step].made = pass[s].made
           /\ [pass[s] EXCEPT !.at = step].branch = pass[s].branch
           /\ [pass[s] EXCEPT !.at = step].at = step
<1>1. PICK record \in Pass : record = pass[s] /\ Held(s, record)
  BY PassHeld DEF Held
<1>2. /\ [record EXCEPT !.at = step] \in Pass
      /\ [record EXCEPT !.at = step].mine = record.mine
      /\ [record EXCEPT !.at = step].paths = record.paths
      /\ [record EXCEPT !.at = step].dirty = record.dirty
      /\ [record EXCEPT !.at = step].made = record.made
      /\ [record EXCEPT !.at = step].branch = record.branch
      /\ [record EXCEPT !.at = step].at = step
  BY DEF Pass
<1> QED  BY <1>1, <1>2 DEF Held

LEMMA LocalMoves ==
    ASSUME IInv, NEW a \in Agent, NEW b \in {Main, Own}, NEW C \in SUBSET Commit,
           local' = [local EXCEPT ![a][b] = C]
    PROVE  /\ local' \in Repos
           /\ local'[a][b] = C
           /\ \A c \in {Main, Own} \ {b} : local'[a][c] = local[a][c]
           /\ \A d \in Agent \ {a} : local'[d] = local[d]
<1>1. local \in [Agent -> [{Main, Own} -> SUBSET Commit]]
  BY DEF IInv, GitTypes, Repos
<1>2. PICK f \in [{Main, Own} -> SUBSET Commit] : f = [local[a] EXCEPT ![b] = C]
  BY <1>1
<1>3. f[b] = C /\ \A c \in {Main, Own} \ {b} : f[c] = local[a][c]
  BY <1>1, <1>2
<1>4. local' = [local EXCEPT ![a] = f]
  BY <1>1, <1>2
<1> QED  BY <1>1, <1>3, <1>4 DEF Repos

LEMMA OwnerFacts ==
    ASSUME IInv, NEW s \in Slot
    PROVE  /\ SlotOwner[s] \in Agent /\ head[SlotOwner[s]] \in {Main, Own}
           /\ dirty[SlotOwner[s]] \in SUBSET Path
           /\ local[SlotOwner[s]] \in [{Main, Own} -> SUBSET Commit]
           /\ tracked[SlotOwner[s]] \in [{Main} \cup Agent -> SUBSET Commit]
           /\ SlotOwner[s] \in {Main} \cup Agent /\ Main \in {Main} \cup Agent
BY Constants DEF IInv, GitTypes, Repos, Remotes

LEMMA BranchFacts ==
    ASSUME IInv, NEW s \in Slot
    PROVE  /\ local[SlotOwner[s]][head[SlotOwner[s]]] \in SUBSET Commit
           /\ local[SlotOwner[s]][Own] \in SUBSET Commit
           /\ \A b \in {Main} \cup Agent : tracked[SlotOwner[s]][b] \in SUBSET Commit
<1>1. PICK f \in [{Main, Own} -> SUBSET Commit] : f = local[SlotOwner[s]]
  BY OwnerFacts
<1>2. PICK g \in [{Main} \cup Agent -> SUBSET Commit] : g = tracked[SlotOwner[s]]
  BY OwnerFacts
<1>3. head[SlotOwner[s]] \in {Main, Own} /\ Own \in {Main, Own}
  BY OwnerFacts
<1> QED  BY <1>1, <1>2, <1>3

LEMMA SyncKeeps ==
    ASSUME IInv, NEW s \in Slot, NEW mode \in Mode, syncOnce(s, mode)
    PROVE  IInv'
<1> DEFINE a == SlotOwner[s]
<1>1. UNCHANGED <<threadVars, repoVars, origin, made, claimed>>
  BY DEF syncOnce
<1>2. PICK mine \in SUBSET Glob : mine = presence[a][a].claims /\ mine \subseteq claimed[a]
  <2>1. a \in Agent
    BY OwnerFacts
  <2>2. PICK m \in Member : m = presence[a][a]
    BY <2>1 DEF IInv, ThreadTypes, View
  <2>3. m.claims \in SUBSET Glob
    BY DEF Member
  <2>4. presence[a][a].claims \subseteq claimed[a]
    BY <2>1 DEF IInv, ThreadOK, ShowsClaimed
  <2> QED  BY <2>2, <2>3, <2>4
<1>3. PICK next \in Pass : /\ next = [NoPass EXCEPT !.at = "fetch", !.mode = mode, !.mine = mine]
                           /\ next.mine = mine /\ next.paths = {} /\ next.dirty = {}
  <2>1. /\ [NoPass EXCEPT !.at = "fetch", !.mode = mode, !.mine = mine] \in Pass
        /\ [NoPass EXCEPT !.at = "fetch", !.mode = mode, !.mine = mine].mine = mine
        /\ [NoPass EXCEPT !.at = "fetch", !.mode = mode, !.mine = mine].paths = {}
        /\ [NoPass EXCEPT !.at = "fetch", !.mode = mode, !.mine = mine].dirty = {}
    BY DEF NoPass, Pass, Step, Main
  <2> QED  BY <2>1, Zenon
<1>4. Held(s, next) /\ Then(s, next)
  BY <1>2, <1>3 DEF Held, syncOnce
<1>5. pass' \in [Slot -> Pass] /\ PassOK'
  BY <1>1, <1>4, PassMoves
<1>6. GitTypes'
  BY <1>1, <1>5 DEF IInv, GitTypes, Countable, repoVars
<1> QED  BY <1>1, <1>5, <1>6, TypesQuiet, ThreadQuiet, MadeQuiet DEF IInv

\* The record of a pass after the status Fetch reads.
Read(s) == [pass[s] EXCEPT !.branch = head[SlotOwner[s]], !.dirty = status(SlotOwner[s])]

LEMMA ReadHeld ==
    ASSUME IInv, NEW s \in Slot
    PROVE  /\ Held(s, Read(s)) /\ Held(s, [Read(s) EXCEPT !.at = "rebase"])
           /\ Read(s).branch = head[SlotOwner[s]] /\ Read(s).made = pass[s].made
           /\ [Read(s) EXCEPT !.at = "rebase"].branch = head[SlotOwner[s]]
           /\ [Read(s) EXCEPT !.at = "rebase"].made = pass[s].made
           /\ [Read(s) EXCEPT !.at = "rebase"].at = "rebase"
<1>1. PICK record \in Pass : record = pass[s] /\ Held(s, record)
  BY PassHeld DEF Held
<1>2. PICK b \in {Main, Own} : b = head[SlotOwner[s]]
  BY OwnerFacts
<1>3. PICK d \in SUBSET Entry : d = status(SlotOwner[s]) /\ \A e \in d : New(e)
  BY OwnerFacts, ListedFacts
<1>4. PICK r \in Pass : /\ r = [record EXCEPT !.branch = b, !.dirty = d]
                        /\ r.mine = record.mine /\ r.paths = record.paths /\ r.dirty = d
                        /\ r.branch = b /\ r.made = record.made
  <2>1. /\ [record EXCEPT !.branch = b, !.dirty = d] \in Pass
        /\ [record EXCEPT !.branch = b, !.dirty = d].mine = record.mine
        /\ [record EXCEPT !.branch = b, !.dirty = d].paths = record.paths
        /\ [record EXCEPT !.branch = b, !.dirty = d].dirty = d
        /\ [record EXCEPT !.branch = b, !.dirty = d].branch = b
        /\ [record EXCEPT !.branch = b, !.dirty = d].made = record.made
    BY DEF Pass
  <2> QED  BY <2>1, Zenon
<1>5. /\ [r EXCEPT !.at = "rebase"] \in Pass
      /\ [r EXCEPT !.at = "rebase"].mine = r.mine /\ [r EXCEPT !.at = "rebase"].paths = r.paths
      /\ [r EXCEPT !.at = "rebase"].dirty = r.dirty /\ [r EXCEPT !.at = "rebase"].branch = r.branch
      /\ [r EXCEPT !.at = "rebase"].made = r.made /\ [r EXCEPT !.at = "rebase"].at = "rebase"
  BY DEF Pass, Step
<1>6. Held(s, r) /\ Held(s, [r EXCEPT !.at = "rebase"])
  BY <1>1, <1>3, <1>4, <1>5 DEF Held
<1>7. Read(s) = r
  BY <1>1, <1>2, <1>3, <1>4 DEF Read
<1> QED  BY <1>1, <1>2, <1>4, <1>5, <1>6, <1>7

LEMMA FetchKeeps ==
    ASSUME IInv, NEW s \in Slot, Fetch(s)
    PROVE  IInv'
<1> DEFINE a == SlotOwner[s]
<1>1. UNCHANGED <<threadVars, local, head, dirty, busy, origin, made, claimed>>
      /\ tracked' = [tracked EXCEPT ![a] = origin]
  BY DEF Fetch
<1>2. Then(s, [Read(s) EXCEPT !.at = "rebase"]) \/ Then(s, Decide(s, Read(s)))
  BY DEF Fetch, Read
<1>3. pass' \in [Slot -> Pass] /\ PassOK'
  BY <1>1, <1>2, ReadHeld, DecideHeld, PassMoves
<1>4. tracked' \in [Agent -> Remotes]
  BY <1>1 DEF IInv, GitTypes
<1>5. GitTypes'
  BY <1>1, <1>3, <1>4 DEF IInv, GitTypes, Countable
<1> QED  BY <1>1, <1>3, <1>5, TypesQuiet, ThreadQuiet, MadeQuiet DEF IInv

\* What a rebase does to the local branches.
LEMMA RebaseLocal ==
    ASSUME IInv, NEW s \in Slot, Rebase(s)
    PROVE  \/ local' = local
           \/ \E C \in SUBSET Commit :
                /\ local[SlotOwner[s]][head[SlotOwner[s]]] \subseteq C
                /\ local' = [local EXCEPT ![SlotOwner[s]][head[SlotOwner[s]]] = C]
<1> DEFINE a == SlotOwner[s]
<1>1. PICK B \in SUBSET Commit : B = local[a][head[a]]
  BY BranchFacts
<1>2. PICK U \in SUBSET Commit : U = tracked[a][RemoteOf(a, pass[s].branch)]
  <2>1. RemoteOf(a, pass[s].branch) \in {Main} \cup Agent
    BY OwnerFacts DEF RemoteOf
  <2> QED  BY <2>1, BranchFacts
<1>3. local' = local \/ local' = [local EXCEPT ![a][head[a]] = B \cup U]
  BY <1>1, <1>2, OwnerFacts DEF Rebase, IInv, GitTypes, Repos
<1>4. B \cup U \in SUBSET Commit /\ B \subseteq B \cup U
  OBVIOUS
<1> QED  BY <1>1, <1>3, <1>4

LEMMA RebaseKeeps ==
    ASSUME IInv, NEW s \in Slot, Rebase(s)
    PROVE  IInv'
<1> DEFINE a == SlotOwner[s]
<1>1. UNCHANGED <<threadVars, head, tracked, dirty, origin, made, claimed>>
  BY DEF Rebase
<1>2. Then(s, Decide(s, pass[s])) \/ Then(s, Done(s))
  BY DEF Rebase
<1>3. pass' \in [Slot -> Pass] /\ PassOK'
  BY <1>1, <1>2, PassHeld, DecideHeld, DoneHeld, PassMoves
<1>4. local' \in Repos
  <2>1. a \in Agent /\ head[a] \in {Main, Own} /\ local \in Repos
    BY OwnerFacts DEF IInv, GitTypes
  <2> QED  BY <2>1, RebaseLocal, LocalMoves
<1>5. busy' \subseteq Agent
  <2>1. busy' = busy \/ busy' = busy \cup {a}
    BY DEF Rebase
  <2>2. busy \subseteq Agent /\ a \in Agent
    BY OwnerFacts DEF IInv, GitTypes
  <2> QED  BY <2>1, <2>2
<1>6. GitTypes'
  BY <1>1, <1>3, <1>4, <1>5 DEF IInv, GitTypes, Countable
<1> QED  BY <1>1, <1>3, <1>6, TypesQuiet, ThreadQuiet, MadeQuiet DEF IInv

LEMMA CheckoutKeeps ==
    ASSUME IInv, NEW s \in Slot, Checkout(s)
    PROVE  IInv'
<1> DEFINE a == SlotOwner[s]
<1>1. UNCHANGED <<threadVars, tracked, dirty, busy, origin, made, claimed>>
  BY DEF Checkout
<1>2. Then(s, Done(s)) \/ Then(s, [pass[s] EXCEPT !.at = "commit"])
  BY DEF Checkout
<1>3. pass' \in [Slot -> Pass] /\ PassOK'
  <2>1. "commit" \in Step
    BY DEF Step
  <2> QED  BY <1>1, <1>2, <2>1, DoneHeld, StageHeld, PassMoves
<1>4. head' \in [Agent -> {Main, Own}]
  BY DEF Checkout, IInv, GitTypes
<1>5. local' \in Repos
  <2>1. PICK C \in SUBSET Commit : C = local[a][head[a]]
    BY BranchFacts
  <2>2. local' = local \/ local' = [local EXCEPT ![a][Own] = C]
    BY <2>1 DEF Checkout, Tip
  <2>3. local \in Repos /\ a \in Agent /\ Own \in {Main, Own}
    BY OwnerFacts DEF IInv, GitTypes
  <2> QED  BY <2>2, <2>3, LocalMoves
<1>6. GitTypes'
  BY <1>1, <1>3, <1>4, <1>5 DEF IInv, GitTypes, Countable
<1> QED  BY <1>1, <1>3, <1>6, TypesQuiet, ThreadQuiet, MadeQuiet DEF IInv

\* What add and commit take of the entries a pass took up.
LEMMA TakenFacts ==
    ASSUME IInv, NEW s \in Slot, NEW p \in Taken(SlotOwner[s], pass[s].paths)
    PROVE  /\ p \in dirty[SlotOwner[s]] /\ p \in Path
           /\ \E g \in claimed[SlotOwner[s]] :
                \/ p \in Matches[g]
                \/ p \notin Base /\ \E d \in Dir \cap Matches[g] : p \in Holds[d]
<1>1. p \in dirty[SlotOwner[s]] /\ p \in Path
  BY OwnerFacts DEF Taken
<1>2. PICK e \in pass[s].paths : p \in Below(e)
  BY DEF Taken
<1>3. New(e) /\ \E g \in claimed[SlotOwner[s]] : e \in Matches[g]
  BY DEF IInv, PassOK
<1>4. CASE e \in Dir
  <2>1. p \in Holds[e] /\ p \notin Base
    BY <1>2, <1>3, <1>4 DEF Below, New
  <2> QED  BY <1>1, <1>3, <1>4, <2>1
<1>5. CASE e \notin Dir
  <2>1. p = e
    BY <1>2, <1>5 DEF Below
  <2> QED  BY <1>1, <1>3, <2>1
<1> QED  BY <1>4, <1>5

\* A commit of a pass: either none is made, or one of what was taken.
Commits(s, c, B) ==
    /\ c.by = SlotOwner[s] /\ c.files = Taken(SlotOwner[s], pass[s].paths)
    /\ B = local[SlotOwner[s]][head[SlotOwner[s]]] \cup {c}
    /\ made' = made \cup {c}
    /\ local' = [local EXCEPT ![SlotOwner[s]][head[SlotOwner[s]]] = B]
    /\ dirty' = [dirty EXCEPT ![SlotOwner[s]] = @ \ c.files]
    /\ \E next \in Pass : /\ Then(s, next) /\ Held(s, next)
                          /\ next.made = {c} /\ next.branch = pass[s].branch /\ next.at # "commit"

LEMMA CommitFacts ==
    ASSUME IInv, NEW s \in Slot, CommitPaths(s)
    PROVE  \/ Then(s, Done(s)) /\ UNCHANGED <<local, dirty, made>>
           \/ \E c \in Commit : \E B \in SUBSET Commit : Commits(s, c, B)
<1> DEFINE a == SlotOwner[s]
           stage == IF pass[s].mode = "auto-sync" THEN "announce" ELSE "push"
<1>1. PICK files \in SUBSET Path : files = Taken(a, pass[s].paths)
  <2>1. Taken(a, pass[s].paths) \in SUBSET Path
    BY TakenFacts
  <2> QED  BY <2>1, Zenon
<1>2. PICK c \in Commit : /\ c = [by |-> a, n |-> Cardinality(made), files |-> files]
                          /\ c.by = a /\ c.files = files
  <2>1. Cardinality(made) \in Nat /\ a \in Agent
    BY FS_CardinalityType, OwnerFacts DEF IInv, GitTypes, Countable
  <2>2. /\ [by |-> a, n |-> Cardinality(made), files |-> files] \in Commit
        /\ [by |-> a, n |-> Cardinality(made), files |-> files].by = a
        /\ [by |-> a, n |-> Cardinality(made), files |-> files].files = files
    BY <2>1 DEF Commit
  <2> QED  BY <2>2, Zenon
<1>3. PICK B \in SUBSET Commit : B = local[a][head[a]] \cup {c}
  BY BranchFacts
<1>4. CASE /\ made' = made \cup {c}
           /\ local' = [local EXCEPT ![a][head[a]] = @ \cup {c}]
           /\ dirty' = [dirty EXCEPT ![a] = @ \ files]
           /\ Then(s, [pass[s] EXCEPT !.made = {c}, !.at = stage])
  <2>1. PICK record \in Pass : record = pass[s] /\ Held(s, record)
    BY PassHeld DEF Held
  <2>2. PICK step \in Step : step = stage /\ step # "commit"
    BY DEF Step
  <2>3. PICK next \in Pass : /\ next = [record EXCEPT !.made = {c}, !.at = step]
                             /\ next.mine = record.mine /\ next.paths = record.paths
                             /\ next.dirty = record.dirty /\ next.made = {c}
                             /\ next.branch = record.branch /\ next.at = step
    <3>1. /\ [record EXCEPT !.made = {c}, !.at = step] \in Pass
          /\ [record EXCEPT !.made = {c}, !.at = step].mine = record.mine
          /\ [record EXCEPT !.made = {c}, !.at = step].paths = record.paths
          /\ [record EXCEPT !.made = {c}, !.at = step].dirty = record.dirty
          /\ [record EXCEPT !.made = {c}, !.at = step].made = {c}
          /\ [record EXCEPT !.made = {c}, !.at = step].branch = record.branch
          /\ [record EXCEPT !.made = {c}, !.at = step].at = step
      BY DEF Pass
    <3> QED  BY <3>1, Zenon
  <2>4. Held(s, next) /\ Then(s, next)
    BY <1>4, <2>1, <2>2, <2>3 DEF Held
  <2>5. local' = [local EXCEPT ![a][head[a]] = B]
    BY <1>3, <1>4, OwnerFacts DEF IInv, GitTypes, Repos
  <2>6. c.by = a /\ c.files = Taken(a, pass[s].paths) /\ dirty' = [dirty EXCEPT ![a] = @ \ c.files]
    BY <1>1, <1>2, <1>4
  <2>7. next.branch = pass[s].branch /\ next.at # "commit"
    BY <2>1, <2>2, <2>3
  <2>8. \E n \in Pass : /\ Then(s, n) /\ Held(s, n)
                        /\ n.made = {c} /\ n.branch = pass[s].branch /\ n.at # "commit"
    BY <2>3, <2>4, <2>7
  <2>9. Commits(s, c, B)
    BY <1>3, <1>4, <2>5, <2>6, <2>8, Zenon DEF Commits
  <2> QED  BY <2>9
<1>5. \/ Then(s, Done(s)) /\ UNCHANGED <<local, dirty, made>>
      \/ /\ made' = made \cup {c}
         /\ local' = [local EXCEPT ![a][head[a]] = @ \cup {c}]
         /\ dirty' = [dirty EXCEPT ![a] = @ \ files]
         /\ Then(s, [pass[s] EXCEPT !.made = {c}, !.at = stage])
  BY <1>1, <1>2 DEF CommitPaths
<1> QED  BY <1>4, <1>5

LEMMA CommitKeeps ==
    ASSUME IInv, NEW s \in Slot, CommitPaths(s)
    PROVE  IInv'
<1> DEFINE a == SlotOwner[s]
<1>1. UNCHANGED <<threadVars, head, tracked, busy, origin, claimed>>
  BY DEF CommitPaths
<1>2. CASE Then(s, Done(s)) /\ UNCHANGED <<local, dirty, made>>
  <2>1. pass' \in [Slot -> Pass] /\ PassOK'
    BY <1>1, <1>2, DoneHeld, PassMoves
  <2>2. GitTypes'
    BY <1>1, <1>2, <2>1 DEF IInv, GitTypes, Countable
  <2> QED  BY <1>1, <1>2, <2>1, <2>2, TypesQuiet, ThreadQuiet, MadeQuiet DEF IInv
<1>3. ASSUME NEW c \in Commit, NEW B \in SUBSET Commit, Commits(s, c, B)
      PROVE  IInv'
  <2>1. pass' \in [Slot -> Pass] /\ PassOK'
    BY <1>1, <1>3, PassMoves DEF Commits
  <2>2. a \in Agent /\ head[a] \in {Main, Own} /\ local \in Repos
    BY OwnerFacts DEF IInv, GitTypes
  <2>3. local' \in Repos
    BY <1>3, <2>2, LocalMoves DEF Commits
  <2>4. dirty' \in [Agent -> SUBSET Path]
    BY <1>3 DEF Commits, IInv, GitTypes
  <2>5. made' \subseteq Commit /\ \A d \in made' : d.by \in Agent
    BY <1>3, <2>2 DEF Commits, IInv, GitTypes
  <2>6. IsFiniteSet(made')
    BY <1>3, FS_AddElement DEF Commits, IInv, GitTypes, Countable
  <2>7. GitTypes'
    BY <1>1, <2>1, <2>3, <2>4, <2>5, <2>6 DEF IInv, GitTypes, Countable
  <2>8. OnlyClaimedRides'
    <3>1. \A p \in c.files : \E g \in claimed[c.by] :
             \/ p \in Matches[g]
             \/ p \notin Base /\ \E d \in Dir \cap Matches[g] : p \in Holds[d]
      BY <1>3, TakenFacts DEF Commits
    <3>2. made' = made \cup {c} /\ claimed' = claimed
      BY <1>1, <1>3 DEF Commits
    <3> QED  BY <3>1, <3>2 DEF IInv, OnlyClaimedRides
  <2> QED  BY <1>1, <2>1, <2>7, <2>8, TypesQuiet, ThreadQuiet DEF IInv
<1> QED  BY <1>2, <1>3, CommitFacts

LEMMA PushKeeps ==
    ASSUME IInv, NEW s \in Slot, Push(s)
    PROVE  IInv'
<1> DEFINE a == SlotOwner[s]
<1>1. UNCHANGED <<threadVars, local, head, dirty, busy, made, claimed>>
      /\ Then(s, [pass[s] EXCEPT !.at = "announce"])
  BY DEF Push
<1>2. pass' \in [Slot -> Pass] /\ PassOK'
  <2>1. "announce" \in Step
    BY DEF Step
  <2> QED  BY <1>1, <2>1, StageHeld, PassMoves
<1>3. PICK C \in SUBSET Commit : C = local[a][Own]
  BY BranchFacts
<1>4. \/ origin' = origin /\ tracked' = tracked
      \/ origin' = [origin EXCEPT ![a] = C] /\ tracked' = [tracked EXCEPT ![a][a] = C]
  BY <1>3 DEF Push
<1>5. a \in Agent /\ a \in {Main} \cup Agent /\ a # Main
  BY OwnerFacts, Constants
<1>6. origin' \in Remotes /\ origin'[Main] = origin[Main]
  BY <1>4, <1>5 DEF IInv, GitTypes, Remotes
<1>7. tracked' \in [Agent -> Remotes]
  <2>1. tracked \in [Agent -> Remotes]
    BY DEF IInv, GitTypes
  <2>2. PICK f \in Remotes : f = [tracked[a] EXCEPT ![a] = C]
    BY <1>5, <2>1 DEF Remotes
  <2>3. tracked' = tracked \/ tracked' = [tracked EXCEPT ![a] = f]
    BY <1>4, <1>5, <2>1, <2>2
  <2> QED  BY <2>1, <2>3
<1>8. GitTypes'
  BY <1>1, <1>2, <1>6, <1>7 DEF IInv, GitTypes, Countable
<1> QED  BY <1>1, <1>2, <1>8, TypesQuiet, ThreadQuiet, MadeQuiet DEF IInv

LEMMA AnnounceFacts ==
    ASSUME IInv, NEW s \in Slot, Announce(s)
    PROVE  \E e \in Envelope : /\ Send(e) /\ e.kind = "head" /\ e.from = SlotOwner[s]
                               /\ e.at = pass[s].made
<1>1. PICK record \in Pass : record = pass[s]
  BY PassHeld DEF Held
<1>2. SlotOwner[s] \in Agent /\ record.paths \in SUBSET Entry /\ record.made \in SUBSET Commit
  BY OwnerFacts DEF Pass
<1>3. PICK e : e = [kind |-> "head", from |-> SlotOwner[s], globs |-> {},
                    files |-> record.paths, at |-> record.made]
  OBVIOUS
<1>4. e \in Envelope /\ e.kind = "head" /\ e.from = SlotOwner[s] /\ e.at = record.made
  BY <1>2, <1>3 DEF Envelope
<1> QED  BY <1>1, <1>3, <1>4 DEF Announce

LEMMA AnnounceKeeps ==
    ASSUME IInv, NEW s \in Slot, Announce(s)
    PROVE  IInv'
<1>1. PICK e \in Envelope : Send(e) /\ e.kind = "head"
  BY AnnounceFacts
<1>2. Then(s, Done(s)) /\ UNCHANGED <<repoVars, origin, made, claimed>>
  BY DEF Announce
<1>3. ClaimTypes' /\ \A b \in Agent : claimed[b] \subseteq claimed'[b]
  BY <1>2, TypesQuiet
<1>4. ThreadTypes' /\ ThreadOK'
  BY <1>1, <1>3, SendKeeps
<1>5. pass' \in [Slot -> Pass] /\ PassOK'
  BY <1>2, DoneHeld, PassMoves
<1>6. GitTypes'
  BY <1>2, <1>5 DEF IInv, GitTypes, Countable, repoVars
<1> QED  BY <1>2, <1>3, <1>4, <1>5, <1>6, MadeQuiet DEF IInv

\* What a merge does to the local branches.
LEMMA MergeLocal ==
    ASSUME IInv, NEW s \in Slot, MergePeers(s)
    PROVE  \E C \in SUBSET Commit :
             /\ local[SlotOwner[s]][head[SlotOwner[s]]] \subseteq C
             /\ local' = [local EXCEPT ![SlotOwner[s]][head[SlotOwner[s]]] = C]
<1> DEFINE a == SlotOwner[s]
<1>1. PICK merged \in SUBSET Agent :
         local' = [local EXCEPT ![a][head[a]] = @ \cup UNION {tracked[a][b] : b \in merged}]
  BY DEF MergePeers, Mergeable
<1>2. \A b \in merged : tracked[a][b] \subseteq Commit
  BY OwnerFacts
<1>3. PICK D \in SUBSET Commit : D = UNION {tracked[a][b] : b \in merged}
  BY <1>2, Zenon
<1>4. PICK B \in SUBSET Commit : B = local[a][head[a]]
  BY BranchFacts
<1>5. B \cup D \in SUBSET Commit /\ B \subseteq B \cup D
  OBVIOUS
<1>6. local' = [local EXCEPT ![a][head[a]] = B \cup D]
  BY <1>1, <1>3, <1>4, OwnerFacts DEF IInv, GitTypes, Repos
<1> QED  BY <1>4, <1>5, <1>6

LEMMA MergeKeeps ==
    ASSUME IInv, NEW s \in Slot, MergePeers(s)
    PROVE  IInv'
<1>1. UNCHANGED <<threadVars, head, tracked, dirty, busy, origin, made, claimed>>
      /\ Then(s, NoPass)
  BY DEF MergePeers
<1>2. pass' \in [Slot -> Pass] /\ PassOK'
  BY <1>1, DoneHeld, PassMoves
<1>3. local' \in Repos
  <2>1. SlotOwner[s] \in Agent /\ head[SlotOwner[s]] \in {Main, Own} /\ local \in Repos
    BY OwnerFacts DEF IInv, GitTypes
  <2> QED  BY <2>1, MergeLocal, LocalMoves
<1>4. GitTypes'
  BY <1>1, <1>2, <1>3 DEF IInv, GitTypes, Countable
<1> QED  BY <1>1, <1>2, <1>4, TypesQuiet, ThreadQuiet, MadeQuiet DEF IInv

----------------------------------------------------------------------------
\* Every step.

LEMMA NextKeepsIInv == IInv /\ [Next]_vars => IInv'
<1> SUFFICES ASSUME IInv, [Next]_vars PROVE IInv'
  OBVIOUS
<1>1. CASE PushMain
  BY <1>1, PushMainKeeps
<1>2. CASE \E a \in Agent : Ask(a) \/ Land(a) \/ Open(a) \/ Hear(a) \/ Break(a) \/ Restream(a)
  BY <1>2, AskKeeps, LandKeeps, OpenKeeps, HearKeeps, BreakKeeps, RestreamKeeps
<1>3. CASE \E a \in Agent : \E f \in late[a] : LateLand(a, f) \/ LateFail(a, f)
  BY <1>3, LateLandKeeps, LateFailKeeps
<1>4. CASE \E a \in Agent, globs \in SUBSET Glob : Claim(a, globs) \/ Release(a, globs)
  BY <1>4, ClaimKeeps, ReleaseKeeps
<1>5. CASE \/ \E a \in Human, p \in Path : Edit(a, p)
           \/ \E a \in Restless, b \in {Main, Own} : Switch(a, b)
           \/ \E a \in Human : Resolve(a)
  BY <1>5, Constants, HumanKeeps
<1>6. CASE \E s \in Slot, mode \in Mode : syncOnce(s, mode)
  BY <1>6, SyncKeeps
<1>7. CASE \E s \in Slot :
              Fetch(s) \/ Rebase(s) \/ Checkout(s) \/ CommitPaths(s) \/ Push(s) \/ Announce(s) \/ MergePeers(s)
  BY <1>7, FetchKeeps, RebaseKeeps, CheckoutKeeps, CommitKeeps, PushKeeps, AnnounceKeeps, MergeKeeps
<1>8. CASE UNCHANGED vars
  <2>1. UNCHANGED threadVars /\ UNCHANGED gitVars /\ UNCHANGED claimed
    BY <1>8 DEF vars
  <2>2. UNCHANGED <<pass, claimed>> /\ UNCHANGED <<made, claimed>>
    BY <2>1 DEF gitVars
  <2> QED  BY <2>1, <2>2, TypesQuiet, ThreadQuiet, PassQuiet, MadeQuiet DEF IInv
<1> QED  BY <1>1, <1>2, <1>3, <1>4, <1>5, <1>6, <1>7, <1>8 DEF Next

LEMMA Invariance == Spec => []IInv
<1>1. IInv /\ [Next]_vars => IInv'
  BY NextKeepsIInv
<1> QED  BY InitIInv, <1>1, PTL DEF Spec

----------------------------------------------------------------------------
\* An agent whose human does not switch branches: once something of its was
\* committed its own branch is checked out, and stays so.

KeptOf(a) ==
    /\ Announced(a) \subseteq local[a][Own]
    /\ head[a] = Main => Announced(a) = {}
    /\ \A s \in Slot : SlotOwner[s] = a =>
         /\ pass[s].made \subseteq local[a][Own]
         /\ head[a] = Main => pass[s].made = {} /\ pass[s].branch = Main /\ pass[s].at # "commit"
KeptOK == \A a \in Agent \ Restless : KeptOf(a)

LEMMA InitKept == Init => KeptOK
<1> SUFFICES ASSUME Init, NEW a \in Agent \ Restless PROVE KeptOf(a)
  BY DEF KeptOK
<1>1. thread = <<>> /\ \A s \in Slot : pass[s] = NoPass
  BY DEF Init
<1>2. Announced(a) = {}
  BY <1>1 DEF Announced
<1> QED  BY <1>1, <1>2, NoPassType DEF KeptOf

\* What is announced after one more envelope.
LEMMA AnnouncedMore ==
    ASSUME IInv, NEW e \in Envelope, Send(e), NEW a \in Agent
    PROVE  Announced(a)' = IF HeadSaid(e, a) THEN Announced(a) \cup e.at ELSE Announced(a)
<1> DEFINE of == {k \in DOMAIN thread : thread[k].kind = "head" /\ thread[k].from = a}
           next == {k \in DOMAIN thread' : thread'[k].kind = "head" /\ thread'[k].from = a}
           n == Len(thread) + 1
<1>1. /\ thread' = Append(thread, e) /\ thread \in Seq(Envelope)
      /\ DOMAIN thread = 1 .. Len(thread) /\ Len(thread) \in Nat
  BY DEF Send, IInv, ThreadTypes
<1>2. /\ DOMAIN thread' = DOMAIN thread \cup {n} /\ n \notin DOMAIN thread
      /\ thread'[n] = e /\ \A k \in DOMAIN thread : thread'[k] = thread[k]
  BY <1>1
<1>3. CASE HeadSaid(e, a)
  <2>1. next = of \cup {n}
    BY <1>2, <1>3 DEF HeadSaid
  <2>2. \A k \in of : thread'[k] = thread[k]
    BY <1>2
  <2>3. (UNION {thread'[k].at : k \in next}) = (UNION {thread[k].at : k \in of}) \cup e.at
    BY <1>2, <2>1, <2>2
  <2> QED  BY <1>3, <2>3 DEF Announced
<1>4. CASE ~ HeadSaid(e, a)
  <2>1. next = of
    BY <1>2, <1>4 DEF HeadSaid
  <2>2. \A k \in of : thread'[k] = thread[k]
    BY <1>2
  <2>3. (UNION {thread'[k].at : k \in next}) = (UNION {thread[k].at : k \in of})
    BY <2>1, <2>2
  <2> QED  BY <1>4, <2>3 DEF Announced
<1> QED  BY <1>3, <1>4

LEMMA AnnouncedQuiet ==
    ASSUME UNCHANGED thread, NEW a
    PROVE  Announced(a)' = Announced(a)
BY DEF Announced

\* A step that leaves its branches and passes alone and announces nothing of its.
LEMMA KeptQuiet ==
    ASSUME NEW a \in Agent, KeptOf(a), Announced(a)' = Announced(a),
           local'[a] = local[a], head'[a] = head[a],
           \A s \in Slot : SlotOwner[s] = a => pass'[s] = pass[s]
    PROVE  KeptOf(a)'
BY DEF KeptOf

LEMMA SendQuiet ==
    ASSUME IInv, KeptOK, NEW e \in Envelope, e.kind # "head", Send(e), UNCHANGED gitVars
    PROVE  KeptOK'
<1>1. \A a \in Agent : Announced(a)' = Announced(a)
  BY AnnouncedMore DEF HeadSaid
<1>2. UNCHANGED <<local, head, pass>>
  BY DEF gitVars, repoVars
<1> QED  BY <1>1, <1>2, KeptQuiet DEF KeptOK

LEMMA OtherQuiet ==
    ASSUME KeptOK, UNCHANGED <<thread, local, head, pass>>
    PROVE  KeptOK'
BY AnnouncedQuiet, KeptQuiet DEF KeptOK

LEMMA SwitchKept ==
    ASSUME IInv, KeptOK, NEW c \in Restless, NEW b \in {Main, Own}, Switch(c, b)
    PROVE  KeptOK'
<1>1. /\ UNCHANGED <<thread, local, pass>> /\ head' = [head EXCEPT ![c] = b]
  BY DEF Switch, threadVars
<1>2. ASSUME NEW a \in Agent \ Restless
      PROVE  KeptOf(a)'
  <2>1. head'[a] = head[a]
    BY <1>1 DEF IInv, GitTypes
  <2> QED  BY <1>1, <2>1, AnnouncedQuiet, KeptQuiet DEF KeptOK
<1> QED  BY <1>2 DEF KeptOK

\* A step of a pass that announces nothing: what it leaves in its slot and on the
\* branches of its shell.
PassKept(s, record) ==
    LET a == SlotOwner[s]
    IN  /\ Then(s, record)
        /\ head'[a] \in {Main, Own} /\ (head[a] = Own => head'[a] = Own)
        /\ local[a][Own] \subseteq local'[a][Own] \/ head[a] = Main
        /\ record.made \subseteq local'[a][Own]
        /\ head'[a] = Main => record.made = {} /\ record.branch = Main /\ record.at # "commit"
        /\ \A d \in Agent \ {a} : local'[d] = local[d] /\ head'[d] = head[d]

LEMMA PassStep ==
    ASSUME IInv, KeptOK, NEW s \in Slot, NEW record, UNCHANGED thread,
           SlotOwner[s] \notin Restless => PassKept(s, record),
           \A d \in Agent \ {SlotOwner[s]} : local'[d] = local[d] /\ head'[d] = head[d],
           Then(s, record)
    PROVE  KeptOK'
<1>1. pass' = [pass EXCEPT ![s] = record] /\ pass \in [Slot -> Pass]
  BY DEF Then, IInv, GitTypes
<1>2. SlotOwner \in [Slot -> Agent]
  BY Constants
<1>3. ASSUME NEW a \in Agent \ Restless
      PROVE  KeptOf(a)'
  <2>1. KeptOf(a)
    BY DEF KeptOK
  <2>2. CASE a # SlotOwner[s]
    <3>1. \A t \in Slot : SlotOwner[t] = a => pass'[t] = pass[t]
      BY <1>1, <2>2
    <3> QED  BY <2>1, <2>2, <3>1, AnnouncedQuiet, KeptQuiet
  <2>3. CASE a = SlotOwner[s]
    <3>1. PassKept(s, record)
      BY <2>3
    <3>2. head[a] \in {Main, Own} /\ Main # Own
      BY <2>3, OwnerFacts, Constants
    <3>3. head[a] = Main \/ local[a][Own] \subseteq local'[a][Own]
      BY <2>3, <3>1 DEF PassKept
    <3>4. head'[a] = Main => head[a] = Main
      BY <2>3, <3>1, <3>2 DEF PassKept
    <3>5. Announced(a) \subseteq local'[a][Own] /\ (head'[a] = Main => Announced(a) = {})
      BY <2>1, <3>3, <3>4 DEF KeptOf
    <3>6. ASSUME NEW t \in Slot, SlotOwner[t] = a
          PROVE  /\ pass'[t].made \subseteq local'[a][Own]
                 /\ head'[a] = Main =>
                      pass'[t].made = {} /\ pass'[t].branch = Main /\ pass'[t].at # "commit"
      <4>1. CASE t = s
        BY <1>1, <2>3, <3>1, <4>1 DEF PassKept
      <4>2. CASE t # s
        <5>1. pass'[t] = pass[t]
          BY <1>1, <4>2
        <5> QED  BY <2>1, <3>3, <3>4, <3>6, <5>1 DEF KeptOf
      <4> QED  BY <4>1, <4>2
    <3> QED  BY <3>5, <3>6, AnnouncedQuiet DEF KeptOf
  <2> QED  BY <2>2, <2>3
<1> QED  BY <1>3 DEF KeptOK

LEMMA SyncKept ==
    ASSUME IInv, KeptOK, NEW s \in Slot, NEW mode \in Mode, syncOnce(s, mode)
    PROVE  KeptOK'
<1> DEFINE a == SlotOwner[s]
           next == [NoPass EXCEPT !.at = "fetch", !.mode = mode, !.mine = presence[a][a].claims]
<1>1. UNCHANGED <<thread, local, head>> /\ Then(s, next)
  BY DEF syncOnce, threadVars, repoVars
<1>2. next.made = {} /\ next.branch = Main /\ next.at # "commit"
  BY DEF NoPass
<1> HIDE DEF next
<1>3. PassKept(s, next)
  BY <1>1, <1>2, OwnerFacts DEF PassKept
<1> QED  BY <1>1, <1>3, PassStep

LEMMA FetchKept ==
    ASSUME IInv, KeptOK, NEW s \in Slot, Fetch(s)
    PROVE  KeptOK'
<1> DEFINE a == SlotOwner[s]
<1>1. UNCHANGED <<thread, local, head>>
  BY DEF Fetch, threadVars
<1>2. Then(s, [Read(s) EXCEPT !.at = "rebase"]) \/ Then(s, Decide(s, Read(s)))
  BY DEF Fetch, Read
<1>3. a \notin Restless => KeptOf(a)
  BY OwnerFacts DEF KeptOK
<1>4. ASSUME NEW record, Then(s, record), record.made \subseteq pass[s].made,
             record.branch = Main \/ record.branch = head[a],
             record.at = "commit" => head[a] = Own
      PROVE  KeptOK'
  <2>1. a \notin Restless => PassKept(s, record)
    <3>1. KeptOf(a) => PassKept(s, record)
      BY <1>1, <1>4, OwnerFacts, Constants DEF PassKept, KeptOf
    <3> QED  BY <1>3, <3>1
  <2> QED  BY <1>1, <1>4, <2>1, PassStep
<1>5. CASE Then(s, [Read(s) EXCEPT !.at = "rebase"])
  BY <1>4, <1>5, ReadHeld
<1>6. CASE Then(s, Decide(s, Read(s)))
  <2>1. /\ Decide(s, Read(s)).made = {} /\ Decide(s, Read(s)).branch = Main
        /\ Decide(s, Read(s)).at = "commit" => head[a] = Own
    BY ReadHeld, DecideHeld
  <2> QED  BY <1>4, <1>6, <2>1
<1> QED  BY <1>2, <1>5, <1>6

LEMMA RebaseKept ==
    ASSUME IInv, KeptOK, NEW s \in Slot, Rebase(s)
    PROVE  KeptOK'
<1> DEFINE a == SlotOwner[s]
<1>1. UNCHANGED <<thread, head>>
  BY DEF Rebase, threadVars
<1>2. Then(s, Decide(s, pass[s])) \/ Then(s, Done(s))
  BY DEF Rebase
<1>3. a \notin Restless => KeptOf(a)
  BY OwnerFacts DEF KeptOK
<1>4. /\ local[a][Own] \subseteq local'[a][Own]
      /\ \A d \in Agent \ {a} : local'[d] = local[d]
  <2>1. a \in Agent /\ head[a] \in {Main, Own} /\ Own \in {Main, Own}
    BY OwnerFacts
  <2>2. ASSUME NEW C \in SUBSET Commit, local[a][head[a]] \subseteq C,
               local' = [local EXCEPT ![a][head[a]] = C]
        PROVE  <1>4!:
    BY <2>1, <2>2, LocalMoves
  <2> QED  BY <2>2, RebaseLocal
<1>5. ASSUME NEW record, Then(s, record), record.made = {}, record.branch = Main,
             record.at = "commit" => pass[s].branch = Own
      PROVE  KeptOK'
  <2>1. a \notin Restless => PassKept(s, record)
    <3>1. KeptOf(a) => PassKept(s, record)
      BY <1>1, <1>4, <1>5, OwnerFacts, Constants DEF PassKept, KeptOf
    <3> QED  BY <1>3, <3>1
  <2> QED  BY <1>1, <1>4, <1>5, <2>1, PassStep
<1>6. CASE Then(s, Decide(s, pass[s]))
  <2>1. /\ Decide(s, pass[s]).made = {} /\ Decide(s, pass[s]).branch = Main
        /\ Decide(s, pass[s]).at = "commit" => pass[s].branch = Own
    BY PassHeld, DecideHeld
  <2> QED  BY <1>5, <1>6, <2>1
<1>7. CASE Then(s, Done(s))
  BY <1>5, <1>7, DoneHeld
<1> QED  BY <1>2, <1>6, <1>7

LEMMA CheckoutKept ==
    ASSUME IInv, KeptOK, NEW s \in Slot, Checkout(s)
    PROVE  KeptOK'
<1> DEFINE a == SlotOwner[s]
<1>1. UNCHANGED thread
  BY DEF Checkout, threadVars
<1>2. a \notin Restless => KeptOf(a)
  BY OwnerFacts DEF KeptOK
<1>3. CASE Then(s, Done(s)) /\ UNCHANGED <<local, head>>
  <2>1. PassKept(s, Done(s))
    BY <1>3, OwnerFacts, DoneHeld DEF PassKept
  <2> QED  BY <1>1, <1>3, <2>1, PassStep
<1>4. CASE /\ local' = [local EXCEPT ![a][Own] = Tip(a)] /\ head' = [head EXCEPT ![a] = Own]
           /\ Then(s, [pass[s] EXCEPT !.at = "commit"])
  <2>1. PICK C \in SUBSET Commit : C = local[a][head[a]] /\ C = Tip(a)
    BY BranchFacts DEF Tip
  <2>2. /\ local'[a][Own] = C /\ \A d \in Agent \ {a} : local'[d] = local[d]
    BY <1>4, <2>1, OwnerFacts, LocalMoves
  <2>3. head'[a] = Own /\ \A d \in Agent \ {a} : head'[d] = head[d]
    BY <1>4, OwnerFacts DEF IInv, GitTypes
  <2>4. local[a][Own] \subseteq local'[a][Own] \/ head[a] = Main
    BY <2>1, <2>2, OwnerFacts
  <2>5. PICK record : record = [pass[s] EXCEPT !.at = "commit"] /\ record.made = pass[s].made
    <3>1. "commit" \in Step
      BY DEF Step
    <3> QED  BY <3>1, StageHeld
  <2>6. KeptOf(a) => record.made \subseteq local'[a][Own]
    BY <2>4, <2>5 DEF KeptOf
  <2>7. KeptOf(a) => PassKept(s, record)
    BY <1>4, <2>2, <2>3, <2>4, <2>5, <2>6, Constants DEF PassKept
  <2> QED  BY <1>1, <1>2, <1>4, <2>2, <2>3, <2>5, <2>7, PassStep
<1> QED  BY <1>3, <1>4 DEF Checkout

LEMMA CommitKept ==
    ASSUME IInv, KeptOK, NEW s \in Slot, CommitPaths(s)
    PROVE  KeptOK'
<1> DEFINE a == SlotOwner[s]
<1>1. UNCHANGED <<thread, head>> /\ pass[s].at = "commit"
  BY DEF CommitPaths, threadVars, At
<1>2. a \notin Restless => KeptOf(a)
  BY OwnerFacts DEF KeptOK
<1>3. CASE Then(s, Done(s)) /\ UNCHANGED local
  <2>1. PassKept(s, Done(s))
    BY <1>1, <1>3, OwnerFacts, DoneHeld DEF PassKept
  <2> QED  BY <1>1, <1>3, <2>1, PassStep
<1>4. ASSUME NEW c \in Commit, NEW B \in SUBSET Commit, Commits(s, c, B)
      PROVE  KeptOK'
  <2>1. a \in Agent /\ head[a] \in {Main, Own}
    BY OwnerFacts
  <2>2. B = local[a][head[a]] \cup {c} /\ local' = [local EXCEPT ![a][head[a]] = B]
    BY <1>4 DEF Commits
  <2>6. local'[a][head[a]] = B /\ \A d \in Agent \ {a} : local'[d] = local[d]
    <3>1. local \in [Agent -> [{Main, Own} -> SUBSET Commit]]
      BY DEF IInv, GitTypes, Repos
    <3> QED  BY <2>1, <2>2, <3>1
  <2>3. PICK record : /\ Then(s, record) /\ record.made = {c}
                      /\ record.branch = pass[s].branch /\ record.at # "commit"
    BY <1>4 DEF Commits
  <2>4. KeptOf(a) => head[a] = Own
    BY <1>1, <2>1 DEF KeptOf
  <2>5. KeptOf(a) => PassKept(s, record)
    BY <1>1, <2>1, <2>2, <2>3, <2>4, <2>6, Constants DEF PassKept
  <2> QED  BY <1>1, <1>2, <2>3, <2>5, <2>6, PassStep
<1> QED  BY <1>3, <1>4, CommitFacts

LEMMA PushKept ==
    ASSUME IInv, KeptOK, NEW s \in Slot, Push(s)
    PROVE  KeptOK'
<1> DEFINE a == SlotOwner[s]
<1>1. UNCHANGED <<thread, local, head>> /\ Then(s, [pass[s] EXCEPT !.at = "announce"])
  BY DEF Push, threadVars
<1>2. a \notin Restless => KeptOf(a)
  BY OwnerFacts DEF KeptOK
<1>3. PICK record : /\ record = [pass[s] EXCEPT !.at = "announce"] /\ record.made = pass[s].made
                    /\ record.branch = pass[s].branch /\ record.at = "announce"
  <2>1. "announce" \in Step
    BY DEF Step
  <2> QED  BY <2>1, StageHeld
<1>4. KeptOf(a) => PassKept(s, record)
  BY <1>1, <1>3, OwnerFacts DEF PassKept, KeptOf
<1> QED  BY <1>1, <1>2, <1>3, <1>4, PassStep

LEMMA MergeKept ==
    ASSUME IInv, KeptOK, NEW s \in Slot, MergePeers(s)
    PROVE  KeptOK'
<1> DEFINE a == SlotOwner[s]
<1>1. UNCHANGED <<thread, head>> /\ Then(s, NoPass)
  BY DEF MergePeers, threadVars
<1>2. /\ local[a][Own] \subseteq local'[a][Own]
      /\ \A d \in Agent \ {a} : local'[d] = local[d]
  <2>1. a \in Agent /\ head[a] \in {Main, Own} /\ Own \in {Main, Own}
    BY OwnerFacts
  <2>2. ASSUME NEW C \in SUBSET Commit, local[a][head[a]] \subseteq C,
               local' = [local EXCEPT ![a][head[a]] = C]
        PROVE  <1>2!:
    BY <2>1, <2>2, LocalMoves
  <2> QED  BY <2>2, MergeLocal
<1>3. PassKept(s, NoPass)
  BY <1>1, <1>2, OwnerFacts, NoPassType DEF PassKept
<1> QED  BY <1>1, <1>2, <1>3, PassStep

LEMMA AnnounceKept ==
    ASSUME IInv, KeptOK, NEW s \in Slot, Announce(s)
    PROVE  KeptOK'
<1>1. PICK e \in Envelope : /\ Send(e) /\ e.kind = "head" /\ e.from = SlotOwner[s]
                            /\ e.at = pass[s].made
  BY AnnounceFacts
<1>2. Then(s, Done(s)) /\ UNCHANGED <<local, head>>
  BY DEF Announce, repoVars
<1>3. pass' = [pass EXCEPT ![s] = Done(s)] /\ pass \in [Slot -> Pass]
  BY <1>2 DEF Then, IInv, GitTypes
<1>4. ASSUME NEW a \in Agent \ Restless
      PROVE  KeptOf(a)'
  <2>1. KeptOf(a)
    BY DEF KeptOK
  <2>2. CASE a # SlotOwner[s]
    <3>1. Announced(a)' = Announced(a)
      BY <1>1, <2>2, AnnouncedMore DEF HeadSaid
    <3>2. \A t \in Slot : SlotOwner[t] = a => pass'[t] = pass[t]
      BY <1>3, <2>2
    <3> QED  BY <1>2, <2>1, <3>1, <3>2, KeptQuiet
  <2>3. CASE a = SlotOwner[s]
    <3>1. Announced(a)' = Announced(a) \cup pass[s].made
      BY <1>1, <2>3, AnnouncedMore DEF HeadSaid
    <3>2. Announced(a)' \subseteq local[a][Own] /\ (head[a] = Main => Announced(a)' = {})
      BY <2>1, <2>3, <3>1 DEF KeptOf
    <3>3. ASSUME NEW t \in Slot, SlotOwner[t] = a
          PROVE  /\ pass'[t].made \subseteq local[a][Own]
                 /\ head[a] = Main =>
                      pass'[t].made = {} /\ pass'[t].branch = Main /\ pass'[t].at # "commit"
      <4>1. CASE t = s
        BY <1>3, <4>1, DoneHeld
      <4>2. CASE t # s
        BY <1>3, <2>1, <3>3, <4>2 DEF KeptOf
      <4> QED  BY <4>1, <4>2
    <3> QED  BY <1>2, <3>2, <3>3 DEF KeptOf
  <2> QED  BY <2>2, <2>3
<1> QED  BY <1>4 DEF KeptOK

LEMMA NextKeepsKept == IInv /\ KeptOK /\ [Next]_vars => KeptOK'
<1> SUFFICES ASSUME IInv, KeptOK, [Next]_vars PROVE KeptOK'
  OBVIOUS
<1>1. CASE PushMain \/ UNCHANGED vars
  BY <1>1, OtherQuiet DEF PushMain, vars, threadVars, gitVars, repoVars
<1>2. ASSUME NEW a \in Agent,
             \/ Ask(a) \/ Land(a) \/ Open(a) \/ Hear(a) \/ Break(a) \/ Restream(a)
             \/ \E f \in late[a] : LateLand(a, f) \/ LateFail(a, f)
      PROVE  KeptOK'
  <2>1. UNCHANGED <<thread, local, head, pass>>
    BY <1>2 DEF Ask, Land, Open, Hear, Break, Restream, LateLand, LateFail, gitVars, repoVars
  <2> QED  BY <2>1, OtherQuiet
<1>3. ASSUME NEW a \in Agent, NEW globs \in SUBSET Glob, Claim(a, globs) \/ Release(a, globs)
      PROVE  KeptOK'
  <2>1. PICK e \in Envelope : Send(e) /\ e.kind # "head" /\ UNCHANGED gitVars
    BY <1>3, NoticeType DEF Claim, Release
  <2> QED  BY <2>1, SendQuiet
<1>4. ASSUME NEW a \in Human, (\E p \in Path : Edit(a, p)) \/ Resolve(a)
      PROVE  KeptOK'
  BY <1>4, OtherQuiet DEF Edit, Resolve, threadVars
<1>5. ASSUME NEW a \in Restless, NEW b \in {Main, Own}, Switch(a, b)
      PROVE  KeptOK'
  BY <1>5, SwitchKept
<1>6. ASSUME NEW s \in Slot, NEW mode \in Mode, syncOnce(s, mode)
      PROVE  KeptOK'
  BY <1>6, SyncKept
<1>7. ASSUME NEW s \in Slot,
             Fetch(s) \/ Rebase(s) \/ Checkout(s) \/ CommitPaths(s) \/ Push(s) \/ Announce(s) \/ MergePeers(s)
      PROVE  KeptOK'
  BY <1>7, FetchKept, RebaseKept, CheckoutKept, CommitKept, PushKept, AnnounceKept, MergeKept
<1> QED  BY <1>1, <1>2, <1>3, <1>4, <1>5, <1>6, <1>7 DEF Next

----------------------------------------------------------------------------
\* The thread, the streams, what each shell shows, the repositories and the passes
\* keep their types.
THEOREM TypeCorrect == Spec => []TypeOK
<1>1. IInv => TypeOK
  BY InvImplies
<1> QED  BY Invariance, <1>1, PTL

\* Presence is derived: through lost connections, rows handed on twice, the answers
\* of abandoned runs and replays into a list that was out of order, a shell to which
\* all came in order shows the fold of the thread as far as it has it.
THEOREM PresenceIsFolded == Spec => []PresenceIsTheThread
<1>1. IInv => PresenceIsTheThread
  BY InvImplies
<1> QED  BY Invariance, <1>1, PTL

\* Whatever the human edits while passes run, and however far a shell is behind, a
\* pass commits only what its agent claimed: a file, or a new directory with all
\* that is new in it.
THEOREM OnlyClaimedCommits == Spec => []OnlyClaimedRides
<1>1. IInv => OnlyClaimedRides
  BY InvImplies
<1> QED  BY Invariance, <1>1, PTL

\* However many passes of a shell overlap, a commit that was announced stays on its
\* agent's own branch as long as the human there does not switch branches.
THEOREM AnnouncedIsKept == Spec => []WorkIsKept
<1>1. KeptOK => WorkIsKept
  BY DEF KeptOK, KeptOf, WorkIsKept
<1>2. IInv /\ KeptOK /\ [Next]_vars => KeptOK'
  BY NextKeepsKept
<1> QED  BY Invariance, InitKept, <1>1, <1>2, PTL DEF Spec

=============================================================================
