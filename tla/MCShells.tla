------------------------------ MODULE MCShells ------------------------------
(* Three instances of Workspace in one run.  Their product is beyond TLC, and the *)
(* questions they are for do not need it. *)
EXTENDS MCWorkspace, TLC

\* The instance that a behaviour follows, chosen at the start.
VARIABLE instance

Idle(slots) == \A s \in slots : pass[s] = NoPass
Clean(a) == dirty[a] = {} /\ local[a][Own] = {} /\ a \notin busy
Deaf(a) == stream[a] = [at |-> "live", cursor |-> 0, place |-> 0]

\* Alice's shell follows a thread on which both speak; no git.
StreamOnly ==
    /\ Idle(Slot) /\ \A a \in Agent : Clean(a)
    /\ origin[Main] = {} /\ Deaf(bob)

\* A pass of each of two shells, beside Bob's human.
TwoShells ==
    /\ breaks = 0 /\ Notices <= 1 /\ Cardinality(made) <= 1
    /\ Idle({second}) /\ dirty[alice] = {} /\ r \notin dirty[bob]

\* Two overlapping passes of Alice's shell, beside its human.
OneShell ==
    /\ breaks = 0 /\ Notices <= 2
    /\ Idle({peer}) /\ Clean(bob) /\ Deaf(bob) /\ q \notin dirty[alice]
    /\ \A i \in DOMAIN thread : thread[i].from = alice

Within ==
    CASE instance = "stream only" -> StreamOnly
      [] instance = "two shells"  -> TwoShells
      [] instance = "one shell"   -> OneShell

MCInit == Init /\ instance \in {"stream only", "two shells", "one shell"}
MCNext == Next /\ instance' = instance /\ Within'
MCSpec == MCInit /\ [][MCNext]_<<vars, instance>>
Symmetry == Permutations({first, second})
=============================================================================
