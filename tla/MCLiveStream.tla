---------------------------- MODULE MCLiveStream ----------------------------
(* Instances of LiveStream for TLC. *)
EXTENDS LiveStream

CONSTANTS alice, bob, shell, second, watcher

\* Two shells of different agents, and `watch' in a terminal of the second.
ViewerOf == [l \in Loop |-> IF l = shell THEN alice ELSE bob]
=============================================================================
