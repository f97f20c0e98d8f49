---------------------------- MODULE MCWorkspace ----------------------------
(* Instances of Workspace for TLC. *)
EXTENDS Workspace

CONSTANTS alice, bob, p, q, r, src, lib, star, deep, first, second, peer

\* src/p, src/lib/q and r, and the globs src/* and src/lib/*.  A shell's src/* matches
\* the directory when git lists it, and of the files src/p alone.
HoldsOf == [d \in Dir |-> IF d = src THEN {p, q} \cap Path ELSE {q} \cap Path]
MatchesOf == [g \in Glob |-> IF g = star THEN {src, p} \cap Entry ELSE {lib, q} \cap Entry]

\* Two passes of Alice's shell, and one of Bob's.  His is in any mode.
OwnerOf == [s \in Slot |-> IF s = peer THEN bob ELSE alice]
ModesOf == [s \in Slot |-> IF s = peer THEN Mode ELSE {"auto"}]

AutoOnly == [s \in Slot |-> {"auto"}]
=============================================================================
