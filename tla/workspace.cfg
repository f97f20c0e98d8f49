CONSTANTS
  alice = alice
  bob = bob
  p = p
  q = q
  r = r
  src = src
  lib = lib
  star = star
  deep = deep
  first = first
  second = second
  peer = peer
  Agent = {alice, bob}
  Path = {p, q, r}
  Base = {r}
  Dir = {src, lib}
  Holds <- HoldsOf
  Glob = {star}
  Matches <- MatchesOf
  Slot = {first, second, peer}
  SlotOwner <- OwnerOf
  Modes <- ModesOf
  Human = {alice, bob}
  Restless = {bob}
  MaxCommits = 2
  MaxNotices = 3
  MaxPulls = 1
  MaxBreaks = 2
SPECIFICATION MCSpec
SYMMETRY Symmetry
INVARIANT TypeOK
INVARIANT PresenceIsTheThread
INVARIANT OnlyClaimedRides
INVARIANT WorkIsKept
CHECK_DEADLOCK FALSE
