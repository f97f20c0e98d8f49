----------------------------- MODULE Workspace -----------------------------
(***************************************************************************)
(* The shells of a pairing in one repository: the claims and branch heads   *)
(* they announce on the thread, the stream that brings the thread back to   *)
(* each of them, and the git side of cowork, syncOnce and mergePeers, run   *)
(* by a timer and by commands beside the human's own git.                   *)
(*                                                                         *)
(* A commit is a record of who made it and what it touched; a branch is    *)
(* the set of commits on it, so a rebase or a merge is a union and a push   *)
(* is fast-forward when the remote branch is a subset.  What git status     *)
(* lists, and a pass adds and commits, is an entry: a file, or a directory  *)
(* in which git tracks nothing yet, for everything in it.                   *)
(***************************************************************************)
EXTENDS Integers, FiniteSets, Sequences, SequencesExt

CONSTANTS
    Agent,
    Path,        \* files
    Base,        \* those the repository has from the start
    Dir, Holds,  \* Holds[d]: the files in a directory, or below it
    Glob,
    Matches,     \* Matches[g]: the entries matchGlob accepts
    Slot,        \* passes that can be under way at once
    SlotOwner,   \* SlotOwner[s]: the agent whose shell runs the pass
    Modes,       \* Modes[s]: the modes its shell is in
    Human,       \* bound: the agents whose human edits meanwhile
    Restless,    \* bound: those whose human also switches branches
    MaxCommits,  \* bound: commits made by passes
    MaxNotices,  \* bound: claims and releases sent
    MaxPulls,    \* bound: commits others put on the remote main
    MaxBreaks    \* bound: streams lost, failed or started anew

Entry == Path \cup Dir

ASSUME WorkspaceAssumption ==
    /\ Base \subseteq Path /\ Path \cap Dir = {}
    /\ Holds \in [Dir -> SUBSET Path] /\ Matches \in [Glob -> SUBSET Entry]
    /\ SlotOwner \in [Slot -> Agent] /\ Modes \in [Slot -> SUBSET {"plan", "auto-sync", "auto"}]
    /\ Restless \subseteq Human /\ Human \subseteq Agent
    /\ {MaxCommits, MaxNotices, MaxPulls, MaxBreaks} \subseteq Nat

Main == "main"
Own == "own"
Team == "team"   \* whoever else pushes to main

\* An agent's remote branch has a name of its own: inzo/<agent>.
ASSUME WorkspaceBranches == {Main, Team} \cap Agent = {}

VARIABLES
    thread,    \* every envelope sent
    stream,    \* where each shell's run of useStream stands
    late,      \* what abandoned runs still await of the relay
    breaks,    \* streams lost, failed or started anew, so far
    presence,  \* each shell's fold over all that was handed to it
    seen,      \* history: the last row that was, and whether all came in order
    local,     \* local[a][b]: the commits on a's main and on its own branch
    head,      \* what a has checked out
    origin,    \* the remote: main, and the branch of each agent
    tracked,   \* each repository's remote-tracking branches
    dirty,     \* files with uncommitted changes, new ones included
    busy,      \* repositories in the middle of a rebase or merge
    pass,      \* the passes under way
    made,      \* history: every commit made by a pass
    claimed    \* history: every glob an agent ever claimed

streamVars == <<stream, late, breaks, presence, seen>>
repoVars == <<local, head, tracked, dirty, busy>>
gitVars == <<repoVars, origin, pass, made>>
threadVars == <<thread, streamVars>>
vars == <<threadVars, gitVars, claimed>>

Commit == [by : Agent \cup {Team}, n : Nat, files : SUBSET Path]
NoHead == [at |-> {}, files |-> {}]
Member == [claims : SUBSET Glob, head : [at : SUBSET Commit, files : SUBSET Entry]]
Unseen == [claims |-> {}, head |-> NoHead]
Envelope ==
    [kind : {"claim", "release", "head"}, from : Agent,
     globs : SUBSET Glob, files : SUBSET Entry, at : SUBSET Commit]

\* place: how long the thread was when a run asked for it, or where its live
\* stream is.
Stream ==
    [at : {"waiting", "asking", "replayed", "live"},
     cursor : 0 .. Len(thread), place : 0 .. Len(thread)]
Fetching == [from : 0 .. Len(thread), place : 0 .. Len(thread), run : 0 .. MaxBreaks]

\* What a pass does: a command in `plan' mode stops at the fetch, the timer in
\* `auto-sync' does not push, and in `auto' it pushes and merges.  Any other
\* command commits and pushes: that is `auto' with nothing it could merge.
Mode == {"plan", "auto-sync", "auto"}

Step == {"idle", "fetch", "rebase", "checkout", "commit", "push", "announce", "merge"}
Pass ==
    [at : Step, mode : Mode, mine : SUBSET Glob,
     branch : {Main, Own}, dirty : SUBSET Entry, paths : SUBSET Entry, made : SUBSET Commit]
NoPass ==
    [at |-> "idle", mode |-> "plan", mine |-> {}, branch |-> Main, dirty |-> {}, paths |-> {},
     made |-> {}]

TypeOK ==
    /\ thread \in Seq(Envelope)
    /\ stream \in [Agent -> Stream] /\ late \in [Agent -> SUBSET Fetching]
    /\ breaks \in 0 .. MaxBreaks
    /\ presence \in [Agent -> [Agent -> Member]]
    /\ seen \in [Agent -> [top : 0 .. Len(thread), whole : BOOLEAN]]
    /\ local \in [Agent -> [{Main, Own} -> SUBSET Commit]]
    /\ head \in [Agent -> {Main, Own}]
    /\ origin \in [{Main} \cup Agent -> SUBSET Commit]
    /\ tracked \in [Agent -> [{Main} \cup Agent -> SUBSET Commit]]
    /\ dirty \in [Agent -> SUBSET Path] /\ busy \subseteq Agent
    /\ pass \in [Slot -> Pass]
    /\ made \subseteq Commit
    /\ claimed \in [Agent -> SUBSET Glob]

\* The shells run, and nothing was said yet.
Init ==
    /\ thread = <<>>
    /\ stream = [a \in Agent |-> [at |-> "live", cursor |-> 0, place |-> 0]]
    /\ late = [a \in Agent |-> {}] /\ breaks = 0
    /\ presence = [a \in Agent |-> [b \in Agent |-> Unseen]]
    /\ seen = [a \in Agent |-> [top |-> 0, whole |-> TRUE]]
    /\ local = [a \in Agent |-> [b \in {Main, Own} |-> {}]]
    /\ head = [a \in Agent |-> Main]
    /\ origin = [b \in {Main} \cup Agent |-> {}]
    /\ tracked = [a \in Agent |-> [b \in {Main} \cup Agent |-> {}]]
    /\ dirty = [a \in Agent |-> {}] /\ busy = {}
    /\ pass = [s \in Slot |-> NoPass]
    /\ made = {}
    /\ claimed = [a \in Agent |-> {}]

----------------------------------------------------------------------------
\* Seeded defects: each is a plausible slip in the definition it stands in for.

Everything(entries, claims) == entries
AsListed(a, entries) == entries
FromMain(a) == local[a][Main]
AfterNext(from, upto) == SubSeq(thread, from + 2, upto)

----------------------------------------------------------------------------
\* The thread, and what a shell makes of it.

\* One envelope in foldPresence.
Apply(view, e) ==
    CASE e.kind = "claim"   -> [view EXCEPT ![e.from].claims = @ \cup e.globs]
      [] e.kind = "release" -> [view EXCEPT ![e.from].claims = IF e.globs = {} THEN {} ELSE @ \ e.globs]
      [] e.kind = "head"    -> [view EXCEPT ![e.from].head = [at |-> e.at, files |-> e.files]]

foldPresence(view, envelopes) == FoldLeft(Apply, view, envelopes)
Nobody == [b \in Agent |-> Unseen]

Send(e) ==
    /\ thread' = Append(thread, e)
    /\ UNCHANGED streamVars

Notices == Cardinality({i \in DOMAIN thread : thread[i].kind # "head"})
Notice(kind, a, globs) == [kind |-> kind, from |-> a, globs |-> globs, files |-> {}, at |-> {}]

Claim(a, globs) ==
    /\ Notices < MaxNotices /\ globs # {}
    /\ Send(Notice("claim", a, globs))
    /\ claimed' = [claimed EXCEPT ![a] = @ \cup globs]
    /\ UNCHANGED gitVars

\* /release, and the end of /handoff: no glob means all of them.
Release(a, globs) ==
    /\ Notices < MaxNotices
    /\ Send(Notice("release", a, globs))
    /\ UNCHANGED <<gitVars, claimed>>

----------------------------------------------------------------------------
\* The stream of a shell: useStream, and onMessage, which appends every row it is
\* handed to one list that is never cleared and shows the fold of it.

\* The rows of the thread after a cursor, as far as it went.
Rows(from, upto) == SubSeq(thread, from + 1, upto)

Show(a, rows, last, whole) ==
    /\ presence' = [presence EXCEPT ![a] = foldPresence(@, rows)]
    /\ seen' = [seen EXCEPT ![a] = [top |-> IF last > @.top THEN last ELSE @.top, whole |-> whole]]

MoveTo(a, at, cursor, place) ==
    stream' = [stream EXCEPT ![a] = [at |-> at, cursor |-> cursor, place |-> place]]

Ask(a) ==
    /\ stream[a].at = "waiting"
    /\ MoveTo(a, "asking", stream[a].cursor, Len(thread))
    /\ UNCHANGED <<thread, late, breaks, presence, seen, gitVars, claimed>>

\* The relay answers at some time after it was asked.  A replay from the start makes
\* the order whole again, unless a later row is folded already.
Land(a) ==
    /\ stream[a].at = "asking"
    /\ \E upto \in stream[a].place .. Len(thread) :
         /\ MoveTo(a, "replayed", upto, stream[a].place)
         /\ Show(a, Rows(stream[a].cursor, upto), upto,
                 seen[a].whole \/ (stream[a].cursor = 0 /\ seen[a].top <= upto))
    /\ UNCHANGED <<thread, late, breaks, gitVars, claimed>>

\* subscribe: what is sent from now on comes over the stream.
Open(a) ==
    /\ stream[a].at = "replayed"
    /\ MoveTo(a, "live", stream[a].cursor, Len(thread))
    /\ UNCHANGED <<thread, late, breaks, presence, seen, gitVars, claimed>>

\* Own messages come back like everybody else's.
Hear(a) ==
    LET next == stream[a].place + 1
    IN  /\ stream[a].at = "live" /\ next <= Len(thread)
        /\ MoveTo(a, "live", next, next)
        /\ Show(a, <<thread[next]>>, next, seen[a].whole /\ stream[a].cursor = stream[a].place)
        /\ UNCHANGED <<thread, late, breaks, gitVars, claimed>>

CountBreak == breaks < MaxBreaks /\ breaks' = breaks + 1

\* A request fails or the connection is lost: the loop backs off and asks again.
Break(a) ==
    /\ stream[a].at # "waiting" /\ CountBreak
    /\ MoveTo(a, "waiting", stream[a].cursor, 0)
    /\ UNCHANGED <<thread, late, presence, seen, gitVars, claimed>>

\* A new credential or mode is a new api and so a new run, from cursor 0.  The old
\* one is told to stop, but api.messages is neither cancelled nor looked at again.
Restream(a) ==
    /\ CountBreak
    /\ MoveTo(a, "waiting", 0, 0)
    /\ late' = [late EXCEPT ![a] = IF stream[a].at # "asking" THEN @ ELSE
                   @ \cup {[from |-> stream[a].cursor, place |-> stream[a].place, run |-> breaks]}]
    /\ UNCHANGED <<thread, presence, seen, gitVars, claimed>>

\* The answer to an abandoned run: its rows are handed on all the same.
LateLand(a, f) ==
    /\ f \in late[a] /\ late' = [late EXCEPT ![a] = @ \ {f}]
    /\ \E upto \in f.place .. Len(thread) :
         Show(a, Rows(f.from, upto), upto, seen[a].whole /\ upto = f.from)
    /\ UNCHANGED <<thread, stream, breaks, gitVars, claimed>>

LateFail(a, f) ==
    /\ f \in late[a] /\ late' = [late EXCEPT ![a] = @ \ {f}]
    /\ UNCHANGED <<thread, stream, breaks, presence, seen, gitVars, claimed>>

----------------------------------------------------------------------------
\* The human at the same repository, and the rest of the team.

FilesOf(commits) == UNION {c.files : c \in commits}

\* The files git tracks on a branch.
Tree(a, b) == Base \cup FilesOf(local[a][b])

Edit(a, p) ==
    /\ p \notin dirty[a]
    /\ dirty' = [dirty EXCEPT ![a] = @ \cup {p}]
    /\ UNCHANGED <<threadVars, local, head, tracked, busy, origin, pass, made, claimed>>

\* Refused when it would overwrite or remove something uncommitted.
Switch(a, b) ==
    /\ a \notin busy /\ head[a] # b /\ (b = Own => local[a][Own] # {})
    /\ \A p \in dirty[a] : p \in Tree(a, b) <=> p \in Tree(a, head[a])
    /\ head' = [head EXCEPT ![a] = b]
    /\ UNCHANGED <<threadVars, local, tracked, dirty, busy, origin, pass, made, claimed>>

Resolve(a) ==
    /\ a \in busy
    /\ busy' = busy \ {a}
    /\ UNCHANGED <<threadVars, local, head, tracked, dirty, origin, pass, made, claimed>>

PushMain ==
    /\ Cardinality(origin[Main]) < MaxPulls
    /\ origin' = [origin EXCEPT ![Main] = @ \cup {[by |-> Team, n |-> Cardinality(@), files |-> {}]}]
    /\ UNCHANGED <<threadVars, repoVars, pass, made, claimed>>

----------------------------------------------------------------------------
\* git status, without -uall: of a directory in which nothing is tracked it lists
\* the directory, the outermost such, and not what is in it.

NewDirs(a) == {d \in Dir : Holds[d] \cap Tree(a, head[a]) = {}}

Listed(a, p) ==
    LET new == {d \in NewDirs(a) : p \in Holds[d]}
    IN  IF new = {} THEN {p} ELSE {d \in new : \A e \in new : Holds[e] \subseteq Holds[d]}

status(a) == UNION {Listed(a, p) : p \in dirty[a]}

Below(entry) == IF entry \in Dir THEN Holds[entry] ELSE {entry}

collisions(entries, claims) == {e \in entries : \E g \in claims : e \in Matches[g]}

----------------------------------------------------------------------------
\* One pass.  Each step is one git command, or the ones before it that only read.

At(s, step) == pass[s].at = step
Then(s, record) == pass' = [pass EXCEPT ![s] = record]
Done(s) ==
    IF pass[s].mode = "auto" THEN [NoPass EXCEPT !.at = "merge"] ELSE NoPass

\* A pass keeps the claims its shell showed when it began.
syncOnce(s, mode) ==
    /\ mode \in Modes[s]
    /\ At(s, "idle") /\ SlotOwner[s] \notin busy
    /\ Then(s, [NoPass EXCEPT !.at = "fetch", !.mode = mode,
                              !.mine = presence[SlotOwner[s]][SlotOwner[s]].claims])
    /\ UNCHANGED <<threadVars, repoVars, origin, made, claimed>>

RemoteOf(a, b) == IF b = Main THEN Main ELSE a

\* From the second status on: what is left to do with it.
Decide(s, record) ==
    LET paths == collisions(record.dirty, record.mine)
    IN  IF record.mode = "plan" \/ paths = {} THEN Done(s)
        ELSE [NoPass EXCEPT !.at = IF record.branch = Own THEN "commit" ELSE "checkout",
                            !.mode = record.mode, !.paths = paths]

\* fetch --all --prune, and the status after it.
Fetch(s) ==
    LET a == SlotOwner[s]
        b == head[a]
        read == [pass[s] EXCEPT !.branch = b, !.dirty = status(a)]
        behind == ~ (origin[RemoteOf(a, b)] \subseteq local[a][b])
    IN  /\ At(s, "fetch")
        /\ tracked' = [tracked EXCEPT ![a] = origin]
        /\ Then(s, IF behind THEN [read EXCEPT !.at = "rebase"] ELSE Decide(s, read))
        /\ UNCHANGED <<threadVars, local, head, dirty, busy, origin, made, claimed>>

\* git refuses to rebase over changes to tracked files, or onto commits that would
\* overwrite new ones; other new files do not stop it, though the status counts
\* them.  A conflict leaves the rebase for the human.
Rebase(s) ==
    LET a == SlotOwner[s]
        b == head[a]
        upstream == tracked[a][RemoteOf(a, pass[s].branch)]
        refused == \/ a \in busy
                   \/ dirty[a] \cap (Tree(a, b) \cup FilesOf(upstream)) # {}
    IN  /\ At(s, "rebase")
        /\ \/ /\ ~ refused
              /\ local' = [local EXCEPT ![a][b] = @ \cup upstream]
              /\ Then(s, Decide(s, pass[s]))
              /\ UNCHANGED busy
           \/ /\ refused
              /\ Then(s, Done(s))
              /\ UNCHANGED <<local, busy>>
           \/ /\ ~ refused /\ ~ (local[a][b] \subseteq upstream)
              /\ busy' = busy \cup {a}
              /\ Then(s, Done(s))
              /\ UNCHANGED local
        /\ UNCHANGED <<threadVars, head, tracked, dirty, origin, made, claimed>>

\* checkout -B: the branch is created, or moved, to where HEAD is.
Tip(a) == local[a][head[a]]

Checkout(s) ==
    LET a == SlotOwner[s]
    IN  /\ At(s, "checkout")
        /\ IF a \in busy
           THEN Then(s, Done(s)) /\ UNCHANGED <<local, head>>
           ELSE /\ local' = [local EXCEPT ![a][Own] = Tip(a)]
                /\ head' = [head EXCEPT ![a] = Own]
                /\ Then(s, [pass[s] EXCEPT !.at = "commit"])
        /\ UNCHANGED <<threadVars, tracked, dirty, busy, origin, made, claimed>>

\* add and commit name the entries, and git takes every change below them.
Taken(a, entries) == dirty[a] \cap UNION {Below(e) : e \in entries}

\* An entry that is not there any more fails the add, and with it the commit.
Present(a, entries) ==
    \A e \in entries : Below(e) \cap (dirty[a] \cup Tree(a, head[a])) # {}

CommitPaths(s) ==
    LET a == SlotOwner[s]
        files == Taken(a, pass[s].paths)
        c == [by |-> a, n |-> Cardinality(made), files |-> files]
    IN  /\ At(s, "commit")
        /\ IF a \in busy \/ ~ Present(a, pass[s].paths) \/ files = {}
           THEN Then(s, Done(s)) /\ UNCHANGED <<local, dirty, made>>
           ELSE /\ Cardinality(made) < MaxCommits
                /\ made' = made \cup {c}
                /\ local' = [local EXCEPT ![a][head[a]] = @ \cup {c}]
                /\ dirty' = [dirty EXCEPT ![a] = @ \ files]
                /\ Then(s, [pass[s] EXCEPT !.made = {c},
                              !.at = IF pass[s].mode = "auto-sync" THEN "announce" ELSE "push"])
        /\ UNCHANGED <<threadVars, head, tracked, busy, origin, claimed>>

\* There is no force option: a remote branch that is not behind refuses the push.
\* Refused or not, the pass goes on to announce its commit.
Push(s) ==
    LET a == SlotOwner[s]
    IN  /\ At(s, "push")
        /\ IF origin[a] \subseteq local[a][Own]
           THEN /\ origin' = [origin EXCEPT ![a] = local[a][Own]]
                /\ tracked' = [tracked EXCEPT ![a][a] = local[a][Own]]
           ELSE UNCHANGED <<origin, tracked>>
        /\ Then(s, [pass[s] EXCEPT !.at = "announce"])
        /\ UNCHANGED <<threadVars, local, head, dirty, busy, made, claimed>>

Announce(s) ==
    /\ At(s, "announce")
    /\ Send([kind |-> "head", from |-> SlotOwner[s], globs |-> {},
             files |-> pass[s].paths, at |-> pass[s].made])
    /\ Then(s, Done(s))
    /\ UNCHANGED <<repoVars, origin, made, claimed>>

\* Peers whose last announced files miss the claims this shell shows now.
Mergeable(a) ==
    {b \in Agent \ {a} : /\ presence[a][b].head # NoHead
                         /\ collisions(presence[a][b].head.files, presence[a][a].claims) = {}}

\* mergeBranch of origin/<their branch>, as last fetched, into whatever is
\* checked out; a conflict is aborted, and git refuses to overwrite changes.
MergePeers(s) ==
    LET a == SlotOwner[s]
        brought(merged) == UNION {tracked[a][b] : b \in merged}
    IN  /\ At(s, "merge")
        /\ \E merged \in SUBSET (IF a \in busy THEN {} ELSE Mergeable(a)) :
             /\ dirty[a] \cap FilesOf(brought(merged) \ local[a][head[a]]) = {}
             /\ local' = [local EXCEPT ![a][head[a]] = @ \cup brought(merged)]
        /\ Then(s, NoPass)
        /\ UNCHANGED <<threadVars, head, tracked, dirty, busy, origin, made, claimed>>

Next ==
    \/ PushMain
    \/ \E a \in Agent : Ask(a) \/ Land(a) \/ Open(a) \/ Hear(a) \/ Break(a) \/ Restream(a)
    \/ \E a \in Agent : \E f \in late[a] : LateLand(a, f) \/ LateFail(a, f)
    \/ \E a \in Agent, globs \in SUBSET Glob : Claim(a, globs) \/ Release(a, globs)
    \/ \E a \in Human, p \in Path : Edit(a, p)
    \/ \E a \in Restless, b \in {Main, Own} : Switch(a, b)
    \/ \E a \in Human : Resolve(a)
    \/ \E s \in Slot, mode \in Mode : syncOnce(s, mode)
    \/ \E s \in Slot :
         Fetch(s) \/ Rebase(s) \/ Checkout(s) \/ CommitPaths(s) \/ Push(s) \/ Announce(s) \/ MergePeers(s)

Spec == Init /\ [][Next]_vars

----------------------------------------------------------------------------
\* Presence is derived from the thread through lost connections, repeated rows and
\* new runs of the stream.  What a shell shows is the fold of the thread as far as
\* it was handed on, except after a row fell between a replay and the subscription
\* or the answer to an abandoned run came late; and then until a run replays it
\* from the start, into the very list that was out of order.
PresenceIsTheThread ==
    \A a \in Agent : seen[a].whole =>
        presence[a] = foldPresence(Nobody, SubSeq(thread, 1, seen[a].top))

\* A pass commits nothing its agent did not claim, whatever else is dirty and
\* whatever is edited or released while it runs: not a change to a file the
\* repository has, and of new files those that were claimed themselves or are in a
\* directory that was.
OnlyClaimedRides ==
    \A c \in made : \A p \in c.files : \E g \in claimed[c.by] :
        \/ p \in Matches[g]
        \/ p \notin Base /\ \E d \in Dir \cap Matches[g] : p \in Holds[d]

\* A commit that was announced can still be reached from the agent's own branch,
\* although checkout -B moves it and the timer starts passes that overlap, as long
\* as the agent's human does not switch branches.
Announced(a) ==
    UNION {thread[i].at : i \in {k \in DOMAIN thread : thread[k].kind = "head" /\ thread[k].from = a}}

WorkIsKept == \A a \in Agent \ Restless : Announced(a) \subseteq local[a][Own]

----------------------------------------------------------------------------
\* What the documentation says and the shell does not always do.

\* envelope.ts: "replaying the thread reconstructs it ... there is no state to get
\* out of sync": after a replay a shell shows what the thread says, as far as it
\* was replayed or further.
ReplayReconstructs ==
    \A a \in Agent : stream[a].at = "replayed" /\ late[a] = {} =>
        \E n \in stream[a].cursor .. Len(thread) :
            presence[a] = foldPresence(Nobody, SubSeq(thread, 1, n))

\* git.ts, commitPaths: "the shell only ever commits files you have claimed, so an
\* unrelated edit can't ride along".
OnlyClaimedFiles ==
    \A c \in made : \A p \in c.files : \E g \in claimed[c.by] : p \in Matches[g]

\* README.md, git modes: "merge of peer branches whose files miss your claims".
MergesMissClaims ==
    [][\A a \in Agent : \A c \in (local'[a][Main] \cup local'[a][Own])
                                 \ (local[a][Main] \cup local[a][Own]) :
          c \in made /\ c.by # a => collisions(c.files, presence[a][a].claims) = {}]_local

\* README.md, git modes: "never touch a branch that isn't yours".
MainIsNotTouched == \A a \in Agent : local[a][Main] \subseteq origin[Main]

\* A commit a pass made and announced can still be reached by some branch, whatever
\* the human does.
NoWorkLost ==
    \A a \in Agent :
        Announced(a) \subseteq (UNION {local[a][b] : b \in {Main, Own}}) \cup origin[a]
=============================================================================
