# Verification of inzo

inzo pairs two (and later more) coding agents of different people through a
relay. The agents exchange messages, agree on a plan that each human signs, and
report progress and usage. This directory holds TLA+ models of the parts whose
correctness depends on the order in which things happen, the TLC configurations
that check them, and proofs that TLAPS checks.

Paths below are relative to the repository; `relay`, `relay-cf`, `mcp-server` and
`cli` stand for `packages/<name>/src`.

## 1. The system

| part | state it keeps | operations | talks to |
|---|---|---|---|
| Node relay store (`relay/lib/store.ts`) | SQLite: codes, pairings, members, messages, plan, budget, usage; in memory: `planWaits` | create and join a pairing, invite, send, propose, approve, withdraw, revoke, report, purge | CredentialStore, AgentRun, event bus |
| CredentialStore, `credential.ts` | SQLite: issuer keys, principals, credentials, consent record; in memory: signing key, verification keys, revoked jtis | issue, attenuate, verify, revoke, rotate, prune, consent writers | store, auth |
| Consent (`consent.ts`) | none: a record and its verification | `isSatisfied`, `verifyConsentRecord` | both relays |
| Audit log (`audit.ts`) | hash-chained rows | append, list, verify | everything that changes state |
| Auth (`auth.ts`), replay guard | seen proofs, in memory | authenticate one request | every route |
| Failure limiter (`rateLimit.ts`) | failures per client | limit joins | join route |
| Event bus, SSE route | live subscribers | publish, subscribe | stream clients |
| AgentRun wait (`agentrun.ts`) | one sandbox per waiting plan, outside | begin, suspend, dispose | store (awaits) |
| relay-cf Worker (`index.ts`) | nothing | one handler per route, several RPCs each | Registry, PairingRoom |
| relay-cf Registry | codes, tokens, credentials, keys | as CredentialStore | Worker |
| relay-cf PairingRoom | one pairing: members, messages, plan, item status, consent, audit | as store | Worker, stream clients |
| Runway (`runway.ts`, usage and budget routes) | usage rows, one budget row | report, set budget, compute the runway | message log, event bus |
| MCP server | one session file: identity, credential, holder key | tools, renewal, run a peer's command | relay, Docker sandbox |
| Sandbox (`packages/sandbox`) | one container per command, a timer | run a command, kill it when it takes too long | Docker |
| CLI | session, stream cursor, presence, `PLAN.md` | shell commands, live stream, `watch`, plan file sync (not modelled, see section 5), git sync | relay, git |
| git | working tree, branches, the remote | what the shells and the humans run | CLI |

What is hard here: handlers of the Node relay interleave only at `await`, and two
of them (propose, approve) await an external service between reading and writing
a row; handlers of the cloud relay are several calls to two objects and can be
cut off in between; keys are rotated by another process; clients reconnect,
renew and act on what they read a moment ago; an answer to a stream that was given up
still arrives; a shell's git passes run command by command, and over one another, in a
working tree its human uses at the same time. `PROJECT.json` lists these hazards with
the lines where they bite.

## 2. Modules

| module | models | state and steps |
|---|---|---|
| `Consent` | `consent.ts` and the consent writers | operators only: a subject (text and version) stands for its hash, a credential for its holder key, a signature for the pair of key and subject |
| `PlanAgreement` | PROTOCOL.md §6.3, the abstract specification | current text, who approved it, whether it is locked, required and signing principals |
| `RelayPlan` | the Node relay's plan, approvals, membership and revocation | rows as variables; one action per handler segment between awaits; a request under way is a record naming the await it is parked at and the locals it will use |
| `MCRelayPlan` | instances | |
| `RelayPlanProofs` | theorems about `RelayPlan`, the refinement of `PlanAgreement` among them | |
| `CloudPairing` | the Worker, Registry and PairingRoom of the cloud relay | rows of both objects; one action per RPC; a handler between two RPCs is a record naming the next one |
| `MCCloudPairing` | instances | |
| `CloudPairingProofs` | theorems about `CloudPairing` | |
| `Credentials` | `credential.ts`, `CredentialStore`, the registry's port of it, the rotate-key command, the MCP server's renewal | the tables `issuer_keys` and `credentials`, what the server mirrors of them in memory, the clock in seconds; one action per operation, an attenuation in two steps |
| `MCCredentials` | instances | |
| `CredentialsProofs` | theorems about `Credentials` | |
| `PairingCodes` | minting, joining, expiry, the sweep and the failure limiter, on both relays | rows of codes and members, the failures of each client as a set of times, numbered within one time; what a join has still to write after the code is consumed is a record in `joins` |
| `MCPairingCodes` | instances | |
| `PairingCodesProofs` | theorems about `PairingCodes` | |
| `RequestAuth` | what runs before a handler (token or credential, proof, replay guard, capability) on both relays, and the narrowing of a token | the guards' memories, the token's row and clock; a request between two steps is a record in `handling` |
| `MCRequestAuth` | instances | |
| `RequestAuthProofs` | theorems about `RequestAuth` | |
| `LiveStream` | the message log, event bus and stream route of both relays, and the loops that read them (`useStream`, `watch`) | the log, the open connections with what is on its way, and each loop's place: replay, plan, subscribe, follow, back off |
| `MCLiveStream` | instances | |
| `LiveStreamProofs` | theorems about `LiveStream` | |
| `Workspace` | claims and heads announced on the thread, the shell's stream that brings them back (`useStream`, `onMessage`), `syncOnce` and `mergePeers` with the git commands they run | each stream's place, what abandoned runs still await, presence; local and remote branches, checkout, uncommitted files; a pass is a record naming its next command |
| `MCWorkspace`, `MCShells` | instances | |
| `WorkspaceProofs` | induction over numbers, the fold of presence, theorems about `Workspace` | |
| `AgentSession` | one MCP server process: session, renewal, tools, `run_shared_command` and the sandbox's timer | the session file's fields and what the relay would answer; a tool call is a record naming the await it is parked at |
| `AgentSessionProofs` | theorems about `AgentSession`, whose run needs no instance module, and about `UsageRunway`, which it extends too (hence `UsageSpec`, `UsageInit`, `UsageNext` there) | |
| `UsageRunway` | reports, budget and runway on both relays | rows of reports, the budget, the clock; the fold over the rows, rates, projections and verdict are operators |
| `MCUsageRunway` | instances | |

Every instance module only gives constants their values, except `MCShells`, whose
`MCSpec` keeps to some of the behaviours of `Spec` (section 3). The models compose at
their interfaces rather than in one state: `RelayPlan` and `CloudPairing` say what
agreement means, and `AgentSession` reads only its outcome; `LiveStream` says what of
the log reaches a loop, and `Workspace` what a shell makes of it, with runs of the
stream that are replaced while one of their answers is still on its way;
`Credentials` says when a credential verifies, `RequestAuth` what else a request
needs. `PlanAgreement` is the abstract specification, and `RelayPlan` is shown to
implement it when AgentRun is off.

Not in any state: the wording of texts, encodings and hashes; scopes outside
`Credentials`, `RequestAuth` and `AgentSession`, and time outside those that speak
of it (the other models follow holders of all scopes whose credentials have not
run out). Cryptography is ideal.

Some correspondences worth knowing when reading the models:

* `Microtask` in `RelayPlan`: without AgentRun (or with a simulated wait) an
  `await` yields only to the microtask queue, so no new request is dispatched
  before the handler continues. `MayStart` and `HasTurn` say that. With AgentRun
  the two handlers really interleave.
* `FinishApproval` writes the row first and looks at the signature afterwards,
  as `approvePlan` does; a refusal leaves the written row.
* `given` and `published` are history: what each human said yes to, and every
  text the row ever had. They are never read by an action other than to choose
  a text somebody can have read.
* `bound` in `CloudPairing` is the `pairing_id` column of credentials, which is
  what `holderKeysFor` selects on.
* `host` in `Credentials` is chosen initially: on `node` keys are rotated by a
  command in another process, which changes the tables and not the server's
  memory; on `cloud` the object that signs rotates, and the Worker asks it to
  prune in a second RPC (`pruneDue`). Only on `cloud` do other requests run
  between the verification of a parent and the issue of its child (`Free`); time
  passes there on both.
* In `PairingCodes` a crash means different things: on the Node relay the process
  dies between the transaction and the rest of the same synchronous handler, and
  everything in memory goes with it; on the cloud relay one handler of the Worker
  dies and others go on.
* In `RequestAuth` a signed request is one value, delivered any number of times, and
  what a request presents is that value in one of its texts (`Presented`): `verifyProof`
  checks what `unb64u` decodes, which more than one text gives, and the guard's key is
  the text. So `AdmittedOnce` speaks of the same bytes, as the guard's comment does.
  `Instance` are processes or isolates, each with a guard of its own, so it also speaks
  of one guard between two restarts.
* In `LiveStream` an event goes to the connections that are open when it is
  published. `wire` is what has not been read yet; a dropped connection loses it.
  The place of a message in the log is the cursor.
* In `Workspace` a commit is a record of its author and files and a branch the set
  of commits on it: a rebase or merge is a union (a commit is the same change before
  and after a rebase), a push is fast-forward when the remote branch is a subset.
  Conflicts are a choice of the environment. Git itself refuses what would overwrite
  uncommitted files: a rebase over changes to tracked files or onto new ones, a merge or
  a switch likewise. Files are never deleted, and what others push to main touches
  none of the files in `Path`.
* What `status` returns there, and a pass carries, are entries: a file, or a directory
  with nothing tracked in it, which stands for everything below it (`Listed`). The
  claims are matched against entries, `Taken` is what add and commit make of them.
* A run of the stream there asks for the rows after its cursor, is answered with them
  and perhaps later ones, subscribes, and hears the rest. `Restream` is the effect of
  `useStream` starting over for a new credential: what the old run awaited stays in
  `late`. `seen` is history: how far any row went, and whether all came in order.
* In `AgentSession` the relay's handling of a request and the turn of the tool
  handler that reads the answer are one step; renewal and request are two awaits.
  Its `relay = "node"` is the Node relay without AgentRun: with it an approval may
  outlive a revocation there as on the cloud relay (`revoked_approval.cfg`).
* In `UsageRunway` a report is a row, not an update: the relay keeps no total and
  folds the rows by timestamp and insertion. `spent` is history, what an agent
  really used. Rates are integers in the relay's own rounding (`Places`).
* In `Credentials` a signature is good exactly if its `kid` is in `known`, the
  server's verification set; `Published` is the JWKS other verifiers read.

## 3. Runs

Passing runs:

| run | instance | shows |
|---|---|---|
| `relay_atomic` | 3 agents with keys, 2 texts, 2 versions, one restart, no AgentRun | the plan and consent rows implement `PlanAgreement` (property `KeepsThePromise`), through joins, attenuation, revocation, withdrawal and restart; agreement is informed, current and free of revoked approvals |
| `relay_agentrun` | AgentRun on, 2 requests at once, 3 agents, cap 2, one restart | what survives the interleaving: the consent record and the audit log say only what was signed; every accepted request is answered |
| `cloud_registry` | 4 agents, cap 3, 2 requests, one handler dies, no plan | racing invites respect the cap; a revoked agent holds nothing that authenticates |
| `cloud_plan` | 2 founders, 2 versions, 2 requests | approvals, progress and consent stay tied to the text that was read |
| `credentials` | both hosts, 2 agents, 3 credentials, 2 keys, lifetimes of 2 seconds, depth 2 | a credential signed in time stays valid through rotation, pruning and restart; delegation only narrows; nothing dead verifies again |
| `streams` | both relays, one shell and one `watch`, 2 changes, 2 losses, 1 revocation | messages are shown in order and once; the only ones skipped fell between replay and subscription (or while `watch` was cut off); a completed revocation ends the streams it covers; the plan shown never goes back; a shell reaches the end of the log and stays there |
| `workspace` | three instances, of which each behaviour follows one. *Stream only*: 3 claims or releases of 2 agents, one shell's stream lost, failed or started anew twice, no git. *Two shells*: a pass of each, 2 new files in nested directories and 1 tracked, Bob's human edits and switches branches, 1 commit, 1 notice. *One shell*: 2 overlapping passes, a tracked and a new file, its human edits, 2 commits, 2 notices. In the last two, 1 foreign push | a shell shows the fold of the thread as far as it went, unless a row was missed or came late, and again after a replay from the start; whatever else is dirty, and whatever is edited or released meanwhile, a pass commits only files that were claimed, or new ones in a new directory that was; a commit that was announced stays on the agent's branch, though each pass may move it |
| `codes` | both relays, 3 codes, 4 agents, 2 pairings, cap 3, TTL 1, 2 failures in a window of 2, 1 crash | a code makes or joins one membership; what a join writes is whole unless it was cut off; a client gets its guesses and no more; the sweep drops no code that could still be used |
| `access` | both relays, 1 signed request in 2 texts delivered at will, 2 scopes, window 1 (stream 0), skew 2, 1 restart, 2 requests at once | a guard lets the same bytes in once, whatever the client's clock and whatever else arrives between; a stripped capability is not used again through the token |
| `run_gate` | both relays, 2 tool calls, 2 identities, 2 changes of the relay's side | on the Node relay a peer's command starts only if the pairing agreed at the moment the last check was answered; every call ends |
| `usage` | 2 agents, 1 meter, budget 2, deadline 2, 2 steps of work, 3 reports, 1 budget change, 1 restart, clock 0 to 2 and set back | the fold never counts more than was used; a budget called spent was spent, and the verdict agrees with the slope of the rows up to the rounding of the rate |

One run shows a disagreement between the code and what its comments and
PROTOCOL.md say:

| run | property | in short |
|---|---|---|
| `late_approval` | `AgreementIsInformed` | an approval parked at `dispose()` is written over a re-proposal |

The other configurations each reproduce one more finding of `PROJECT.json`; TLC finds
the named property violated:

| configuration | module | property | in short |
|---|---|---|---|
| `stale_consent` | `MCRelayPlan` | `ConsentIsCurrent` | with a bearer-token member a re-proposal keeps the old satisfied record |
| `revoked_approval` | `MCRelayPlan` | `NoRevokedApproval` | with AgentRun an approval parked at an await survives its revocation |
| `version_reused` | `MCRelayPlan` | `VersionGrows` | two proposals at once publish two texts under one version |
| `orphan_sandbox` | `MCRelayPlan` | `NoOrphanSandbox` | two proposals at once each begin a sandbox, and one handle is overwritten and never disposed |
| `required_changes` | `MCRelayPlan` | `RequiredIsFixed` | each proposal writes the required principals anew from the members of that moment |
| `cloud_holder_keys` | `MCCloudPairing` | `ConsentIsVerifiable` | an approval by the creator's attenuated credential satisfies the record and fails verification |
| `cloud_revocation` | `MCCloudPairing` | `RevocationWithdraws` | a revocation cut off in the middle cannot be completed |
| `cloud_half_pairing` | `MCCloudPairing` | `CodeMakesPairing` | a join cut off in the middle uses the code up |
| `key_rotation` | `MCCredentials` | `LiveVerifies` | the running server signs on with the key `rotate-key` retired, and prunes it under what it signed |
| `renewal` | `MCCredentials` | `RenewalExtends` | renewing by attenuation never moves the expiry |
| `child_outlives` | `MCCredentials` | `ChildNeverOutlives` | a parent that ran out between verification and issue gets a child with one second of life from its issue, however long after |
| `lost_message` | `MCLiveStream` | `NothingSkipped` | a message sent between replay and subscription is not shown until a reconnect, or ever |
| `stream_revoked` | `MCLiveStream` | `StreamsFailClosed` | a subscription that was authenticated before a revocation is registered after it |
| `view_out_of_sync` | `MCWorkspace` | `ReplayReconstructs` | after a late answer, or a row missed before the subscription, a replay into the list that was never cleared leaves a view that is no fold of the thread |
| `unclaimed_rides` | `MCWorkspace` | `OnlyClaimedFiles` | `status` lists an untracked directory as one entry; a claim that matches it commits every file below it |
| `stranded_joiner` | `MCPairingCodes` | `HoldersAreMembers` | a joiner the room turned away keeps a token for the pairing and its code is spent |
| `narrowed_credential` | `MCRequestAuth` | `StrippedIsGoneForAll` | stripping a capability reaches the token and not the credential |
| `late_report` | `MCUsageRunway` | `NeverForgets` | a report that arrives late takes usage away until the next one |

Some findings need no configuration of their own. `usage.cfg` with `SpentIsNotOnTrack` as
its invariant reaches a spent budget that is called on track, and with
`ShownMatchesBudget` a runway on screen that was computed against the previous
budget. `unclaimed_rides.cfg` reaches, with the property `MergesMissClaims`, a merge of
files inside a claim (what is compared are the entries of the last announced commit, and
the merge takes the whole branch), and with the invariant `MainIsNotTouched` a peer's
branch merged into main (with main checked out and nothing to commit). `workspace.cfg`
with the invariant `NoWorkLost` reaches an announced commit that is on no branch any
more, after its human switched to main and `checkout -B` moved the agent's branch.
`run_gate.cfg` reaches four more:

| instead of its properties | in short |
|---|---|
| invariant `GateSawAgreementAnywhere` | on the cloud relay the gate opens between the two halves of a revocation |
| invariant `KeyFitsCredential` | a late renewal stores its credential beside another identity's key |
| property `LimitSticks` | narrowing leaves the signed credential alone, and a renewal or a pairing check brings back what was dropped |
| invariant `TimeoutIsTrue` | a command that finished is reported as timed out |

Bounds. Two founders are the system's own number; a third agent is what makes
membership change, a fourth what makes two invites compete for the last place.
Two versions are enough for "an approval of the previous text"; two requests for
every race of two handlers (no handler waits for two others). One restart or
dying handler reaches every state a crash can leave behind. `MaxVersion`,
`MaxRestarts`, `MaxInvites` and `MaxCrashes` are these bounds; they appear only in
guards, and `MaxTime` bounds the clock: with a ceiling of two seconds three are
enough for a key to be retired, outlive all it signed and be dropped. Three
credentials make a chain of a root, its child and its grandchild.

In `PairingCodes` a time of 2 with a TTL of 1 and a window of 2 lets a code expire
and be swept while a failure still counts, and lets the limiter forget. In
`RequestAuth` a skew larger than the window lets a claimed time lie in the future
and in the past of every acceptance, and time 3 is past twice the window. In
`LiveStream` two changes and two losses give each loop a message it has, one it
misses, and a second attempt. In `Workspace` three notices are a claim, its release and
a claim after it, so that a row out of order can bring a claim back; two breaks are a
run that is replaced and the loss of the one that replaced it; two nested directories
are what makes `status` choose the outer one; two commits are one for each of two
overlapping passes; one foreign push is what a pass must rebase onto. The product of
all this is beyond TLC and not needed: streams read nothing of git, and of the streams a
pass reads only what its shell shows. So `MCShells` has three instances, one chosen at
the start of each behaviour (`Within`). What they leave out is a push that the remote
refuses, and a rebase that stops while another pass of the shell is about to commit; the
proofs have no such bounds. `Human` and `Restless` bound who edits and who switches
branches: `WorkIsKept` is about the others of the latter.

In `AgentSession` two calls are a renewal and what overtakes it; two changes of the
relay's side are a withdrawal and a new agreement, or a revocation in two halves. In
`UsageRunway` three reports make one that is overtaken, one that overtakes and one after
a restart.

Symmetry is used for texts, request slots, passes, sandboxes, codes and agents that no
constant tells apart, and only in runs without liveness.

`CHECK_DEADLOCK FALSE`: with the bounds on versions, restarts, time, calls or
changes used up, nothing more can happen, and nothing should.

Fairness. Weak, and only of a program's own continuation, never of users:

* `HandlersReturn`: each handler's continuation. Node's event loop runs a resolved
  promise's continuation, and the AgentRun SDK call answers or throws. Nothing is
  assumed of AgentRun's success or of restarts.
* `Reaches`: each loop's next step. A request is answered or fails, and a back-off
  timer fires. What the network loses is bounded by `MaxDrops`, not assumed away
  by fairness.
* `CallEnds`: each tool call's next step. A request is answered or fails, the
  Docker probe has a timeout of its own, and timers and events of Node fire. A
  command in the sandbox need never end: the timer ends the call.

## 4. Proofs

Each theorem holds for every value of the constants that satisfies the named
assumptions of its module (`...Assumption`, which the runs evaluate on their
instances): any number of agents, requests, codes, loops, paths and so on, and any
bound. Every proof has the same shape: an inductive invariant `IInv` with one lemma
per action (or, where actions are alike, per group of them) that the step keeps it.
TLC checked each `IInv` on the runs' instances before it was proved.

| module | theorems |
|---|---|
| `RelayPlanProofs` | `TypeCorrect`, `ConsentIsEvidence`, `AuditNeverOverstates`; without AgentRun `AgreementIsAlwaysInformed`, `RevocationWithdraws`, `ConsentStaysCurrent`, `KeepsPlanAgreement` |
| `CloudPairingProofs` | `TypeCorrect`, `RevocationIsFinal`, `ConsentIsEvidence`, `AgreementIsAlwaysInformed`, `WorkIsAlwaysAgreed` |
| `CredentialsProofs` | `TypeCorrect`, `RotationIsSafe`, `DelegationNarrows`, `DeathIsFinal` |
| `RequestAuthProofs` | `TypeCorrect`, `NoReplay`, `NarrowingIsFinal` |
| `PairingCodesProofs` | `TypeCorrect`, `CodesAreOneShot`, `JoinsAreWhole`, `GuessesBounded`, `FailuresCount`, `SweepSparesLive` |
| `LiveStreamProofs` | `TypeCorrect`, `ShownInOrder`, `OnlyTheWindowLoses`, `RevocationCutsStreams`, `PlanNeverGoesBack` |
| `WorkspaceProofs` | `TypeCorrect`, `PresenceIsFolded`, `OnlyClaimedCommits`, `AnnouncedIsKept` |
| `AgentSessionProofs` | `TypeCorrect`, `GateIsSound`; of `UsageRunway`: `UsageIsReal` |

**`RelayPlanProofs`.** The inductive invariant is `TypeOK /\ ParkedOK /\ RecordOK /\
AuditTruth`. `ConsentEvidence` is not inductive alone: an approval parked at
`dispose()` carries a signature that is looked at later, so `ParkedOK` says of every
parked request that its human had said yes to the subject it carries and that its
credential was issued to its agent, and `RecordOK` that the required principals of
an open record include both founders. The operators of `Consent` have lemmas of
their own.

The other four theorems have the hypothesis `~AgentRunConfigured`: with AgentRun two
handlers interleave and the properties fail (`late_approval`, `revoked_approval`). Their
invariant `AInv` says that at most one handler is between two of its pieces (`Solo`),
that what it read before its `await` is still so (`UpToDate`) and that a version names
one text (`VersionsOK`). `ConsentStaysCurrent` and `KeepsPlanAgreement` also assume
`V3 = Agent`, a holder key for everybody; with a bearer-token member the first fails
(`stale_consent`). `KeepsPlanAgreement` is the refinement: a handler that joins,
proposes, approves, withdraws or revokes maps to one step of `PlanAgreement` at the
segment that writes the row, and every other segment to a stutter.

**`CloudPairingProofs`.** A handler of the Worker holds what it learnt from one object while
the other moves on. `RequestsOK` says, for each RPC a handler may be about to make, what
still holds then: the approval it carries was given, the parent of the credential it
will attenuate is issued and in its chain, the room it is about to fill is empty and the
code used. `RoomOK` and `PlanOK` tie the two objects together, and `DeadOK` is
`RevokedIsDead` for credentials that exist: a child attenuated from a parent that was
revoked meanwhile is dead because of the revoked link in its chain. No hypothesis on
interleaving or on handlers that die.

**`CredentialsProofs`.** `RotationKeepsLive` needs an invariant about memory and tables
(`KeysOK`: the mirror of the revocations is exact, keys leave the verification set
only when pruned, a pruned key has been retired for longer than the ceiling, the
cloud relay signs with the active key) and one about each signature
(`SignaturesOK`: its key was generated and is known or pruned, its lifetime is under
the ceiling). A live credential signed before its key was retired would then expire
before the key may be pruned. `Narrowing` is inductive because it says when
the floor of the lifetime can be at work: only in a credential issued after its
ancestor had run out, and for one second (`BornLate`). A child of such a credential
either expires with it, and then was issued in the same second, or was issued later
still. `LiveVerifies`, the same claim for every credential, fails on `node`
(`key_rotation`).

**`RequestAuthProofs`.** A guard forgets a proof twice the window after it *arrived*,
while the proof is good for as long as its *claimed* time is near, so that the guard
is enough is not obvious. `GuardsOK` is the argument: what a guard remembers
arrived no earlier than the window before its claimed time, and one it let in and
forgot has a claimed time that is out of the window from then on. For the narrowing,
`RowOK` says that the row never holds what was stripped, and `HandlersOK` what a
request that read the row earlier may still carry.

**`PairingCodesProofs`.** `JoinOK` says of a join under way what it has written by the time
it stands at `h.at` (tokens, code, members, bindings, audit records) and what it has
not; when the last write is done, `Whole` is what `JoinOK` becomes. `RedeemedOK` and
`OriginsOK` are what one-shot codes rest on: a redeemed code stays in the table as
used. `LimiterOK` compares the limiter's list with the history of wrong guesses.
`FailuresCount` says that the set of numbered failures counts like the code's list; it
needs `Window > 0`, as with an empty window nothing is ever recent.

**`LiveStreamProofs`.** `CoverOK` is the heart: for every message of the log, a loop has
shown it, or it fell into the window, or it is on the wire, or it lies beyond the cursor
of a loop that will replay. `OrderOK` and `CursorOK` say that what is on the wire is in
order and later than what was shown.

**`WorkspaceProofs`.** Presence is a fold over a list of any length, into which a replay puts
the whole thread once more. That this gives what a fresh fold gives is an induction
along the thread: once an envelope has spoken of a claim or of a head, two folds agree on
it whatever they began with (`ChainsSettle`), and until then each keeps what it began
with (`ChainKeeps`). A view, in order or not, has nothing of what no row handed to it
spoke of (`ShownWasSaid`), so a replay that goes as far as any row did gives the fresh
fold (`FoldIsFresh`), and rows that follow in order continue it (`FoldContinues`).
`StreamOK` says that as long as all came in order the cursor of a run is where the fold
is, or at the start. The induction itself is by least counterexample (`LeastNumber`,
`Induction`): the library's rules take an operator as a parameter, which the provers
cannot instantiate, but its fact that `<` on the naturals is well founded speaks of
sets. `FoldIsChain` unrolls the `FoldLeft` of the community modules.

For `OnlyClaimedRides` the invariant adds that every claim on the thread and in any view
is one its agent made (`ClaimsOK`, `ShowsClaimed`), and that what a pass took up are
entries such claims match, of which the directories hold no file the repository has
(`PassOK`): the entries were read several commands before they are committed, and a
directory that was new then may have tracked files now, but never one of `Base`.
`WorkIsKept` has an invariant of its own, `KeptOK`: while its human does not switch, an
agent is either on main, with nothing announced and nothing made, or stays on its own
branch, where `checkout -B` moves nothing. `WorkspaceBranches` assumes that no agent's
branch is named like main: they are named `inzo/<agent>`.

**`AgentSessionProofs`.** `GateOK` is the gate for one call; it is kept because on the Node
relay a peer cannot be revoked and the plan satisfied at once (`SidesOK`), so a call that
read "not revoked" and then "satisfied" has seen both.

The second part of the module is about `UsageRunway`. `CountsAreReal` speaks of the
first and the last row of an agent by timestamp and insertion, so `UsageInv` says that
what is counted, on its way and in the table was spent (`CountedOK`, `SentOK`,
`ReportsOK`) and that the rows of an agent have a first and a last at all (`OrderOK`),
which a clock set back does not change: a new row comes before, between or after the
others.

Only model-checked: liveness (`HandlersReturn`, `Reaches`, `CallEnds`), which is out of
the prover's reach together with `ENABLED`, and `VerdictIsFair`, which compares
products and quotients of folds over the agents.

## 5. Plan

Every safety property of a passing run but `VerdictIsFair` is a theorem. What could still
be said:

1. What `PlanAgreement` promises of the cloud relay. It does not hold as it stands: an
   approval authenticated before a revocation may reach the room after the withdrawal,
   and a handler that dies leaves the withdrawal undone. A weaker abstract specification
   would have these as steps of its own.
2. Sums over all agents in `UsageRunway` (`Total`, `Burnt`), and with them
   `VerdictIsFair`: they are folds over the agents, and a bound on them needs the
   induction of `WorkspaceProofs` once more.

Not modelled, and why:

* The plan file of the CLI (`planfile.ts`): in cowork mode `PLAN.md` is written from each
  plan that arrives (`app.tsx:98`) and `/propose` reads and parses it. It is a rendering
  and its parser, with no state but the file and no step between reading and proposing;
  how plans arrive is in `LiveStream`, what a proposal does in `RelayPlan` and
  `CloudPairing`. An arriving plan overwrites what the human was editing; the code
  promises nothing about edits that were not proposed.
* Prompts, rendering and the profile file of the CLI: they change nothing the other
  parts read. The Website, deployment files and CI are not part of the protocol.
* The holder key package and the primitives it calls: cryptography is ideal here.
* The hash chain of the audit log: it is a sequential computation over rows, and the
  models follow which records are appended and not how they are linked. Its prune
  is never called.
* Health and key discovery routes, and the digest (a bounded view of plan and
  messages to catch up with): they read and keep nothing.
