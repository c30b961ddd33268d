# TLA+ models of Agent Kaizen

Agent Kaizen is a local system that drives coding agents: a supervisor daemon starts vendor
processes, lets them work in one workspace under approval, records everything in local databases and,
when several machines work together, coordinates them through a replicated ledger. This directory
models the parts of it where order, concurrency and failure decide whether it is correct, checks small
instances of them with TLC and proves the most important properties with TLAPS.

Paths below are relative to `src/kaizen_components/` unless they begin with `src/`.

| Module | Models | Source |
|---|---|---|
| `WriterLease` | the one-writer lease of a workspace, its durable marker, vendor processes, crash and boot | `orchestration/writer_lease.py`, `children.py`, the lease calls of `supervisor.py` |
| `ProposalApply` | applying an approved proposal under a journal (extends `WriterLease`) | `orchestration/proposal_executor.py` |
| `AtomicWorkspace` | what these two promise together: an abstract specification | |
| `DrivenSession` | one conversation: requests, worker, approvals, a claim per turn | `orchestration/session_drive.py`, handlers of `supervisor.py` |
| `SessionResume` | how a conversation goes on in a new run after the last one ended | `supervisor.py` |
| `SessionStream` | the text of a turn on its way to the chat | `session_drive.py`, `src/extension/src/sessionClient.ts`, `streamReducer.ts` |
| `ApprovalRendezvous` | asks, decisions, timeouts and previews | `orchestration/approvals.py`, `diff_snapshots.py` |
| `DaemonLifecycle` | the daemon process: single instance, orphan sweep, endpoint, shutdown | `supervisor.py`, `loopback.py`, `daemon_cli.py` |
| `LocalLlm` | the adapter of local models and the processes of its tools | `orchestration/adapters/local_llm.py`, `tool_gateway.py` |
| `CodexAdapter` | the adapter of Codex against its app-server | `orchestration/adapters/codex.py` |
| `ClaudeAgent` | the adapter of Claude and the Node worker it owns | `orchestration/adapters/claude_sdk.py`, `vendor_workers/claude_agent/worker.ts` |
| `FanOut` | one task to several lanes: compare, delegate, parallel apply | `orchestration/dispatch.py` |
| `ArtifactCache` | images and context snapshots: staging, batches, cleanup | `orchestration/artifact_cache.py`, `session_artifacts.py`, `src/extension/src/artifactStore.ts` |
| `FollowUps` | prompts and the follow-up queue of the chat panel | `src/extension/src/conversationController.ts`, `followUpQueue.ts` |
| `FleetLedger` | ledger events and the reducers over them (pure operators) | `fleet/reducers.py` |
| `FleetCoordination` | coordinator role and leases over replicated ledgers | `fleet/coordination.py`, `store.py`, `sync.py` |
| `FleetReconcile` | isolated work coming home, sweeps of stale nodes | `fleet/reconcile.py` |
| `FleetDispatch` | work handed from node to node | `fleet/dispatch_remote.py`, `fleet/reducers.py` |
| `PromptSessions`, `ScriptPrompts`, `PanelChains` | three interviews that can be left and continued | `src/prompt-builder-scripts/` |
| `MC...` | instances for TLC; `MCDaemon`, `MCLive` and `MCParts` hold several parts each | |

| Proof module | Theorems about |
|---|---|
| `WorkspaceProofs` | `WriterLease`, `ProposalApply` and the refinement of `AtomicWorkspace` |
| `DrivenSessionProofs` | `DrivenSession` |
| `ApprovalRendezvousProofs` | `ApprovalRendezvous` |
| `ConversationProofs` | `SessionResume`, `SessionStream`, `ArtifactCache`, `FollowUps` |
| `DaemonProofs` | `LocalLlm`, `CodexAdapter`, `ClaudeAgent`, `DaemonLifecycle` |
| `FleetLedgerProofs` | lemmas about the reducers of `FleetLedger` |
| `FleetCoordinationProofs` | `FleetCoordination` |
| `ReconcileProofs` | `FleetReconcile` |

`PROJECT.json` maps each definition to the lines it stands for, and lists components, runs, mutants (a
plausible bug for each property, with which TLC finds the property violated), findings, hazards and theorems.

## Inventory

### Supervisor daemon (`orchestration/`)

**Writer lease** (`writer_lease.py`). Keeps the holder (claim, run, pending spawn, child pids), a
recovery reason, cleanup paths and an apply journal in memory, and one writer marker in
`owned_runs.json`. Operations: acquire, promote, begin_spawn, track_spawned_child, verify, release,
require_recovery, set_apply_recovery, reconcile_after_orphan_sweep. Called by every session, by the
proposal executor and by the boot. Hard: registry writes that raise after landing, crashes between a
process' creation and its record, processes that outlive the daemon, stale callbacks. Correct if there
is never more than one working writer, and if no restart forgets one or a half-applied proposal.

**Proposal executor** (`proposal_executor.py`, with `workspace_path_authority.py`). Captures a base,
stages new bytes and backups, journals the phase, mutates the files one by one, cleans up. Hard: stops
between any two file operations, edits by others, operations that raise after they took effect.
Correct if a proposal lands whole or not at all, never over an unseen edit, and says truly which.

**Driven sessions** (`session_drive.py`, handlers in `supervisor.py`). State, turn reservation, writer
claim token, approval waiters, delta ring; one thread per request and one worker per turn. Operations:
start, turn, accept, close, kill, finish, finalise, resume. Hard: any request at any point of another
one and of the worker. Correct if turns do not overlap, every turn ends, claims are neither lost nor
kept, a stopped session is quiet, a conclusion is written once and a conversation never forks.

**Delta ring and stream**. A bounded ring per session, read by `session/events` after the durable
events and without a lock on both; the extension folds what it gets. Hard: eviction, responses that hold
a prefix, turns that end in between. Correct if a chat never shows a suffix or a hole as an answer.

**Approval broker** (`approvals.py`, `diff_snapshots.py`). Rows with a state and an evidence digest; open,
check_accept, resolve, reconcile_orphans, refresh; rendezvous with the session's waiter through a stash
of payloads; previews of the file under review. Hard: a decision before the waiter is bound, repeated
asks, timeouts against answers. Correct if what a tool call is told was decided for it, at that revision.

**Daemon** (`supervisor.py`, `loopback.py`, `daemon_cli.py`). An instance lock, pid file, token and
endpoint; a registry of owned runs; a thread per request. Hard: two boots, a boot beside a shutdown, reused
process ids, handlers that go on after the release. Correct if one daemon owns the workspace and finalizes
only runs nobody works on.

**Adapters and workers** (`adapters/`, `vendor_workers/`, shims). A process or a model per session; a
reader thread, run_turn on the worker, interrupt, close and kill on request threads. Hard: messages and
requests that cross, ends that come early, late or never, kills between two looks. Correct if a turn is
reported as it ended, and a kill that says so leaves nothing alive.

**Fan-outs** (`dispatch.py`). Lanes, votes, a ceiling of turns; writers in worktrees, each a thread. Correct
if the outcome follows from the votes and what is left behind is on record.

**Artifact cache** (`artifact_cache.py`, `session_artifacts.py`). Objects and sidecars in files, used by the
daemon under a lock and by the editor without. Correct if a conversation that may go on finds its images and
no refused batch leaves half its files.

### Fleet (`fleet/`)

**Ledger and reducers** (`store.py`, `reducers.py`): append-only `coord_events` in `fleet.db`, reduced
afresh on every read. **Coordination** (`coordination.py`): claim, transfer, release of the coordinator
role; grant, renew, release, revoke, sweep of leases; handoff. **Sync** (`sync.py`): push and pull with
a hub. **Control service** (`control_http.py`): signed requests of peers, a thread each. **Commands**
(`records.py`): through a live daemon, else directly on the file. **Reconciliation** (`reconcile.py`): a node
that was cut off adopts what it did or surfaces a conflict. **Remote dispatch** (`dispatch_remote.py`): request,
accept, start, end. Hard: stale replicas, late and missing pushes, expiry, crashes between two appends,
concurrent calls in one daemon, a hub restored from an old file. Correct if there is one grantor and, for
authoritative leases, one holder; isolated work is settled once; what has ended stays ended.

### Clients and tools

The **editor extension** (`src/extension/src`) polls, folds the stream, queues follow-ups. The **prompt
scripts** (`src/prompt-builder-scripts`) are interviews whose answers live in a log that is rewritten whole. The
**record layer** (`db*.py`, `*_records.py`, `evidence.py`, ...) validates rows and writes each command in one
transaction. **Policy** and **modes** are pure decisions; **telemetry**, **mirror**, **ledger verification** and
**metrics** read; **models and image generation** wrap services; **setup** and **support** scripts stand outside the
running system. `PROJECT.json` lists all of them with what is left out and why.

### How they interact

A loopback thread calls a handler of the supervisor, which looks at the session, the lease and the broker, each
under a lock of its own, one after the other. The session's worker calls the adapter, which calls back: to ask for
an approval, to begin a spawn, to record a child. The executor works under the lease's authority and journals in
it. A boot reads what all of them left on disk. Nodes of a fleet share nothing but what they push to and pull
from a hub. The extension and the scripts are processes of their own; they share files with no lock.

## Plan

Done, in this order: the lease, the executor and their abstract specification; driven sessions; fleet ledger and
coordination; approvals; dispatch, reconciliation, the stream; the daemon's life, follow-ups; local models,
resumption; Codex, Claude, fan-outs; artifacts; the interviews. Proofs, in this order: lease, executor and refinement;
sessions; approvals; fleet coordination; local models and the daemon's life; resumption; the stream; reconciliation;
Codex; Claude; the cache; the follow-ups.

Left, most important first:

1. Proofs of the safety properties that are only checked: `InterviewsGoOn`, and what of `FanOutIsTruthful` needs no sum.
2. That `DrivenSession` and `SessionResume` use the lease only in ways `WriterLease` allows, by an abstract lease all
   three implement. Each now keeps what its threads see of it.
3. Approval requests of Codex; starting and reviewing in the editor; the extension's test driver, which has been read
   (see "Also seen"); retries around a database write that may have landed (`db_retry.py`).

## The modules and their instances

### WriterLease

| Variable | Code |
|---|---|
| `holder`, `reason`, `cleanup`, `journal` | `_holder`, `_recovery_required` with `_recovery_reason`, `_cleanup_paths`, `_apply_recovery` |
| `marker` | the writer marker in `owned_runs.json` |
| `up`, `boots` | whether a daemon serves, and which incarnation |
| `spawn` | where each thread is inside the wrapped vendor spawner |
| `act` | the claim each operating-system process works for |
| `file`, `temp`, `edits` | workspace files, staged temporaries, edits made by others |

Each operation holds the authority and lease locks from its first read to its last write, so it is one
action; a registry write inside it succeeds, raises without landing or raises after landing. Threads
call with claim ids they captured earlier: every operation takes any claim ever minted. Three recovery
reasons are distinguished from all others because boot treats them differently.

In `daemon`: 2 processes, 1 spawner thread, 2 claims, 3 daemons, so that a process of the first daemon can survive
into the third, past a second one that died while booting. In `lease_shared`: 2 spawner threads, three journals of one
file, 3 edits, one run to bind a claim to; two overlapping spawns, journals with changing files, or a bound claim,
but not two of these at once (`OneOfThem`). `spawn_pending` is one flag: with two threads in the spawner the
first to finish lowers the flag of the second and `NoTwoWriters` does not hold, so `lease_shared` states the weaker
`LiveChildIsKnown`. One file has all the modes boot distinguishes (base, final, mixed, torn).

### ProposalApply and AtomicWorkspace

`exec` is the executor's thread: program counter, claim, approved changes, captured plan, journal phase,
staged files still to write, the change and file operation it is at, and the verdict. `tree` is a history
variable: the files as if proposals applied at once. Each call that reaches the file system or the
registry is a step of its own. Content equality stands for the identity and digest comparisons of the
code. On POSIX the executor refuses modify, delete and rename; the model has the full set of the
Windows build, of which the POSIX one is the part that only creates.

`apply_crash`: 2 files, 2 contents, 4 proposals covering every kind, 2 claims, 3 daemons, no edits; proposals of two
changes have a middle in which neither side is whole. `apply_edits`: one modify-and-create, 2 edits (a file can
change and change back), 2 daemons. `AppliesAtomically` is `AtomicWorkspace!Spec` under the mapping
`writer <- marker.holder.claim`: executor, lease, crash and boot together implement one writer whose proposals
land whole or not at all, and never over an edit they did not see.

### DrivenSession

`loc` holds each thread's program counter and locals; `state`, `resv`, `token`, `live` are the session's;
`holder`, `refused` are what its threads see of the lease; `row` whether each approval is open (what was
decided is the vendor's affair); `t8` the run's conclusion; `stopped` and `lent` are history. A method under
one lock, or one transaction, is one action. Claim and approval ids that nothing refers to any more are
reused, so turns are unbounded.

`session`: 2 requests at a time beside the worker, 3 claims (the worker's and one for each request), 1 approval;
every race of the code is between two requests, or one and the worker. `live` has one request beside the worker.

### SessionResume

A leg is one run of a conversation. `legs`, `t8`, `owned`, `live`, `state`, `token`, `adapter` are what the daemon and its
files say of each; `lock` is the conversation's resume lock, `envelope` its C1 row. Requests run on threads
of their own (`loc`), each leg has its worker, and a leg is finalized in the steps the code has, by whoever
comes to it. A crash clears the memory; a program that outlives its daemon is "stray". Instance: 2 requests,
3 legs, 2 claims, 1 crash, in a writing mode. Three legs are the smallest number with a leg before and one after a
resumption. The daemon's orderly shutdown, attachments and what of the history a prompt still holds are left out.

### SessionStream

`made`, `ring`, `active` are the session's, `log` its durable events, `poll` the request in flight, `since` and
`stream` the extension's cursors and reducer. A chunk is the turn it belongs to; its number is its position.
Instance: a ring of two, responses of two, two turns, five chunks: enough to evict, to cut a response in the
middle of either read and to fall behind by a whole turn.

### ApprovalRendezvous

`row` is the C4 row with revision and base, `waiters`, `bound`, `stash` the tables of the session, `waiter` the waiter objects,
`pending` and `staged` the live previews; `ask`, `hand` and `sweep` are the threads. Instance: two asks (the same one
repeated, one of other content, one of another run, two plain ones), two deciding threads, ends of turns and runs,
changes of the file; of two asks, two decisions at once, a changed file and an end, any two at a time (`Focus`).
`live` has one negotiated ask and one decision. The older path without a broker (`on_approval`) is not modelled.

### DaemonLifecycle

One `Daemon` is one process lifetime (nonce and token in one); `lock`, `pidfile`, `token`, `endpoint` are what it holds
and publishes; `run` and `owner` the runs and the registry; `step` the handlers that may outlive the release of the
instance; `strangers` the process ids that went to other programs. Instance: three daemons, two process ids, one run:
one that dies, one that boots, one that is refused, with an id that comes again. Daemons are taken in order
(`Start` chooses the next one): they differ in nothing else.

### LocalLlm, CodexAdapter, ClaudeAgent

`LocalLlm` interleaves the turn loop with interrupt, steer, close and kill, and the gateway's spawn, register, wait and cancel.
Instance: 2 callers, 2 processes, 2 turns, one model call per turn. `CodexAdapter` has the reader thread, run_turn, interrupt,
close and kill against an app-server that answers in any order, late or never; instance: one request beside a
session of two turns, one unread message. Steer, approval requests, contents and the order in which ledger
emissions land are left out. `ClaudeAgent` has both sides of the pipes: run_turn, the reader, a thread per tool call and
requests on the host; the worker, which handles one request after the other, and the provider. Instance: one
request, two turns, a tool call in the first, one unread delta. "OK", "FAILED" and "CANCELED" are one "ended"; gateway
cancellation, capability probes, large results and sequence numbers are left out, and a conversation is not
followed after a fatal failure (`ConversationGoesOn`). App-server and provider are external.

### FanOut

Legs of one dispatch run one after the other and are one action each; the writers of a parallel apply interleave at each
call of git and the recorder. Instance: three lanes, no ceiling or one of three turns, two writers, two attempts
at a removal. Lane and writer names are distinct, a worktree is created or not at all, and a leg that does not raise "ended".

### ArtifactCache

`there` and `sidecar` are the files and their metadata, `cacheJob` the thread under the lock, `request` that of each conversation, `staging` the
editor's, `rows` which conversations may go on, `noted` history. Instance: one image, two context snapshots, two
conversations, one fault (a write that fails or a crash), a clock of two instants; `OneAsks` keeps one request at a time, files
in one conversation, and faults together with the passing of time to one conversation and one snapshot. Diff
artifacts, corrupt objects and contents are left out; the undo of a leaf restores its pair in one step.

### FollowUps

One callback of the extension, up to its await, is one step; replies, poll responses and the user come in any
order. Instance: a queue of two, three prompts, three turns, one trouble (interrupt, ending, lost reply, or a turn of another client). Starting
a conversation and rebinding the panel to a resumed leg are left out.

### FleetLedger and FleetCoordination

A ledger is a set of events, since reducers dedupe and sort. `ledger[n]` is the node's `fleet.db`, `hub`
the hub's, `backup` and `rewound` an earlier file of the hub and whether it was restored, `mark` the
watermark kept in `kaizen.db`, `minted` the stamps a node has given out, `op` the locals of each call.
A call reads fresh projections and then appends one transaction at a time. On a node with a live daemon
(`Served`) calls run side by side; on others the open database file admits one process. Requests,
conflicts and other audit events confer nothing and are left out, as is the caller's optional fence,
which only refuses. A push happens whenever somebody chooses: no code in the source calls `push()`.

The design rests on one line of coordinators. `forked` records that the line broke: an isolated claim took the
role over, or the role moved on a ledger that did not show every role event. `SoleGrantor`,
`AuthoritativeExcludes` and `FreedByItsNumber` are stated before that point. The last says that an end frees no grant but one of the
epoch and number it was written for; that two grants can share a number is under Also seen.

`fleet_handover`: 2 nodes, one of them served, one call on each, a ledger on which node 1 leads and holds the scope by an
authoritative grant, 3 more events, a clock of two instants, isolation, a backup and its restore. Three events are a transfer (two) and a
grant on either side, or an end, a regrant and a late end. The run stops where the line forks unless the hub was
restored, and around a restore writes fewer events (`Stories`). `fleet_reclaim`: one node alone, 6 events.

### FleetReconcile

`ledger`, `iso` (the events that carry an isolation sentinel), `notes` (what confers nothing: conflicts, resolutions, adoptions, stale
records, work), `hub`, and `job`, the locals of each call of reconcile or sweep. A daemon serves each connection on a thread
(`loopback.py`) and its fleet handlers hold no lock across a call (`supervisor.py`), so any calls of a node run side by side. Every
append is a transaction of its own, and a call may end between any two steps and begin again. What the detection of one scope reads
is read in one step, and so is what a sweep reads before its first append; a call that is neither reconcile nor sweep is one step. A daemon drops the
flag of an isolated claim, so `IsoClaim` is a command's that has the ledger for itself. A note that a call writes carries history: the call, and the
last stamp its node had given out when the call began to read. By it `SettledOnce` tells calls that overlapped from calls that
did not; it denies that the latter, or one call by itself, settle anything twice.

Instance: node 2 was cut off with one scope granted to itself and serves two calls; 4 more events. Two calls are under
way at once only while at most one event was written, which leaves each the append that settles; a third event is written only
after node 2 surfaced a conflict, node 2 is isolated once, and once node 1 was, node 2 only sweeps (`OneComesHome`). A behaviour is
left once nothing more can be written: no step from there can break `SettledOnce`. The theorem has none of these bounds. That a sweep cancels dispatches is `FleetDispatch`'s, publishing branches git's.

### FleetDispatch

Two replicas of dispatch events and rows, a hub, and calls that read the reduced state and then append. Instance (in `live`): node
2 asks node 1, whose daemon serves two calls; node 2 has the later clock; one daemon may end.

### PromptSessions, ScriptPrompts, PanelChains

The log of each interview as a record, read when a process starts and written whole. `PromptSessions`: three of 24
questions, settings both on or both off, two launches (an interview, or a command with one flag), one of two sources large; writes
are atomic; `beside` marks that a command wrote the log while an interview was open, which `KeepsAnswers` exempts. `ScriptPrompts`: one process at
a time, two sessions. `PanelChains`: one process, three prompts, two layers of at most two panels, two versions, one edit, one image of
an older version of the script; `images` come and go by other hands; chains begin with the first panel (`ChainsBegin`), `drawn` is history.
Wording, the clipboard and the replies of models are left out.

### Symmetry

TLC's symmetry is used for handlers, claims, children and spawners where no property names one. In `DaemonLifecycle.Start`,
`LocalLlm.Call`, `SessionResume.Arrives`, `PanelChains.FreshId` and the sessions of old logs, the identity of the next one is
chosen by `CHOOSE`: it carries no data.

## Runs

Parts whose state is their own and whose instances are small share a run: a behaviour of `MCDaemon`, `MCParts` or `MCLive` is
a behaviour of one part, chosen at the start. In the last two, `x1`, `x2`, ... are the variables of the part, in the order of its
declarations; a property of such a part is an implication from `component`.

| Run | Instance of | Shows |
|---|---|---|
| `daemon` | `WriterLease`, `DaemonLifecycle`, `LocalLlm`, `CodexAdapter`, `ClaudeAgent` | `GrantIsSafe`, `NoTwoWriters`, `MemoryIsDurable`, `ClearedOnlyWhenQuiet`: no claim is granted beside a live writer, and no restart forgets one. `OneDaemonOwns`. `StopIsProven`: a kill that answers "proven" left nothing it found. `EndedTurnsStayEnded`, `TurnsStayInStep` |
| `lease_shared` | `WriterLease` | `LiveChildIsKnown`, `RefusalIsSticky`, `JournalErasedWhole` |
| `apply_crash` | `ProposalApply` | `NothingIsLost`, `OutcomeIsTrue` |
| `apply_edits` | `ProposalApply` | `MutatesUnderJournal`, the refinement `AppliesAtomically` |
| `session` | `DrivenSession` | `MutatesUnderClaim`, `NoClaimIsLost`, `OneTurnAtATime`, `StoppedMeansQuiet`, `TerminalIsFinal` |
| `approvals` | `ApprovalRendezvous` | `PayloadIsWhatWasApproved`, `PreviewFollowsRow`, `NoDeafWaiter` |
| `fleet_handover` | `FleetCoordination` | `SoleGrantor`, `AuthoritativeExcludes`, `FreedByItsNumber`, `GrantsOnFullView` |
| `parts` | `FleetReconcile`, `SessionStream`, `SessionResume`, `FollowUps`, `FanOut`, `ArtifactCache`, `PromptSessions`, `ScriptPrompts`, `PanelChains` | `SettledOnce`, `BubbleIsTrue`, `NeverForks`, `FollowUpsAreKept`, `FanOutIsTruthful`, `CacheKeepsPromises`, `InterviewsGoOn` and the types of all of them |
| `live` | `DrivenSession`, `ApprovalRendezvous`, `FleetDispatch` | `TurnsAndClaimsEnd`, `AskEnds`, `TakenEndsForGood` |
| `session_idle_token`, `fleet_reclaim`, `approval_own_row` | | violations: see Findings |

The type invariants of `DrivenSession`, `ApprovalRendezvous`, `FleetCoordination`, `LocalLlm`, `CodexAdapter`, `ClaudeAgent` and
`DaemonLifecycle` are proved and in no run's list.

`fleet_handover` and `fleet_reclaim` check for deadlock: a node can always pull. Elsewhere an ended conversation, an answered request, or
an exhausted bound on claims, boots, edits, events or launches is where the part really stops, and the configurations say so.

Fairness is stated in `live` alone. In `DrivenSession`: weak for every request and for the worker (operating-system
threads), strong for `EndTurn`: a vendor turn that can end again and again ends some day, however often it asks or writes before.
Nobody is assumed to decide an approval: the ask timeout is the only clock; the lease's other users are not
assumed to give it back. In `ApprovalRendezvous`: weak for each ask, hand and sweep. In `FleetDispatch`: weak for each call; nobody is
assumed to push, and a daemon that ends takes its calls with it.

## Proofs

The theorems hold for any sets of threads, claims, processes, files, nodes, scopes and any bounds, also where the runs bound them.

| Module | Theorems | That is |
|---|---|---|
| `WorkspaceProofs` | `TypeCorrect`, `DurableInvHolds`, `MarkerFollowsMemory`, `RefusalsOutliveRestarts`, `JournalsErasedWhole`, `LiveChildrenAreKnown` | what memory and disk say of each other in a lease |
| | `ChildInvHolds`, `GrantsAreSafe`, `OneWriter`, `WorkStaysRecorded`, `EmptiedWhenQuiet` (with `OneSpawner`) | one working writer |
| | `ApplyInvHolds`, `ApplyTypeCorrect`, `EveryByteKept`, `OutcomesAreTrue`, `MutatesJournalled`, `LandsWhole` | the executor, and that it implements `AtomicWorkspace` |
| `DrivenSessionProofs` | `InvHolds`, `TypeCorrect`, `WritesAreClaimed`, `ClaimsAreKept`, `TurnsDoNotOverlap`, `StoppedIsQuiet`, `TerminalStaysFinal` | all safety properties of the run `session` |
| `ApprovalRendezvousProofs` | `InvHolds`, `TypeCorrect`, `PayloadsAreApproved`, `PreviewsFollowRows` | |
| `ConversationProofs` | `ResumeInvHolds`, `ResumeTypeCorrect`, `ConversationsNeverFork`; `StreamInvHolds`, `StreamTypeCorrect`, `BubblesAreTrue`; `CacheInvHolds`, `CacheTypeCorrect`, `PromisesAreKept`; `PanelInvHolds`, `PanelTypeCorrect`, `FollowUpsKept` | |
| `DaemonProofs` | `LocalInvHolds`, `LocalTypeCorrect`, `StopsAreProven`; `CodexInvHolds`, `CodexTypeCorrect`, `EndedTurnsAreOver`; `ClaudeInvHolds`, `ClaudeTypeCorrect`, `ClaudeStaysInStep`; `DaemonInvHolds`, `DaemonTypeCorrect`, `OneDaemonServes` | |
| `FleetCoordinationProofs` | `CoordinatorInvHolds`, `TypeCorrect`, `OneCoordinator`, `AuthoritativeOnFullView`, `FreedOnlyByNumber`; `MutexInvHolds`, `AuthoritativeIsMutex` (with `OneCallEach`) | |
| `ReconcileProofs` | `ReconcileInvHolds`, `ReconcileTypeCorrect`, `OnlyOverlapsSettleTwice` | |

The listed theorems state 33 of the 40 properties the runs check. A component's properties are seldom inductive; each proof
has an invariant that is, one lemma per action, and lemmas for what several actions share.

**Assumptions.** The named `ASSUME`s of the modules, or their `...ConstantsOK` as a hypothesis, which TLC evaluates in the runs: constants
differ, bounds are numbers, a proposal's changes are well formed, the founding ledger of a fleet is a ledger (`FoundedIsLedger`) with at most one
lease event for each scope (`FoundedGrantsOnce`). Beyond these two hypotheses about the environment: `OneSpawner`, that at most one thread is in the
wrapped spawner, which is what the daemon does for one claim when an adapter starts its processes one after the
other (without it `NoTwoWriters` is false); and `OneCallEach`, that no two calls are served on one node at once, for
`MutexInvHolds` and `AuthoritativeIsMutex` alone. A daemon does serve calls side by side: the other theorems of the fleet, and all of
`ReconcileProofs`, hold for that.

**Lease.** Whether a process may survive a boot depends on what the marker says of it, and what the marker says on the
writes memory has made. `DurableInv` relates memory to disk: a daemon that is down remembers nothing, a free lease
has an empty marker, a claim's marker is its memory unless refused, a refusal on disk is known in memory.
`ChildInv` relates processes to both: a spawn in progress belongs to the held claim and its pending flag is on disk before
the process exists, everything working is recorded on the marker and known to the holder.

**Executor.** `ApplyInv` says what registry and memory hold at each point of the executor (`JournalInv`), how far each change has
come (`FilesInv`), that both contents of a file stay on disk (`KeptInv`), and where the history may differ from the files (`TreeInv`). The
refinement maps a commit to the step that ends the mutation, or to the boot that finds the files final, and shows every other step to be a
stutter or an outside edit.

**Session.** `IInv` says that a claim granted and not yet bound is nobody else's (`ClaimInv`), who may have the turn, one request or the worker
(`TurnInv`), what the end of the conversation leaves (`EndInv`), what the worker writes under (`WriteInv`), and where the session's
claim is as long as no Accept acquired one of its own (`TokenInv`).

**Approvals.** A handler that is about to commit holds a verdict no row vouches for yet, and a woken ask takes over what a waiter of
its correlation holds. So `ValueInv` speaks of every place a verdict can lie in; `RowInv` says that whoever works on a row works on an
existing one of its own correlation, `PreviewInv` that a preview under way is never newer than the row.

**Resumption.** The holder of the resume lock is unique, so one resumption is past the lock. From its check to the registration
nothing else is live, after it nothing but legs. A thread that ends a leg, and does not resume, works on a leg that is terminal, so
an open leg is a live one. A running program is attended to (a request is opening it, or its live leg has not been
finalized) or the lease refuses; a claim is its leg's or refused.

**Stream.** What the request in flight holds follows the reader's cursors. From any chunk that is shown on, everything up to the cursor
is shown or of a later turn, and the turn that is shown has no durable answer yet. Chunks are folded by a recursive
function over the response; the lemma `Inductive` about sets of numbers gives the induction.

**Cache.** Every leaf of a batch or note is as it was found once it is no longer to be undone, unless the editor touched it, or the
undo is not proven and the lease will refuse. The daemon works on the sidecar of an image only once it has one of the
editor's, and the editor writes it only where there is none, so none of them loses who has noted the image; the cleanup looks before
it removes, and what a conversation that goes on has noted is never due.

**Follow-ups.** One that is sent stays at the head of the queue until it is acknowledged, or the queue is paused until the
conversation is closed. So what may still be sent was never sent: it is neither in the log nor under way, and later than every
follow-up that is. The drain looks at the last event of the batch, which is a completed turn when no approval timed out in it.

**Local models, daemon.** A process that is alive is registered, or the worker is about to register it; what a kill that answers "proven" took
as its snapshot is dead and its calls have completed. From the lock on a daemon is alone, what it published stays until it takes
it back, and a sweep finalizes only what a process that is gone left behind.

**Codex.** An end in the pipe, in the reader's hand or in the table of ends is the one the app-server gave that turn, and a turn not
yet asked for has none. A turn is closed before its end is passed on, and a closed one is never named active, so that
whoever reads the end leaves it behind. From the spawn on a kill finds the process, and only a proven end gives the
lease back.

**Claude.** While a turn runs, what is under way about it is in one place: its start in the inbox, then the worker's turn and
what it writes, then its result in the pipe, in the reader's hand, recorded; whoever is further on has left the rest behind. At
rest the worker has no turn and neither pipe a start or a word of one. A tool's fatal failure is the result of its
turn before the worker hears of it, and the first result stays.

**Fleet.** The role events, except those of nodes isolated since, are one line of stretches, one for each epoch; the leader of the last stretch sees all of
the line, so no other node leads. A leader sees every grant made before, so that epochs and numbers rank grants as they
were made, and the one a reader prefers is the last. With one call at a time, a call that has looked finds the scope as it saw it; hence no authoritative grant is
made beside another in force. That an end frees only grants of its own epoch and number
needs no such hypothesis: it carries both of the grant it was written for, and a grant that is preferred to that one has others.

**Reconciliation.** Every event and note is known to its writer, under a stamp given once. A scope on which a conflict was recorded
stays contested on that node's ledger: evidence only grows, and only an isolated hold of a higher epoch can move the window in which others' work counts. So
a call under way adopts only scopes that its node had not adopted when the call began to read and that had no conflict then, unless they
were held twice; it records only what is contested, not adopted and not recorded by then. The invariant speaks of the notes with a stamp up to that moment and
of the call's own: what other calls write meanwhile has later stamps, and so disturbs nothing it says.

**Only model-checked.** Liveness (fairness and `ENABLED` are out of the prover's reach): `TurnsAndClaimsEnd`, `AskEnds`,
`TakenEndsForGood`. `NoDeafWaiter`, which is true of two asks and false of three (see Also seen). `FanOutIsTruthful`,
whose sums of ballots and turns would need an induction over data; `InterviewsGoOn`, which awaits its invariants; and `PartsTypeOK`, of which the
types of reconciliation, stream, resumption, cache and panel are proved.

## Findings

Where the code does not do what its own text says, a run shows it; each is quoted in `PROJECT.json`.

| Run | What it shows |
|---|---|
| `session_idle_token` | an Accept that was admitted before a turn ended acquires a claim for the idle session; nobody releases it |
| `fleet_reclaim` | a coordinator that re-claims and then releases is coordinator again, by its earlier epoch; two authoritative grants are then in force side by side |
| `approval_own_row` | a repeated ask returns the approval of an earlier row, while its own is still open |

### Also seen while modelling

Read in the code, and in the models as the code has it where they reach that far; without a run of their own.

Approvals (`orchestration/approvals.py`, `session_drive.py`, `supervisor.py`)

- `session_drive.py:466`: with three asks of one row after a timeout whose commit failed, the last to leave clears the waiter of
  one that asked again; the decision then finds nobody until that one's own timeout.
- A row whose binding mismatched stays open until the next orphan reconciliation, which closes rows "that have no live waiter" and can race an
  ask that is about to bind. A preview registered after the run was finalized stays.
- A plain "approved" that is popped before the handler stashes its payload loses the payload.
- An accept between a refresh's transaction and its commit of the snapshot is denied with SNAPSHOT_INVALID.

Fleet (lines of `fleet/coordination.py` unless named)

- 305: a vacant role is claimed without a pull, so two nodes can hold it and each pass the contention check on
  one scope; likewise two transfers served side by side by one daemon ("single by construction", `reducers.py:28` and 419).
- 382: `release_coordinator` ends only the current epoch, so a release after a re-claim lets the earlier one come back, although 193 calls
  the re-claim a "no-op re-affirm".
- 503: the role is read before the authoritative pull and used after it: a node that lost the role in that pull grants nevertheless.
- 510: the next `grant_seq` and the append are two transactions. On one daemon two grants served side by side
  share a number, and the release of the one frees the other.
- 569: an expired lease has no holder, so renewing it gives it to the grantor.
- `orchestration/supervisor.py:1317`: a live daemon drops the requested mode; authoritative becomes advisory.
- `store.py:617`: the watermark is the highest epoch, so a restored hub that takes leases away goes unnoticed.
  This is why `GrantsOnFullView` speaks of epochs and not of all events.
- Dispatch: two polls at once run one dispatch twice; a crash between the event and its row blocks later polls at that dispatch; what a dead
  daemon accepted or started is never resumed; a sweep's cancel of a dispatch that just ended aborts the sweep; two terminal markers, which
  the reducer's comment says "should not happen", can happen.
- Reconciliation: two isolated nodes that reconcile before either pushes both adopt; an earlier-clock grant of a lower epoch can be unseen although `_detect_overlap`
  says "it was visible before the iso claim"; after `resolve_conflict` the next reconcile finds the same overlap again, so the scope is never
  adopted and blocks the node's others; a second isolated claim at a higher epoch lets a scope with an open conflict be adopted, because `_iso_claim_info`
  takes the highest epoch (`SettledOnce` excepts it). Reconciles or sweeps that a daemon serves side by side read before either
  appends, and adopt a scope twice, surface one conflict twice, record one stale coordinator twice, or adopt what the other surfaced, although
  `reconcile.py:291` says "a second reconcile appends nothing new for it" and 521 "Idempotent. A second sweep appends nothing new";
  TLC finds each when the exception of `SettledOnce` for calls that overlap (`SideBySide`) is dropped.

Sessions, resumption and the daemon (`orchestration/supervisor.py`)

- 661: a kill of a new leg during its start returns its claim, and the start's later release makes the lease of whoever has it refuse.
- 4582: a late second finalization writes the C1 row closed after a resumption reopened it ("must close the C1 after reopen, never race").
- A crash between the insert of a run and the record of its ownership, or in a cancel between clearing and finalizing, leaves it open forever. A
  worker that fails for good can write T8 after the kill, whose docstring says it cannot.
- The orphan sweep requires that nonce differs *and* the process is dead, so a reused process id spares an orphan until a later boot, although the docstring says a
  reused id "on a different nonce is NOT the old owner". Handlers that go on after the shutdown can leave an open run; a finalization by hand between a
  sweep's look and its write fails the boot; children of `spawn_child` are killed at shutdown and their runs not finalized.

Stream and panel (`src/extension/src`)

- The suppression of a suffix is lifted by another turn's durable answer, and `clearFailure` lifts it in the middle of a turn, so a bubble can
  show a suffix: `BubbleIsTrue` states that there is no hole.
- `followUpQueue.ts:66`, `conversationController.ts:1135`: a completion drains a follow-up while another turn runs, and the next durable user event
  acknowledges it though the daemon denied it; also with a second client, or when a reply is lost. A direct prompt can overtake queued ones. After
  any pause the queue is stuck until it is cleared, and a delivered head stays listed.
- After a lost reply to `session/turn`, an unrelated banner during the await, or a poll cut between events and turn state, the panel stops waiting for a
  prompt that was accepted.

Adapters (`orchestration/adapters`, `vendor_workers`)

- `local_llm.py:875`: a kill between `start_turn`'s look at `_killed` and `interrupt.clear()` is forgotten by the loop; a steer or interrupt meant for a turn that ended reaches the
  next one; a close between look and open lets a turn run in a closed adapter.
- `tool_gateway.py:926`: a process that is spawned and not yet registered is missed by a cancel, so a kill can answer `termination_proven` beside it.
- `codex.py`: a kill says "Stop the reader first" but only sets a flag; a `run_turn` that waits then waits until its timeout, and a request registered after the
  reader's last wake its whole timeout; asks are answered on the reader's thread, so an interrupt times out meanwhile; a timed out
  `turn/start` is not fatal while the turn may run on; an interrupt acknowledged while the turn completes closes the ledger entry as canceled though `run_turn` says OK; two kills at once can
  report RUNTIME_CLEANUP_FAILED though termination is proven; a result entry stays when deadline and answer cross.
- `claude_sdk.py`: the handler of `turn.result` overwrites a fatal failure that came after its look; a late tool result of a turn that ended fails the
  next one; a late steer runs without a turn, or as the next one's answer; the end of the reader in an idle conversation is noticed by the next turn's
  timeout; a tool result waits behind an interrupt in the worker, and the host gives up after two seconds; a broken pipe at the start of a turn is not caught.
- `dispatch.py` (called by tests alone): lanes of one name share a label, so own votes count; a failed candidate is ranked; a failed planner does not stop the executor; the exit
  code of `git worktree prune` is not read; branches are never removed.

Files without a common lock

- `artifact_cache.py`: `unreferenced_at` is never cleared and staging again does not renew `created_at`; shared content ends with the first approval; a sidecar
  without its object is never collected. The editor works on the same files without the daemon's lock: an undo can remove an object it just found,
  two windows drop each other's conversations.
- `skill-package-prompt-builder.py`: flags of one run stay in the log (3481); with all sources removed the registry is seeded again; an empty suggestion becomes an answer; two processes lose
  each other's updates and share one temporary name. `generate-prompt-for-new-script.py`: a meta run replaces the draft; a quit between two suggestions
  loses the first, though it is "never lost". `parallax-image-panel-prompting.py`: an unreadable log counts as empty and is overwritten; a review that renames the image makes a prompt accepted before it was drawn, or never found; a
  reprint can save over an older file.
- `test_extension.py` (read, not modelled): a stop right after an approval fails the run instead of ending it; a second stop in one scan, or a restart with another
  selection, ends it with an error; an action whose requester timed out is still executed, beside the next scenario.

## Not modelled

What the inventory says is storage, parsing, platform code or a wrapper; the plan's items; and within modelled parts the engine of shadow handoffs, node
registration, the contents of messages, approvals and files beyond equality, and what each module's section leaves out. Clocks of different nodes
are one clock for expiry and unrelated for stamps. Integers are unbounded, as Python's and, for the counts modelled, TypeScript's are.

## Running

    tlc -config MCDaemon.cfg MCDaemon.tla
    tlapm ConversationProofs.tla

Each run finishes within five minutes on two workers. `PROJECT.json` names the module and configuration of each.
