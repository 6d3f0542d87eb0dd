# Ajax: a TLA+ model of an agent host

Ajax runs coding agents for tasks. A task is a git worktree with a branch, a tmux
session and, in the web host, a *chat*: prompts from browsers are stored in the
registry database, handed one at a time to an agent process, and their outcome is
stored again. The promises that are hard to keep are that a prompt is never lost,
never sent twice and never stuck, that what the operator is shown is what is
stored, and that a task that is dropped leaves nothing behind, although hosts
crash and are replaced, writes fail, agents die, and clients retry, edit,
withdraw, cancel, restart, clear and switch at any moment.

Contents: 1 inventory, 2 modules, 3 runs, bounds and fairness, 4 findings,
5 proofs, 6 observations without a run, 7 what is not modelled, 8 plan.

## 1. Inventory

| Part | State | Operations | What makes it correct |
|---|---|---|---|
| execution lease (`execution_ownership.rs`, `execution_recovery.rs`) | the `execution_owner` row; `lost`, failed heartbeats of a host | first and second claim, heartbeat, reclaim, release on drop | one owner; no live owner displaced; a dead one replaced; a displaced one notices |
| execution kernel and store (`execution.rs`, `execution_store.rs`) | prompt rows, checkpoints, run row | `commit_execution`, one transaction fenced by the owner's boot id | no write of a displaced host; only allowed state changes |
| prompt ledger (`prompt_ledger.rs`, `kernel.rs`) | phase, content and dispatch marks per `clientMessageId` | upsert, mark, remove, recover; `plan_commit` | a prompt that left the queue never returns to it |
| TaskSession actor (`task_session*.rs`) | ledger, queue, active prompt, pending interruption, agent slot | acquire, submit, edit, withdraw, cancel, restart, configure, clear, switch, poll, flush, shutdown | durable before dispatch; memory equals database; FIFO; every turn settles |
| TaskSessionDirectory, cleanup, headless dispatch, CI delivery | handle -> actor with released mark | acquire, release, evict, cleanup, dispatch of stored queues | a held chat keeps its actor and its stored session; stored prompts are started |
| orphan sweep, startup recovery | `SWEPT_ONCE`, run rows | kill foreign children, interrupt dispatching prompts | one agent per chat; nothing resent |
| session shim and adoption (`session_shim/`) | a socket and a log of an agent that outlives its host | spawn, connect, replay, relay, adopt, retire | each line fed once; a harness out of reach only after a crash during a start |
| transcript, replay, websocket, browser transport | bounded log with cursors, snapshots, outbox | append, roll back, resume, resync, earlier pages | a browser's view is what the log holds |
| activity, evidence, background jobs | reported activity, pending report | report, retry, settle | the task follows the turn; no ghost runs |
| harness adapters (RPC and ACP clients, sidecars) | the turn in flight, kept records, command queue | prompt, cancel, configure, ask, adopt, exit | a turn gets its own answer, once |
| model and effort choice (`config_options.rs`, `apply_model/`) | the task's pin, what the agent advertises | apply at a start, change in the chat, store | what is stored is what was chosen, and is applied or refused |
| registry save and load | tasks and revision in SQLite, copies of several processes | load, save with merge, activity compare-and-set | no save loses another's change |
| shared web state (`state.rs`, routes) | registry in memory, lane, flight, deferred reports | handlers on copies, commit, refresh, drain | answered changes stay; reports in order; no circular wait |
| request gate (`operation_outcomes.rs`) | outcomes in memory and file | begin, finish, persist, reload | one run per request id |
| task lifecycle and operations | record, worktree, branch, session, receipts | start, check, ship, repair, drop, observe | no worktree without a record; a retried drop ends and leaves nothing |
| agent evidence (hooks, process snapshot, pane) | events file, snapshot, live status | fold, weigh, apply | the status follows the evidence |
| attention, CI monitor, push | stamps, marks, subscriptions | tick, deliver, flush, prune | news told once, failures told; nothing forgotten |
| terminals (`terminal_pty/`, `tmux_task_session/`) | tmux sessions per browser, PTYs | bridge, reap, filter, attach, resize | sessions end with their sockets; output and keys arrive; size follows |
| supervisor, sign-in, dictation | bounded channels, flows, phases | read, forward, cancel, watch | everything read is printed, the run ends; phases of one flow; after its stt.ready a dictation is told its own words, unless two sockets dictate at once |
| TUI, pages, git/tmux/sandbox adapters | views, external programs | render, parse, spawn | presentation and I/O |

How they interact: the directory asks the lease before it asks an actor for a
slot; the first claim of a boot runs the sweep and the recovery; every durable
write of an actor goes through `commit_execution`, which compares the lease row
with the boot id of the writer; the actor talks to its agent through a client,
which talks to a process or to a shim that outlives the host; what the actor
learns is reported to the task's record under the lane of the shared state, and
the background tick turns the record into pushes and mail for the agent. CLI
commands share the registry file with the host and nothing else.

Hard behaviours: two hosts over one database; a crash between two durable steps
of one handler; a write that fails in the middle of a handler whose earlier
writes stand; an answer that arrives while its agent is being replaced, after a
timeout, or after the exit was noticed; state copied before an await and used
after it; cursors, queues and flows that carry no owner. `PROJECT.json` lists
each hazard at its line with the properties aimed at it.

## 2. Modules

The chat and its lease:

* **Lease** - what chat sessions rely on: one recorded owner, committed claims
  that are confirmed later, loss and release. The abstract specification.
* **ExecutionOwner** - the lease protocol in heartbeat periods (10 s): first
  claim with the stale limit, probe, second claim with limit -1, the flags stored
  after the commit, answered, failed and missed heartbeats, reclaim, crash, drop.
  It implements Lease (`ImplementsLease`).
* **PromptLedger** - pure operators: execution states and transitions, the ledger
  in memory, what `plan_commit` followed by `commit_execution` accepts and does. A
  row is `[id, st, text, marked, open]`: `text` stands for transcript text, prompt
  text and content blocks, `marked` for the dispatch marks, `open` for a
  checkpoint without result.
* **Filter** - the filter of a list, which PromptLedger, ChatCommands,
  TaskAttach and OperationGate share.
* **ChatHandlers**, **ChatCommands** - the actor. A Rust handler runs to its end
  before the next command, but in between it may write several times. A handler
  is an operator from a configuration to the *set* of configurations it may
  leave, and `Write` is where things go wrong: the process dies there, the write
  fails, or another host takes the lease just before it. `Then` is the `?`
  operator, `Anyway` a call whose result is ignored, so every early return and
  every half-done handler of the code is in the set.
* **TaskSession** - composes Lease with the handlers: hosts that start, claim,
  confirm, lose, sweep and crash, and one chat with its rows, the actor of each
  host, the agent processes, and `sent`, the prompts agents have received.

Around the chat: **SessionDirectory** (all chats of a host: browsers, CI delivery,
startup dispatch, eviction and cleanup, each in the steps between its locks);
**SessionReplay** (transcript, snapshots, resume, bridge, browser, adoption that
rolls back); **SessionActivity** (reporter, pending report, background jobs,
restart); **NativeClient** (RPC client and Claude sidecar); **AcpClient** (actor,
command loop and dispatch of an ACP connection); **ModelPin** (spellings of the
pin, the steps that apply it, what is stored of a change); **SessionShim** (host,
shims, log, connections).

The host's state: **RegistryStore** (several processes over the registry file);
**WebState** (handlers over the shared state with lane, flight, copies and the
drainer of deferred reports); **OperationGate** (request ids and the outcomes
file); **PushHub** (subscriptions, flusher, deliveries).

The task: **TaskOperations** (start to drop over worktree, branch and session);
**AgentEvidence** (hooks, fold, process snapshot, pane); **TaskAttention**
(background tick: checks, conflicts, mail, pushes); **AgentSupervisor** (`ajax
supervise`); **TerminalBridge**, **TaskAttach** (terminals); **AgentSignIn**;
**SpeechBridge**.

**MC_ExecutionOwner** and **MC_TaskSession** are instances. **MC_Workspace** and
**MC_Host** bring together the parts that do not share state with each other: a
variable `part` is chosen in the initial state and says which one moves, so one
run explores each part's state space after the other and not their product. In
MC_Host the view is the variables of the part that moves; the others keep their
initial values, so states with equal views are equal but for the initial values
of variables that never matter to the part.

The correspondence of every definition with its lines is `map` in
`PROJECT.json`. Definitions whose comment begins with "Mutant" are deliberate
faults, one per property: TLC must reject the specification with the fault put
in its place.

### Abstractions and assumptions

* TaskSession: no shim is running (SessionShim has its own module), so detaching
  an agent ends it. A host process that dies may leave the agent running only
  when its identity was recorded. Error notes written once per episode may or may
  not be written (`MaybeLog`). Another host may take the lease right before any
  write of a handler, and only there; its other steps happen between handlers:
  everything else a handler reads is its own memory. The sweep's kill and the
  clearing of the row, and the recovery's read and write, are one step each;
  start tokens match. A `begin_prompt` that fails or times out may have reached
  the agent. A claim is whatever Lease allows, and ExecutionOwner shows that the
  real protocol does no more.
* SessionDirectory: a call to an actor and its answer are one step; a task is not
  made again under a handle while its `cleanup_session` runs; one sweep at a time;
  a start that finds queued chats meets no losses and one visit.
* SessionShim: offsets count lines; one host acts at a time, while shims of hosts
  that crashed may still be starting. Every call on the socket's file is a step
  (bind, probe, removal, second bind, listen; removal and kill), the emptying of
  the log and the start of the harness are one. SpeechBridge: the worker hears one
  session at a time; two drains of the event queue at once are one after the
  other; what a page does to keep to one dictation is not modelled. NativeClient
  and AcpClient: malformed and unknown records are events without consequence.
  AgentEvidence: no child runs. TaskAttention: one task with one pull request; the
  refresh is one step, since a refresh that lost a race is dropped.
* ModelPin: models with an effort axis and Fast; no bracketed ids.
* Lists are filtered with a recursive function (`Keeping` in Filter) and not with
  `SelectSeq`, which the provers cannot expand.

## 3. Runs, bounds, fairness

| Run | Instance | Shows |
|---|---|---|
| `owner` | 2 hosts, stale and failure limit 2, fair | types, `HealthyOwnerFresh`, `TakeoverJustified`, `ImplementsLease`; `LeaseSettles`: a displaced host learns it, a dead host's lease passes on |
| `owner_steal` (violation) | 3 hosts | the second claim displaces a live owner |
| `session_turns` | 2 boots one after the other, 2 prompts, 2 texts, 1 fault, 2 claims; detach, withdraw, cancel, config, evict | types, `SentIsDurable`, `MemoryIsStored`, `TurnIsDurable`, `SentWasQueued` |
| `session_hosts` | 2 hosts at once, 3 claims, no optional commands | `SentAtMostOnce`, `OneAgent`, `NeverQueuedAgain` |
| `session_replace` | 1 host, 3 prompts, queue cap 2, 1 restart; config, clear, switch, detach | `RestartReplaces`, `InOrder`, `TurnIsDurable` |
| `session_live` | 1 host, 2 prompts, 1 fault, fair | `ChatMoves`: an answered or orphaned turn ends, the queue advances |
| `session_settle` (violation) | clear and switch, fair | a turn after a clear never settles when its agent dies |
| `session_lost` (violation) | 1 fault | a host without lease starts an agent |
| `session_fifo` (violation) | 3 prompts, 1 fault | a new prompt overtakes a queued one |
| `workspace` | five parts, each fair, at most two happenings; two sockets dictate | `WorktreeHasRecord`, `DroppedIsGone`, `DropConverges`, `NewsArrives`, `SupervisorServes`, `SignInServes`, `SpeechServes` |
| `host` | fifteen parts, safety | one property per part: `SavesKeepOthers`, `RequestRunsOnce`, `SubscriptionsStored`, `HandlersAgree`, `DirectoryServes`, `ChatIsShown`, `ActivityIsTrue`, `TurnsAnswered`, `ShimServes`, `AcpTurnServed`, `PinFaithful`, `TerminalsServed`, `AttachFaithful`, `EvidenceIsRead` |
| `replay_gap` (violation) | SessionReplay alone, joint bound 7 | a reconnecting browser misses rows |

Several of these are conjunctions of named parts, defined side by side in the
module: `HandlersAgree` is `AnsweredIsSeen`, `ReportsKept` and `NoCircularWait`;
`ChatIsShown` is `ViewFollowsLog` and `PromptKept`; and so on.

Bounds. Three hosts are needed where the probe of a dead owner is overtaken by a
third one; the limits 2/2 keep the relation 3/3 of the code (failure limit not
above the stale limit), and the theorems cover every pair. Two prompts give one
turn in flight and one behind it; the third is there where order is the question.
One fault is enough to leave any handler half done, and a crash is possible at
every write without being counted. Two claims let a successor take over or a host
reclaim its lease; three let a displaced host come back to a chat that another has
served. The shim may lose two hosts, since the third is the one that meets what
the first left starting; four lines are said, two less for each crash. In `host`
each part has a bound for each kind of thing that may happen, and where those
multiply a joint one (`MaxMoves`, `MaxEffort`, `MaxMixed`, `MaxAcpMixed`,
`MaxHappenings`): every pair of kinds happens, not every combination of all. Lists
of the code that are cut off (transcript, outcomes, channels, spoken frames) have
limits of 1 to 4, so they overflow. `MAX_ROUNDS` is 2 here and 8 in the code: a
step needs one round, and the second shows what happens when the options change
under it. `CHECK_DEADLOCK FALSE` everywhere: with its bounds used up, or all boots
gone, the system has stopped.

Fairness. Lease: time passes, the heartbeat loop runs as long as its process,
store errors do not last for ever. TaskSession: the poll of a running actor
happens (`tokio::time::interval`, 50 ms) with neither crash, fault nor takeover,
an answer gets through the reader thread, the retry of the backlog comes due.
Operations: the operator retries a Drop (that is what "converges" means) and a
started command runs on. Attention: the background loop ticks and time passes.
Supervisor: its tasks, the readers, the forwarder and the command are scheduled.
Sign-in: the watcher thread of a login runs. Dictation: the loop of each socket
runs and its deadlines pass. Nothing is assumed of agents, browsers, claims or restarts: a
turn whose agent is alive and silent may last for ever.

## 4. Findings

1. `owner_steal`: host A is dead; B and C both find it so; C claims and serves;
   B's second claim (limit -1) takes the lease from C, which is alive. The
   documentation allows takeover on positive evidence only.
2. `session_settle`: attach, clear, submit, the new agent dies: `release_child`
   left `child_exit_reconciled` set, only `finalize_client_metadata` resets it, so
   `pump` never reconciles the exit and the chat stays busy until it is replaced.
3. `session_lost`: three failed heartbeats set `lost`, the row is still the
   host's, and clear or switch (which do not call `check`) start an agent.
4. `session_fifo`: p1 ends, the dispatch write of p2 fails and p2 stays queued;
   p3 is submitted to the idle actor and is sent first.
5. `replay_gap`: the host is replaced during a turn, the adoption rolls the
   transcript back to the dispatch cursor and writes the turn's rows again, fewer
   or in other batches; a browser that reconnects with a cursor of the first
   reading gets only what comes after it.

`TurnIsDurable` is checked with failed writes (`session_turns`) and with clears
(`session_replace`) but not with both: an interruption left pending across a clear
later clears the active state of another prompt (`task_session_exit.rs:82`). A
late answer can also complete a prompt whose interruption is pending, which then
can never be saved (`task_session.rs:451`); it takes three failed writes, and the
liveness run stops at one fault.

## 5. Proofs

TLC checks one small instance; the modules named `...Proofs` prove their theorems
for every value of the constants, under the assumption named in the component's
module. Those assumptions say that bounds are naturals, that a null value is not
one of the set it stands beside, and where the code has such a relation, that one
limit is not above another: `OwnerAssumption` has `MaxFailures <= StaleAfter`
(three failed heartbeats of 10 s against a row that is stale after 30 s,
`execution_ownership.rs`), `GateAssumption` has `Keep >= 1`. The bounds that a
run needs (how many faults, crashes, moves) are parameters of the theorems too:
since any number may stand there, nothing proved depends on them.

| Module | Theorems | Inductive invariant |
|---|---|---|
| SessionDirectoryProofs (ExecutionOwner) | `TypeCorrect`, `Inductive`, `HealthyFresh`, `Takeover`, `Refinement` | `IInv`: types, `AgeExplained` (the row of a healthy owner is no older than its failed heartbeats), `FailuresBounded`, `FlagsFresh`, `NewUntouched` |
| TaskSessionProofs (PromptLedger) | `PathsAllowed`, `FinishedStays`, `DispatchedTextFixed`, `CommitKeeps` | none: facts about the operators |
| TaskSessionProofs | `SentAlwaysDurable`, `NeverBackInQueue` | `IInv`: `RowsFine` (a row's marks fit its state), `SentFine`, `SessionsFine` (ledger, queue and turn of every host fit the rows) |
| TaskSessionProofs | `NeverTwoAgents` | `AgentInv`: the run row names the host whose agent runs, and a row that names a child has the boot of that child |
| SentOnceProofs | `SentOnlyOnce` | `IInv`, `AgentInv` and `OnceInv`: of a host whose agent is healthy, what was sent is begun in its ledger or over in the rows, and nothing in its queue was sent |
| WorkspaceProofs (RegistryStore) | `StoreTypeCorrect`, `StoreKeepsOthers` | `StoreIInv`: types, `NoStoredGhost`, and `InStep(p)` for every process: what it knows to be stored under a revision is what was, its proposal is the merge, a host has taken over what it saved |
| WebRuntimeProofs (WebState) | `WebTypeCorrect`, `WebHandlersAgree` | `WebIInv`: `RegistryKept`, `HandlerInPlace` (which handler is at which step with which lock), `QueueInOrder` |
| WebRuntimeProofs (OperationGate) | `GateTypeCorrect`, `GateRunsOnce` | `GateIInv`: `RanIsKnown`, `RunsOnce`, `NewestIsComplete` |
| WebRuntimeProofs (PushHub) | `HubTypeCorrect`, `HubStored` | `HubIInv`: types, `SubscriptionsStored`, `FlushInHand` |
| WorkspaceProofs (TaskOperations) | `OpsTypeCorrect`, `WorktreeRecorded`, `DropLeavesNothing` | `OpsIInv`: types, `StepsLeft`, `TaskInHand`, `WorktreeHasRecord` |
| WorkspaceProofs (AgentEvidence) | `EvidenceRead` | `EvidenceIInv`: types, `AgentInTurn`, `QuestionIsTold`, `BeforeTurns`, `FirstTurn` |
| WorkspaceProofs (TaskAttach) | `AttachKept` | `AttachIInv`: types, `KeysForwarded`, `LeftWell`, `SizeFollowed` |
| SessionDirectoryProofs (SessionDirectory) | `DirectoryTypeCorrect`, `DirectoryServesAll` | `DirectoryIInv`: types, `EntryFine`, `ActorFine`, `Fits` for every caller, `JobFine`, `StartupFine` |
| SessionShimProofs (SessionShim) | `ShimTypeCorrect`, `ShimServesAll` | `ShimIInv`: types, `ShimFine`, `LogFine`, `ConnFine`, `GotFine`, `PathFine`, `Alone`, `HostFine` |
| SessionShimProofs (NativeClient) | `ClientAnswers` | `ClientIInv`: types, `Numbered`, `RunInPlace`, `OnlyOwn`, `ExitComes`, `OwnAnswer` |
| AcpClientProofs | `AcpServes` | `AcpIInv`: types, `AcpPrompted`, `AcpInTurn`, `AcpStaged`, `AcpAskedOnce`, `AcpTold` |

**The lease.** `HealthyOwnerFresh` is not inductive: that the row of a healthy
owner is not stale follows only from how it got its age. `AgeExplained` bounds
the age by the heartbeats that failed since the row was renewed, and the failure
limit stops a host before the stale limit is reached. `Takeover` needs the same
invariant; `Refinement` maps each step of the protocol to a step of Lease or to a
stutter, so that TaskSession may be built on Lease alone.

**The ledger.** `plan_commit` brings a prompt from what is stored to what memory
says by one to four transitions, and the theorems go through the sixteen pairs of
states: every transition is one the kernel allows, a finished prompt is left as
it is, the text of a prompt that has left the queue stays or is cleared. They
speak of whatever ledger a host with stale memory may hold, so they need no
invariant. `CommitKeeps` puts them together for the whole list of rows: what a
commit accepts leaves rows that are again fine, the ledger fits them, and no
prompt is queued that was not.

**The chat.** `SentIsDurable` and `NeverQueuedAgain` are about several hosts that
all believe to own a chat, with ledgers read at different times. `plan_commit`
would accept Interrupted -> Pending: it is not the transitions that keep a
dispatched prompt out of the queue. A queued entry has no dispatch marks and a
dispatched row has them (`RowsFine`), so a host with a stale queued entry asks to
rewrite content that is fixed, and the commit is refused. `IInv` says so for
the rows and for the ledger, the queue and the turn of every host. The proof has a
lemma for each handler: started from a configuration that is `Good` with respect
to the rows of the step's start, it ends in `Good` ones, whatever write fails,
wherever the process dies and whoever takes the lease on the way; `CommitGood` is
the one place where rows change. `Keeps` relates the rows before a step to those
after it, and `KeepsSession` shows from it that what the other hosts have in memory
stays fine though they took no part.

**One agent.** The lease does not keep two agents apart: a displaced host goes on
until its next heartbeat, and a crashed one leaves its agent behind. What does is
the run row. `AgentInv` says that an agent that runs is the child the row names;
so two agents would be two children of one row. `Held` covers every handler
that starts no agent: it leaves the row and the agents of the others alone and
revives nobody. Before a handler starts one it has passed
`reject_foreign_live_child`, after which no other host has an agent (`Alone`,
which the steps up to the start keep), and from the start until
`record_child_identity` the new agent is `Staged`: should any write fail,
`discard_staged_client` or `discard_unsaved_client` ends it before the handler
returns. Only the sweep clears the row, and only after it has ended the agent it
names. No bound on hosts that run at the same time is assumed.

**Sent once.** That an agent never gets a prompt twice needs both invariants and
more. `SentIsDurable` speaks of the rows, but a host dispatches from its queue and
its ledger, which may be older than what another host has sent meanwhile.
`OnceInv` therefore speaks of a host only while it may dispatch, that is while
its slot is live and its agent runs (`Serves`): then everything that was sent is
in its ledger and not as queued, or is over in the rows, and nothing in its queue
was sent (`Matched`). A host that is displaced keeps this while its agent lives,
since with that agent there is no other (`AgentInv`) and so nobody else sends;
once the agent is dead nothing is claimed of it until `recover_prompts` has read
the rows again or a reset has emptied the queue, which every path to a live slot
does before. `Ready` is `Matched` for the configurations inside a handler;
`Better` says that a handler that succeeds has made the host fit to dispatch, which
is what the handlers rely on that dispatch right after an agent was started.
A new prompt is safe by `NewUnsent`: were its id already over, `plan_commit` would
have refused the ledger that admits it (`OverRefused`).

**The registry.** A save may write what another process has not seen only if
what it merged was complete. `InStep` says for each process, at each place of
its code: the baseline is what was stored at the revision it remembers, and if
that revision is still the present one, the proposal is the merge of memory with
what is stored. `MergeTaskKeeps` is the lemma about three way merge: a field that
memory did not change keeps its stored value. `StoreKeepsOthers` follows, since a
commit needs the revision to be unchanged. It is no unconditional statement: two
saves are excepted by name, and both can overwrite what another process stored.
`Deceived` is a process whose load read the tasks of one save and the revision of
a later one, while nobody has saved since; as soon as somebody has, it merges and
the theorem covers it. Not `SyncedTask` is a task whose merge a native process has
saved without taking it over. That the registry is not emptied by accident holds
for every save.

**Shared state.** A handler works on a copy. `Current` says of the copy and of
the shared registry alike: who goes by the present revision has all that is
stored, who goes by an older one will fail its save. Each handler's steps keep
this for itself; `OthersInPlace` shows once for all that a step of one handler
leaves the facts of the others (each lock has one holder, `savedRev` and
`shared.rev` only grow). `QueueInOrder` relates what drainers have applied to what
waits: every waiting report is newer than the applied ones, but for a front that
is applied and not yet popped. A lock is held only at the places `LanePlaces` and
`FlightPlaces` name, and the flight is never asked for by who holds the lane, so
no two handlers wait for each other.

**The request gate.** A request is carried out once because its id is among the
remembered outcomes, in a snapshot still to be written, or in the file
(`RanIsKnown`); snapshots are written in any order, and `NewestIsComplete` says
that the one with the highest number has everything. What the filter keeps is
proved in FilterProofs (`KeepingElements`) by the least prefix that would be a
counterexample, since induction theorems take an operator as parameter.

**Push.** `FlushInHand`: what the flusher has read is what the store holds, or a
change has come since and has notified it again.

**Operations.** `TaskInHand` says what memory is while an operation runs: a start
or a repair that can make a worktree has a record stored, so a crash at any
moment leaves `WorktreeHasRecord`. `InDropOrderSteps` and `CompletedIsGone` give
`DropLeavesNothing`: a drop has no step left only when nothing was observed.

**Evidence.** What a task shows is folded from events that arrive late, so
`EvidenceIsRead` speaks only of moments at which all were told; the invariant
says what holds on the way there. `QuestionIsTold`: a question of the agent is in
the hook under way, or the events are blocked on it and the end of a tool call
does not take it away. `FirstTurn`: from the start of the first turn the fold is
active or blocked and not settled. It holds of the first turn only, because the
fold keeps its settled mark from one turn to the next (`WorkingUntilSettled` of
section 6 fails for that reason); `BeforeTurns` is what the first turn starts
from.

**The operator's terminal.** `KeysForwarded` says, until the session is left, that
what the task got is the keys among the first n that were typed, for some n; a
piece that is read moves n, and what a piece holds before a reserved key is
exactly what is forwarded of it (`FilterInputCounts`, from the lemmas of
FilterProofs, for which TaskAttach is written with `Keeping`). `LeftWell` says that
a reserved key is obeyed at once, and a session left by one has reaped its client
when it is over. `SizeFollowed` needs the order of the code: the handler is installed and
the flag raised before the first client is started, so a resize of any moment is
in the flag or in the size of the PTY.

**The shim.** `FedExactly` and `OneHarness` are about three kinds of process: shims
with their pump, relay and handlers, the host, which dies at any moment, and the
connections between them. Several shims may be on their way to the path, and each
call on the socket's file is a step, so what is invariant is said of the file.
`PathFine`: the path leads to a shim from the moment it bound until its file is
lost, and no file is taken by a shim that asked when the other listened
(`stolen`): a live listener at the path answers the probe, and a shim binds only
where there is no file. `Alone`: as long as no host died between spawn and
connect, only the host's own child is on its way to the path, and nothing is
`robbed`. `ShimFine` says that only a shim with a harness has clients, `LogFine`
that the log holds each shim's lines in order, and nobody else's unless a file was
lost, `ConnFine` and `GotFine` that a connection has got the log from its offset
on and that the one attached and not cut has every line delivered, but for the
one the pump is about to feed; `HostFine` says whom the host is connected to and
which shim its turn is read from. `Calm`, `Down`, `FileGone`, `PathStays`,
`FedStays` and `GotStays` are the lemmas of the steps that end a shim, cut a
connection or take a file; `HandlerStep` and `HostStep` put the steps of a handler
and of the host together. The plain forms, one harness at a time and none out of
reach, are not true of the code (section 6), so `OneHarness` names what it takes.

**The agent's answers.** Neither half of `TurnsAnswered` is inductive. `RunIsOwed`
lists the places where the end of a run may still be, and a step could use it up
unseen; `RunInPlace` says that before the sidecar shuts down a run is at exactly
one of them: its prompt on the way, the SDK at work, or one record that ends it in
what a request has kept or on the pipe (`OneRun`), and that without a run there is
no such record anywhere (`NoRun`). That a request may throw its own response away
needs `OwnId`: no request, abort or answer owed by the sidecar has the id of the
run, and since ids are new when they are given out (`Numbered`) none will. Once the
sidecar shuts down several results of a run may be about; `OnlyOwn` then says that
they are of that run or report it lost, but for a prompt that was sent during the
shutdown, while the SDK may still end the earlier turn: `OwnAnswer` leaves that
prompt out (`late`). `ExitComes` says that the exit
of an agent that is gone is read or still to be read. `TakeKeeps` is the lemma of
all steps that read a record, `FinishKeeps` of those that end a run, `WriteKeeps`
and `WriteAwayKeeps` of the sidecar's writes, before and during a shutdown.

**The agent that speaks ACP.** Actor, command loop, dispatch and agent change the
same turn from four sides. `AcpPrompted` gives every prompt one place: the
actor's queue, the agent's, the agent itself, its response in the stream, the task
that waits for it, the event of its end. `AcpInTurn` orders what was said against
the end of the turn: in the stream an update is never behind the response of its
prompt, a prompt whose task is woken has no update left there, and among the
events an end is led by the update. `AcpStaged` says which of this is possible
before the session is ready, while a restored session replays (its updates are
suppressed) and for an adopted connection, which has one turn. `AcpTold`, that the
turn has not got lost, is then kept: a timeout of the actor, a slow configuration
request, the death of the agent, the end of the stream or a shutdown either leaves
the prompt in its place or puts its end or the exit among the events.
`InTurnHeard`, `InTurnEnd`, `InTurnEvent`, `InTurnWritten` and `InTurnParts` are
the lemmas of the steps that move a message, `CommandTaken` of those of the loop.

**The directory.** Acquire, release, eviction and cleanup each take several
steps and hold no lock between them. `EntryFine` and `ActorFine` say that an entry
leads to a running actor of its chat and that a running actor is the one of its
entry; `Fits` says of a caller, wherever it is, that it has an actor, and once it
has asked for it, that the entry of that actor is not marked released: so neither
the second look of an eviction nor the one under the lock removes it. Only two
steps of the code break this, and the model says so of the actor concerned (`slip`):
a release that marks the entry after another acquire of the chat, and a
`cleanup_session` that deletes what a new actor of the chat has stored. How many
holders the actor counts does not matter: the proof needs no fact about it, and
with that the exception for an actor whose holders are counted wrongly, which
`DirectoryServes` had before, was dropped. `Steady` is the lemma of every step
that ends and makes no actor; `EntryGoes` is that of the two that end one.
`StartupFine` says that a prompt stored before the start is in a chat still to be
handed out or in hand.

What TLC alone checks. Liveness under fairness (`LeaseSettles`, `ChatMoves`,
`DropConverges`, `NewsArrives`, `SupervisorServes`, `SignInServes`,
`SpeechServes`): the provers have no rule for it. Of TaskSession `TypeOK`,
`MemoryIsStored`, `TurnIsDurable`, `SentWasQueued`, `InOrder`
and `RestartReplaces`, checked on small instances. Of the other
parts of `host` `ChatIsShown`, `ActivityIsTrue`, `PinFaithful` and
`TerminalsServed`.

## 6. Observations without a run

Read in the code while modelling it. Those of the first list are definitions of
the modules: TLC refutes them when they are added to a configuration. They are
not runs, because a run is kept for what a document, a comment or a test states
most plainly.

* `NoSilentOverwrite` (RegistryStore): a CLI command that edits after a save that
  merged goes by memory that never took the merge over (`context.rs:183-190`,
  `279-281`), against `web-cockpit.md:1711-1713`.
* `ReceiptsAreNoAuthority` (TaskOperations): Drop skips a step whose receipt says
  it is done (`drop_task.rs:457-480`), against `task-operations.md:18-21`.
* `NotResent` (WebState): a failed page request is answered from the copy and
  reported again (`cockpit.rs`, `state.rs` `run_read`), against
  `web-cockpit.md:1643-1650`.
* `HeadAgrees` (SessionActivity): the reported head lags behind the queue.
* `WorkingUntilSettled` (AgentEvidence, `canonical_agent_event.rs:164-168`): a
  late `ActivityFinished` ends a turn that goes on.
* `LaterLoginShown` (AgentSignIn, `cursor_login.rs:80-118`, `187-193`): a login
  started while another is still `Idle` runs beside it and the older one may
  overwrite what is shown.
* `SpeechIsolated` (SpeechBridge): all sockets share one worker and one queue of
  events that carry no session (`live.rs:135`, `stt_provider/mod.rs:343-369`,
  `405-435`), and a second start is refused per socket only (`bridge.rs:379`). Of
  two browsers that dictate at once the one that polls first is told the other's
  words and completion, and a dictation is told what a cancelled one left behind,
  since `cancel` empties the queue before the worker has taken the cancel frame;
  against `web-cockpit.md:800` and `:815` ("remain isolated by session ID") and
  `speech-input.md:217` ("one active session at a time"). Whether a page shows the
  words is not modelled.
* `NoSecondHarness`, `NoOrphanHarness` (SessionShim): a worktree may have two
  harnesses, one of them out of reach. `kill_harness` removes the socket's file
  before it kills the group (`process.rs:172-173`), so `retire_live_shim`
  (`spawn.rs:122`) finds nobody and a new harness starts while the old one lives,
  against `web-session-behavior.md:789-793` ("waits until the old shim has exited").
  And a host dies while its shim is starting, the next host's shim finds the file,
  is refused because the first is bound but does not listen yet, and removes it
  (`process.rs:115-123`): both serve, the first behind no path, against
  `process.rs:119` and the test of a second serve (`process_tests.rs:235`).
* `SustainedIsPushed` (TaskAttention): `deliver_and_record` drops its clone
  (`cockpit.rs:265-270`), so `notify_candidate_since` (`attention.rs:162-180`) is
  never kept.

The chat. `dispatch_queued_prompt` reports no `PromptAccepted`
(`task_session_exit.rs:541-582`); a duplicate submit of a completed prompt
appends one (`:390-411`). A pending report is applied after newer evidence
(`session_evidence.rs:86-98`). An adopted native turn without a prompt id is
ended by any response (`rpc_session.rs:296-341`). An ACP `begin_prompt` that times
out clears `busy` although its command stays queued (`client.rs:612-642`). A reset
snapshot names the cursor from before the pump (`task_session_outbound.rs:49-50`).
An acquire on an actor whose agent is gone sets its holders to one; a release
that is marked after another's acquire lets a held chat be evicted.
`cleanup_session` deletes without the owner check.
`adoptable` asks whether anybody answers at the path and not which shim
(`shim_adoption.rs:45`): a shim that a dead host started and that binds after the
next host's shim has ended is read at the offset of the other one's log.

The model pin. `gpt-5.1-codex-max` is stored as `gpt-5.1-codex|effort=max|…`, and
a restart selects the base model (`config_options.rs:736-761`);
`m|reasoning_effort=hi` is accepted where the model has no effort axis; a change
on a dead child stores the merged pin though the respawn refused it
(`task_session_spawn.rs:166-178`).

The host. A handler persists while it holds the shared guard (`commit_durable`),
against `web-cockpit.md:1660-1661`. A page served between adoption and pump is
applied stale. A deferred report that fails in the drainer is only logged. A
failed push flush waits for the next change. Loads read tasks only, so saves drop
stored events and receipts. Drop reads a branch as absent from one listing
(`drop_observation.rs:357-375`).

Around them. In the supervisor a forwarder blocked in `events.send` without a
deadline and a full channel keep `terminate` from being reached
(`runtime.rs:205-233`). A sign-in cancelled after the sidecar's check still saves
the key. `end_session` of a dictation empties its queue before the forced update. A second browser that opens a terminal between
creation and attach of the first reaps the first one's session. A resize whose
`ioctl` fails is lost.

## 7. What is not modelled, and why

The TUI, the pages and what they render; the git, tmux and sandbox adapters
(each call is one step with the results its callers tell apart); parsers and
formats; child runs; the Codex and Pi sidecars, which repeat the Claude one's
protocol; resume, merge, tidy and the orphan collector; schema migrations; the
registry's events and receipts; permissions; the switch of a harness. Most of the
repository's lines are of these kinds: the model covers the lines in which state
of more than one actor changes.


## 8. Plan

Next to be proved, in this order: of TaskSession
`SentWasQueued`, and `MemoryIsStored` for one host at a time; then
`TerminalsServed` and `ActivityIsTrue`.
Then the model: resume, merge and tidy in TaskOperations, permissions in
TaskSession, child runs in AgentEvidence.
