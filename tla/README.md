# A verification project for the durable runtime of Glass

Glass is a local coding workspace for a person and an agent. This project
models the part of it that has to be right when nothing else goes well: the
durable runtime of `glass-core`, in which the work of an agent survives crashes,
lost connections and failing disks, and the parts of `glass-core` beside it that
make promises across processes, threads and restarts: the saved queue of
follow-ups, the budget, file transactions, the mailbox of a session and its
background jobs.
The modules are translated from the Rust source; the documents are used only for
what the program promises. TLC checks every module on small instances, and TLAPS
proves what can be proved for every instance.

- [The system](#the-system)
- [The modules](#the-modules)
- [The runs](#the-runs)
- [The proofs](#the-proofs)
- [Where the code and its documents disagree](#where-the-code-and-its-documents-disagree)
- [What is not modelled, and the plan](#what-is-not-modelled-and-the-plan)

## The system

| Component | State | Operations | What is hard |
| --- | --- | --- | --- |
| **Durable task graph** (`durable.rs`, `apply`, `reconcile`, `recover`) | tasks with status, owner, dependencies, revision and abort flag | create, update, migrate, abort, in batches; reconcile after each batch; recovery on opening | settlement from children to owners, waits, aborts of subtrees, reconcile on stale clones, restarts |
| **Durable journal** (`durable.rs`, `Store`) | the file, the lock, the history in memory, the poison flag | open, commit, changes, poison, drop | death at any byte of an append, failed writes and syncs, power loss, two processes |
| **Durable host** (`durable_runtime.rs`, with `runtime.rs`, `agent.rs`, `session.rs`) | generations, tool tasks, transcript and live text in the journal; the active run in memory | submit, run, stream, call tools, settle, abort, reset, recover and repair | aborts and lost connections at every point, death between the record of a call, its dispatch and its result |
| **Documents, forks, history** (`durable.rs`) | documents with revisions, parents of conversations | put, migrate, fork, read as of a sequence | fork policies, reads of the past |
| **Follow-up queue** (`queue.rs`) | the queue in memory and in a sidecar, receipts in the session log | push, edit, move, promote, discard, clear, deliver, open | two files that cannot be written together |
| **Session log** (`session.rs`) | records, writer lock, compaction marks | append, open and repair, branch, compact | torn lines, a second writer, branches |
| **Budget ledger** (`budget.rs`) | spent, reservations, limit, children, in memory and in a file | reserve, settle, abandon, charge, admit a child, set the limit, load | threads sharing one limit, failed saves, uncertain requests across restarts |
| **File transactions** (`transactions.rs`) | a journal of originals and progress | apply, reverse, recover | death between the journal and the file, edits by others |
| **Inbox** (`inbox.rs`) | a mailbox of lines, a cursor in receipts of the session log | send, peek, deliver | senders and reader that die, a reader without the lock |
| **Loops** (`loops.rs`) | schedules, receipts | add, remove, fire | as the inbox |
| **Jobs** (`jobs.rs`) | process groups, drains, captured output, watches, count of notices | start, watch, poll, stop, refresh, cancel, notify | exit, timeout, poll and stop in any order; a notice exactly once |
| **Pacing** (`provider/pacing*.rs`) | gaps and cooldowns in a locked file | acquire, observe | processes that share one account |
| **Teams, subagents, serve mode, desktop** | assignments, reviews, supervised processes | many | planned last, or I/O |
| **Tools, sandbox, providers, terminal, glass-dev, browser engine, clients** | | | effects on the operating system, parsing, rendering; not modelled |

How the modelled parts interact. A client of `gc runtime` sends requests to the
host, one at a time; while a generation runs only an abort, a cancellation and
the reading of changes are served. The host turns each step of a generation into
a batch of operations and commits it. The store applies the batch to a clone of
its state, reconciles the clone, appends one frame to the journal, and only then
makes the clone its state. On opening, the store replays the journal, and the
host commits a recovery of interrupted tasks and a repair of the transcript
before it accepts work. The session through which the agent writes is a
projection of the journal: an observer commits each record before the
projection is written.

The queue, the inbox and the jobs share the log of an ordinary session: each puts
a receipt or a notice into it and takes what it has delivered from there. Every
request to a provider passes through the budget ledger, whichever thread of a
session sends it. File transactions share nothing but the file system with the
rest.

What makes each part correct:

- *task graph*: owners settle after what they own, aborts and settlements are
  final, no circle of waits, nobody sleeps when all it waits for is settled, a
  change of a task is visible in its revision, interrupted unsafe work is not
  started again;
- *journal*: it can always be opened, holds every acknowledged commit, and
  memory, file and pollers agree;
- *host*: inputs once and in order, every call answered once, no tool dispatched
  twice, the end of the text that a client has seen is not lost, aborts stick, one generation at a
  time, and the queue goes on;
- *queue*: no acknowledged prompt is lost, none is delivered twice, and a
  restart is invisible;
- *budget*: what was admitted under a limit costs no more than the limit, unless a
  provider breaks the bound; a restart never trusts a ledger that misses a cost;
- *transactions*: the journal knows of every replaced file, no edit by others is
  overwritten, and a recovery that is asked for completes;
- *inbox*: a message is delivered once and in order, and an acknowledged one
  arrives;
- *jobs*: the result of a watched job is given once, is final, and is given in the
  end.

## The modules

`DurableTasks` is the store's graph algorithm. The variable `tasks` is the
published state and `staged` the clone a commit works on. The operations
(`TaskCreate`, `TaskUpdate`, `TaskMigrate`, `Abort`) are the arms of `apply` and
may form a batch of up to `MaxOps`; `Reconcile`, `ReconcileTask` and `NextPass`
are the loops of `reconcile`, with `snap` for the clones each pass works from;
`Publish` and `Reject` end a commit; `Reopen` and `RecoverTask` are `recover`.
`abort_tree` recurses over owners; the model states its result in closed form
(`AbortScope` is the least set closed under ownership, and a task finds an active
child exactly if something below it cannot be moved). The unbounded revision is
replaced by `bumped`, the tasks whose revision grew during the current commit.

`DurableJournal` is the file. An append has the steps begin, some bytes, all
bytes, sync and acknowledge; each can fail and at each the process can die.
`tail` says whether a partial frame, or pieces of several, follow the last
newline. Hashes are modelled as collision free. `LosePower` keeps any prefix
that contains what was synced. `ReadChanges` and `ResetChanges` are a client
that polls with `changes`.

`DurableLog` is the abstract specification of the journal: a history that grows
at its end and whose acknowledged part is never lost. `DurableJournal` is shown
to implement it with `log <- History(file)`.

`DurableHost` is a conversation. `gen`, `order`, `tool`, `transcript` and `live`
are in the journal; `host` and `run` are the memory of the process, lost by
`Crash`; `executed` and `shown` are what happened outside. `Recover` and `Repair`
are the two commits of `Host::open`; `Submit`, `Abort`, `AbortTool` and `Reset`
are requests; `Admit`, `OpenSession` and `FailStart` are `run_task`; `Stream` and
`Publish` are `Context::publish`; `EndResponse`, `CutResponse`, `RecordCall`,
`Execute`, `FinishTool`, `SkipTool` and `EndBatch` are the turn of the agent with
the observer that commits its records; `SteerResponse`, `Steer` and `Continue` take a
correction, which `Stop` accepts beside a cancellation and the end of the
connection; `Finish` is `Context::finish`. A commit is
one step, because `DurableJournal` shows that it is all or nothing; a commit that
fails poisons the store until it is reopened, which is `Crash`. A write of the
*projection* can also fail and leave the store usable: that is `BreakSession`,
after which the session drops or refuses records. Text is a set of numbered
pieces, so that loss can be seen. An answer is recorded in full, from the agent's
memory; the live document holds only the last `MaxLive` pieces of it (`TrimTail`,
64 KiB in the code).

`FollowUpQueue` is the queue with its sidecar and the receipts in the session's
log. `Deliver` writes the receipt and the prompt, and `Save` the sidecar, which
may fail; `TearDelivery` is a death in between, after which the repair of the log
leaves the receipt as its last record. Of the other records of the log only what
stands directly behind a receipt matters, since `Queue::open` counts a receipt that
any user record follows: `AppendRecord` appends one that is not the queue's, a
user record (a typed prompt, the prompt of a headless run, the notice of a job) or
another. `FailAppend` is an append that fails and is undone. `Recovered` is what
`Queue::open` would find now, so that the properties speak of a restart at every
point. `Branch` is the effect of `Session::branch` on both. `Misread` says that the
receipt of a torn delivery is followed by somebody else's user record; the code then
loses a prompt (`queue_loss`), and what is checked of recovery beyond that is
stated for logs in which it has not happened (`Intact`).

`BudgetLedger` is the ledger of one session in memory (`ledger`), in its file
(`disk`), and as a loss of power may leave it (`stable`). A thread passes through
`Begin`, `Reserve` (or `Refuse`, `Exhaust`), `Send` (or `Abandon`), and `Settle`,
`Charge` or `GiveUp`, each of which takes the lock once; every one that saves can
fail to, with the new file in place or not. `SetLimit` is `/budget` and
`Configure` the limit of a configuration, which is not saved. The same command of
the web interface (`web_commands.rs`) does not mark the ledger as unknown when its
save fails; it is not modelled. `exposed`, `billed`,
`overrun` and `admitted` record what was promised, and only properties read them.
Amounts are small naturals; 0 and negative amounts are refused by the code before
anything changes.

`FileTransactions` is one plan. Each process has a program counter for the loops
of `execute` and `reverse` and its own count of the files in progress; the
comparison of a file (`Check`, `CheckRestore`) and its replacement (`Replace`,
`Overwrite`) are separate steps, between which others may `Edit` it. A fault is a
failed save, write, sync or lock; a death is one too.

`Inbox` is a mailbox as a sequence of pieces of lines, so that a line can be torn
and another one written behind it. The boundary of the cursor is the content before
it; the code keeps a hash of its last 256 bytes, and the device and inode. `Peek` and `Deliver` are the two halves of `Mailbox::deliver`, between
which a sender may cut off the line that was read.

`Jobs` is the registry of one session. The operations hold the registry's lock
(`Unlocked`) and are atomic but for a poll: processes, drains and the clock run
beside it, and it reads what is captured (`BeginPoll`) before it looks at the drains
(`EndPoll`). A job is a record
of what the registry keeps, with the processes that hold its pipe. One pipe and one
drain stand for stdout and stderr. Refusals only refresh the jobs. `told` records
how a result was given, and how much output it named.

`MCDurableTasks`, `MCDurableJournal`, `MCDurableHost`, `MCFollowUpQueue`,
`MCBudgetLedger`, `MCFileTransactions`, `MCInbox` and `MCJobs` hold the instances.
`DurableTasksProofs`, `DurableHostProofs`, `DurableJournalProofs`,
`FileTransactionsProofs`, `BudgetLedgerProofs`, `JobsProofs`, `InboxProofs` and
`FollowUpQueueProofs` hold the theorems, each about the module it is named after.

`PROJECT.json` maps every definition to its lines. Definitions whose name adds a
word to that of another one and whose comment begins with "Mutant of" are wrong
on purpose: put in place of the original they must break the property that
guards it.

## The runs

Two runs assume fairness. In `transactions`, a process that runs takes its next
step (it waits for nobody), and somebody asks for a recovery, again after one
failed: without that no recovery could come to an end, and the property says only
that asking often enough is enough once faults and edits have stopped. In `jobs`,
a poll ends and gives the lock back; the loop of the host calls `take_completion`
every 40 ms, so that it finds the lock free again and again, and an append does not
fail for ever (strong fairness: polls take the lock in between); drains and the clock
go on, and a leader that was sent SIGKILL ends.
The other liveness questions (a wake-up that is lost, a queue that stops, a circle
of waits, a journal that cannot be opened) are asked as invariants on the states at
which the program is at rest, which are stronger and need no scheduler.

| Run | What it checks | Bounds |
| --- | --- | --- |
| `tasks_graph` | published graphs are at rest, owners settle last, aborts are final, waits acyclic, reconcile terminates, recovery never conflicts with itself and is safe, revisions cover changes, settled tasks stay | a chain of 3 and a root with 2 children, foreground and background, `all_settled`, batches of up to 2 operations |
| `tasks_stale_clone` | violated, see below | 4 tasks |
| `journal` | the journal opens, memory is the journal, pollers see its history, and it implements `DurableLog` | 2 processes, 2 batches of which one is too large for a page, 4 frames, with `log_fsync` and loss of power and without both |
| `host_turns` | order of inputs, pairing of calls and results, single dispatch, isolation, sticky aborts, the end of the text that was sent can be recovered | 2 inputs: 2 generations, or 1 and a correction of it; the first with up to 2 calls in each response and any number of responses; 3 pieces of text, of which the live document holds 2, but 1 in a conversation with tools (`TextOrTools`) |
| `host_queue` | violated, see below | as `host_turns`, without text |
| `queue_recovery` | nothing lost, restarts invisible (until a branch is made or a receipt is misread), nothing twice (always) | 4 prompts, 6 deliveries, 1 branch |
| `queue_loss` | violated, see below | 3 prompts, 4 deliveries, 1 branch |
| `budget` | the limit holds, reservations are not mixed up, a restart is conservative, an overrun stops everything, children are bounded | 2 threads, 3 requests, one limit, set and lifted at will, 2 reservation IDs, 2 children of which 1 is allowed |
| `transactions` | edits survive, the journal and the receipt are true, recovery completes (under fairness) | 2 files, each changed, created or left alone; 2 processes, 2 edits, 3 faults |
| `inbox_torn_receipt` | violated, see below | 2 senders, 2 processes of the session |
| `inbox` | messages once and in order, acknowledged ones arrive | 4 senders, 3 processes of the session |
| `jobs` | a result is given once, stays what it was, and is given (under fairness) | 2 jobs: one with a time limit, a task, output and a second process; one bound to nothing; 2 notices of 1 job each |

The passing run of the tasks has `all_settled` waits only. That revisions cover
changes and that settled tasks stay as they are holds under `fail_fast` as well, where
`reconcile` works from stale clones: this is proved (below), for both policies.

Why the bounds are enough. Three tasks contain a chain of owners, a pair of
siblings and a background child, and every step of `reconcile` involves a task,
its owner and its dependencies; a batch of two operations can change a task after
another one that depends on it, and recovery of two running tasks has an order,
while three exceed the limit. Two processes are all that the lock can set against each other, and four
frames hold an uncertain append before and after acknowledged ones. Two
generations and two calls show an answered, a running and an unrecorded call
side by side, before a generation that waits or a correction. Four prompts are a correction, two
follow-ups and a replacement. Two threads can hold reservations that do not fit
together, and a third request comes after a restart. Two files have one before and
one after the point of a failure, and three faults allow a death in the
application, one in the recovery and one in the recovery's recovery. Four senders
are one that leaves a torn line, one behind it and two more to be told apart in
order. Two jobs fill a batch of one and leave one for the next notice. `MaxFrames`, `MaxChunk`, `MaxInput`, `MaxLog`, `MaxBranch`,
`MaxRequests`, `MaxEdits`, `MaxFaults`, `MaxRuns` and the output of a job are
bounds of the model only; `MaxOps` (512), `MaxChildren` (128), `MaxOutstanding`
(4096), `MaxId` (2^64 - 1), `MaxLive` (64 KiB), `MaxJobs` (16), `MaxRetained` (128), `MaxWakes` (8)
and `MaxBatch` (8) are limits of the code at a small value. The symmetries permute
prompts, calls, threads and children, and senders, which no definition tells
apart; no run with a liveness property uses one. `inbox` and `jobs` do not check
for deadlock: a mailbox that was cut back, and a session whose host has ended,
stay as they are. In the other runs, deadlock is checked.

## The proofs

Every theorem holds for all values of the constants that satisfy the module's one
assumption (`ConstantsOK`, `HostConstantsOK` and so on: finite or numeric
parameters, and "none" values that are not members). Each rests on an inductive
invariant that TLC checked on the instance of the runs before it was proved; the
proof that a step preserves it has one step per action.

`DurableTasksProofs` proves of `DurableTasks`, for every finite set of tasks,
every client and every limit on operations, with both wait policies:

- `TypeCorrect`: `TypeOK` is inductive as it stands;
- `RevisionsCoverChanges`: a commit changes no task without advancing its
  revision. Inductive with `TypeOK`: every step on the clone changes only tasks
  that it adds to `bumped`, and every step that starts a commit makes the clone
  equal to the published state;
- `SettledTasksAreFinal`: needs `SettledUntouched`, that a task settled in the
  published state is unchanged in the clone *and* was settled in the clones of
  the current pass of `reconcile`, so that a stale clone cannot revive it;
- `WaitsAreAcyclic`: proved for the clone and carried over at publication. The
  key lemma is `WaitKeepsAcyclic`: if each member of a set waited for another
  member once a new wait is added, the members reachable from the new
  dependencies would already have done so before. `reaches` is stated as a
  least fixpoint, so that no induction is needed;
- `RecoveryIsNeverInConflict`: recovery goes through the tasks by depth, and an
  update aborts only deeper ones, so a task it has not come to is as it was read
  (`RecoverInv`). That ownership is a forest and depth grows along it
  (`OwnersInv`) is part of the invariant.

Five theorems have the hypothesis that no wait has the policy `fail_fast`. It
cannot be dropped: `tasks_stale_clone` is a counterexample under `fail_fast`,
because there `reconcile` aborts tasks behind the clones it works from. Without
it, a clone of the current pass is still true when its turn comes.

- `ReconcileAlwaysSettles`: the passes so far, the tasks not yet settled and one
  for a pass that has changed something are together at most the tasks there are
  (`PassInv`), since a pass that changes something settles or wakes a task for
  good;
- `NoWakeupIsLost`: what a pass has seen is at rest as long as the pass has
  changed nothing (`PassInv`), and a commit is published after such a pass only;
- `AbortsAreFinal`, `ChildrenSettleFirst`: `GraphOK`, for the clone and for the
  published state: whoever owns a foreground task that is not settled is not
  settled either, and an abort covers the foreground tasks below. `AbortGraph` is
  the lemma about `abort_tree`; it needs that ownership is well founded;
- `RecoveryIsAlwaysSafe`: an action property, from `SafeInv`: what recovery has
  handled stays settled, or completing, as decided, through the passes after it.

`DurableHostProofs` proves of `DurableHost`, for all requests and calls, and, but for
the last one, whatever call IDs the provider reuses:

- `TypeCorrect`, with the shape of the current run;
- `DispatchedOnce`: no tool is dispatched twice, or without a task in the
  journal. `EffectOnce` is not inductive: `Execute` must know that a call that
  waits for its dispatch was not dispatched before. `Undispatched` says so, and
  is established by `RecordCall`, which creates the task of a call only if there
  is none: a task that was ever dispatched exists for ever;
- `AbortsStick`: an aborted generation is never pending or completed again. It
  needs `Aborting`, which adds what a completing generation has decided on, since
  `reconcile` settles it without looking at the abort flag;
- `AlwaysAlone`: needs `AloneInv`: the generation of the run is the running one,
  none runs when the host is idle, and tools that work belong to a generation
  that runs or completes, which eligibility looks at;
- `TextAlwaysRecoverable`, for every size of the live document: `TextInv` says where
  the text of a generation is while its run holds some of it in memory, while another
  one runs, and before recovery has repaired the live document. `Secured(A, B)` is the
  relation it is made of: what is of `A` and not of `B` is older than `MaxLive` pieces
  of both. It is kept when more is stored (`MoreSecured`) and when the text in memory
  is replaced by its end (`TrimSecured`), since what `trim_tail` cuts off is older
  than the `MaxLive` pieces behind the last one that it cuts off (`TrimKeeps`);
- `UsersAlwaysInOrder`: `OrderInv` relates the order of submission, the `admitted`
  flag and the user records: whoever is admitted has nobody pending before it who
  is not.
- `TranscriptAlwaysPaired`, with the hypothesis `UniqueIds`, that no call ID is given
  in two generations: calls and results are matched by ID alone, so it cannot be
  dropped, and it is the provider's to keep. `PairInv` says that an ID is called and
  answered once at most, in this order; that a recorded call has its task, whose
  existence keeps a later turn from recording it again; and that, once its session is
  open, a run that can write has exactly its issued calls unanswered. `AnswerAll` is
  the lemma about `Host::open` and `Session::open`: distinct results, as many as there
  are unanswered calls, answer them all.

`DurableJournalProofs` proves `TypeCorrect`, `JournalAlwaysOpens`,
`MemoryIsAlwaysJournal` and `ObservedIsAlwaysHistory` from `JournalInv`: the lock is
held by whoever has the store open (`HolderInv`), the frames verify, a store that is
not poisoned holds the file's history (`WriterInv`), and what each process, each
client and the acknowledgements know is in the file, synced where that was asked
for (`KnownInv`). From the same invariant, `JournalImplementsLog` is the refinement:
initial states map to initial states, and each action to a step of `DurableLog` or
a stutter.

`FileTransactionsProofs` proves `EditsAlwaysSurvive`, `AlwaysJournaled` and
`ReceiptAlwaysTrue` from `TransactionInv`: one process at a time is past its
planning and its progress is the journal's (`LockInv`), what it knows of the file it
is at (`StepInv`), and files below the journal's progress are replaced, those above
it are not, and the one at it may be either (`FileInv`).

`BudgetLedgerProofs` proves `TypeCorrect`, `AlwaysOwnReservation`,
`RestartAlwaysConservative`, `OverrunAlwaysStops` and `ChildrenAlwaysBounded`
together, as `BudgetInv`. The parts that are no properties of their own: a thread's
ticket is below the next ID (`ThreadInv`), a trusted ledger in memory has what was
billed and exposed (`MemoryInv`), and every copy of the ledger has the children that
were admitted (`ChildrenInv`). `LimitAlwaysHolds` needs no further invariant: tickets
are injective and each has its reservation (`OwnReservation`), so the sum of what is
exposed is at most the sum that is reserved, and only a reservation within the limit
exposes more. The facts about sums (`TotalStep`, `TotalRemove`, `TotalMonotone`,
`TotalImage`) are proved by looking at a smallest set without them, in place of an
induction.

`JobsProofs` proves `AlwaysToldOnce` and `ToldStaysFinal` from `JobsInv`: a job is
marked exactly if its result was given, what was given of a job holds for good, and
the size that a poll has read is no more than what is captured. Every operation makes
an entry of the registry one that `Follows` it. That a poll was given *all* output is
not proved, since it is false (see below).

`InboxProofs` proves `AlwaysDeliveredOnce` and `AckedAlwaysArrives` from `InboxInv`:
the holder of the lock and what it has written (`BoxInv`), and the session's side
(`SessionInv`): what is before the cursor was written by the senders in this form,
whatever was cut off the file since, and the log records its messages in order.

`FollowUpQueueProofs` proves `OwnPromptsAlwaysKept`, `AlwaysNeverAgain` and
`RestartAlwaysInvisible` from `FollowUpInv`. Each is about what a restart would find,
the recursive `Replayed`. In an `Intact` log that is the queue in memory (`RestartInv`).
In general, the log numbers its receipts without gaps and has no prompt twice
(`LogInv`), the log has reached the number that the saved queue and the queue in
memory have counted to, their prompts are neither delivered nor withdrawn, and what a
restart finds is the queue in memory without as many prompts as it has more receipts
(`QueueInv`, `Behind`). The recursion is unfolded one receipt at a time: a `Chain` is
the function of the queues on the way, a log has exactly one (by a smallest
counterexample), so the replay of a log with a receipt more is one `Taken` more
(`ReplayAppend`), and what a log without gaps makes of a queue is behind it
(`ReplayBehind`).

Only model-checked are:

- `RecoveryCompletes` and `WatchServed`, which are liveness under fairness;
- that the set form of `abort_tree` is what its recursion computes.

## Where the code and its documents disagree

The first four are runs that TLC refutes; `PROJECT.json` quotes the sentences.

1. `tasks_stale_clone`: under `fail_fast`, a pass of `reconcile` aborts a waiting
   child and then wakes it from its stale clone; its owner is settled above it.
   For the same reason `AbortIsFinal` and `RecoveryIsSafe` are checked with
   `all_settled` only.
2. `host_queue`: a turn that fails while its calls are being recorded leaves tool
   tasks running that nobody settles; the conversation stops until a restart.
3. `queue_loss`: the receipt of a torn delivery is completed by whatever user
   record comes next, and the next opening drops a prompt that was not delivered.
   This is the trace that TLC prints. The instance also reaches a loss without a torn
   delivery (checking `~Misread => NothingLost` prints it): a branch inherits receipts
   but not the counter that says they were applied, and opening it drops saved
   prompts. `OwnPromptsKept` and `RestartIsInvisible` except both; `NeverAgain` does
   not.
4. `inbox_torn_receipt`: a death between the receipt and the prompt of a delivery
   loses a message that was acknowledged; `AckedArrives` excepts it.

Two more contradict a sentence of the documents and have no run of their own; each
is a behaviour of the model, and the property that is checked instead says exactly
how much of the sentence is true:

5. The live document is cut to its last 64 KiB, so that after a death in the middle
   of a longer answer the start of it, which was committed and sent, is gone, against
   `durable.md:45`, "A partial answer committed before disconnect is retained"
   (`gen[r].status = "pending" => shown[r] \subseteq Survives(r)` is violated on the
   instance of `host_turns`). `RecoverableText` says what is kept.
6. A poll can say that a job has exited and nothing is draining, with output that is
   not complete, and is then the only notice there is, against `tools.md:242`, "Wait
   for both `state: exited` and `draining: false` before treating output as complete"
   (`told[j][i].size = job[j].captured` of a poll is violated on the instance of
   `jobs`). `ToldIsFinal` claims completeness for notices only.

Observations that no run claims, all of them behaviours of the models:

- *tasks*: a child may wait for its own owner (the check for cycles follows waits
  only), and both are blocked once the owner is completing, until one is aborted;
  a store that is closed with more running tasks than a commit may have operations
  (512) cannot be opened again, which is the phase `refused`; an abort made by
  `reconcile` does not trigger another pass, so a wake-up may wait for the next
  commit;
- *journal*: after a failed sync, `changes` hands out the uncertain frame with a
  cursor that the next poll refuses until the store is reopened; a frame whose sync
  failed is replayed by the next process without a sync, and a loss of power can
  take it back from a poller (`ObservedIsHistory` holds until then);
- *host*: calls and results are matched by ID over the whole transcript, so that
  with a provider that repeats IDs between generations an interrupted call stays
  without a result (`TranscriptPaired` is checked with a provider that repeats them
  only within a generation); tools that a cancelled turn never dispatched are
  recorded as `completed`; a session whose projection cannot be written drops an
  answer silently, and without usage to record the generation still completes; a
  death between the record of a correction and the publication after it makes
  `Host::open` look for the live text behind the correction only, and it appends the
  answer that stands before the correction a second time; between two tools a
  correction replaces a cancellation that was already accepted;
- *budget*: a limit that was only in the file is gone when the file cannot be
  read: the ledger is then not trusted, but without a limit nothing asks for trust;
  requests begun before a limit was set are charged under it without a reservation,
  so that the limit is about requests *admitted* under it;
- *transactions*: when an edit by others stops the application, the reversal may be
  stopped by the same edit, and files replaced before it stay replaced until a
  recovery is asked for again;
- *inbox*: a message written behind the torn line of a dead sender is acknowledged
  and does not parse, so both are skipped; a message that was read before its sync
  failed leaves the session with an error about its mailbox until new messages make
  up the same content;
- *jobs*: a drain that found its pipe empty just before the job wrote its last
  output and exited can see the stop flag first and leave that output behind; a job
  that ended in time and is first looked at after its limit is reported as timed
  out; watches that are registered when the limit of notices is reached are not
  served.

## What is not modelled, and the plan

Left out of the modelled components: data the store only copies (checkpoints,
inputs, versions, due times), the limits on bytes and objects, the hash function,
formatting and tracing. `DurableHost` has one conversation, no
reasoning text and no custom tasks. `FollowUpQueue` leaves out an append whose
truncation fails as well.

`BudgetLedger` has one ledger for a process: a switch to another session loads
another one while requests of the first may be under way. `FileTransactions` has no
loss of power (the receipt's directory is not synced) and one plan. `Inbox` has no
branches of the session, which would inherit receipts of another mailbox. `Jobs`
has one session, and the limits of a team's workflow appear only as cancelled
watches.

Not modelled at all, with the reasons in `PROJECT.json`: documents and forks,
pacing, tool concurrency, loops, checkpoints, teams, serve mode, and the parts that
are effects on the operating system, parsing or rendering: tools, sandbox,
providers, the terminal interface, `glass-dev`, the browser and its engine, and the
client libraries. These last are by far the largest part of the repository.

Order of the work. The first nine steps are done.

1. `DurableTasks` and its theorems: the algorithm with the most intricate state.
2. `DurableJournal` and `DurableLog`: what every other part stands on.
3. `DurableHost` and its theorems: composes the two as atomic commits.
4. `FollowUpQueue`: the same question without a common journal.
5. `BudgetLedger`: reservations by threads, persistence after each, restarts.
6. `FileTransactions`: apply and recover with deaths at every step and edits by
   others.
7. `Inbox`: receipts again, for a file that others write.
8. `Jobs`: notices exactly once, and in the end.
9. Proofs: done for every safety property of the passing runs.
10. `DurableHost` extended: buffered reasoning, custom tasks, a second conversation.
11. `DurableDocuments`, `Pacing`, the plan of tool concurrency, loops, teams.
