---------------------------- MODULE DurableTasks ----------------------------
(***************************************************************************)
(* The task graph of glass-core's durable store                            *)
(* (crates/glass-core/src/durable.rs).                                     *)
(*                                                                         *)
(* A commit is a batch of operations applied one by one to a private clone *)
(* of the state, followed by `reconcile`, which wakes waiting tasks and    *)
(* settles completing ones, and only then published.  The clone is the     *)
(* variable staged and the published state is the variable tasks; the      *)
(* operations and each turn of reconcile's inner loop are steps on staged. *)
(* `recover` is the batch that a reopened store commits before it accepts  *)
(* any other work.                                                         *)
(*                                                                         *)
(* A task's revision only ever grows, so `revision == expected` says that  *)
(* the task was not modified since it was read.  Instead of the unbounded  *)
(* counter the model keeps `bumped`, the tasks whose revision grew since   *)
(* the current commit started.  A client may name any expected revision,   *)
(* so the check restricts its batches only through Reject; recover's       *)
(* expected revisions are all read before its batch starts, so its check   *)
(* is `t \notin bumped`.                                                   *)
(*                                                                         *)
(* Checkpoints, inputs, due times, kinds and versions are data that the    *)
(* store only copies, and are left out.                                    *)
(***************************************************************************)
EXTENDS Integers, FiniteSets

CONSTANTS
    TaskId,      \* identifiers, ordered as the store's BTreeMap orders them
    NoTask,      \* the owner of a task that has none
    CreateArgs,  \* CreateArgs[t]: the definitions a client may create t with
    Policies,    \* the wait policies in use
    MaxOps       \* operations per commit (512 in the code)

Replays == {"safe", "unsafe"}

Definition == [owner : TaskId \cup {NoTask}, background : BOOLEAN, replay : Replays]

ASSUME ConstantsOK ==
    /\ TaskId \subseteq Nat
    /\ IsFiniteSet(TaskId)
    /\ NoTask \notin TaskId
    /\ CreateArgs \in [TaskId -> SUBSET Definition]
    /\ Policies \subseteq {"all_settled", "fail_fast"}
    /\ MaxOps \in Nat \ {0}

Settled == {"completed", "failed", "aborted"}
Requested == {"pending", "running", "waiting"} \cup Settled
Status == Requested \cup {"absent", "completing"}

\* `outcome` is the status an outcome object written by the store itself
\* carries; an outcome supplied by a client is opaque ("none").
Task == [status     : Status,
         owner      : TaskId \cup {NoTask},
         background : BOOLEAN,
         replay     : Replays,
         on         : SUBSET TaskId,
         policy     : {"all_settled", "fail_fast"},
         outcome    : Settled \cup {"none"},
         abort      : BOOLEAN]

Absent == [status |-> "absent", owner |-> NoTask, background |-> FALSE,
           replay |-> "unsafe", on |-> {}, policy |-> "all_settled",
           outcome |-> "none", abort |-> FALSE]

VARIABLES
    tasks,    \* the published state: what clients read and the journal replays
    staged,   \* the clone the current commit works on
    phase,    \* where the current commit is
    source,   \* who issues it: the host, or recover
    ops,      \* how many operations it has applied
    bumped,   \* the tasks whose revision it has advanced
    todo,     \* reconcile: the tasks this pass has still to look at
    snap,     \* reconcile: the clones of those tasks the pass works from
    changed,  \* reconcile: whether this pass has changed a status
    pass,     \* reconcile: completed passes that changed something
    recov     \* recover: the running tasks whose update is not yet applied

reconcileVars == <<todo, snap, changed, pass>>
vars == <<tasks, staged, phase, source, ops, bumped, reconcileVars, recov>>

-----------------------------------------------------------------------------
(* The graph.                                                              *)

Terminal(r) == r.status \in Settled
Active(r) == r.status \notin Settled \cup {"absent"}

\* The active tasks that p owns, the background ones only on request.
ActiveOwned(T, p, background) ==
    {c \in TaskId : /\ T[c].owner = p
                    /\ Active(T[c])
                    /\ background \/ ~T[c].background}

ActiveChildren(T, p) == ActiveOwned(T, p, FALSE) # {}

\* The tasks that abort_tree visits from each of roots: the least set that
\* contains the roots and the active tasks owned by its members.
AbortScope(T, roots, background) ==
    {t \in TaskId : \A S \in SUBSET TaskId :
        /\ roots \subseteq S
        /\ \A p \in S : ActiveOwned(T, p, background) \subseteq S
        => t \in S}

\* An active task that abort_tree leaves active whatever its children do.
Unmoved(r) == Active(r) /\ (r.status = "running" \/ r.abort)

\* Mutant of Holds: only the direct children are looked at.
HoldsDirect(T, t) == \E x \in ActiveOwned(T, t, FALSE) : Unmoved(T[x])

\* abort_tree works from the leaves up, so a task finds an active child
\* exactly when some foreground task below it is unmoved.
Holds(T, t) == \E x \in AbortScope(T, {t}, FALSE) \ {t} : Unmoved(T[x])

\* Mutant of AbortMoves: the check that the task is not terminal is dropped.
AbortMovesSettled(T, roots, background) ==
    {t \in AbortScope(T, roots, background) : ~T[t].abort}

AbortMoves(T, roots, background) ==
    {t \in AbortScope(T, roots, background) : Active(T[t]) /\ ~T[t].abort}

AbortTree(T, roots, background) ==
    LET moved == AbortMoves(T, roots, background)
    IN  [t \in TaskId |->
            IF t \notin moved THEN T[t]
            ELSE IF T[t].status = "running" THEN [T[t] EXCEPT !.abort = TRUE]
            ELSE [T[t] EXCEPT !.abort = TRUE,
                              !.status = IF Holds(T, t) THEN "completing" ELSE "aborted",
                              !.outcome = "aborted"]]

\* Mutant of Reaches: only direct dependencies are followed.
ReachesDirect(T, from, target) == from = target \/ target \in T[from].on

\* Whether target can be reached from `from` along wait dependencies.
Reaches(T, from, target) ==
    \A S \in SUBSET TaskId :
        (from \in S /\ \A t \in S : T[t].on \subseteq S) => target \in S

\* The number of owners above t.
Depth(T, t) ==
    Cardinality({a \in TaskId \ {t} : \A S \in SUBSET TaskId :
        (t \in S /\ \A x \in S : T[x].owner \in S \cup {NoTask}) => a \in S})

-----------------------------------------------------------------------------
Init ==
    /\ tasks = [t \in TaskId |-> Absent]
    /\ staged = tasks
    /\ phase = "idle"
    /\ source = "host"
    /\ ops = 0
    /\ bumped = {}
    /\ todo = {}
    /\ snap = tasks
    /\ changed = FALSE
    /\ pass = 0
    /\ recov = {}

\* One more operation of the host's batch takes staged to T.
Apply(T, moved) ==
    /\ phase \in {"idle", "staging"}
    /\ ops < MaxOps
    /\ staged' = T
    /\ bumped' = bumped \cup moved
    /\ phase' = "staging"
    /\ ops' = ops + 1
    /\ UNCHANGED <<tasks, source, reconcileVars, recov>>

-----------------------------------------------------------------------------
(* The operations of a batch.                                              *)

TaskCreate(t, d) ==
    /\ staged[t].status = "absent"
    /\ d.owner # NoTask => Active(staged[d.owner]) /\ ~staged[d.owner].abort
    /\ Apply([staged EXCEPT ![t] = [Absent EXCEPT !.status = "pending",
                                                  !.owner = d.owner,
                                                  !.background = d.background,
                                                  !.replay = d.replay]],
             {t})

\* Mutant of MayUpdate: the check "task abort must be acknowledged" is dropped.
MayUpdateUnacknowledged(t, s, on, policy) ==
    /\ Active(staged[t])
    /\ staged[t].status # "completing"
    /\ s = "running" => staged[t].status \in {"pending", "running"}
    /\ s # "waiting"

\* The conditions under which `apply` accepts a task.update.
MayUpdate(t, s, on, policy) ==
    /\ Active(staged[t])
    /\ staged[t].status # "completing"
    /\ staged[t].abort => s \in {"aborted", "failed"}
    /\ s = "running" => staged[t].status \in {"pending", "running"} /\ ~staged[t].abort
    /\ s = "waiting" =>
        /\ on # {}
        /\ \A c \in on : /\ staged[c].status # "absent"
                         /\ ~Reaches(staged, c, t)
                         /\ policy = "fail_fast" => staged[c].owner = t

\* A failed or aborted task takes its foreground tasks with it, and a settled
\* one with active children is completing until reconcile finds none.
Updated(t, s, on, policy) ==
    LET T == IF s \in {"failed", "aborted"} THEN AbortTree(staged, {t}, FALSE) ELSE staged
        completing == s \in Settled /\ ActiveChildren(T, t)
    IN  [T EXCEPT ![t] = [T[t] EXCEPT !.status = IF completing THEN "completing" ELSE s,
                                      !.on = on,
                                      !.policy = policy,
                                      !.outcome = IF completing THEN s ELSE "none"]]

\* Mutant of UpdateMoves: abort_tree forgets to advance revisions.
UpdateMovesOne(t, s) == {t}

UpdateMoves(t, s) ==
    {t} \cup (IF s \in {"failed", "aborted"} THEN AbortMoves(staged, {t}, FALSE) ELSE {})

TaskUpdate(t, s, on, policy) ==
    /\ MayUpdate(t, s, on, policy)
    /\ Apply(Updated(t, s, on, policy), UpdateMoves(t, s))

TaskMigrate(t) ==
    /\ staged[t].status = "pending"
    /\ Apply(staged, {t})

Abort(t, background) ==
    /\ staged[t].status # "absent"
    /\ Apply(AbortTree(staged, {t}, background), AbortMoves(staged, {t}, background))

-----------------------------------------------------------------------------
(* reconcile: passes over the waiting and completing tasks, in identifier  *)
(* order, until a pass changes nothing.  A pass works from clones taken    *)
(* when it starts.                                                         *)

Unsettled(T) == {t \in TaskId : T[t].status \in {"waiting", "completing"}}

StartPass(T) ==
    /\ todo' = Unsettled(T)
    /\ snap' = T
    /\ changed' = FALSE

BatchDone ==
    \/ phase = "staging"
    \/ phase = "recover" /\ recov = {}

Reconcile ==
    /\ BatchDone
    /\ phase' = "reconcile"
    /\ pass' = 0
    /\ StartPass(staged)
    /\ UNCHANGED <<tasks, staged, source, ops, bumped, recov>>

\* What a pass makes of t, whose clone is r.
FailedFast(t, r) ==
    /\ r.status = "waiting"
    /\ r.policy = "fail_fast"
    /\ \E c \in r.on : staged[c].status \in {"failed", "aborted"}

AfterAborts(t, r) == IF FailedFast(t, r) THEN AbortTree(staged, r.on, FALSE) ELSE staged

\* The status a completing task settles with.
Decided(r) == IF r.outcome = "none" THEN "completed" ELSE r.outcome

Wakes(t, r) == r.status = "waiting" /\ \A c \in r.on : Terminal(AfterAborts(t, r)[c])
Settles(t, r) == r.status = "completing" /\ ~ActiveChildren(staged, t)

\* Mutant of Changes: `changed` is set for every task the pass looks at.
ChangesAlways(t, r) == TRUE

\* The pass changes the status of t, and so asks for another pass.
Changes(t, r) == Wakes(t, r) \/ Settles(t, r)

ReconcileTask(t) ==
    LET r == snap[t]
    IN  /\ phase = "reconcile"
        /\ t \in todo
        /\ \A u \in todo : t <= u
        /\ staged' = IF Wakes(t, r)
                       THEN [AfterAborts(t, r) EXCEPT ![t].status = "pending"]
                       ELSE IF Settles(t, r)
                       THEN [staged EXCEPT ![t].status = Decided(r)]
                       ELSE AfterAborts(t, r)
        /\ bumped' = bumped
             \cup (IF FailedFast(t, r) THEN AbortMoves(staged, r.on, FALSE) ELSE {})
             \cup (IF Changes(t, r) THEN {t} ELSE {})
        /\ changed' = (changed \/ Changes(t, r))
        /\ todo' = todo \ {t}
        /\ UNCHANGED <<tasks, phase, source, ops, snap, pass, recov>>

NextPass ==
    /\ phase = "reconcile"
    /\ todo = {}
    /\ changed
    /\ pass' = pass + 1
    /\ StartPass(staged)
    /\ UNCHANGED <<tasks, staged, phase, source, ops, bumped, recov>>

\* Mutant of AtRest: one pass is taken to be enough.
AtRestAfterOne == phase = "reconcile" /\ todo = {}

\* reconcile has returned.
AtRest == phase = "reconcile" /\ todo = {} /\ ~changed

\* The commit is over: T is published, and the clone is gone.
Finish(T, next) ==
    /\ tasks' = T
    /\ staged' = T
    /\ phase' = next
    /\ ops' = 0
    /\ bumped' = {}
    /\ todo' = {}
    /\ snap' = T
    /\ changed' = FALSE
    /\ pass' = 0

\* The frame is in the journal and its state becomes the published one.
Publish ==
    /\ AtRest
    /\ Finish(staged, "idle")
    /\ source' = "host"
    /\ UNCHANGED recov

\* An operation of the host's batch is refused, or the result exceeds a size
\* limit: the whole batch is dropped.
Reject ==
    /\ source = "host"
    /\ phase = "staging" \/ AtRest
    /\ Finish(tasks, "idle")
    /\ UNCHANGED <<source, recov>>

-----------------------------------------------------------------------------
(* The process stops and the store is opened again: what was not published *)
(* is lost, and recover updates every task that was running, the deepest   *)
(* first.  Its updates are one commit, so the limit on operations applies, *)
(* and a store whose recovery is refused is not opened.                    *)

Running(T) == {t \in TaskId : T[t].status = "running"}

Reopen ==
    LET running == Running(tasks)
        fits == Cardinality(running) <= MaxOps
    IN  /\ recov' = IF fits THEN running ELSE {}
        /\ source' = IF running = {} THEN "host" ELSE "recover"
        /\ Finish(tasks, IF running = {} THEN "idle" ELSE IF fits THEN "recover" ELSE "refused")

\* Mutants of RecoveryStatus: the replay policy is ignored; a status that is
\* not one of the store's.
RecoveryStatusReplayed(r) == IF r.abort THEN "aborted" ELSE "pending"
RecoveryStatusUnknown(r) == IF r.abort THEN "aborted" ELSE "interrupted"

RecoveryStatus(r) ==
    IF r.abort THEN "aborted" ELSE IF r.replay = "safe" THEN "pending" ELSE "failed"

\* Mutant of NextRecovered: no sort by depth.
NextRecoveredById(t) == t \in recov /\ \A u \in recov : t <= u

\* recover's order: the deepest running task first, then by identifier.
NextRecovered(t) ==
    /\ t \in recov
    /\ \A u \in recov : \/ Depth(tasks, u) < Depth(tasks, t)
                        \/ Depth(tasks, u) = Depth(tasks, t) /\ t <= u

\* `apply` accepts recover's update of t: the revision read before the batch
\* started is still t's revision, and the transition is legal.
RecoveryAccepted(t) ==
    /\ t \notin bumped
    /\ MayUpdate(t, RecoveryStatus(tasks[t]), {}, "all_settled")

RecoverTask(t) ==
    LET s == RecoveryStatus(tasks[t])
    IN  /\ phase = "recover"
        /\ NextRecovered(t)
        /\ RecoveryAccepted(t)
        /\ staged' = Updated(t, s, {}, "all_settled")
        /\ bumped' = bumped \cup UpdateMoves(t, s)
        /\ ops' = ops + 1
        /\ recov' = recov \ {t}
        /\ UNCHANGED <<tasks, phase, source, reconcileVars>>

-----------------------------------------------------------------------------
\* The dependencies a client passes along: any for a wait, none otherwise.
\* (The code stores what comes with another status unchecked; there it can only
\* make the check for cycles refuse more waits.)
OnChoices(s) == IF s = "waiting" THEN SUBSET TaskId ELSE {{}}
PolicyChoices(s) == IF s = "waiting" THEN Policies ELSE {"all_settled"}

Operation(t) ==
    \/ \E d \in CreateArgs[t] : TaskCreate(t, d)
    \/ \E s \in Requested : \E on \in OnChoices(s), policy \in PolicyChoices(s) :
           TaskUpdate(t, s, on, policy)
    \/ TaskMigrate(t)
    \/ \E background \in BOOLEAN : Abort(t, background)

Next ==
    \/ \E t \in TaskId : Operation(t) \/ ReconcileTask(t) \/ RecoverTask(t)
    \/ Reconcile
    \/ NextPass
    \/ Publish
    \/ Reject
    \/ Reopen

Spec == Init /\ [][Next]_vars
-----------------------------------------------------------------------------
(* Properties.                                                             *)

\* Every variable has its type.
TypeOK ==
    /\ tasks \in [TaskId -> Task]
    /\ staged \in [TaskId -> Task]
    /\ phase \in {"idle", "staging", "recover", "reconcile", "refused"}
    /\ source \in {"host", "recover"}
    /\ ops \in Nat
    /\ bumped \subseteq TaskId
    /\ todo \subseteq TaskId
    /\ snap \in [TaskId -> Task]
    /\ changed \in BOOLEAN
    /\ pass \in Nat
    /\ recov \subseteq TaskId

WaitingOn(T, t) == IF T[t].status = "waiting" THEN T[t].on ELSE {}

\* No set of tasks is such that each member waits for another one of the set.
Acyclic(T) ==
    \A S \in SUBSET TaskId : S # {} => \E t \in S : WaitingOn(T, t) \cap S = {}

\* The `reaches` check keeps waiting tasks from waiting for each other in a
\* circle, whatever batches, wake-ups, aborts and restarts come in between,
\* although it is made against a clone and a woken task keeps its old
\* dependencies.
NoWaitCycle == Acyclic(tasks)

\* A commit never changes a task's place in the graph without advancing its
\* revision, so no update that carries the revision its author read lands on
\* top of an abort, a wake-up or a settlement the author has not seen.
RevisionCoversChange == \A t \in TaskId : staged[t] # tasks[t] => t \in bumped

\* A task that was settled in a published state is never touched again, by
\* an update, an abort of its owner, reconcile's stale clones or recovery.
SettledForever ==
    [][\A t \in TaskId : Terminal(tasks[t]) => tasks'[t] = tasks[t]]_tasks

\* reconcile comes to rest within the number of passes its loop allows, so
\* its error "task reconciliation did not settle" never rejects a commit.
ReconcileSettles == pass <= Cardinality({t \in TaskId : staged[t].status # "absent"})

\* The published state is at rest: no task still waits although all it waits
\* for has settled, and none is completing without an active child.
NoLostWakeup ==
    \A t \in TaskId :
        /\ tasks[t].status = "waiting" => \E c \in tasks[t].on : ~Terminal(tasks[c])
        /\ tasks[t].status = "completing" => ActiveChildren(tasks, t)

\* A task is not settled before the foreground tasks it owns are.
SettledOwnsNothing ==
    \A t \in TaskId : Terminal(tasks[t]) => ~ActiveChildren(tasks, t)

\* A task whose abort was requested is never reported as completed and is
\* never put back in the queue: it runs until acknowledged, or waits for its
\* children, or has settled as aborted or failed.
AbortIsFinal ==
    \A t \in TaskId : tasks[t].abort =>
        tasks[t].status \in {"running", "completing", "aborted", "failed"}

\* The revisions recover reads before its batch are still current when each
\* of its updates is applied, and each transition is legal, so that recovery
\* never fails on a conflict with itself.
RecoveryNeverConflicts ==
    phase = "recover" => \A t \in TaskId : NextRecovered(t) => RecoveryAccepted(t)

\* The commit of recover leaves no task running.  An interrupted unsafe task
\* has settled without completing, so it is not started again; a safe one is
\* pending again unless its abort, or the failure of an owner, settled it.
RecoveryIsSafe ==
    [][source = "recover" /\ phase = "reconcile" =>
         \A t \in Running(tasks) : tasks'[t].status \in
           (IF tasks[t].abort \/ tasks[t].replay = "unsafe" THEN {"failed", "aborted"}
                                                            ELSE {"pending", "aborted"})]_tasks
=============================================================================
