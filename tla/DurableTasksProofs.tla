------------------------ MODULE DurableTasksProofs ------------------------
(***************************************************************************)
(* Theorems about DurableTasks: type correctness, the revision discipline, *)
(* the permanence of settled tasks, the absence of wait cycles and of      *)
(* conflicts of recovery with itself, for every set of tasks, every client *)
(* and every limit on operations.  With waits for all_settled only:        *)
(* reconcile comes to rest and loses no wake-up, aborts are final, a task  *)
(* settles after what it owns, and recovery is safe.  A fail_fast wait     *)
(* makes reconcile abort behind its own clones, and these do not hold.     *)
(***************************************************************************)
EXTENDS DurableTasks, FiniteSetTheorems, WellFoundedInduction, TLAPS

TaskMap == [TaskId -> Task]

LEMMA AbsentType == Absent \in Task
BY DEF Absent, Task, Status, Requested, Settled, Replays

\* abort_tree leaves every task outside AbortMoves as it was and changes in
\* the others the abort flag, the status and the outcome only.
LEMMA AbortTreeType ==
    ASSUME NEW T \in TaskMap, NEW roots, NEW background
    PROVE  AbortTree(T, roots, background) \in TaskMap
<1> DEFINE moved == AbortMoves(T, roots, background)
           r(t) == IF t \notin moved THEN T[t]
                   ELSE IF T[t].status = "running" THEN [T[t] EXCEPT !.abort = TRUE]
                   ELSE [T[t] EXCEPT !.abort = TRUE,
                              !.status = IF Holds(T, t) THEN "completing" ELSE "aborted",
                              !.outcome = "aborted"]
<1>1. ASSUME NEW t \in TaskId PROVE r(t) \in Task
  <2> HIDE DEF moved
  <2>1. T[t] \in Task
    BY DEF TaskMap
  <2> QED
    BY <2>1 DEF Task, Status, Requested, Settled
<1>2. AbortTree(T, roots, background) = [t \in TaskId |-> r(t)]
  BY DEF AbortTree
<1> HIDE DEF r
<1> QED
  BY <1>1, <1>2 DEF TaskMap

LEMMA UpdatedType ==
    ASSUME TypeOK, NEW t \in TaskId, NEW s \in Requested, NEW on \in SUBSET TaskId,
           NEW policy \in {"all_settled", "fail_fast"}
    PROVE  Updated(t, s, on, policy) \in TaskMap
<1> DEFINE T == IF s \in {"failed", "aborted"} THEN AbortTree(staged, {t}, FALSE) ELSE staged
           completing == s \in Settled /\ ActiveChildren(T, t)
           u == [T[t] EXCEPT !.status = IF completing THEN "completing" ELSE s,
                             !.on = on,
                             !.policy = policy,
                             !.outcome = IF completing THEN s ELSE "none"]
<1>1. T \in TaskMap
  BY AbortTreeType DEF TypeOK, TaskMap
<1>2. Updated(t, s, on, policy) = [T EXCEPT ![t] = u]
  BY DEF Updated
<1>3. completing => s \in Settled
  OBVIOUS
<1> HIDE DEF T, completing
<1>4. T[t] \in Task
  BY <1>1 DEF TaskMap
<1>5. u \in Task
  BY <1>3, <1>4 DEF Task, Status, Requested, Settled
<1> HIDE DEF u
<1> QED
  BY <1>1, <1>2, <1>5 DEF TaskMap

-----------------------------------------------------------------------------
(* Type correctness.                                                       *)

\* What a reconcile step does to staged keeps its type.
LEMMA ReconcileType ==
    ASSUME TypeOK, NEW t \in TaskId, ReconcileTask(t)
    PROVE  staged' \in TaskMap
<1> DEFINE r == snap[t]
           A == AfterAborts(t, r)
<1>1. A \in TaskMap
  BY AbortTreeType DEF AfterAborts, TypeOK, TaskMap
<1>2. staged \in TaskMap
  BY DEF TypeOK, TaskMap
<1>3. Decided(r) \in Settled
  BY DEF Decided, TypeOK, Task, Settled
<1>4. \/ staged' = [A EXCEPT ![t].status = "pending"]
      \/ staged' = [staged EXCEPT ![t].status = Decided(r)]
      \/ staged' = A
  BY DEF ReconcileTask
<1> HIDE DEF A, r
<1>5. [A EXCEPT ![t].status = "pending"] \in TaskMap
  BY <1>1 DEF TaskMap, Task, Status, Requested
<1>6. [staged EXCEPT ![t].status = Decided(r)] \in TaskMap
  BY <1>2, <1>3 DEF TaskMap, Task, Status, Requested
<1> QED
  BY <1>1, <1>4, <1>5, <1>6

\* A client's choices are well typed.
LEMMA ChoicesType ==
    ASSUME NEW s \in Requested, NEW on \in OnChoices(s), NEW policy \in PolicyChoices(s)
    PROVE  on \in SUBSET TaskId /\ policy \in {"all_settled", "fail_fast"}
BY ConstantsOK DEF OnChoices, PolicyChoices

LEMMA RecoveryStatusType ==
    ASSUME NEW r PROVE RecoveryStatus(r) \in {"aborted", "pending", "failed"}
BY DEF RecoveryStatus

\* Every variable keeps its type (TypeOK), for every constant.
THEOREM TypeCorrect == Spec => []TypeOK
<1>1. Init => TypeOK
  <2> SUFFICES ASSUME Init PROVE TypeOK
    OBVIOUS
  <2>1. tasks \in TaskMap /\ staged = tasks /\ snap = tasks
    BY AbsentType DEF Init, TaskMap
  <2> QED
    BY <2>1 DEF Init, TypeOK, TaskMap
<1>2. TypeOK /\ [Next]_vars => TypeOK'
  <2> SUFFICES ASSUME TypeOK, [Next]_vars PROVE TypeOK'
    OBVIOUS
  <2> USE DEF reconcileVars
  <2>1. ASSUME NEW t \in TaskId, NEW d \in CreateArgs[t], TaskCreate(t, d) PROVE TypeOK'
    <3> DEFINE c == [Absent EXCEPT !.status = "pending", !.owner = d.owner,
                                   !.background = d.background, !.replay = d.replay]
    <3>1. d \in Definition
      BY ConstantsOK
    <3>2. c \in Task
      BY <3>1, AbsentType DEF Definition, Task, Status, Requested
    <3> HIDE DEF c
    <3>3. staged' = [staged EXCEPT ![t] = c]
      BY <2>1 DEF TaskCreate, Apply, c
    <3>4. staged' \in TaskMap
      BY <3>2, <3>3 DEF TypeOK, TaskMap
    <3> QED
      BY <2>1, <3>4 DEF TaskCreate, Apply, TypeOK, TaskMap
  <2>2. ASSUME NEW t \in TaskId, NEW s \in Requested, NEW on \in OnChoices(s),
               NEW policy \in PolicyChoices(s), TaskUpdate(t, s, on, policy)
        PROVE  TypeOK'
    <3>1. Updated(t, s, on, policy) \in TaskMap
      BY ChoicesType, UpdatedType
    <3>2. UpdateMoves(t, s) \subseteq TaskId
      BY DEF UpdateMoves, AbortMoves, AbortScope
    <3> QED
      BY <2>2, <3>1, <3>2 DEF TaskUpdate, Apply, TypeOK, TaskMap
  <2>3. ASSUME NEW t \in TaskId, TaskMigrate(t) PROVE TypeOK'
    BY <2>3 DEF TaskMigrate, Apply, TypeOK
  <2>4. ASSUME NEW t \in TaskId, NEW b \in BOOLEAN, Abort(t, b) PROVE TypeOK'
    <3>1. AbortTree(staged, {t}, b) \in TaskMap
      BY AbortTreeType DEF TypeOK, TaskMap
    <3>2. AbortMoves(staged, {t}, b) \subseteq TaskId
      BY DEF AbortMoves, AbortScope
    <3> QED
      BY <2>4, <3>1, <3>2 DEF Abort, Apply, TypeOK, TaskMap
  <2>5. ASSUME NEW t \in TaskId, ReconcileTask(t) PROVE TypeOK'
    <3>1. staged' \in TaskMap
      BY <2>5, ReconcileType
    <3>2. bumped' \subseteq TaskId
      BY <2>5 DEF ReconcileTask, AbortMoves, AbortScope, TypeOK
    <3>3. changed' \in BOOLEAN
      BY <2>5, Zenon DEF ReconcileTask
    <3> QED
      BY <2>5, <3>1, <3>2, <3>3 DEF ReconcileTask, TypeOK, TaskMap
  <2>6. ASSUME NEW t \in TaskId, RecoverTask(t) PROVE TypeOK'
    <3> DEFINE s == RecoveryStatus(tasks[t])
    <3>1. s \in Requested
      BY RecoveryStatusType DEF Requested, Settled
    <3>2. Updated(t, s, {}, "all_settled") \in TaskMap
      BY <3>1, UpdatedType
    <3>3. UpdateMoves(t, s) \subseteq TaskId
      BY DEF UpdateMoves, AbortMoves, AbortScope
    <3> QED
      BY <2>6, <3>2, <3>3 DEF RecoverTask, TypeOK, TaskMap
  <2>7. CASE Reconcile
    BY <2>7 DEF Reconcile, StartPass, Unsettled, TypeOK
  <2>8. CASE NextPass
    <3>1. /\ pass' \in Nat
          /\ todo' \subseteq TaskId
          /\ snap' = staged
          /\ changed' = FALSE
          /\ UNCHANGED <<tasks, staged, phase, source, ops, bumped, recov>>
      BY <2>8 DEF NextPass, StartPass, Unsettled, TypeOK
    <3> QED
      BY <3>1 DEF TypeOK
  <2>9. CASE Publish
    BY <2>9 DEF Publish, Finish, TypeOK
  <2>10. CASE Reject
    BY <2>10 DEF Reject, Finish, TypeOK
  <2>11. CASE Reopen
    BY <2>11 DEF Reopen, Finish, Running, TypeOK
  <2>12. CASE UNCHANGED vars
    BY <2>12 DEF vars, TypeOK
  <2> QED
    BY <2>1, <2>2, <2>3, <2>4, <2>5, <2>6, <2>7, <2>8, <2>9, <2>10, <2>11, <2>12
       DEF Next, Operation
<1> QED
  BY <1>1, <1>2, PTL DEF Spec

-----------------------------------------------------------------------------
(* Revisions and settled tasks.                                            *)

\* abort_tree changes only the tasks in AbortMoves, and those are active.
LEMMA AbortTreeChange ==
    ASSUME NEW T \in TaskMap, NEW roots, NEW background, NEW u \in TaskId,
           AbortTree(T, roots, background)[u] # T[u]
    PROVE  u \in AbortMoves(T, roots, background) /\ Active(T[u])
<1>1. u \in AbortMoves(T, roots, background)
  BY DEF AbortTree
<1> QED
  BY <1>1 DEF AbortMoves

\* A task.update changes only the tasks in UpdateMoves, and active ones.
LEMMA UpdatedChange ==
    ASSUME TypeOK, NEW t \in TaskId, NEW s, NEW on, NEW policy, Active(staged[t]),
           NEW u \in TaskId, Updated(t, s, on, policy)[u] # staged[u]
    PROVE  u \in UpdateMoves(t, s) /\ Active(staged[u])
<1>1. CASE u = t
  BY <1>1 DEF UpdateMoves
<1>2. CASE u # t /\ s \in {"failed", "aborted"}
  <2>1. AbortTree(staged, {t}, FALSE) \in TaskMap
    BY AbortTreeType DEF TypeOK, TaskMap
  <2>2. Updated(t, s, on, policy)[u] = AbortTree(staged, {t}, FALSE)[u]
    BY <1>2, <2>1 DEF Updated, TaskMap
  <2> QED
    BY <1>2, <2>2, AbortTreeChange DEF UpdateMoves, TypeOK, TaskMap
<1>3. CASE u # t /\ s \notin {"failed", "aborted"}
  BY <1>3 DEF Updated, TypeOK
<1> QED
  BY <1>1, <1>2, <1>3

\* The strengthening that makes SettledForever provable: a settled task is
\* the same in the clone, and no pass of reconcile holds a clone of it.
SettledUntouched ==
    \A t \in TaskId : Terminal(tasks[t]) => staged[t] = tasks[t] /\ t \notin todo

\* The steps inside a commit.
Working ==
    \E t \in TaskId : Operation(t) \/ ReconcileTask(t) \/ RecoverTask(t)

\* A step inside a commit publishes nothing, and what it changes in the clone
\* it marks as changed; it never changes a task that was settled before.
LEMMA WorkingStep ==
    ASSUME TypeOK, SettledUntouched, Working
    PROVE  /\ tasks' = tasks
           /\ bumped \subseteq bumped'
           /\ todo' \subseteq todo
           /\ \A u \in TaskId : staged'[u] # staged[u] => u \in bumped' /\ ~Terminal(tasks[u])
<1> DEFINE Goal == /\ tasks' = tasks
                   /\ bumped \subseteq bumped'
                   /\ todo' \subseteq todo
                   /\ \A u \in TaskId : staged'[u] # staged[u] => u \in bumped' /\ ~Terminal(tasks[u])
<1> USE DEF reconcileVars
<1>0. ASSUME NEW u \in TaskId, Active(staged[u]) \/ staged[u].status = "absent"
      PROVE  ~Terminal(tasks[u])
  BY <1>0 DEF SettledUntouched, Terminal, Active, Settled
<1>1. ASSUME NEW t \in TaskId, NEW d \in CreateArgs[t], TaskCreate(t, d) PROVE Goal
  <2>1. \A u \in TaskId : staged'[u] # staged[u] => u = t
    BY <1>1 DEF TaskCreate, Apply, TypeOK
  <2>2. staged[t].status = "absent" /\ bumped' = bumped \cup {t}
    BY <1>1 DEF TaskCreate, Apply
  <2> QED
    BY <1>0, <1>1, <2>1, <2>2 DEF TaskCreate, Apply
<1>2. ASSUME NEW t \in TaskId, NEW s \in Requested, NEW on \in OnChoices(s),
             NEW policy \in PolicyChoices(s), TaskUpdate(t, s, on, policy)
      PROVE  Goal
  <2>1. Active(staged[t])
    BY <1>2 DEF TaskUpdate, MayUpdate
  <2>2. staged' = Updated(t, s, on, policy) /\ bumped' = bumped \cup UpdateMoves(t, s)
    BY <1>2 DEF TaskUpdate, Apply
  <2>3. \A u \in TaskId : staged'[u] # staged[u] => u \in UpdateMoves(t, s) /\ Active(staged[u])
    BY <2>1, <2>2, UpdatedChange
  <2> QED
    BY <1>0, <1>2, <2>2, <2>3 DEF TaskUpdate, Apply
<1>3. ASSUME NEW t \in TaskId, TaskMigrate(t) PROVE Goal
  BY <1>3 DEF TaskMigrate, Apply
<1>4. ASSUME NEW t \in TaskId, NEW b \in BOOLEAN, Abort(t, b) PROVE Goal
  <2>1. staged' = AbortTree(staged, {t}, b) /\ bumped' = bumped \cup AbortMoves(staged, {t}, b)
    BY <1>4 DEF Abort, Apply
  <2>2. \A u \in TaskId : staged'[u] # staged[u] =>
            u \in AbortMoves(staged, {t}, b) /\ Active(staged[u])
    BY <2>1, AbortTreeChange DEF TypeOK, TaskMap
  <2> QED
    BY <1>0, <1>4, <2>1, <2>2 DEF Abort, Apply
<1>5. ASSUME NEW t \in TaskId, ReconcileTask(t) PROVE Goal
  <2> DEFINE r == snap[t]
             A == AfterAborts(t, r)
             moved == IF FailedFast(t, r) THEN AbortMoves(staged, r.on, FALSE) ELSE {}
  <2>1. A \in TaskMap /\ staged \in TaskMap
    BY AbortTreeType DEF AfterAborts, TypeOK, TaskMap
  <2>2. \A u \in TaskId : A[u] # staged[u] => u \in moved /\ Active(staged[u])
    BY AbortTreeChange DEF AfterAborts, TypeOK, TaskMap
  <2>3. bumped' = bumped \cup moved \cup (IF Changes(t, r) THEN {t} ELSE {})
    BY <1>5 DEF ReconcileTask
  <2>4. \/ Changes(t, r) /\ staged' = [A EXCEPT ![t].status = "pending"]
        \/ Changes(t, r) /\ staged' = [staged EXCEPT ![t].status = Decided(r)]
        \/ staged' = A
    BY <1>5 DEF ReconcileTask, Changes
  <2> HIDE DEF A, moved, r
  <2>5. \A u \in TaskId : staged'[u] # staged[u] =>
            \/ u \in moved /\ Active(staged[u])
            \/ u = t /\ Changes(t, r)
    BY <2>1, <2>2, <2>4 DEF TaskMap
  <2>6. ~Terminal(tasks[t])
    BY <1>5 DEF ReconcileTask, SettledUntouched
  <2> QED
    BY <1>0, <1>5, <2>3, <2>5, <2>6 DEF ReconcileTask
<1>6. ASSUME NEW t \in TaskId, RecoverTask(t) PROVE Goal
  <2> DEFINE s == RecoveryStatus(tasks[t])
  <2>1. Active(staged[t])
    BY <1>6 DEF RecoverTask, RecoveryAccepted, MayUpdate
  <2>2. staged' = Updated(t, s, {}, "all_settled") /\ bumped' = bumped \cup UpdateMoves(t, s)
    BY <1>6 DEF RecoverTask
  <2>3. \A u \in TaskId : staged'[u] # staged[u] => u \in UpdateMoves(t, s) /\ Active(staged[u])
    BY <2>1, <2>2, UpdatedChange
  <2> QED
    BY <1>0, <1>6, <2>2, <2>3 DEF RecoverTask
<1> QED
  BY <1>1, <1>2, <1>3, <1>4, <1>5, <1>6 DEF Working, Operation

\* The steps that start, end or repeat something.
Boundary == Reconcile \/ NextPass \/ Publish \/ Reject \/ Reopen

LEMMA BoundaryStep ==
    ASSUME TypeOK, SettledUntouched, Boundary
    PROVE  \/ tasks' = tasks /\ staged' = staged /\ bumped' = bumped /\ todo' = Unsettled(staged)
           \/ staged' = tasks' /\ bumped' = {} /\ todo' = {} /\ tasks' \in {tasks, staged}
<1>1. CASE Reconcile \/ NextPass
  BY <1>1 DEF Reconcile, NextPass, StartPass
<1>2. CASE Publish \/ Reject \/ Reopen
  BY <1>2 DEF Publish, Reject, Reopen, Finish
<1> QED
  BY <1>1, <1>2 DEF Boundary

LEMMA NextIsWorkOrBoundary == Next <=> Working \/ Boundary
BY DEF Next, Working, Boundary

\* A commit never changes a task without advancing its revision
\* (RevisionCoversChange): what apply, abort_tree and reconcile write to the
\* clone they also mark.
THEOREM RevisionsCoverChanges == Spec => []RevisionCoversChange
<1> DEFINE I == RevisionCoversChange /\ SettledUntouched
<1>1. Init => I
  BY DEF Init, RevisionCoversChange, SettledUntouched
<1>2. TypeOK /\ I /\ [Next]_vars => I'
  <2> SUFFICES ASSUME TypeOK, I, [Next]_vars PROVE I'
    OBVIOUS
  <2>1. CASE Working
    BY <2>1, WorkingStep DEF RevisionCoversChange, SettledUntouched
  <2>2. CASE Boundary
    BY <2>2, BoundaryStep
       DEF RevisionCoversChange, SettledUntouched, Unsettled, Terminal, Settled
  <2>3. CASE UNCHANGED vars
    BY <2>3 DEF vars, reconcileVars, RevisionCoversChange, SettledUntouched
  <2> QED
    BY <2>1, <2>2, <2>3, NextIsWorkOrBoundary
<1> QED
  BY <1>1, <1>2, TypeCorrect, PTL DEF Spec

LEMMA SettledStaysUntouched == Spec => []SettledUntouched
<1>1. Init => SettledUntouched
  BY DEF Init, SettledUntouched
<1>2. TypeOK /\ SettledUntouched /\ [Next]_vars => SettledUntouched'
  <2> SUFFICES ASSUME TypeOK, SettledUntouched, [Next]_vars PROVE SettledUntouched'
    OBVIOUS
  <2>1. CASE Working
    BY <2>1, WorkingStep DEF SettledUntouched
  <2>2. CASE Boundary
    BY <2>2, BoundaryStep DEF SettledUntouched, Unsettled, Terminal, Settled
  <2>3. CASE UNCHANGED vars
    BY <2>3 DEF vars, reconcileVars, SettledUntouched
  <2> QED
    BY <2>1, <2>2, <2>3, NextIsWorkOrBoundary
<1> QED
  BY <1>1, <1>2, TypeCorrect, PTL DEF Spec

\* A settled task is never touched again (SettledForever), by an update, an
\* abort of its owner, a stale clone of reconcile or recovery, under both wait
\* policies.
THEOREM SettledTasksAreFinal == Spec => SettledForever
<1> DEFINE Kept == \A t \in TaskId : Terminal(tasks[t]) => tasks'[t] = tasks[t]
<1>1. TypeOK /\ SettledUntouched /\ [Next]_vars => [Kept]_tasks
  <2> SUFFICES ASSUME TypeOK, SettledUntouched, [Next]_vars PROVE [Kept]_tasks
    OBVIOUS
  <2>1. CASE Working
    BY <2>1, WorkingStep
  <2>2. CASE Boundary
    BY <2>2, BoundaryStep DEF SettledUntouched
  <2>3. CASE UNCHANGED vars
    BY <2>3 DEF vars
  <2> QED
    BY <2>1, <2>2, <2>3, NextIsWorkOrBoundary
<1> QED
  BY <1>1, TypeCorrect, SettledStaysUntouched, PTL DEF Spec, SettledForever

-----------------------------------------------------------------------------
(* Wait cycles.                                                            *)

\* Dropping dependencies makes no cycle.
LEMMA AcyclicMonotone ==
    ASSUME NEW T, NEW U, Acyclic(T),
           \A u \in TaskId : WaitingOn(U, u) \subseteq WaitingOn(T, u)
    PROVE  Acyclic(U)
BY DEF Acyclic

\* abort_tree makes no task wait and leaves the dependencies alone.
LEMMA AbortTreeWaits ==
    ASSUME NEW T \in TaskMap, NEW roots, NEW background, NEW u \in TaskId
    PROVE  WaitingOn(AbortTree(T, roots, background), u) \subseteq WaitingOn(T, u)
<1> DEFINE A == AbortTree(T, roots, background)
<1>1. T[u] \in Task
  BY DEF TaskMap
<1>2. A[u] = T[u] \/ A[u].status \in {"completing", "aborted"} \/ (A[u].status = T[u].status /\ A[u].on = T[u].on)
  BY <1>1 DEF AbortTree, Task
<1> QED
  BY <1>2 DEF WaitingOn

\* The `reaches` check is enough: a new wait closes no cycle.  In a cycle of
\* the new graph through t, the tasks of the cycle that can be reached from
\* a dependency of t would already wait for each other in the old graph.
LEMMA WaitKeepsAcyclic ==
    ASSUME NEW T \in TaskMap, NEW U \in TaskMap, NEW t \in TaskId, NEW on \in SUBSET TaskId,
           Acyclic(T),
           \A c \in on : ~Reaches(T, c, t),
           WaitingOn(U, t) \subseteq on,
           \A u \in TaskId \ {t} : WaitingOn(U, u) \subseteq WaitingOn(T, u)
    PROVE  Acyclic(U)
<1> SUFFICES ASSUME NEW S \in SUBSET TaskId, S # {},
                    \A u \in S : WaitingOn(U, u) \cap S # {}
             PROVE  FALSE
  BY DEF Acyclic
<1>1. t \in S
  <2> SUFFICES ASSUME t \notin S PROVE FALSE
    OBVIOUS
  <2>1. \A u \in S : WaitingOn(T, u) \cap S # {}
    OBVIOUS
  <2> QED
    BY <2>1 DEF Acyclic
<1>2. PICK c \in on : c \in S
  BY <1>1
<1>3. PICK R \in SUBSET TaskId : c \in R /\ (\A u \in R : T[u].on \subseteq R) /\ t \notin R
  BY DEF Reaches
<1>4. \A u \in S \cap R : WaitingOn(T, u) \cap (S \cap R) # {}
  <2> TAKE u \in S \cap R
  <2>1. WaitingOn(U, u) \cap S # {} /\ WaitingOn(U, u) \subseteq WaitingOn(T, u)
    BY <1>3
  <2>2. WaitingOn(T, u) \subseteq R
    BY <1>3 DEF WaitingOn
  <2> QED
    BY <2>1, <2>2
<1>5. S \cap R # {}
  BY <1>2, <1>3
<1> QED
  BY <1>4, <1>5 DEF Acyclic

LEMMA UpdatedWaits ==
    ASSUME TypeOK, NEW t \in TaskId, NEW s \in Requested, NEW on \in SUBSET TaskId,
           NEW policy \in {"all_settled", "fail_fast"}
    PROVE  LET U == Updated(t, s, on, policy)
           IN  /\ WaitingOn(U, t) \subseteq on
               /\ s # "waiting" => WaitingOn(U, t) = {}
               /\ \A u \in TaskId \ {t} : WaitingOn(U, u) \subseteq WaitingOn(staged, u)
<1> DEFINE T == IF s \in {"failed", "aborted"} THEN AbortTree(staged, {t}, FALSE) ELSE staged
           completing == s \in Settled /\ ActiveChildren(T, t)
           u0 == [T[t] EXCEPT !.status = IF completing THEN "completing" ELSE s,
                              !.on = on,
                              !.policy = policy,
                              !.outcome = IF completing THEN s ELSE "none"]
           U == Updated(t, s, on, policy)
<1>1. T \in TaskMap
  BY AbortTreeType DEF TypeOK, TaskMap
<1>2. \A u \in TaskId : WaitingOn(T, u) \subseteq WaitingOn(staged, u)
  BY AbortTreeWaits DEF TypeOK, TaskMap
<1>3. U = [T EXCEPT ![t] = u0]
  BY DEF Updated
<1> HIDE DEF T, completing, U
<1>4. T[t] \in Task
  BY <1>1 DEF TaskMap
<1>5. u0.on = on /\ u0.status \in {"completing", s}
  BY <1>4 DEF Task
<1> HIDE DEF u0
<1>6. U[t] = u0 /\ \A u \in TaskId \ {t} : U[u] = T[u]
  BY <1>1, <1>3 DEF TaskMap
<1>7. WaitingOn(U, t) \subseteq on /\ (s # "waiting" => WaitingOn(U, t) = {})
  BY <1>5, <1>6 DEF WaitingOn
<1>8. \A u \in TaskId \ {t} : WaitingOn(U, u) \subseteq WaitingOn(staged, u)
  BY <1>2, <1>6 DEF WaitingOn
<1> QED
  BY <1>7, <1>8 DEF U

LEMMA WorkingAcyclic ==
    ASSUME TypeOK, TypeOK', Working, Acyclic(staged)
    PROVE  Acyclic(staged')
<1> USE DEF reconcileVars
<1>0. staged \in TaskMap /\ staged' \in TaskMap
  BY DEF TypeOK, TaskMap
<1>1. ASSUME NEW t \in TaskId, NEW d \in CreateArgs[t], TaskCreate(t, d) PROVE Acyclic(staged')
  <2>1. staged'[t].status = "pending" /\ \A u \in TaskId \ {t} : staged'[u] = staged[u]
    BY <1>0, <1>1 DEF TaskCreate, Apply, TaskMap, Absent
  <2>2. \A u \in TaskId : WaitingOn(staged', u) \subseteq WaitingOn(staged, u)
    BY <2>1 DEF WaitingOn
  <2> QED
    BY <2>2, AcyclicMonotone
<1>2. ASSUME NEW t \in TaskId, NEW s \in Requested, NEW on \in OnChoices(s),
             NEW policy \in PolicyChoices(s), TaskUpdate(t, s, on, policy)
      PROVE  Acyclic(staged')
  <2>1. staged' = Updated(t, s, on, policy)
    BY <1>2 DEF TaskUpdate, Apply
  <2>2. on \in SUBSET TaskId /\ policy \in {"all_settled", "fail_fast"}
    BY ChoicesType
  <2>3. /\ WaitingOn(staged', t) \subseteq on
        /\ s # "waiting" => WaitingOn(staged', t) = {}
        /\ \A u \in TaskId \ {t} : WaitingOn(staged', u) \subseteq WaitingOn(staged, u)
    BY <2>1, <2>2, UpdatedWaits
  <2>4. CASE s = "waiting"
    <3>1. \A c \in on : ~Reaches(staged, c, t)
      BY <1>2, <2>4 DEF TaskUpdate, MayUpdate
    <3> QED
      BY <1>0, <2>2, <2>3, <3>1, WaitKeepsAcyclic
  <2>5. CASE s # "waiting"
    <3>1. \A u \in TaskId : WaitingOn(staged', u) \subseteq WaitingOn(staged, u)
      BY <2>3, <2>5
    <3> QED
      BY <3>1, AcyclicMonotone
  <2> QED
    BY <2>4, <2>5
<1>3. ASSUME NEW t \in TaskId, TaskMigrate(t) PROVE Acyclic(staged')
  BY <1>3 DEF TaskMigrate, Apply
<1>4. ASSUME NEW t \in TaskId, NEW b \in BOOLEAN, Abort(t, b) PROVE Acyclic(staged')
  <2>1. staged' = AbortTree(staged, {t}, b)
    BY <1>4 DEF Abort, Apply
  <2>2. \A u \in TaskId : WaitingOn(staged', u) \subseteq WaitingOn(staged, u)
    BY <1>0, <2>1, AbortTreeWaits
  <2> QED
    BY <2>2, AcyclicMonotone
<1>5. ASSUME NEW t \in TaskId, ReconcileTask(t) PROVE Acyclic(staged')
  <2> DEFINE r == snap[t]
             A == AfterAborts(t, r)
  <2>1. A \in TaskMap
    BY AbortTreeType DEF AfterAborts, TypeOK, TaskMap
  <2>2. \A u \in TaskId : WaitingOn(A, u) \subseteq WaitingOn(staged, u)
    BY <1>0, AbortTreeWaits DEF AfterAborts
  <2>3. Decided(r) \in Settled
    BY DEF Decided, TypeOK, Task, Settled
  <2>4. \/ staged' = [A EXCEPT ![t].status = "pending"]
        \/ staged' = [staged EXCEPT ![t].status = Decided(r)]
        \/ staged' = A
    BY <1>5 DEF ReconcileTask
  <2> HIDE DEF A, r
  <2>5. CASE staged' = [A EXCEPT ![t].status = "pending"]
    <3>1. A[t] \in Task
      BY <2>1 DEF TaskMap
    <3>2. staged'[t].status = "pending" /\ \A u \in TaskId \ {t} : staged'[u] = A[u]
      BY <2>1, <2>5, <3>1 DEF TaskMap, Task
    <3>3. \A u \in TaskId : WaitingOn(staged', u) \subseteq WaitingOn(staged, u)
      BY <2>2, <3>2 DEF WaitingOn
    <3> QED
      BY <3>3, AcyclicMonotone
  <2>6. CASE staged' = [staged EXCEPT ![t].status = Decided(r)]
    <3>1. staged[t] \in Task
      BY <1>0 DEF TaskMap
    <3>2. staged'[t].status \in Settled /\ \A u \in TaskId \ {t} : staged'[u] = staged[u]
      BY <1>0, <2>3, <2>6, <3>1 DEF TaskMap, Task
    <3>3. \A u \in TaskId : WaitingOn(staged', u) \subseteq WaitingOn(staged, u)
      BY <3>2 DEF WaitingOn, Settled
    <3> QED
      BY <3>3, AcyclicMonotone
  <2>7. CASE staged' = A
    BY <2>2, <2>7, AcyclicMonotone
  <2> QED
    BY <2>4, <2>5, <2>6, <2>7
<1>6. ASSUME NEW t \in TaskId, RecoverTask(t) PROVE Acyclic(staged')
  <2> DEFINE s == RecoveryStatus(tasks[t])
  <2>1. s \in Requested /\ s # "waiting"
    BY RecoveryStatusType DEF Requested, Settled
  <2>2. staged' = Updated(t, s, {}, "all_settled")
    BY <1>6 DEF RecoverTask
  <2> HIDE DEF s
  <2>3. \A u \in TaskId : WaitingOn(staged', u) \subseteq WaitingOn(staged, u)
    BY <2>1, <2>2, UpdatedWaits
  <2> QED
    BY <2>3, AcyclicMonotone
<1> QED
  BY <1>1, <1>2, <1>3, <1>4, <1>5, <1>6 DEF Working, Operation

\* Waiting tasks never wait for each other in a circle (NoWaitCycle), whatever
\* commits, wake-ups, aborts and restarts come in between.
THEOREM WaitsAreAcyclic == Spec => []NoWaitCycle
<1> DEFINE I == Acyclic(staged) /\ Acyclic(tasks)
<1>1. Init => I
  <2> SUFFICES ASSUME Init PROVE I
    OBVIOUS
  <2>1. \A t \in TaskId : WaitingOn(tasks, t) = {} /\ WaitingOn(staged, t) = {}
    BY DEF Init, WaitingOn, Absent
  <2> QED
    BY <2>1 DEF Acyclic
<1>2. TypeOK /\ TypeOK' /\ SettledUntouched /\ I /\ [Next]_vars => I'
  <2> SUFFICES ASSUME TypeOK, TypeOK', SettledUntouched, I, [Next]_vars PROVE I'
    OBVIOUS
  <2>1. CASE Working
    BY <2>1, WorkingStep, WorkingAcyclic
  <2>2. CASE Boundary
    BY <2>2, BoundaryStep
  <2>3. CASE UNCHANGED vars
    BY <2>3 DEF vars
  <2> QED
    BY <2>1, <2>2, <2>3, NextIsWorkOrBoundary
<1>3. I => NoWaitCycle
  BY DEF NoWaitCycle
<1> QED
  BY <1>1, <1>2, <1>3, TypeCorrect, SettledStaysUntouched, PTL DEF Spec

-----------------------------------------------------------------------------
(* Owners.                                                                 *)

\* abort_tree visits its roots and the active tasks owned by what it visits,
\* and nothing that a set closed in this way does not contain.
LEMMA ScopeClosed ==
    ASSUME NEW T, NEW roots, NEW background \in BOOLEAN
    PROVE  /\ roots \cap TaskId \subseteq AbortScope(T, roots, background)
           /\ \A p \in AbortScope(T, roots, background) :
                 ActiveOwned(T, p, background) \subseteq AbortScope(T, roots, background)
BY DEF AbortScope, ActiveOwned

LEMMA ScopeLeast ==
    ASSUME NEW T, NEW roots, NEW background, NEW S \in SUBSET TaskId, roots \subseteq S,
           \A p \in S : ActiveOwned(T, p, background) \subseteq S
    PROVE  AbortScope(T, roots, background) \subseteq S
BY DEF AbortScope

\* What abort_tree makes of one task.
LEMMA AbortTreeAt ==
    ASSUME NEW T \in TaskMap, NEW roots, NEW background, NEW t \in TaskId,
           NEW A, A = AbortTree(T, roots, background)
    PROVE  /\ t \notin AbortMoves(T, roots, background) => A[t] = T[t]
           /\ A[t] \in Task
           /\ A[t].owner = T[t].owner /\ A[t].background = T[t].background
           /\ A[t].replay = T[t].replay /\ A[t].policy = T[t].policy
           /\ t \in AbortMoves(T, roots, background) =>
                 /\ A[t].abort
                 /\ T[t].status = "running" =>
                       A[t].status = "running" /\ A[t].outcome = T[t].outcome
                 /\ T[t].status # "running" =>
                       /\ A[t].status = IF Holds(T, t) THEN "completing" ELSE "aborted"
                       /\ A[t].outcome = "aborted"
<1> DEFINE moved == t \in AbortMoves(T, roots, background)
           u == A[t]
           s == IF Holds(T, t) THEN "completing" ELSE "aborted"
<1>1. T[t] \in Task
  BY DEF TaskMap
<1>2. u = IF ~moved THEN T[t]
          ELSE IF T[t].status = "running" THEN [T[t] EXCEPT !.abort = TRUE]
          ELSE [T[t] EXCEPT !.abort = TRUE, !.status = s, !.outcome = "aborted"]
  BY DEF AbortTree
<1>3. s \in {"completing", "aborted"}
  OBVIOUS
<1>4. u \in Task
  BY AbortTreeType DEF TaskMap
<1> HIDE DEF u, moved, s
<1>5. /\ ~moved => u = T[t]
      /\ u.owner = T[t].owner /\ u.background = T[t].background
      /\ u.replay = T[t].replay /\ u.policy = T[t].policy
      /\ moved => /\ u.abort
                  /\ T[t].status = "running" => u.status = "running" /\ u.outcome = T[t].outcome
                  /\ T[t].status # "running" => u.status = s /\ u.outcome = "aborted"
  BY <1>1, <1>2 DEF Task
<1> QED
  BY <1>4, <1>5 DEF u, moved, s

\* Owners exist, and no set of tasks owns itself: a task is created under an
\* owner that exists, and is nobody's owner before.
Owners(T) ==
    /\ \A t \in TaskId : T[t].owner # NoTask => T[T[t].owner].status # "absent"
    /\ \A t \in TaskId : T[t].status = "absent" => T[t].owner = NoTask
    /\ \A S \in SUBSET TaskId : S # {} => \E t \in S : T[t].owner \notin S

\* The steps that keep the owners, and create and remove no task.
SameOwners(T, U) ==
    \A t \in TaskId : U[t].owner = T[t].owner /\ (U[t].status = "absent" <=> T[t].status = "absent")

LEMMA OwnersKept ==
    ASSUME NEW T \in TaskMap, NEW U \in TaskMap, Owners(T), SameOwners(T, U)
    PROVE  Owners(U)
<1>1. \A t \in TaskId : T[t].owner # NoTask => T[t].owner \in TaskId
  BY DEF TaskMap, Task
<1> QED
  BY <1>1 DEF Owners, SameOwners

LEMMA AbortTreeOwners ==
    ASSUME NEW T \in TaskMap, NEW roots, NEW background
    PROVE  SameOwners(T, AbortTree(T, roots, background))
<1> SUFFICES ASSUME NEW t \in TaskId
             PROVE  LET u == AbortTree(T, roots, background)[t]
                    IN  u.owner = T[t].owner /\ (u.status = "absent" <=> T[t].status = "absent")
  BY DEF SameOwners
<1>1. t \in AbortMoves(T, roots, background) => T[t].status # "absent"
  BY DEF AbortMoves, Active
<1> QED
  BY <1>1, AbortTreeAt

\* The two steps of a task.update: what the aborts leave, and whether the
\* task has to wait for its children.
UpdateBase(t, s) == IF s \in {"failed", "aborted"} THEN AbortTree(staged, {t}, FALSE) ELSE staged
Held(t, s) == s \in Settled /\ ActiveChildren(UpdateBase(t, s), t)

\* What a task.update makes of its task, and of the others.
LEMMA UpdatedAt ==
    ASSUME TypeOK, NEW t \in TaskId, NEW s \in Requested, NEW on \in SUBSET TaskId,
           NEW policy \in {"all_settled", "fail_fast"}, NEW U, U = Updated(t, s, on, policy)
    PROVE  /\ UpdateBase(t, s) \in TaskMap
           /\ U \in TaskMap
           /\ U = [UpdateBase(t, s) EXCEPT ![t] = U[t]]
           /\ U[t].owner = UpdateBase(t, s)[t].owner
           /\ U[t].background = UpdateBase(t, s)[t].background
           /\ U[t].replay = UpdateBase(t, s)[t].replay
           /\ U[t].abort = UpdateBase(t, s)[t].abort
           /\ U[t].policy = policy
           /\ U[t].status = IF Held(t, s) THEN "completing" ELSE s
           /\ U[t].outcome = IF Held(t, s) THEN s ELSE "none"
<1> DEFINE T == UpdateBase(t, s)
           u == [T[t] EXCEPT !.status = IF Held(t, s) THEN "completing" ELSE s,
                             !.on = on,
                             !.policy = policy,
                             !.outcome = IF Held(t, s) THEN s ELSE "none"]
<1>1. T \in TaskMap
  BY AbortTreeType DEF UpdateBase, TypeOK, TaskMap
<1>2. U = [T EXCEPT ![t] = u]
  BY DEF Updated, UpdateBase, Held
<1>3. U \in TaskMap
  BY UpdatedType
<1> HIDE DEF T
<1>4. T[t] \in Task
  BY <1>1 DEF TaskMap
<1>5. /\ u.owner = T[t].owner /\ u.background = T[t].background
      /\ u.replay = T[t].replay /\ u.abort = T[t].abort
      /\ u.policy = policy
      /\ u.status = IF Held(t, s) THEN "completing" ELSE s
      /\ u.outcome = IF Held(t, s) THEN s ELSE "none"
  BY <1>4 DEF Task
<1> HIDE DEF u
<1>6. U[t] = u
  BY <1>1, <1>2 DEF TaskMap
<1> QED
  BY <1>1, <1>2, <1>3, <1>5, <1>6 DEF T

\* What is above t: t itself, its owner and so on.
Above(T, t) ==
    {a \in TaskId : \A S \in SUBSET TaskId :
        (t \in S /\ \A x \in S : T[x].owner \in S \cup {NoTask}) => a \in S}

LEMMA DepthIsAbove == \A T, t : Depth(T, t) = Cardinality(Above(T, t) \ {t})
<1> SUFFICES ASSUME NEW T, NEW t PROVE Depth(T, t) = Cardinality(Above(T, t) \ {t})
  OBVIOUS
<1>1. Above(T, t) \ {t} =
        {a \in TaskId \ {t} : \A S \in SUBSET TaskId :
            (t \in S /\ \A x \in S : T[x].owner \in S \cup {NoTask}) => a \in S}
  BY DEF Above
<1> QED
  BY <1>1 DEF Depth

\* A task is deeper than its owner.
LEMMA Deeper ==
    ASSUME NEW T \in TaskMap, Owners(T), NEW c \in TaskId, NEW p \in TaskId, T[c].owner = p
    PROVE  Depth(T, c) \in Nat /\ Depth(T, p) \in Nat /\ Depth(T, p) < Depth(T, c)
<1> DEFINE Closed(S) == \A x \in S : T[x].owner \in S \cup {NoTask}
<1>1. p # NoTask /\ IsFiniteSet(TaskId)
  BY ConstantsOK
<1>2. \A t \in TaskId : t \in Above(T, t)
  BY DEF Above
<1>3. \A t \in TaskId : Above(T, t) \in SUBSET TaskId /\ Closed(Above(T, t))
  <2> SUFFICES ASSUME NEW t \in TaskId, NEW x \in Above(T, t), T[x].owner # NoTask
               PROVE  T[x].owner \in Above(T, t)
    BY DEF Above
  <2>1. x \in TaskId /\ T[x].owner \in TaskId
    BY DEF Above, TaskMap, Task
  <2>2. ASSUME NEW S \in SUBSET TaskId, t \in S, Closed(S) PROVE T[x].owner \in S
    <3>1. x \in S
      BY <2>2 DEF Above
    <3> QED
      BY <2>2, <3>1
  <2> QED
    BY <2>1, <2>2 DEF Above
<1>4. ASSUME NEW t \in TaskId, NEW S \in SUBSET TaskId, t \in S, Closed(S)
      PROVE  Above(T, t) \subseteq S
  BY <1>4 DEF Above
<1>5. p \in Above(T, c)
  BY <1>1, <1>2, <1>3
<1>6. Above(T, p) \subseteq Above(T, c)
  BY <1>3, <1>4, <1>5
<1>7. c \notin Above(T, p)
  <2> SUFFICES ASSUME c \in Above(T, p) PROVE FALSE
    OBVIOUS
  <2> DEFINE S == {x \in Above(T, p) : c \in Above(T, x)}
  <2>1. S \in SUBSET TaskId /\ p \in S
    BY <1>2, <1>3
  <2>2. ASSUME NEW x \in S PROVE T[x].owner \in S
    <3>1. CASE x = c
      BY <2>1, <3>1
    <3>2. CASE x # c
      <4>1. x \in TaskId /\ x \in Above(T, p) /\ c \in Above(T, x)
        BY <2>1
      <4>2. T[x].owner # NoTask
        <5> SUFFICES ASSUME T[x].owner = NoTask PROVE FALSE
          OBVIOUS
        <5>1. {x} \in SUBSET TaskId /\ x \in {x} /\ Closed({x})
          BY <4>1
        <5>2. Above(T, x) \subseteq {x}
          BY <1>4, <4>1, <5>1
        <5> QED
          BY <3>2, <4>1, <5>2
      <4>3. T[x].owner \in Above(T, p)
        BY <1>3, <4>1, <4>2
      <4>4. T[x].owner \in TaskId
        BY <1>3, <4>3
      <4>5. c \in Above(T, T[x].owner)
        <5> DEFINE R == Above(T, T[x].owner) \cup {x}
        <5>1. R \in SUBSET TaskId /\ x \in R /\ Closed(R)
          BY <1>2, <1>3, <4>1, <4>4
        <5>2. c \in R
          BY <1>4, <4>1, <5>1
        <5> QED
          BY <3>2, <5>2
      <4> QED
        BY <4>3, <4>5
    <3> QED
      BY <3>1, <3>2
  <2> HIDE DEF S
  <2> QED
    BY <2>1, <2>2 DEF Owners
<1> DEFINE A == Above(T, p) \ {p}
           B == Above(T, c) \ {c}
<1>8. A \subseteq B /\ p \in B /\ p \notin A
  <2>1. p # c
    BY <1>2, <1>7
  <2> QED
    BY <1>5, <1>6, <1>7, <2>1
<1>9. B \in SUBSET TaskId
  BY <1>3
<1> HIDE DEF A, B
<1>10. IsFiniteSet(B) /\ IsFiniteSet(A) /\ Cardinality(A) <= Cardinality(B)
       /\ Cardinality(A) # Cardinality(B)
  BY <1>1, <1>8, <1>9, FS_Subset
<1>11. Cardinality(A) \in Nat /\ Cardinality(B) \in Nat
  BY <1>10, FS_CardinalityType
<1>12. Cardinality(A) < Cardinality(B)
  BY <1>10, <1>11
<1> QED
  BY <1>11, <1>12, DepthIsAbove DEF A, B

\* abort_tree visits nothing but its root that is not deeper than the root.
LEMMA ScopeIsDeeper ==
    ASSUME NEW T \in TaskMap, Owners(T), NEW t \in TaskId, NEW background,
           NEW u \in AbortScope(T, {t}, background)
    PROVE  u = t \/ (Depth(T, u) \in Nat /\ Depth(T, t) < Depth(T, u))
<1>1. Depth(T, t) \in Nat
  <2>1. IsFiniteSet(Above(T, t) \ {t})
    BY ConstantsOK, FS_Subset DEF Above
  <2> QED
    BY <2>1, DepthIsAbove, FS_CardinalityType
<1> DEFINE n == Depth(T, t)
           S == {x \in TaskId : x = t \/ (Depth(T, x) \in Nat /\ n < Depth(T, x))}
<1> HIDE DEF n
<1>2. ASSUME NEW p \in S, NEW c \in ActiveOwned(T, p, background) PROVE c \in S
  <2>1. c \in TaskId /\ p \in TaskId /\ T[c].owner = p
    BY DEF ActiveOwned
  <2>2. Depth(T, c) \in Nat /\ Depth(T, p) \in Nat /\ Depth(T, p) < Depth(T, c)
    BY <2>1, Deeper
  <2>3. p = t => Depth(T, p) = n
    BY DEF n
  <2>4. n <= Depth(T, p)
    BY <1>1, <2>2, <2>3 DEF n
  <2>5. n < Depth(T, c)
    BY <1>1, <2>2, <2>4 DEF n
  <2> QED
    BY <2>1, <2>2, <2>5
<1>3. S \in SUBSET TaskId /\ {t} \subseteq S
  OBVIOUS
<1>4. AbortScope(T, {t}, background) \subseteq S
  <2> HIDE DEF S
  <2> QED
    BY <1>2, <1>3, ScopeLeast
<1> QED
  BY <1>4 DEF n

LEMMA SameOwnersRefl == \A T : SameOwners(T, T)
BY DEF SameOwners

LEMMA SameDepth ==
    ASSUME NEW T, NEW U, SameOwners(T, U), NEW t \in TaskId
    PROVE  Depth(U, t) = Depth(T, t)
<1>1. \A x \in TaskId : U[x].owner = T[x].owner
  BY DEF SameOwners
<1>2. \A S \in SUBSET TaskId :
         (\A x \in S : U[x].owner \in S \cup {NoTask}) <=> (\A x \in S : T[x].owner \in S \cup {NoTask})
  BY <1>1
<1>3. Above(U, t) = Above(T, t)
  BY <1>2 DEF Above
<1> QED
  BY <1>3, DepthIsAbove

\* Only a task that does not exist is created, under one that does.
LEMMA CreateOwners ==
    ASSUME TypeOK, Owners(staged), NEW t \in TaskId, NEW d \in CreateArgs[t], TaskCreate(t, d)
    PROVE  /\ Owners(staged')
           /\ \A u \in TaskId : staged[u].status # "absent" => staged'[u] = staged[u]
<1> DEFINE c == [Absent EXCEPT !.status = "pending", !.owner = d.owner,
                               !.background = d.background, !.replay = d.replay]
<1>1. d \in Definition
  BY ConstantsOK
<1>2. c.owner = d.owner /\ c.status = "pending" /\ d.owner \in TaskId \cup {NoTask}
  BY <1>1 DEF Absent, Definition
<1>3. /\ staged' = [staged EXCEPT ![t] = c]
      /\ staged[t].status = "absent"
      /\ d.owner # NoTask => staged[d.owner].status # "absent"
  BY DEF TaskCreate, Apply, Active
<1> HIDE DEF c
<1>4. \A u \in TaskId : staged'[u] = IF u = t THEN c ELSE staged[u]
  BY <1>3 DEF TypeOK
<1>5. \A u \in TaskId : staged[u].owner \in TaskId \cup {NoTask} /\ staged[u].owner # t
  BY <1>3, ConstantsOK DEF TypeOK, Task, Owners
<1>6. d.owner # t
  BY <1>3, ConstantsOK
<1>7. \A u \in TaskId : staged'[u].owner # NoTask => staged'[staged'[u].owner].status # "absent"
  BY <1>2, <1>3, <1>4, <1>5, <1>6 DEF Owners
<1>8. \A u \in TaskId : staged'[u].status = "absent" => staged'[u].owner = NoTask
  BY <1>2, <1>4 DEF Owners
<1>9. ASSUME NEW S \in SUBSET TaskId, S # {} PROVE \E u \in S : staged'[u].owner \notin S
  <2>1. CASE S \subseteq {t}
    BY <1>2, <1>4, <1>6, <1>9, <2>1
  <2>2. CASE ~(S \subseteq {t})
    <3>1. S \ {t} \in SUBSET TaskId /\ S \ {t} # {}
      BY <2>2
    <3>2. PICK u \in S \ {t} : staged[u].owner \notin S \ {t}
      BY <3>1 DEF Owners
    <3> QED
      BY <1>4, <1>5, <3>2
  <2> QED
    BY <2>1, <2>2
<1> QED
  BY <1>3, <1>4, <1>7, <1>8, <1>9 DEF Owners

LEMMA UpdatedOwners ==
    ASSUME TypeOK, NEW t \in TaskId, NEW s \in Requested, NEW on \in SUBSET TaskId,
           NEW policy \in {"all_settled", "fail_fast"}, Active(staged[t])
    PROVE  SameOwners(staged, Updated(t, s, on, policy))
<1> DEFINE T == UpdateBase(t, s)
           U == Updated(t, s, on, policy)
<1>1. SameOwners(staged, T)
  <2>1. staged \in TaskMap
    BY DEF TypeOK, TaskMap
  <2> QED
    BY <2>1, AbortTreeOwners, SameOwnersRefl DEF UpdateBase
<1>2. /\ T \in TaskMap
      /\ U = [T EXCEPT ![t] = U[t]]
      /\ U[t].owner = T[t].owner
      /\ U[t].status = IF Held(t, s) THEN "completing" ELSE s
  BY UpdatedAt
<1> HIDE DEF T, U
<1>3. \A u \in TaskId : u # t => U[u] = T[u]
  BY <1>2 DEF TaskMap
<1>4. s # "absent" /\ staged[t].status # "absent"
  BY DEF Requested, Settled, Active
<1>5. SameOwners(staged, U)
  BY <1>1, <1>2, <1>3, <1>4 DEF SameOwners
<1> QED
  BY <1>5 DEF U

OwnersInv ==
    /\ Owners(tasks)
    /\ Owners(staged)
    /\ \A t \in todo : staged[t].status # "absent"

\* Inside a commit, only the creation of a task changes what exists.
LEMMA WorkingOwners ==
    ASSUME TypeOK, OwnersInv, Working
    PROVE  \/ SameOwners(staged, staged')
           \/ \E t \in TaskId : \E d \in CreateArgs[t] : TaskCreate(t, d)
<1>1. ASSUME NEW t \in TaskId, NEW s \in Requested, NEW on \in OnChoices(s),
             NEW policy \in PolicyChoices(s), TaskUpdate(t, s, on, policy)
      PROVE  SameOwners(staged, staged')
  <2>1. Active(staged[t]) /\ staged' = Updated(t, s, on, policy)
    BY <1>1 DEF TaskUpdate, MayUpdate, Apply
  <2> QED
    BY <2>1, ChoicesType, UpdatedOwners
<1>2. ASSUME NEW t \in TaskId, TaskMigrate(t) PROVE SameOwners(staged, staged')
  BY <1>2 DEF TaskMigrate, Apply, SameOwners
<1>3. ASSUME NEW t \in TaskId, NEW b \in BOOLEAN, Abort(t, b) PROVE SameOwners(staged, staged')
  BY <1>3, AbortTreeOwners DEF Abort, Apply, TypeOK, TaskMap
<1>4. ASSUME NEW t \in TaskId, ReconcileTask(t) PROVE SameOwners(staged, staged')
  <2> DEFINE r == snap[t]
             A == AfterAborts(t, r)
  <2>0. staged \in TaskMap
    BY DEF TypeOK, TaskMap
  <2>1. A \in TaskMap /\ staged \in TaskMap /\ SameOwners(staged, A)
    BY <2>0, AbortTreeType, AbortTreeOwners, SameOwnersRefl DEF AfterAborts
  <2>2. \/ staged' = [A EXCEPT ![t].status = "pending"]
        \/ staged' = [staged EXCEPT ![t].status = Decided(r)]
        \/ staged' = A
    BY <1>4 DEF ReconcileTask
  <2>3. Decided(r) # "absent" /\ staged[t].status # "absent"
    BY <1>4 DEF ReconcileTask, OwnersInv, Decided, TypeOK, Task, Settled
  <2> HIDE DEF A
  <2>4. ASSUME NEW T \in TaskMap, NEW s, s # "absent", SameOwners(staged, T)
        PROVE  SameOwners(staged, [T EXCEPT ![t].status = s])
    <3>1. [T[t] EXCEPT !.status = s].owner = T[t].owner /\ [T[t] EXCEPT !.status = s].status = s
      BY DEF TaskMap, Task
    <3>2. \A u \in TaskId : [T EXCEPT ![t].status = s][u] =
             IF u = t THEN [T[t] EXCEPT !.status = s] ELSE T[u]
      BY DEF TaskMap
    <3> QED
      BY <2>3, <2>4, <3>1, <3>2 DEF SameOwners
  <2>5. SameOwners(staged, staged)
    BY DEF SameOwners
  <2> QED
    BY <2>1, <2>2, <2>3, <2>4, <2>5
<1>5. ASSUME NEW t \in TaskId, RecoverTask(t) PROVE SameOwners(staged, staged')
  <2>1. /\ Active(staged[t])
        /\ staged' = Updated(t, RecoveryStatus(tasks[t]), {}, "all_settled")
    BY <1>5 DEF RecoverTask, RecoveryAccepted, MayUpdate
  <2>2. RecoveryStatus(tasks[t]) \in Requested
    BY RecoveryStatusType DEF Requested, Settled
  <2> QED
    BY <2>1, <2>2, UpdatedOwners
<1> QED
  BY <1>1, <1>2, <1>3, <1>4, <1>5 DEF Working, Operation

LEMMA NextOwners ==
    ASSUME TypeOK, TypeOK', OwnersInv, [Next]_vars
    PROVE  OwnersInv'
<1>1. staged \in TaskMap /\ staged' \in TaskMap
  BY DEF TypeOK, TaskMap
<1>2. CASE Working
  <2>1. tasks' = tasks /\ todo' \subseteq todo
    BY <1>2 DEF Working, Operation, TaskCreate, TaskUpdate, TaskMigrate, Abort, Apply,
                ReconcileTask, RecoverTask, reconcileVars
  <2>2. CASE SameOwners(staged, staged')
    <3>1. Owners(staged')
      BY <1>1, <2>2, OwnersKept DEF OwnersInv
    <3>2. \A t \in todo' : staged'[t].status # "absent"
      BY <2>1, <2>2 DEF OwnersInv, SameOwners, TypeOK
    <3> QED
      BY <2>1, <3>1, <3>2 DEF OwnersInv
  <2>3. ASSUME NEW t \in TaskId, NEW d \in CreateArgs[t], TaskCreate(t, d) PROVE OwnersInv'
    <3>1. /\ Owners(staged')
          /\ \A u \in TaskId : staged[u].status # "absent" => staged'[u] = staged[u]
      BY <2>3, CreateOwners DEF OwnersInv
    <3> QED
      BY <2>1, <3>1 DEF OwnersInv, TypeOK
  <2> QED
    BY <1>2, <2>2, <2>3, WorkingOwners
<1>3. CASE Boundary
  <2>1. CASE tasks' = tasks /\ staged' = staged /\ todo' = Unsettled(staged)
    BY <2>1 DEF OwnersInv, Unsettled
  <2>2. CASE staged' = tasks' /\ todo' = {} /\ tasks' \in {tasks, staged}
    BY <2>2 DEF OwnersInv
  <2> QED
    BY <1>3, <2>1, <2>2 DEF Boundary, Reconcile, NextPass, StartPass, Publish, Reject, Reopen, Finish
<1>4. CASE UNCHANGED vars
  BY <1>4 DEF vars, reconcileVars, OwnersInv
<1> QED
  BY <1>2, <1>3, <1>4, NextIsWorkOrBoundary

LEMMA OwnersHold == Spec => []OwnersInv
<1>1. Init => OwnersInv
  <2> SUFFICES ASSUME Init PROVE OwnersInv
    OBVIOUS
  <2>1. \A t \in TaskId : tasks[t].owner = NoTask /\ tasks[t].status = "absent"
    BY DEF Init, Absent
  <2>2. NoTask \notin TaskId
    BY ConstantsOK
  <2>3. \A S \in SUBSET TaskId : S # {} => \E t \in S : tasks[t].owner \notin S
    <3> SUFFICES ASSUME NEW S \in SUBSET TaskId, S # {} PROVE \E t \in S : tasks[t].owner \notin S
      OBVIOUS
    <3>1. PICK t \in S : TRUE
      OBVIOUS
    <3>2. tasks[t].owner \notin S
      BY <2>1, <2>2, <3>1
    <3> QED
      BY <3>2
  <2>4. Owners(tasks)
    BY <2>1, <2>3 DEF Owners
  <2> QED
    BY <2>4 DEF Init, OwnersInv
<1>2. TypeOK /\ TypeOK' /\ OwnersInv /\ [Next]_vars => OwnersInv'
  BY NextOwners
<1> QED
  BY <1>1, <1>2, TypeCorrect, PTL DEF Spec

-----------------------------------------------------------------------------
(* Recovery.                                                               *)

\* The tasks that recover has not come to are as it read them: what its
\* earlier updates have aborted is deeper than they are.
RecoverInv ==
    phase = "recover" =>
        /\ SameOwners(tasks, staged)
        /\ \A t \in recov : /\ t \notin bumped
                            /\ staged[t] = tasks[t]
                            /\ tasks[t].status = "running"

LEMMA RecoverStep ==
    ASSUME TypeOK, OwnersInv, RecoverInv, NEW t \in TaskId, RecoverTask(t)
    PROVE  RecoverInv'
<1> DEFINE s == RecoveryStatus(tasks[t])
<1>1. /\ phase = "recover" /\ NextRecovered(t) /\ Active(staged[t])
      /\ staged' = Updated(t, s, {}, "all_settled")
      /\ bumped' = bumped \cup UpdateMoves(t, s)
      /\ recov' = recov \ {t} /\ tasks' = tasks
  BY DEF RecoverTask, RecoveryAccepted, MayUpdate
<1>2. s \in Requested
  BY RecoveryStatusType DEF Requested, Settled
<1>3. SameOwners(staged, staged')
  BY <1>1, <1>2, UpdatedOwners
<1>4. SameOwners(tasks, staged')
  BY <1>1, <1>3 DEF RecoverInv, SameOwners
<1> HIDE DEF s
<1>5. ASSUME NEW u \in recov, u # t PROVE u \notin UpdateMoves(t, s)
  <2> SUFFICES ASSUME u \in AbortMoves(staged, {t}, FALSE) PROVE FALSE
    BY <1>5 DEF UpdateMoves
  <2>1. u \in TaskId /\ u \in AbortScope(staged, {t}, FALSE)
    BY DEF AbortMoves, AbortScope
  <2>2. Depth(staged, u) \in Nat /\ Depth(staged, t) < Depth(staged, u)
    BY <1>5, <2>1, ScopeIsDeeper DEF OwnersInv, TypeOK, TaskMap
  <2>3. Depth(staged, u) = Depth(tasks, u) /\ Depth(staged, t) = Depth(tasks, t)
    BY <1>1, <2>1, SameDepth DEF RecoverInv
  <2>4. Depth(tasks, u) < Depth(tasks, t) \/ Depth(tasks, u) = Depth(tasks, t)
    BY <1>1, <1>5 DEF NextRecovered
  <2>5. Depth(staged, t) \in Nat
    <3>1. IsFiniteSet(Above(staged, t) \ {t})
      BY ConstantsOK, FS_Subset DEF Above
    <3> QED
      BY <3>1, DepthIsAbove, FS_CardinalityType
  <2> QED
    BY <2>2, <2>3, <2>4, <2>5
<1>6. ASSUME NEW u \in recov, u # t PROVE staged'[u] = staged[u]
  <2>1. u \in TaskId
    BY DEF TypeOK
  <2> QED
    BY <1>1, <1>5, <1>6, <2>1, UpdatedChange
<1>7. \A u \in recov' : /\ u \notin bumped'
                        /\ staged'[u] = tasks'[u]
                        /\ tasks'[u].status = "running"
  BY <1>1, <1>5, <1>6 DEF RecoverInv
<1> QED
  BY <1>1, <1>4, <1>7 DEF RecoverInv

LEMMA NextRecover ==
    ASSUME TypeOK, OwnersInv, RecoverInv, [Next]_vars
    PROVE  RecoverInv'
<1>1. CASE \E t \in TaskId : Operation(t)
  BY <1>1 DEF Operation, TaskCreate, TaskUpdate, TaskMigrate, Abort, Apply, RecoverInv
<1>2. CASE \E t \in TaskId : ReconcileTask(t)
  BY <1>2 DEF ReconcileTask, RecoverInv
<1>3. CASE \E t \in TaskId : RecoverTask(t)
  BY <1>3, RecoverStep
<1>4. CASE Reconcile \/ NextPass \/ Publish \/ Reject
  BY <1>4 DEF Reconcile, NextPass, Publish, Reject, Finish, RecoverInv
<1>5. CASE Reopen
  <2>1. tasks' = tasks /\ staged' = tasks /\ bumped' = {}
    BY <1>5 DEF Reopen, Finish
  <2>2. phase' = "recover" => recov' = Running(tasks)
    BY <1>5 DEF Reopen, Finish
  <2> QED
    BY <2>1, <2>2 DEF RecoverInv, SameOwners, Running
<1>6. CASE UNCHANGED vars
  BY <1>6 DEF vars, RecoverInv
<1> QED
  BY <1>1, <1>2, <1>3, <1>4, <1>5, <1>6 DEF Next

\* recover's batch is never refused for a conflict with itself
\* (RecoveryNeverConflicts), for every graph of tasks and both wait policies.
THEOREM RecoveryIsNeverInConflict == Spec => []RecoveryNeverConflicts
<1>1. Init => RecoverInv
  BY DEF Init, RecoverInv
<1>2. TypeOK /\ OwnersInv /\ RecoverInv /\ [Next]_vars => RecoverInv'
  BY NextRecover
<1>3. RecoverInv => RecoveryNeverConflicts
  <2> SUFFICES ASSUME RecoverInv, phase = "recover", NEW t \in TaskId, NextRecovered(t)
               PROVE  RecoveryAccepted(t)
    BY DEF RecoveryNeverConflicts
  <2> DEFINE s == RecoveryStatus(tasks[t])
  <2>1. t \notin bumped /\ staged[t] = tasks[t] /\ tasks[t].status = "running"
    BY DEF RecoverInv, NextRecovered
  <2>2. s \in {"aborted", "pending", "failed"} /\ (tasks[t].abort => s = "aborted")
    BY DEF RecoveryStatus
  <2> HIDE DEF s
  <2>3. MayUpdate(t, s, {}, "all_settled")
    BY <2>1, <2>2 DEF MayUpdate, Active, Settled
  <2> QED
    BY <2>1, <2>3 DEF RecoveryAccepted, s
<1> QED
  BY <1>1, <1>2, <1>3, TypeCorrect, OwnersHold, PTL DEF Spec

-----------------------------------------------------------------------------
(* The graph while no task waits with fail_fast.  Under that policy a pass *)
(* of reconcile aborts tasks behind its own clones, and none of the        *)
(* following holds (the run tasks_stale_clone shows it for one of them).   *)

\* What an abort that was requested leaves possible.
AbortLegal(r) ==
    r.abort => /\ r.status \in {"running", "completing", "aborted", "failed"}
               /\ r.status = "completing" => r.outcome \in {"failed", "aborted"}

\* An active task whose abort was requested has had it requested for all its
\* active foreground children too: abort_tree went through them, and none is
\* created under an aborted owner.
AbortCovers(T) ==
    \A p \in TaskId : \A c \in ActiveOwned(T, p, FALSE) :
        Active(T[p]) /\ T[p].abort => T[c].abort

OwnsNothing(T) == \A p \in TaskId : \A c \in ActiveOwned(T, p, FALSE) : ~Terminal(T[p])

GraphOK(T) ==
    /\ \A t \in TaskId : T[t].policy = "all_settled"
    /\ \A t \in TaskId : AbortLegal(T[t])
    /\ AbortCovers(T)
    /\ OwnsNothing(T)

LEMMA ScopeOf ==
    ASSUME NEW T \in TaskMap, NEW p \in TaskId, NEW c \in ActiveOwned(T, p, FALSE)
    PROVE  AbortScope(T, {c}, FALSE) \subseteq AbortScope(T, {p}, FALSE)
<1> DEFINE S == AbortScope(T, {p}, FALSE)
<1>1. p \in S /\ \A q \in S : ActiveOwned(T, q, FALSE) \subseteq S
  BY ScopeClosed
<1>2. S \in SUBSET TaskId
  BY DEF AbortScope
<1> HIDE DEF S
<1>3. {c} \subseteq S
  BY <1>1
<1>4. AbortScope(T, {c}, FALSE) \subseteq S
  BY <1>1, <1>2, <1>3, ScopeLeast
<1> QED
  BY <1>4 DEF S

\* abort_tree leaves a task active when it leaves a foreground child active:
\* working from the leaves up is the same as looking at the whole tree first.
LEMMA HoldsUp ==
    ASSUME NEW T \in TaskMap, Owners(T), NEW p \in TaskId, NEW c \in ActiveOwned(T, p, FALSE),
           Unmoved(T[c]) \/ Holds(T, c)
    PROVE  Holds(T, p)
<1>1. c \in TaskId /\ T[c].owner = p
  BY DEF ActiveOwned
<1>2. Depth(T, p) \in Nat /\ Depth(T, c) \in Nat /\ Depth(T, p) < Depth(T, c)
  BY <1>1, Deeper
<1>3. ASSUME NEW x \in AbortScope(T, {c}, FALSE) PROVE x # p
  <2>1. x = c \/ (Depth(T, x) \in Nat /\ Depth(T, c) < Depth(T, x))
    BY <1>1, ScopeIsDeeper
  <2> QED
    BY <1>2, <2>1
<1>4. AbortScope(T, {c}, FALSE) \subseteq AbortScope(T, {p}, FALSE) \ {p}
  BY <1>3, ScopeOf
<1>5. c \in AbortScope(T, {c}, FALSE)
  BY <1>1, ScopeClosed
<1> QED
  BY <1>4, <1>5 DEF Holds

LEMMA AbortGraph ==
    ASSUME NEW T \in TaskMap, Owners(T), GraphOK(T), NEW roots, NEW background \in BOOLEAN,
           NEW A, A = AbortTree(T, roots, background)
    PROVE  GraphOK(A)
<1> DEFINE scope == AbortScope(T, roots, background)
           moved == AbortMoves(T, roots, background)
<1>1. \A t \in TaskId : /\ t \notin moved => A[t] = T[t]
                        /\ A[t].owner = T[t].owner /\ A[t].background = T[t].background
                        /\ A[t].policy = T[t].policy
                        /\ t \in moved => /\ A[t].abort
                                          /\ T[t].status = "running" => A[t].status = "running"
                                          /\ T[t].status # "running" =>
                                                /\ A[t].status = IF Holds(T, t) THEN "completing" ELSE "aborted"
                                                /\ A[t].outcome = "aborted"
  BY AbortTreeAt
<1>2. \A t \in TaskId : t \in moved <=> t \in scope /\ Active(T[t]) /\ ~T[t].abort
  BY DEF AbortMoves
<1>3. \A p \in scope : ActiveOwned(T, p, FALSE) \subseteq scope
  <2>1. \A p \in scope : ActiveOwned(T, p, background) \subseteq scope
    BY ScopeClosed
  <2>2. \A p \in TaskId : ActiveOwned(T, p, FALSE) \subseteq ActiveOwned(T, p, background)
    BY DEF ActiveOwned
  <2>3. scope \subseteq TaskId
    BY DEF AbortScope
  <2> HIDE DEF scope
  <2> QED
    BY <2>1, <2>2, <2>3
<1> HIDE DEF scope, moved
<1>4. \A t \in TaskId : Active(A[t]) => Active(T[t])
  BY <1>1, <1>2
<1>5. \A t \in TaskId : A[t].abort <=> T[t].abort \/ t \in moved
  BY <1>1
<1>6. \A p \in TaskId : ActiveOwned(A, p, FALSE) \subseteq ActiveOwned(T, p, FALSE)
  BY <1>1, <1>4 DEF ActiveOwned
<1>7. ASSUME NEW t \in TaskId PROVE A[t].policy = "all_settled" /\ AbortLegal(A[t])
  BY <1>1 DEF GraphOK, AbortLegal
<1>8. AbortCovers(A)
  <2> SUFFICES ASSUME NEW p \in TaskId, NEW c \in ActiveOwned(A, p, FALSE), Active(A[p]), A[p].abort
               PROVE  A[c].abort
    BY DEF AbortCovers
  <2>1. c \in ActiveOwned(T, p, FALSE) /\ c \in TaskId /\ Active(T[c])
    BY <1>6 DEF ActiveOwned
  <2>2. Active(T[p])
    BY <1>4
  <2>3. CASE T[p].abort
    BY <1>5, <2>1, <2>2, <2>3 DEF GraphOK, AbortCovers
  <2>4. CASE ~T[p].abort
    BY <1>2, <1>3, <1>5, <2>1, <2>4
  <2> QED
    BY <2>3, <2>4
<1>9. OwnsNothing(A)
  <2> SUFFICES ASSUME NEW p \in TaskId, NEW c \in ActiveOwned(A, p, FALSE), Terminal(A[p])
               PROVE  FALSE
    BY DEF OwnsNothing
  <2>1. c \in ActiveOwned(T, p, FALSE) /\ c \in TaskId /\ Active(T[c]) /\ Active(A[c])
    BY <1>6 DEF ActiveOwned
  <2>2. ~Terminal(T[p])
    BY <2>1 DEF GraphOK, OwnsNothing
  <2>3. p \in moved /\ A[p].status = "aborted" /\ T[p].status # "running" /\ ~Holds(T, p)
    BY <1>1, <2>2 DEF Terminal, Settled
  <2>4. c \in scope
    BY <1>2, <1>3, <2>1, <2>3
  <2>5. Unmoved(T[c]) \/ Holds(T, c)
    BY <1>1, <1>2, <2>1, <2>4 DEF Unmoved, Active, Settled
  <2> QED
    BY <2>1, <2>3, <2>5, HoldsUp
<1> QED
  BY <1>7, <1>8, <1>9 DEF GraphOK

\* One task moves on, within its place in the graph: to a legal status, and
\* to a settled one only when it has no active child.
LEMMA SetTask ==
    ASSUME NEW T \in TaskMap, GraphOK(T), NEW t \in TaskId, NEW U \in TaskMap,
           \A u \in TaskId : u # t => U[u] = T[u],
           U[t].owner = T[t].owner, U[t].background = T[t].background,
           U[t].abort = T[t].abort, U[t].policy = "all_settled", AbortLegal(U[t]),
           Active(U[t]) => Active(T[t]),
           Terminal(U[t]) => ~ActiveChildren(T, t)
    PROVE  GraphOK(U)
<1>1. \A u \in TaskId : Active(U[u]) => Active(T[u])
  OBVIOUS
<1>2. \A p \in TaskId : ActiveOwned(U, p, FALSE) \subseteq ActiveOwned(T, p, FALSE)
  BY <1>1 DEF ActiveOwned
<1>3. \A u \in TaskId : U[u].policy = "all_settled" /\ AbortLegal(U[u])
  BY DEF GraphOK
<1>4. AbortCovers(U)
  <2> SUFFICES ASSUME NEW p \in TaskId, NEW c \in ActiveOwned(U, p, FALSE), Active(U[p]), U[p].abort
               PROVE  U[c].abort
    BY DEF AbortCovers
  <2>1. c \in ActiveOwned(T, p, FALSE) /\ c \in TaskId /\ Active(T[p]) /\ T[p].abort
    BY <1>1, <1>2 DEF ActiveOwned
  <2>2. T[c].abort
    BY <2>1 DEF GraphOK, AbortCovers
  <2> QED
    BY <2>1, <2>2
<1>5. OwnsNothing(U)
  <2> SUFFICES ASSUME NEW p \in TaskId, NEW c \in ActiveOwned(U, p, FALSE), Terminal(U[p])
               PROVE  FALSE
    BY DEF OwnsNothing
  <2>1. c \in ActiveOwned(T, p, FALSE)
    BY <1>2
  <2>2. CASE p = t
    BY <2>1, <2>2 DEF ActiveChildren
  <2>3. CASE p # t
    BY <2>1, <2>3 DEF GraphOK, OwnsNothing
  <2> QED
    BY <2>2, <2>3
<1> QED
  BY <1>3, <1>4, <1>5 DEF GraphOK

LEMMA UpdatedGraph ==
    ASSUME TypeOK, Owners(staged), GraphOK(staged), NEW t \in TaskId, NEW s \in Requested,
           NEW on \in SUBSET TaskId, MayUpdate(t, s, on, "all_settled"),
           NEW U, U = Updated(t, s, on, "all_settled")
    PROVE  GraphOK(U)
<1> DEFINE T == UpdateBase(t, s)
<1>0. staged \in TaskMap /\ Active(staged[t])
  BY DEF TypeOK, TaskMap, MayUpdate
<1>1. GraphOK(T) /\ SameOwners(staged, T)
  BY <1>0, AbortGraph, AbortTreeOwners, SameOwnersRefl DEF UpdateBase
<1>2. /\ T \in TaskMap
      /\ U \in TaskMap
      /\ U = [T EXCEPT ![t] = U[t]]
      /\ U[t].owner = T[t].owner /\ U[t].background = T[t].background
      /\ U[t].abort = T[t].abort /\ U[t].policy = "all_settled"
      /\ U[t].status = IF Held(t, s) THEN "completing" ELSE s
      /\ U[t].outcome = IF Held(t, s) THEN s ELSE "none"
  BY UpdatedAt
<1>3. s \notin {"failed", "aborted"} => T = staged /\ ~T[t].abort
  BY DEF UpdateBase, MayUpdate
<1>4. Held(t, s) <=> s \in Settled /\ ActiveChildren(T, t)
  BY DEF Held
<1> HIDE DEF T
<1>5. \A u \in TaskId : u # t => U[u] = T[u]
  BY <1>2 DEF TaskMap
<1>6. AbortLegal(U[t])
  BY <1>2, <1>3 DEF AbortLegal
<1>7. ActiveChildren(T, t) => ~Terminal(T[t])
  BY <1>1 DEF GraphOK, OwnsNothing, ActiveChildren
<1>8. T[t].status # "absent"
  BY <1>0, <1>1 DEF SameOwners, Active
<1>9. Active(U[t]) => Active(T[t])
  <2>1. CASE s \in {"failed", "aborted"}
    BY <1>2, <1>4, <1>7, <1>8, <2>1 DEF Active, Terminal, Settled
  <2>2. CASE s \notin {"failed", "aborted"}
    BY <1>0, <1>3, <2>2
  <2> QED
    BY <2>1, <2>2
<1>10. Terminal(U[t]) => ~ActiveChildren(T, t)
  BY <1>2, <1>4 DEF Terminal, Settled
<1> QED
  BY <1>1, <1>2, <1>5, <1>6, <1>9, <1>10, SetTask

LEMMA CreateGraph ==
    ASSUME TypeOK, Owners(staged), GraphOK(staged), NEW t \in TaskId, NEW d \in CreateArgs[t],
           TaskCreate(t, d)
    PROVE  GraphOK(staged')
<1> DEFINE c == [Absent EXCEPT !.status = "pending", !.owner = d.owner,
                               !.background = d.background, !.replay = d.replay]
<1>1. d \in Definition
  BY ConstantsOK
<1>2. c.owner = d.owner /\ c.policy = "all_settled" /\ ~c.abort /\ c.status = "pending"
  BY <1>1 DEF Absent
<1>3. /\ staged' = [staged EXCEPT ![t] = c]
      /\ staged[t].status = "absent"
      /\ d.owner # NoTask => Active(staged[d.owner]) /\ ~staged[d.owner].abort
  BY DEF TaskCreate, Apply
<1> HIDE DEF c
<1>4. \A u \in TaskId : staged'[u] = IF u = t THEN c ELSE staged[u]
  BY <1>3 DEF TypeOK
<1>5. \A p \in TaskId : \A u \in ActiveOwned(staged', p, FALSE) :
         \/ u = t /\ p = d.owner /\ p # t /\ staged'[p] = staged[p]
         \/ u # t /\ p # t /\ u \in TaskId /\ u \in ActiveOwned(staged, p, FALSE)
  <2> SUFFICES ASSUME NEW p \in TaskId, NEW u \in ActiveOwned(staged', p, FALSE)
               PROVE  \/ u = t /\ p = d.owner /\ p # t /\ staged'[p] = staged[p]
                      \/ u # t /\ p # t /\ u \in TaskId /\ u \in ActiveOwned(staged, p, FALSE)
    OBVIOUS
  <2>1. u \in TaskId /\ staged'[u].owner = p /\ Active(staged'[u]) /\ ~staged'[u].background
    BY DEF ActiveOwned
  <2>2. p # NoTask
    BY ConstantsOK
  <2>3. CASE u = t
    BY <1>2, <1>3, <1>4, <2>1, <2>2, <2>3 DEF Active
  <2>4. CASE u # t
    <3>1. staged'[u] = staged[u]
      BY <1>4, <2>1, <2>4
    <3>2. staged[p].status # "absent"
      BY <2>1, <2>2, <3>1 DEF Owners
    <3> QED
      BY <1>3, <2>1, <2>4, <3>1, <3>2 DEF ActiveOwned
  <2> QED
    BY <2>3, <2>4
<1>6. \A u \in TaskId : staged'[u].policy = "all_settled" /\ AbortLegal(staged'[u])
  BY <1>2, <1>4 DEF GraphOK, AbortLegal
<1>7. NoTask \notin TaskId
  BY ConstantsOK
<1>8. AbortCovers(staged')
  <2> SUFFICES ASSUME NEW p \in TaskId, NEW u \in ActiveOwned(staged', p, FALSE),
                      Active(staged'[p]), staged'[p].abort
               PROVE  staged'[u].abort
    BY DEF AbortCovers
  <2>1. CASE u = t /\ p = d.owner /\ staged'[p] = staged[p]
    BY <1>3, <1>7, <2>1
  <2>2. CASE u # t /\ p # t /\ u \in TaskId /\ u \in ActiveOwned(staged, p, FALSE)
    <3>1. staged'[p] = staged[p] /\ staged'[u] = staged[u]
      BY <1>4, <2>2
    <3> QED
      BY <2>2, <3>1 DEF GraphOK, AbortCovers
  <2> QED
    BY <1>5, <2>1, <2>2
<1>9. OwnsNothing(staged')
  BY <1>3, <1>4, <1>5, <1>7 DEF GraphOK, OwnsNothing, Active, Terminal
<1> QED
  BY <1>6, <1>8, <1>9 DEF GraphOK

\* A task that a pass has nothing to do for.
Rested(T, t) ==
    /\ T[t].status = "waiting" => \E c \in T[t].on : ~Terminal(T[c])
    /\ T[t].status = "completing" => ActiveChildren(T, t)

Existing(T) == {t \in TaskId : T[t].status # "absent"}

\* Where reconcile is.  The clones of the tasks that the pass has not come to
\* are still true; as long as it has changed nothing, it has nothing to do
\* for those it has seen; and every pass that changed something settled or
\* woke a task for good.
PassInv ==
    /\ phase # "reconcile" => pass = 0
    /\ phase = "reconcile" =>
         /\ \A t \in todo : snap[t] = staged[t] /\ t \in Unsettled(staged)
         /\ ~changed => \A t \in TaskId \ todo : Rested(staged, t)
         /\ pass + Cardinality(Unsettled(staged)) + (IF changed THEN 1 ELSE 0)
              <= Cardinality(Existing(staged))

GraphInv ==
    /\ GraphOK(tasks)
    /\ GraphOK(staged)
    /\ \A t \in TaskId : Rested(tasks, t)
    /\ PassInv

\* What a turn of the loop does when its clone is true.
LEMMA CalmTurn ==
    ASSUME TypeOK, GraphOK(staged), PassInv, NEW t \in TaskId, ReconcileTask(t)
    PROVE  /\ phase = "reconcile" /\ phase' = "reconcile" /\ t \in todo /\ todo' = todo \ {t}
           /\ snap' = snap /\ pass' = pass /\ tasks' = tasks /\ source' = source /\ recov' = recov
           /\ staged[t].status \in {"waiting", "completing"}
           /\ \/ /\ staged' = staged /\ changed' = changed /\ Rested(staged, t)
              \/ /\ changed' = TRUE
                 /\ \/ /\ staged[t].status = "waiting"
                       /\ staged' = [staged EXCEPT ![t].status = "pending"]
                    \/ /\ staged[t].status = "completing" /\ ~ActiveChildren(staged, t)
                       /\ staged' = [staged EXCEPT ![t].status = Decided(staged[t])]
<1>1. /\ phase = "reconcile" /\ phase' = "reconcile" /\ t \in todo /\ todo' = todo \ {t}
      /\ snap' = snap /\ pass' = pass /\ tasks' = tasks /\ source' = source /\ recov' = recov
  BY DEF ReconcileTask
<1>2. snap[t] = staged[t] /\ staged[t].status \in {"waiting", "completing"}
  BY <1>1 DEF PassInv, Unsettled
<1>3. ~FailedFast(t, snap[t]) /\ AfterAborts(t, snap[t]) = staged
  BY <1>2 DEF FailedFast, AfterAborts, GraphOK
<1>4. /\ Wakes(t, snap[t]) <=> staged[t].status = "waiting" /\ \A c \in staged[t].on : Terminal(staged[c])
      /\ Settles(t, snap[t]) <=> staged[t].status = "completing" /\ ~ActiveChildren(staged, t)
  BY <1>2, <1>3 DEF Wakes, Settles
<1>5. /\ staged' = IF Wakes(t, snap[t]) THEN [staged EXCEPT ![t].status = "pending"]
                   ELSE IF Settles(t, snap[t]) THEN [staged EXCEPT ![t].status = Decided(staged[t])]
                   ELSE staged
      /\ changed' = (changed \/ Wakes(t, snap[t]) \/ Settles(t, snap[t]))
  BY <1>2, <1>3 DEF ReconcileTask, Changes
<1>6. CASE Wakes(t, snap[t])
  BY <1>1, <1>2, <1>4, <1>5, <1>6
<1>7. CASE ~Wakes(t, snap[t]) /\ Settles(t, snap[t])
  BY <1>1, <1>2, <1>4, <1>5, <1>7
<1>8. CASE ~Wakes(t, snap[t]) /\ ~Settles(t, snap[t])
  <2>1. Rested(staged, t)
    BY <1>4, <1>8 DEF Rested
  <2>2. staged' = staged
    BY <1>5, <1>8
  <2>3. changed' = changed
    BY <1>5, <1>8, Zenon DEF TypeOK
  <2> QED
    BY <1>1, <1>2, <2>1, <2>2, <2>3
<1> QED
  BY <1>6, <1>7, <1>8

\* A turn that changes something: the status of one task, which is then
\* neither waiting nor completing.
LEMMA TurnGraph ==
    ASSUME TypeOK, TypeOK', GraphInv, NEW t \in TaskId, ReconcileTask(t)
    PROVE  GraphInv'
<1>0. staged \in TaskMap /\ staged' \in TaskMap /\ GraphOK(staged) /\ PassInv
  BY DEF TypeOK, TaskMap, GraphInv
<1>1. /\ phase = "reconcile" /\ phase' = "reconcile" /\ t \in todo /\ todo' = todo \ {t}
      /\ snap' = snap /\ pass' = pass /\ tasks' = tasks
      /\ staged[t].status \in {"waiting", "completing"}
  BY <1>0, CalmTurn
<1>2. todo \subseteq TaskId /\ pass \in Nat
  BY DEF TypeOK
<1>3. CASE staged' = staged /\ changed' = changed /\ Rested(staged, t)
  <2>1. PassInv'
    BY <1>0, <1>1, <1>2, <1>3 DEF PassInv, Unsettled, Existing, Rested, ActiveChildren, ActiveOwned
  <2> QED
    BY <1>1, <1>3, <2>1 DEF GraphInv, Rested, ActiveChildren, ActiveOwned
<1>4. ASSUME NEW x, x \notin {"waiting", "completing", "absent"},
             staged' = [staged EXCEPT ![t].status = x], changed' = TRUE,
             staged[t].abort => x \in {"aborted", "failed"},
             x \in Settled => ~ActiveChildren(staged, t)
      PROVE  GraphInv'
  <2>1. /\ staged'[t] = [staged[t] EXCEPT !.status = x]
        /\ \A u \in TaskId : u # t => staged'[u] = staged[u]
    BY <1>0, <1>4 DEF TaskMap
  <2>2. /\ staged'[t].owner = staged[t].owner /\ staged'[t].background = staged[t].background
        /\ staged'[t].abort = staged[t].abort /\ staged'[t].policy = staged[t].policy
        /\ staged'[t].status = x
    BY <1>0, <2>1 DEF TaskMap, Task
  <2>3. GraphOK(staged')
    <3>1. staged'[t].policy = "all_settled"
      BY <1>0, <2>2 DEF GraphOK
    <3>2. AbortLegal(staged'[t])
      BY <1>4, <2>2 DEF AbortLegal
    <3>3. Active(staged'[t]) => Active(staged[t])
      BY <1>1 DEF Active, Settled
    <3>4. Terminal(staged'[t]) => ~ActiveChildren(staged, t)
      BY <1>4, <2>2 DEF Terminal
    <3> QED
      BY <1>0, <2>1, <2>2, <3>1, <3>2, <3>3, <3>4, SetTask
  <2>4. Unsettled(staged') = Unsettled(staged) \ {t} /\ t \in Unsettled(staged)
    BY <1>1, <1>4, <2>1, <2>2 DEF Unsettled
  <2>5. Existing(staged') = Existing(staged)
    BY <1>1, <1>4, <2>1, <2>2 DEF Existing
  <2>6. IsFiniteSet(Unsettled(staged)) /\ IsFiniteSet(Existing(staged))
    BY ConstantsOK, FS_Subset DEF Unsettled, Existing
  <2>7. Cardinality(Unsettled(staged')) = Cardinality(Unsettled(staged)) - 1
    BY <2>4, <2>6, FS_RemoveElement
  <2>8. Cardinality(Unsettled(staged)) \in Nat /\ Cardinality(Existing(staged)) \in Nat
    BY <2>6, FS_CardinalityType
  <2>9. pass + Cardinality(Unsettled(staged)) + (IF changed THEN 1 ELSE 0)
           <= Cardinality(Existing(staged))
    BY <1>0, <1>1 DEF PassInv
  <2>10. pass' + Cardinality(Unsettled(staged')) + 1 <= Cardinality(Existing(staged'))
    BY <1>1, <1>2, <2>5, <2>7, <2>8, <2>9
  <2>11. \A u \in todo' : snap'[u] = staged'[u] /\ u \in Unsettled(staged')
    BY <1>0, <1>1, <1>2, <2>1, <2>4 DEF PassInv
  <2>12. PassInv'
    BY <1>1, <1>4, <2>10, <2>11 DEF PassInv
  <2> QED
    BY <1>1, <2>3, <2>12 DEF GraphInv, Rested, ActiveChildren, ActiveOwned
<1>5. AbortLegal(staged[t]) /\ staged[t].outcome \in Settled \cup {"none"}
  BY <1>0 DEF GraphOK, TaskMap, Task
<1>6. CASE /\ staged[t].status = "waiting" /\ changed' = TRUE
           /\ staged' = [staged EXCEPT ![t].status = "pending"]
  <2>1. /\ "pending" \notin {"waiting", "completing", "absent"} /\ "pending" \notin Settled
        /\ ~staged[t].abort
    BY <1>5, <1>6 DEF AbortLegal, Settled
  <2> QED
    BY <1>4, <1>6, <2>1
<1>7. CASE /\ staged[t].status = "completing" /\ ~ActiveChildren(staged, t) /\ changed' = TRUE
           /\ staged' = [staged EXCEPT ![t].status = Decided(staged[t])]
  <2>1. /\ Decided(staged[t]) \notin {"waiting", "completing", "absent"}
        /\ staged[t].abort => Decided(staged[t]) \in {"aborted", "failed"}
    BY <1>5, <1>7 DEF AbortLegal, Settled, Decided
  <2> QED
    BY <1>4, <1>7, <2>1
<1> QED
  BY <1>0, <1>3, <1>6, <1>7, CalmTurn

LEMMA StartPassCount ==
    /\ IsFiniteSet(Unsettled(staged)) /\ IsFiniteSet(Existing(staged))
    /\ Cardinality(Unsettled(staged)) \in Nat /\ Cardinality(Existing(staged)) \in Nat
    /\ Cardinality(Unsettled(staged)) <= Cardinality(Existing(staged))
<1>1. Unsettled(staged) \subseteq Existing(staged)
  BY DEF Unsettled, Existing
<1>2. IsFiniteSet(Unsettled(staged)) /\ IsFiniteSet(Existing(staged))
  BY ConstantsOK, FS_Subset DEF Unsettled, Existing
<1> QED
  BY <1>1, <1>2, FS_Subset, FS_CardinalityType

\* The operations of a batch keep the graph in order.
LEMMA OperationGraph ==
    ASSUME "fail_fast" \notin Policies, TypeOK, OwnersInv, GraphInv, NEW t \in TaskId,
           Operation(t) \/ RecoverTask(t)
    PROVE  GraphInv'
<1>0. staged \in TaskMap /\ GraphOK(staged) /\ Owners(staged)
  BY DEF TypeOK, TaskMap, GraphInv, OwnersInv
<1> SUFFICES GraphOK(staged')
  <2>1. tasks' = tasks /\ phase # "reconcile" /\ phase' # "reconcile" /\ pass' = pass
    BY DEF Operation, TaskCreate, TaskUpdate, TaskMigrate, Abort, Apply, RecoverTask, reconcileVars
  <2> QED
    BY <2>1 DEF GraphInv, PassInv, Rested, ActiveChildren, ActiveOwned
<1>1. ASSUME NEW d \in CreateArgs[t], TaskCreate(t, d) PROVE GraphOK(staged')
  BY <1>0, <1>1, CreateGraph
<1>2. ASSUME NEW s \in Requested, NEW on \in OnChoices(s), NEW policy \in PolicyChoices(s),
             TaskUpdate(t, s, on, policy)
      PROVE  GraphOK(staged')
  <2>1. policy = "all_settled" /\ on \in SUBSET TaskId
    BY ChoicesType, ConstantsOK DEF PolicyChoices
  <2>2. MayUpdate(t, s, on, "all_settled") /\ staged' = Updated(t, s, on, "all_settled")
    BY <1>2, <2>1 DEF TaskUpdate, Apply
  <2> QED
    BY <1>0, <2>1, <2>2, UpdatedGraph
<1>3. CASE TaskMigrate(t)
  BY <1>0, <1>3 DEF TaskMigrate, Apply
<1>4. ASSUME NEW b \in BOOLEAN, Abort(t, b) PROVE GraphOK(staged')
  <2>1. staged' = AbortTree(staged, {t}, b)
    BY <1>4 DEF Abort, Apply
  <2> QED
    BY <1>0, <2>1, AbortGraph
<1>5. CASE RecoverTask(t)
  <2> DEFINE s == RecoveryStatus(tasks[t])
  <2>1. s \in Requested
    BY RecoveryStatusType DEF Requested, Settled
  <2>2. MayUpdate(t, s, {}, "all_settled") /\ staged' = Updated(t, s, {}, "all_settled")
    BY <1>5 DEF RecoverTask, RecoveryAccepted
  <2> HIDE DEF s
  <2> QED
    BY <1>0, <2>1, <2>2, UpdatedGraph
<1> QED
  BY <1>1, <1>2, <1>3, <1>4, <1>5 DEF Operation

LEMMA NextGraph ==
    ASSUME "fail_fast" \notin Policies, TypeOK, TypeOK', OwnersInv, GraphInv, [Next]_vars
    PROVE  GraphInv'
<1> USE DEF Rested, ActiveChildren, ActiveOwned
<1>1. CASE \E t \in TaskId : Operation(t) \/ RecoverTask(t)
  BY <1>1, OperationGraph
<1>2. CASE \E t \in TaskId : ReconcileTask(t)
  BY <1>2, TurnGraph
<1>3. CASE Reconcile \/ NextPass
  <2>1. /\ tasks' = tasks /\ staged' = staged /\ phase' = "reconcile"
        /\ todo' = Unsettled(staged) /\ snap' = staged /\ changed' = FALSE
    BY <1>3 DEF Reconcile, NextPass, StartPass
  <2>2. pass' + Cardinality(Unsettled(staged)) <= Cardinality(Existing(staged))
    <3>1. CASE Reconcile
      BY <3>1, StartPassCount DEF Reconcile
    <3>2. CASE NextPass
      <4>1. phase = "reconcile" /\ changed /\ pass' = pass + 1 /\ pass \in Nat
        BY <3>2 DEF NextPass, TypeOK
      <4>2. pass + Cardinality(Unsettled(staged)) + 1 <= Cardinality(Existing(staged))
        BY <4>1 DEF GraphInv, PassInv
      <4> QED
        BY <4>1, <4>2, StartPassCount
    <3> QED
      BY <1>3, <3>1, <3>2
  <2>3. pass' \in Nat
    BY DEF TypeOK
  <2>4. PassInv'
    <3>1. \A t \in TaskId \ todo' : Rested(staged', t)
      BY <2>1 DEF Unsettled
    <3>2. \A t \in todo' : snap'[t] = staged'[t] /\ t \in Unsettled(staged')
      BY <2>1
    <3>3. pass' + Cardinality(Unsettled(staged')) + (IF changed' THEN 1 ELSE 0)
            <= Cardinality(Existing(staged'))
      BY <2>1, <2>2, <2>3, StartPassCount
    <3> QED
      BY <2>1, <3>1, <3>2, <3>3 DEF PassInv
  <2> QED
    BY <2>1, <2>4 DEF GraphInv
<1>4. CASE Publish
  <2>1. tasks' = staged /\ staged' = staged /\ phase' = "idle" /\ pass' = 0
    BY <1>4 DEF Publish, Finish
  <2>2. \A t \in TaskId : Rested(staged, t)
    BY <1>4 DEF Publish, AtRest, GraphInv, PassInv
  <2> QED
    BY <2>1, <2>2 DEF GraphInv, PassInv
<1>5. CASE Reject \/ Reopen
  <2>1. tasks' = tasks /\ staged' = tasks /\ phase' # "reconcile" /\ pass' = 0
    BY <1>5 DEF Reject, Reopen, Finish
  <2> QED
    BY <2>1 DEF GraphInv, PassInv
<1>6. CASE UNCHANGED vars
  BY <1>6 DEF vars, reconcileVars, GraphInv, PassInv, Unsettled, Existing
<1> QED
  BY <1>1, <1>2, <1>3, <1>4, <1>5, <1>6 DEF Next

LEMMA InitGraph == Init => GraphInv
<1> SUFFICES ASSUME Init PROVE GraphInv
  OBVIOUS
<1>1. \A t \in TaskId : /\ tasks[t].status = "absent" /\ ~tasks[t].abort
                        /\ tasks[t].policy = "all_settled"
  BY DEF Init, Absent
<1>2. \A p \in TaskId : ActiveOwned(tasks, p, FALSE) = {}
  BY <1>1 DEF ActiveOwned, Active
<1>3. GraphOK(tasks)
  BY <1>1, <1>2 DEF GraphOK, AbortLegal, AbortCovers, OwnsNothing
<1>4. \A t \in TaskId : Rested(tasks, t)
  BY <1>1 DEF Rested
<1> QED
  BY <1>3, <1>4 DEF Init, GraphInv, PassInv

LEMMA GraphHolds ==
    ASSUME "fail_fast" \notin Policies
    PROVE  Spec => []GraphInv
<1>1. TypeOK /\ TypeOK' /\ OwnersInv /\ GraphInv /\ [Next]_vars => GraphInv'
  BY NextGraph
<1> QED
  BY <1>1, InitGraph, TypeCorrect, OwnersHold, PTL DEF Spec

\* While no client waits with fail_fast, a published state is at rest
\* (NoLostWakeup): reconcile's last pass found nothing to wake or to settle.
THEOREM NoWakeupIsLost ==
    ASSUME "fail_fast" \notin Policies
    PROVE  Spec => []NoLostWakeup
<1>1. GraphInv => NoLostWakeup
  BY DEF GraphInv, Rested, NoLostWakeup
<1> QED
  BY <1>1, GraphHolds, PTL

\* While no client waits with fail_fast, reconcile comes to rest within its
\* limit of passes (ReconcileSettles): no commit is rejected for it.
THEOREM ReconcileAlwaysSettles ==
    ASSUME "fail_fast" \notin Policies
    PROVE  Spec => []ReconcileSettles
<1>1. TypeOK /\ GraphInv => ReconcileSettles
  <2> SUFFICES ASSUME TypeOK, GraphInv PROVE pass <= Cardinality(Existing(staged))
    BY DEF ReconcileSettles, Existing
  <2>1. CASE phase = "reconcile"
    BY <2>1, StartPassCount DEF GraphInv, PassInv, TypeOK
  <2>2. CASE phase # "reconcile"
    BY <2>2, StartPassCount DEF GraphInv, PassInv, TypeOK
  <2> QED
    BY <2>1, <2>2
<1> QED
  BY <1>1, GraphHolds, TypeCorrect, PTL

\* While no client waits with fail_fast, a task whose abort was requested is
\* never completed and never put back in the queue (AbortIsFinal).
THEOREM AbortsAreFinal ==
    ASSUME "fail_fast" \notin Policies
    PROVE  Spec => []AbortIsFinal
<1>1. GraphInv => AbortIsFinal
  BY DEF GraphInv, GraphOK, AbortLegal, AbortIsFinal
<1> QED
  BY <1>1, GraphHolds, PTL

\* While no client waits with fail_fast, a task settles after the foreground
\* tasks it owns (SettledOwnsNothing).
THEOREM ChildrenSettleFirst ==
    ASSUME "fail_fast" \notin Policies
    PROVE  Spec => []SettledOwnsNothing
<1>1. GraphInv => SettledOwnsNothing
  BY DEF GraphInv, GraphOK, OwnsNothing, ActiveChildren, SettledOwnsNothing
<1> QED
  BY <1>1, GraphHolds, PTL

-----------------------------------------------------------------------------
(* What recovery leaves.                                                   *)

\* In every set of tasks there is one that owns none of them: the deepest.
LEMMA LeafExists ==
    ASSUME NEW T \in TaskMap, Owners(T), NEW S \in SUBSET TaskId, S # {}
    PROVE  \E t \in S : \A c \in S : T[c].owner # t
<1> DEFINE n == Cardinality(TaskId)
           N == {n - Depth(T, t) : t \in S}
<1>1. \A t \in TaskId : Depth(T, t) \in Nat /\ Depth(T, t) <= n /\ n \in Nat
  <2> SUFFICES ASSUME NEW t \in TaskId
               PROVE  Depth(T, t) \in Nat /\ Depth(T, t) <= n /\ n \in Nat
    OBVIOUS
  <2>1. Above(T, t) \ {t} \subseteq TaskId /\ IsFiniteSet(TaskId)
    BY ConstantsOK DEF Above
  <2>2. IsFiniteSet(Above(T, t) \ {t}) /\ Cardinality(Above(T, t) \ {t}) <= n
    BY <2>1, FS_Subset
  <2> QED
    BY <2>1, <2>2, DepthIsAbove, FS_CardinalityType
<1> HIDE DEF n
<1>2. N \subseteq Nat /\ N # {}
  <2>1. \A t \in S : n - Depth(T, t) \in Nat
    BY <1>1
  <2>2. PICK t \in S : TRUE
    OBVIOUS
  <2>3. n - Depth(T, t) \in N
    BY <2>2
  <2> QED
    BY <2>1, <2>3
<1>3. PICK x \in N : \A y \in N : ~(<<y, x>> \in OpToRel(<, Nat))
  BY <1>2, NatLessThanWellFounded, WFMin
<1>4. \A y \in N : ~(y < x)
  BY <1>2, <1>3 DEF OpToRel
<1>5. PICK t \in S : x = n - Depth(T, t)
  OBVIOUS
<1>6. ASSUME NEW c \in S, T[c].owner = t PROVE FALSE
  <2>1. Depth(T, t) < Depth(T, c)
    BY <1>6, Deeper
  <2>2. n - Depth(T, c) \in N
    OBVIOUS
  <2>3. ~(n - Depth(T, c) < n - Depth(T, t))
    BY <1>4, <1>5, <2>2
  <2>4. Depth(T, t) \in Nat /\ Depth(T, c) \in Nat /\ n \in Nat
    BY <1>1
  <2> QED
    BY <2>1, <2>3, <2>4
<1> QED
  BY <1>6

\* What the commit of recover owes to a task that was r.
Owed(r) == IF r.abort \/ r.replay = "unsafe" THEN {"failed", "aborted"} ELSE {"pending", "aborted"}

\* It has been given it, or will be when its children have settled.
Handled(r, u) ==
    \/ u.status \in Owed(r)
    \/ u.status = "completing" /\ u.abort /\ u.outcome \in Owed(r) \ {"pending"}

SafeInv ==
    /\ source = "recover" => phase \in {"recover", "reconcile", "refused"}
    /\ source = "recover" /\ phase \in {"recover", "reconcile"} =>
         /\ phase = "reconcile" => recov = {}
         /\ \A t \in TaskId : staged[t].status = "running" => t \in recov
         /\ \A t \in Running(tasks) \ recov : Handled(tasks[t], staged[t])

LEMMA RecoverSafe ==
    ASSUME TypeOK, RecoverInv, SafeInv, NEW t \in TaskId, RecoverTask(t)
    PROVE  SafeInv'
<1> DEFINE s == RecoveryStatus(tasks[t])
           T == UpdateBase(t, s)
<1>0. staged \in TaskMap /\ tasks \in TaskMap
  BY DEF TypeOK, TaskMap
<1>1. /\ phase = "recover" /\ phase' = "recover" /\ t \in recov /\ recov' = recov \ {t}
      /\ tasks' = tasks /\ source' = source
      /\ staged' = Updated(t, s, {}, "all_settled") /\ Active(staged[t])
  BY DEF RecoverTask, NextRecovered, RecoveryAccepted, MayUpdate
<1>2. staged[t] = tasks[t]
  BY <1>1 DEF RecoverInv
<1>3. s \in Requested /\ s \in {"aborted", "pending", "failed"} /\ s \in Owed(tasks[t])
  BY <1>0 DEF RecoveryStatus, Owed, Requested, Settled, TaskMap, Task, Replays
<1>4. /\ T \in TaskMap
      /\ staged' = [T EXCEPT ![t] = staged'[t]]
      /\ staged'[t].abort = T[t].abort
      /\ staged'[t].status = IF Held(t, s) THEN "completing" ELSE s
      /\ staged'[t].outcome = IF Held(t, s) THEN s ELSE "none"
  BY <1>1, <1>3, UpdatedAt
<1>5. s = "pending" => T = staged /\ ~Held(t, s)
  BY DEF UpdateBase, Held, Settled
<1>6. s # "pending" => T = AbortTree(staged, {t}, FALSE)
  BY <1>3 DEF UpdateBase
<1> HIDE DEF s, T
<1>7. ASSUME NEW u \in TaskId, s # "pending"
      PROVE  /\ u \notin AbortMoves(staged, {t}, FALSE) => T[u] = staged[u]
             /\ u \in AbortMoves(staged, {t}, FALSE) =>
                 /\ T[u].abort
                 /\ staged[u].status = "running" => T[u].status = "running"
                 /\ staged[u].status # "running" =>
                       /\ T[u].status = IF Holds(staged, u) THEN "completing" ELSE "aborted"
                       /\ T[u].outcome = "aborted"
  <2>1. PICK roots, b : roots = {t} /\ b = FALSE
    OBVIOUS
  <2>2. T = AbortTree(staged, roots, b)
    BY <1>6, <1>7, <2>1
  <2>3. /\ u \notin AbortMoves(staged, roots, b) => T[u] = staged[u]
        /\ u \in AbortMoves(staged, roots, b) =>
             /\ T[u].abort
             /\ staged[u].status = "running" => T[u].status = "running"
             /\ staged[u].status # "running" =>
                   /\ T[u].status = IF Holds(staged, u) THEN "completing" ELSE "aborted"
                   /\ T[u].outcome = "aborted"
    BY <1>0, <2>2, AbortTreeAt
  <2> QED
    BY <2>1, <2>3
<1>8. s # "pending" => T[t].abort
  <2> SUFFICES ASSUME s # "pending" PROVE T[t].abort
    OBVIOUS
  <2>1. t \in AbortScope(staged, {t}, FALSE)
    BY ScopeClosed
  <2>2. CASE staged[t].abort
    <3>1. t \notin AbortMoves(staged, {t}, FALSE)
      BY <2>2 DEF AbortMoves
    <3>2. T[t] = staged[t]
      BY <1>7, <3>1
    <3> QED
      BY <2>2, <3>2
  <2>3. CASE ~staged[t].abort
    <3>1. t \in AbortMoves(staged, {t}, FALSE)
      BY <1>1, <2>1, <2>3 DEF AbortMoves
    <3> QED
      BY <1>7, <3>1
  <2> QED
    BY <2>2, <2>3
<1>9. Handled(tasks[t], staged'[t]) /\ staged'[t].status # "running"
  <2>1. CASE Held(t, s)
    BY <1>3, <1>4, <1>5, <1>8, <2>1 DEF Handled
  <2>2. CASE ~Held(t, s)
    BY <1>3, <1>4, <2>2 DEF Handled
  <2> QED
    BY <2>1, <2>2
<1>10. ASSUME NEW u \in TaskId, u # t
      PROVE  \/ staged'[u] = staged[u]
             \/ /\ Active(staged[u]) /\ ~staged[u].abort
                /\ staged'[u].abort
                /\ staged[u].status = "running" => staged'[u].status = "running"
                /\ staged[u].status # "running" =>
                      staged'[u].status \in {"completing", "aborted"} /\ staged'[u].outcome = "aborted"
  <2>1. staged'[u] = T[u]
    BY <1>4, <1>10 DEF TaskMap
  <2>2. CASE s = "pending"
    BY <1>5, <2>1, <2>2
  <2>3. CASE s # "pending" /\ u \notin AbortMoves(staged, {t}, FALSE)
    BY <1>7, <2>1, <2>3
  <2>4. CASE s # "pending" /\ u \in AbortMoves(staged, {t}, FALSE)
    <3>1. Active(staged[u]) /\ ~staged[u].abort
      BY <2>4 DEF AbortMoves
    <3>2. /\ T[u].abort
          /\ staged[u].status = "running" => T[u].status = "running"
          /\ staged[u].status # "running" =>
                /\ T[u].status = IF Holds(staged, u) THEN "completing" ELSE "aborted"
                /\ T[u].outcome = "aborted"
      BY <1>7, <2>4
    <3> QED
      BY <2>1, <3>1, <3>2
  <2> QED
    BY <2>2, <2>3, <2>4
<1>11. CASE source = "recover"
  <2>1. \A u \in TaskId : staged'[u].status = "running" => u \in recov'
    <3> SUFFICES ASSUME NEW u \in TaskId, staged'[u].status = "running" PROVE u \in recov'
      OBVIOUS
    <3>1. u # t
      BY <1>9
    <3>2. staged[u].status = "running"
      BY <1>10, <3>1
    <3> QED
      BY <1>1, <1>11, <3>1, <3>2 DEF SafeInv
  <2>2. \A u \in Running(tasks) \ recov' : Handled(tasks[u], staged'[u])
    <3> SUFFICES ASSUME NEW u \in Running(tasks) \ recov' PROVE Handled(tasks[u], staged'[u])
      OBVIOUS
    <3>1. CASE u = t
      BY <1>9, <3>1
    <3>2. CASE u # t
      <4>1. u \in TaskId /\ u \in Running(tasks) \ recov
        BY <1>1, <3>2 DEF Running
      <4>2. Handled(tasks[u], staged[u])
        BY <1>1, <1>11, <4>1 DEF SafeInv
      <4>3. CASE staged'[u] = staged[u]
        BY <4>2, <4>3
      <4>4. CASE staged'[u] # staged[u]
        <5>1. staged[u].status = "pending"
          BY <1>10, <3>2, <4>1, <4>2, <4>4 DEF Handled, Owed, Active, Settled
        <5>2. /\ staged'[u].abort /\ staged'[u].outcome = "aborted"
              /\ staged'[u].status \in {"completing", "aborted"}
          BY <1>10, <3>2, <4>1, <4>4, <5>1
        <5> QED
          BY <5>2 DEF Handled, Owed
      <4> QED
        BY <4>3, <4>4
    <3> QED
      BY <3>1, <3>2
  <2> QED
    BY <1>1, <1>11, <2>1, <2>2 DEF SafeInv
<1> QED
  BY <1>1, <1>11 DEF SafeInv

LEMMA NextSafe ==
    ASSUME TypeOK, RecoverInv, GraphInv, SafeInv, [Next]_vars
    PROVE  SafeInv'
<1>1. CASE \E t \in TaskId : Operation(t)
  <2>1. phase \in {"idle", "staging"} /\ source' = source
    BY <1>1 DEF Operation, TaskCreate, TaskUpdate, TaskMigrate, Abort, Apply
  <2> QED
    BY <2>1 DEF SafeInv
<1>2. ASSUME NEW t \in TaskId, RecoverTask(t) PROVE SafeInv'
  BY <1>2, RecoverSafe
<1>3. ASSUME NEW t \in TaskId, ReconcileTask(t) PROVE SafeInv'
  <2>1. /\ phase = "reconcile" /\ phase' = "reconcile"
        /\ tasks' = tasks /\ source' = source /\ recov' = recov
        /\ \/ staged' = staged
           \/ staged[t].status = "waiting" /\ staged' = [staged EXCEPT ![t].status = "pending"]
           \/ staged[t].status = "completing"
              /\ staged' = [staged EXCEPT ![t].status = Decided(staged[t])]
    BY <1>3, CalmTurn DEF GraphInv
  <2>2. CASE source = "recover"
    <3>1. /\ recov = {}
          /\ \A u \in TaskId : staged[u].status # "running"
          /\ \A u \in Running(tasks) : Handled(tasks[u], staged[u])
      BY <2>1, <2>2 DEF SafeInv
    <3>2. ASSUME NEW x, x # "running", staged' = [staged EXCEPT ![t].status = x],
                 t \in Running(tasks) => x \in Owed(tasks[t])
          PROVE  SafeInv'
      <4>1. /\ staged'[t].status = x
            /\ \A u \in TaskId : u # t => staged'[u] = staged[u]
        BY <3>2 DEF TypeOK, Task
      <4>2. \A u \in Running(tasks) : u \in TaskId
        BY DEF Running
      <4>3. \A u \in Running(tasks) : Handled(tasks[u], staged'[u])
        BY <3>1, <3>2, <4>1, <4>2 DEF Handled
      <4> QED
        BY <2>1, <2>2, <3>1, <3>2, <4>1, <4>3 DEF SafeInv
    <3>3. CASE staged' = staged
      BY <2>1, <3>3 DEF SafeInv
    <3>4. CASE staged[t].status = "waiting" /\ staged' = [staged EXCEPT ![t].status = "pending"]
      <4>1. t \notin Running(tasks)
        BY <3>1, <3>4 DEF Handled, Owed
      <4> QED
        BY <3>2, <3>4, <4>1
    <3>5. CASE staged[t].status = "completing"
               /\ staged' = [staged EXCEPT ![t].status = Decided(staged[t])]
      <4>1. t \in Running(tasks) => Decided(staged[t]) \in Owed(tasks[t])
        BY <3>1, <3>5 DEF Handled, Owed, Decided
      <4>2. Decided(staged[t]) # "running"
        BY DEF Decided, TypeOK, Task, Settled
      <4> QED
        BY <3>2, <3>5, <4>1, <4>2
    <3> QED
      BY <2>1, <3>3, <3>4, <3>5
  <2> QED
    BY <2>1, <2>2 DEF SafeInv
<1>4. CASE Reconcile
  <2>1. /\ phase = "staging" \/ (phase = "recover" /\ recov = {})
        /\ phase' = "reconcile" /\ tasks' = tasks /\ staged' = staged
        /\ source' = source /\ recov' = recov
    BY <1>4 DEF Reconcile, BatchDone
  <2> QED
    BY <2>1 DEF SafeInv
<1>5. CASE NextPass
  BY <1>5 DEF NextPass, SafeInv
<1>6. CASE Publish \/ Reject
  BY <1>6 DEF Publish, Reject, Finish, SafeInv
<1>7. CASE Reopen
  <2>1. /\ tasks' = tasks /\ staged' = tasks
        /\ source' = "recover" => phase' \in {"recover", "refused"}
        /\ phase' = "recover" => recov' = Running(tasks)
        /\ phase' # "reconcile"
    BY <1>7 DEF Reopen, Finish
  <2> QED
    BY <2>1 DEF SafeInv, Running
<1>8. CASE UNCHANGED vars
  BY <1>8 DEF vars, reconcileVars, SafeInv
<1> QED
  BY <1>1, <1>2, <1>3, <1>4, <1>5, <1>6, <1>7, <1>8 DEF Next

\* When reconcile is at rest after recovery, nothing that was aborted is
\* completing any more: the deepest such task would own an active one, which
\* was aborted with it and does not run.
LEMMA NothingCompleting ==
    ASSUME TypeOK, OwnersInv, GraphInv, SafeInv, source = "recover", AtRest
    PROVE  \A t \in TaskId : ~(staged[t].status = "completing" /\ staged[t].abort)
<1> DEFINE C == {t \in TaskId : staged[t].status = "completing" /\ staged[t].abort}
<1> SUFFICES ASSUME C # {} PROVE FALSE
  OBVIOUS
<1>1. phase = "reconcile" /\ todo = {} /\ ~changed
  BY DEF AtRest
<1>2. \A t \in TaskId : staged[t].status # "running"
  BY <1>1 DEF SafeInv
<1>3. \A t \in TaskId : Rested(staged, t)
  BY <1>1 DEF GraphInv, PassInv
<1>4. PICK t \in C : \A c \in C : staged[c].owner # t
  <2>1. staged \in TaskMap /\ Owners(staged) /\ C \in SUBSET TaskId
    BY DEF TypeOK, TaskMap, OwnersInv
  <2> HIDE DEF C
  <2> QED
    BY <2>1, LeafExists
<1>5. PICK c \in ActiveOwned(staged, t, FALSE) : TRUE
  BY <1>3 DEF Rested, ActiveChildren
<1>6. c \in TaskId /\ staged[c].owner = t /\ Active(staged[c])
  BY DEF ActiveOwned
<1>7. staged[c].abort
  BY DEF GraphInv, GraphOK, AbortCovers, Active, Settled
<1>8. AbortLegal(staged[c])
  BY <1>6 DEF GraphInv, GraphOK
<1>9. staged[c].status = "completing"
  BY <1>2, <1>6, <1>7, <1>8 DEF AbortLegal, Active, Settled
<1> QED
  BY <1>4, <1>6, <1>7, <1>9

\* While no client waits with fail_fast, the commit of recover leaves no task
\* running, starts no interrupted unsafe task again, and settles as aborted or
\* puts back in the queue the safe ones (RecoveryIsSafe).
THEOREM RecoveryIsAlwaysSafe ==
    ASSUME "fail_fast" \notin Policies
    PROVE  Spec => RecoveryIsSafe
<1> DEFINE Given == \A t \in Running(tasks) : tasks'[t].status \in
              (IF tasks[t].abort \/ tasks[t].replay = "unsafe" THEN {"failed", "aborted"}
                                                              ELSE {"pending", "aborted"})
<1>1. Init => RecoverInv /\ SafeInv
  BY DEF Init, RecoverInv, SafeInv
<1>2. TypeOK /\ OwnersInv /\ RecoverInv /\ [Next]_vars => RecoverInv'
  BY NextRecover
<1>3. TypeOK /\ RecoverInv /\ GraphInv /\ SafeInv /\ [Next]_vars => SafeInv'
  BY NextSafe
<1>4. TypeOK /\ OwnersInv /\ GraphInv /\ SafeInv /\ [Next]_vars
      => [source = "recover" /\ phase = "reconcile" => Given]_tasks
  <2> SUFFICES ASSUME TypeOK, OwnersInv, GraphInv, SafeInv, [Next]_vars,
                      source = "recover", phase = "reconcile", tasks' # tasks
               PROVE  Given
    OBVIOUS
  <2>1. Publish
    BY DEF Next, Operation, TaskCreate, TaskUpdate, TaskMigrate, Abort, Apply, ReconcileTask,
           RecoverTask, Reconcile, NextPass, Reject, Reopen, Finish, vars
  <2>2. AtRest /\ tasks' = staged
    BY <2>1 DEF Publish, Finish
  <2>3. ASSUME NEW t \in Running(tasks) PROVE staged[t].status \in Owed(tasks[t])
    <3>1. t \in TaskId
      BY DEF Running
    <3>2. Handled(tasks[t], staged[t])
      BY DEF SafeInv
    <3> QED
      BY <2>2, <3>1, <3>2, NothingCompleting DEF Handled
  <2> QED
    BY <2>2, <2>3 DEF Owed
<1> QED
  BY <1>1, <1>2, <1>3, <1>4, TypeCorrect, OwnersHold, GraphHolds, PTL DEF Spec, RecoveryIsSafe
=============================================================================
