-------------------------------- MODULE Jobs --------------------------------
(***************************************************************************)
(* Background jobs of a session (crates/glass-core/src/jobs.rs): commands  *)
(* that the model starts and does not wait for.  The host resumes the      *)
(* conversation when a watched job has ended, with a notice that it first  *)
(* appends to the session's log.                                           *)
(*                                                                         *)
(* Every operation holds the lock of the registry.  Each is one action but *)
(* poll, which first reads what was captured and then looks whether a      *)
(* drain is running.  The processes of a job, the threads that drain its   *)
(* pipes and the clock need no lock and run beside them.  One pipe and one *)
(* drain stand for a job's two.                                            *)
(***************************************************************************)
EXTENDS Naturals, Sequences, FiniteSets

CONSTANTS
    MaxRetained,  \* the number of jobs that a session may start
    MaxJobs,      \* ... and of those that may be running
    MaxWakes,     \* the number of notices in a session
    MaxBatch,     \* the number of jobs in one notice
    Task,         \* the tasks of the session's checklist
    NoTask,       \* a job that is bound to no task
    StartArgs     \* StartArgs[j]: how job j may be started

Job == 1..MaxRetained

\* A job's shell, what it starts in its process group, and what leaves the group.
Process == {"leader", "group", "detached"}

\* The number of pieces of output is bounded for each job.
Args == [notify : BOOLEAN, limit : BOOLEAN, task : Task \cup {NoTask},
         alive : SUBSET Process, out : Nat]

ASSUME JobsConstantsOK ==
    /\ {MaxRetained, MaxJobs, MaxWakes, MaxBatch} \subseteq Nat
    /\ NoTask \notin Task
    /\ \A j \in Job : StartArgs[j] \subseteq {a \in Args : "leader" \in a.alive}

VARIABLES
    next,   \* the number of jobs started
    job,    \* the registry's entry of each job, with its processes and its drain
    wakes,  \* auto_wakes
    board,  \* the checklist: each task is absent, open or finished
    host,   \* "up", or how the session's host ended
    told,   \* told[j]: how the conversation was given the result of job j
    poll    \* the poll that holds the registry's lock, and the size it has read

vars == <<next, job, wakes, board, host, told, poll>>

NoExit == "none"
NoPoll == [of |-> 0, size |-> 0]

Unused ==
    [notify |-> FALSE, limit |-> FALSE, task |-> NoTask, alive |-> {}, out |-> 0,
     killed |-> FALSE,    \* its process group was sent SIGKILL
     code |-> NoExit,     \* how the leader ended, unknown to the host until it is reaped
     late |-> FALSE,      \* the time limit has passed
     exit |-> NoExit, timed_out |-> FALSE, stopping |-> FALSE, notified |-> FALSE,
     pipe |-> 0, captured |-> 0, drain |-> "done"]

Init ==
    /\ next = 0
    /\ job = [j \in Job |-> Unused]
    /\ wakes = 0
    /\ board \in [Task -> {"absent", "open"}]
    /\ host = "up"
    /\ told = [j \in Job |-> <<>>]
    /\ poll = NoPoll

Started == 1..next
Up == host = "up"
Unlocked == poll = NoPoll
Running(r) == {j \in Started : r[j].exit = NoExit}

-----------------------------------------------------------------------------
(* The processes, the drains and the clock                                 *)

Obeys(j, p) == job[j].killed /\ p # "detached"

\* A process of the job writes to the pipe.
Write(j, p) ==
    /\ p \in job[j].alive /\ ~Obeys(j, p)
    /\ job[j].out > 0
    /\ job' = [job EXCEPT ![j].out = @ - 1, ![j].pipe = @ + 1]
    /\ UNCHANGED <<next, wakes, board, host, told, poll>>

\* A process ends, by itself or killed.
Die(j, p) ==
    /\ p \in job[j].alive
    /\ job' = [job EXCEPT ![j].alive = @ \ {p},
                          ![j].code = IF p # "leader" THEN @ ELSE IF job[j].killed THEN "killed" ELSE "ended"]
    /\ UNCHANGED <<next, wakes, board, host, told, poll>>

Killed(j) == Obeys(j, "leader") /\ Die(j, "leader")

\* The time limit of a job passes.
Expire(j) ==
    /\ job[j].limit /\ ~job[j].late
    /\ job' = [job EXCEPT ![j].late = TRUE]
    /\ UNCHANGED <<next, wakes, board, host, told, poll>>

\* What the drain does after the flag was looked at: it reads a piece, finds
\* the pipe empty (the read would block), or finds that no writer is left.
Read(r) ==
    IF r.pipe > 0 THEN [r EXCEPT !.pipe = @ - 1, !.captured = @ + 1]
    ELSE [r EXCEPT !.drain = IF r.alive = {} THEN "done" ELSE "blocked"]

\* After an empty read the drain ends if the job is being stopped.
Blocked(r) == [r EXCEPT !.drain = IF r.stopping THEN "done" ELSE "read"]

Drain(j) ==
    /\ \/ /\ job[j].drain = "read"
          /\ job' = [job EXCEPT ![j] = Read(@)]
       \/ /\ job[j].drain = "blocked"
          /\ job' = [job EXCEPT ![j] = Blocked(@)]
    /\ UNCHANGED <<next, wakes, board, host, told, poll>>

\* 100 ms after the job was stopped the drain ends, whatever is in the pipe.
Deadline(j) ==
    /\ job[j].drain = "read" /\ job[j].stopping
    /\ job' = [job EXCEPT ![j].drain = "done"]
    /\ UNCHANGED <<next, wakes, board, host, told, poll>>

-----------------------------------------------------------------------------
(* The registry                                                            *)

Overdue(r) == r.exit = NoExit /\ r.late

\* A job beyond its limit is killed.
Limited(r) == IF Overdue(r) THEN [r EXCEPT !.timed_out = TRUE, !.killed = TRUE] ELSE r

\* A leader that has ended is reaped, and its group is killed.
Reaped(r) ==
    IF r.exit = NoExit /\ r.code # NoExit
    THEN [r EXCEPT !.exit = r.code, !.stopping = TRUE, !.killed = TRUE]
    ELSE r

\* refresh
Fresh(j) == Reaped(Limited(job[j]))
Refreshed == [j \in Job |-> Fresh(j)]

MayNotify == wakes < MaxWakes

\* dispatch "start"; a refused start refreshes the jobs (Refresh).
Start(a) ==
    LET j == next + 1
    IN  /\ Unlocked
        /\ a.notify => MayNotify
        /\ a.task # NoTask => board[a.task] = "open"
        /\ Cardinality(Running(Refreshed)) < MaxJobs
        /\ next < MaxRetained
        /\ next' = j
        /\ job' = [Refreshed EXCEPT ![j] =
               [Unused EXCEPT !.notify = a.notify, !.limit = a.limit, !.task = a.task,
                              !.alive = a.alive, !.out = a.out, !.drain = "read"]]
        /\ UNCHANGED <<wakes, board, host, told, poll>>

\* dispatch "list" and "input", has_running, attention
Refresh ==
    /\ Unlocked
    /\ job' = Refreshed
    /\ UNCHANGED <<next, wakes, board, host, told, poll>>

\* Mutant of Watched: a watch begins anew for a job whose result was given.
WatchedAnew(r, on, t) ==
    [r EXCEPT !.notify = on, !.notified = FALSE, !.task = IF t = NoTask THEN @ ELSE t]

Watched(r, on, t) ==
    IF r.notified THEN r ELSE [r EXCEPT !.notify = on, !.task = IF t = NoTask THEN @ ELSE t]

\* dispatch "watch"
Watch(j, on, t) ==
    /\ Unlocked
    /\ j \in Started
    /\ on => MayNotify
    /\ t # NoTask => board[t] = "open"
    /\ job' = [job EXCEPT ![j] = Watched(@, on, t)]
    /\ UNCHANGED <<next, wakes, board, host, told, poll>>

\* Mutant of Final: the drains are not waited for.
FinalEarly(r) == r.exit # NoExit

\* The state is "exited", and nothing is draining.
Final(r) == r.exit # NoExit /\ r.drain = "done"

\* What the conversation is given: the entry r, and size pieces of its output.
Given(by, r, size) == [by |-> by, exit |-> r.exit, timed_out |-> r.timed_out, size |-> size]

\* dispatch "poll": refresh, and the size of the output, which is read up to it.
\* (A poll that is refused after its refresh is a Refresh.)
BeginPoll(j) ==
    /\ Unlocked
    /\ j \in Started
    /\ job' = Refreshed
    /\ poll' = [of |-> j, size |-> job[j].captured]
    /\ UNCHANGED <<next, wakes, board, host, told>>

\* The drains are looked at; an answer that says "exited" and not draining
\* counts as the notice.  The first one is kept in told.
EndPoll ==
    LET j == poll.of
    IN  /\ ~Unlocked
        /\ poll' = NoPoll
        /\ IF Final(job[j])
           THEN /\ job' = [job EXCEPT ![j].notified = TRUE]
                /\ told' = [told EXCEPT ![j] = IF @ = <<>> THEN <<Given("poll", job[j], poll.size)>> ELSE @]
           ELSE UNCHANGED <<job, told>>
        /\ UNCHANGED <<next, wakes, board, host>>

\* dispatch "stop": the group is sent SIGTERM and SIGKILL, the leader is
\* reaped and the drains are waited for; n pieces are still captured.
Stop(j, n) ==
    LET r == job[j]
        ended == IF r.exit # NoExit THEN r.exit ELSE IF r.code # NoExit THEN r.code ELSE "killed"
    IN  /\ Unlocked
        /\ j \in Started
        /\ n <= IF r.drain = "done" THEN 0 ELSE r.pipe
        /\ job' = [job EXCEPT ![j] =
               [r EXCEPT !.notify = FALSE, !.stopping = TRUE, !.drain = "done",
                         !.pipe = @ - n, !.captured = @ + n,
                         !.killed = TRUE, !.code = ended, !.exit = ended,
                         !.alive = @ \ {"leader"}]]
        /\ UNCHANGED <<next, wakes, board, host, told, poll>>

\* cancel_notifications
CancelNotifications ==
    /\ Unlocked
    /\ job' = [j \in Job |-> [job[j] EXCEPT !.notify = FALSE]]
    /\ UNCHANGED <<next, wakes, board, host, told, poll>>

-----------------------------------------------------------------------------
(* take_completion and the host's loop                                     *)

Waiting(r) == r.notify /\ ~r.notified

\* The job's task is open; a job without one needs some open task, or no checklist.
Active(r) ==
    IF r.task # NoTask THEN board[r.task] = "open"
    ELSE (\A t \in Task : board[t] = "absent") \/ (\E t \in Task : board[t] = "open")

\* Watches for tasks that are no longer open are dropped.
Prune(r) == IF Waiting(r) /\ ~Active(r) THEN [r EXCEPT !.notify = FALSE] ELSE r
Pruned == [j \in Job |-> Prune(Fresh(j))]

\* The first MaxBatch of the jobs in jobs that are ready.
Batch(jobs) ==
    LET ready == {j \in Started : Waiting(jobs[j]) /\ Final(jobs[j])}
    IN  {j \in ready : Cardinality({i \in ready : i <= j}) <= MaxBatch}

Acknowledged(jobs, batch) ==
    [j \in Job |-> IF j \in batch THEN [jobs[j] EXCEPT !.notified = TRUE] ELSE jobs[j]]

TakeCompletion ==
    /\ Unlocked
    /\ IF ~MayNotify THEN job' = Refreshed /\ UNCHANGED <<wakes, told>>
       ELSE \E jobs \in {Pruned} : \E batch \in {Batch(jobs)} :
                \* The notice is appended, and then acknowledged.
                /\ job' = Acknowledged(jobs, batch)
                /\ told' = [j \in Job |-> IF j \in batch
                                         THEN Append(told[j], Given("notice", jobs[j], jobs[j].captured))
                                         ELSE told[j]]
                /\ wakes' = IF batch = {} THEN wakes ELSE wakes + 1
    /\ UNCHANGED <<next, board, host, poll>>

\* The append fails, and no job counts as noticed.  The host ends, or (a
\* teammate's) tries again.
FailNotice(h) ==
    \E jobs \in {Pruned} : \E batch \in {Batch(jobs)} :
        /\ Unlocked
        /\ MayNotify /\ batch # {}
        /\ job' = jobs
        /\ host' = h
        /\ UNCHANGED <<next, wakes, board, told, poll>>

\* Mutant of HasWatches: a job that has ended keeps no session alive.
HasWatchesRunning(jobs) == MayNotify /\ \E j \in Started : Waiting(jobs[j]) /\ jobs[j].exit = NoExit

\* has_watches
HasWatches(jobs) == MayNotify /\ \E j \in Started : Waiting(jobs[j])

\* A headless session ends when there is nothing to wait for.
Leave ==
    /\ Unlocked
    /\ ~HasWatches(Refreshed)
    /\ host' = "left"
    /\ job' = Refreshed
    /\ UNCHANGED <<next, wakes, board, told, poll>>

\* ... or when it is interrupted.
Interrupt ==
    /\ host' = "ended"
    /\ UNCHANGED <<next, job, wakes, board, told, poll>>

\* The model opens or finishes a task of its checklist.
UpdateBoard(t) ==
    /\ \/ board[t] = "absent" /\ board' = [board EXCEPT ![t] = "open"]
       \/ board[t] = "open" /\ board' = [board EXCEPT ![t] = "finished"]
    /\ UNCHANGED <<next, job, wakes, host, told, poll>>

-----------------------------------------------------------------------------
\* Everything ends with the host: it stops the jobs as it goes.
Next ==
    /\ Up
    /\ \/ \E j \in Started :
          \/ \E p \in Process : Write(j, p) \/ Die(j, p)
          \/ Expire(j) \/ Drain(j) \/ Deadline(j)
          \/ \E on \in BOOLEAN, t \in Task \cup {NoTask} : Watch(j, on, t)
          \/ BeginPoll(j)
          \/ \E n \in 0..job[j].pipe : Stop(j, n)
       \/ next < MaxRetained /\ \E a \in StartArgs[next + 1] : Start(a)
       \/ EndPoll
       \/ Refresh \/ CancelNotifications
       \/ TakeCompletion
       \/ \E h \in {"up", "ended"} : FailNotice(h)
       \/ Leave \/ Interrupt
       \/ \E t \in Task : UpdateBoard(t)

\* The host's loop calls take_completion again and again, gets the lock though
\* polls take it too, and an append does not fail for ever; a poll ends; threads
\* and the clock go on; a killed leader ends.
Fairness ==
    /\ SF_vars(Up /\ TakeCompletion)
    /\ WF_vars(Up /\ EndPoll)
    /\ \A j \in Job :
        /\ WF_vars(Up /\ Drain(j))
        /\ WF_vars(Up /\ Expire(j))
        /\ WF_vars(Up /\ Killed(j))

Spec == Init /\ [][Next]_vars /\ Fairness
-----------------------------------------------------------------------------
(* Properties.                                                             *)

\* "the host will resume this conversation once", "Registering the same watch
\* never creates a second completion notification", "append before
\* acknowledging so a write failure cannot silently consume the notification":
\* a job counts as noticed exactly when its result was given, by one notice or
\* by an earlier poll, whatever watches, polls and failed appends come between.
ToldOnce ==
    \A j \in Job : Len(told[j]) <= 1 /\ (job[j].notified <=> told[j] # <<>>)

\* What was given of a job is still its exit code and its outcome.
Holds(given, r) == given.exit = r.exit /\ given.timed_out = r.timed_out

\* The result that was given is the last: from then on the job has ended and
\* nothing is captured any more, its exit code and its outcome are the ones that
\* were given, and a notice was given all of its output.  (A poll reads
\* the output before it looks at the drains, and may have missed the end of it.)
ToldIsFinal ==
    \A j \in Job : \A i \in 1..Len(told[j]) :
        /\ Final(job[j])
        /\ Holds(told[j][i], job[j])
        /\ told[j][i].size <= job[j].captured
        /\ told[j][i].by = "notice" => told[j][i].size = job[j].captured

\* "on completion, failure or timeout": a job that is watched, and has ended or
\* has a time limit, is noticed in the end, unless its watch is withdrawn, the
\* notices of the session are used up or its host fails or is interrupted; a
\* headless session does not end before.
WatchServed ==
    \A j \in Job :
        (Waiting(job[j]) /\ (job[j].limit \/ job[j].code # NoExit))
            ~> (~Waiting(job[j]) \/ ~MayNotify \/ host = "ended")

=============================================================================
