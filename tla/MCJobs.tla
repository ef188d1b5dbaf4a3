------------------------------- MODULE MCJobs -------------------------------
(* Instances of Jobs for TLC.                                              *)
EXTENDS Jobs

StartWith(notify, limit, task, others, out) ==
    [notify |-> notify, limit |-> limit, task |-> task, alive |-> {"leader"} \cup others, out |-> out]

\* A watched job with a time limit, bound to a task, with a process that stays
\* in its group or leaves it; and a job that is bound to no task.
TwoJobs == <<
    {StartWith(TRUE, TRUE, t, {p}, 1) : t \in Task, p \in {"group", "detached"}},
    {StartWith(on, FALSE, NoTask, {}, 0) : on \in BOOLEAN} >>
=============================================================================
