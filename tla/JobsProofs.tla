----------------------------- MODULE JobsProofs -----------------------------
(***************************************************************************)
(* Theorems about Jobs, for every number of jobs, notices and tasks: the   *)
(* conversation is told of a job once, and what it was told stays true.    *)
(***************************************************************************)
EXTENDS Jobs, SequenceTheorems, TLAPS

Code == {NoExit, "ended", "killed"}

Entry ==
    [notify : BOOLEAN, limit : BOOLEAN, task : Task \cup {NoTask}, alive : SUBSET Process,
     out : Nat, killed : BOOLEAN, code : Code, late : BOOLEAN, exit : Code,
     timed_out : BOOLEAN, stopping : BOOLEAN, notified : BOOLEAN, pipe : Nat,
     captured : Nat, drain : {"read", "blocked", "done"}]

Told == [by : {"poll", "notice"}, exit : Code, timed_out : BOOLEAN, size : Nat]

JobsType ==
    /\ next \in 0..MaxRetained
    /\ job \in [Job -> Entry]
    /\ told \in [Job -> Seq(Told)]

\* What is given is true of the entry.
Shows(given, r) ==
    /\ Holds(given, r)
    /\ given.size <= r.captured
    /\ given.by = "notice" => given.size = r.captured

\* Only a started job whose result is final was told of, and it is marked.
ToldInv ==
    \A j \in Job :
        /\ Len(told[j]) <= 1
        /\ job[j].notified <=> told[j] # <<>>
        /\ told[j] # <<>> => j \in Started /\ Final(job[j])
        /\ \A i \in 1..Len(told[j]) : Shows(told[j][i], job[j])

\* A poll has read the size of a job's output as it was or is.
PollInv ==
    \/ poll = NoPoll
    \/ poll.of \in Started /\ poll.size \in Nat /\ poll.size <= job[poll.of].captured

JobsInv == JobsType /\ ToldInv /\ PollInv

-----------------------------------------------------------------------------
(* What happens to one entry of the registry.                              *)

Result(r) == <<r.exit, r.timed_out, r.captured>>

\* The entry s may follow the entry r: it is noticed if r is, what was captured
\* stays, and a final result does not change.
Follows(r, s) ==
    /\ s \in Entry
    /\ s.notified = r.notified
    /\ r.captured <= s.captured
    /\ Final(r) => Final(s) /\ Result(s) = Result(r)

LEMMA FollowsTransitive ==
    ASSUME NEW r \in Entry, NEW s, NEW t, Follows(r, s), Follows(s, t)
    PROVE  Follows(r, t)
BY DEF Follows, Entry

LEMMA FollowsItself == ASSUME NEW r \in Entry PROVE Follows(r, r)
BY DEF Follows, Entry

\* An entry whose result is not final yet may change as it likes, but for notified.
LEMMA NotFinalFollows ==
    ASSUME NEW r, NEW s \in Entry, s.notified = r.notified, r.captured <= s.captured, ~Final(r)
    PROVE  Follows(r, s)
BY DEF Follows

\* One that only differs in what a result does not show.
LEMMA SameResultFollows ==
    ASSUME NEW r, NEW s \in Entry, s.notified = r.notified, s.exit = r.exit, s.drain = r.drain,
           s.timed_out = r.timed_out, s.captured = r.captured
    PROVE  Follows(r, s)
BY DEF Follows, Final, Result, Entry

LEMMA LimitedFollows == ASSUME NEW r \in Entry PROVE Follows(r, Limited(r))
<1> DEFINE s == [r EXCEPT !.timed_out = TRUE, !.killed = TRUE]
<1>1. CASE Overdue(r)
  <2>1. s \in Entry /\ s.notified = r.notified /\ s.captured = r.captured
    BY DEF Entry, Code
  <2>3. r.captured <= r.captured
    BY DEF Entry
  <2>2. ~Final(r) /\ Limited(r) = s
    BY <1>1 DEF Overdue, Final, Limited
  <2> QED
    BY <2>1, <2>2, <2>3, NotFinalFollows
<1>2. CASE ~Overdue(r)
  BY <1>2, FollowsItself DEF Limited
<1> QED
  BY <1>1, <1>2

LEMMA ReapedFollows == ASSUME NEW r \in Entry PROVE Follows(r, Reaped(r))
<1> DEFINE s == [r EXCEPT !.exit = r.code, !.stopping = TRUE, !.killed = TRUE]
<1>1. CASE r.exit = NoExit /\ r.code # NoExit
  <2>1. s \in Entry /\ s.notified = r.notified /\ s.captured = r.captured
    BY DEF Entry, Code
  <2>3. r.captured <= r.captured
    BY DEF Entry
  <2>2. ~Final(r) /\ Reaped(r) = s
    BY <1>1 DEF Final, Reaped
  <2> QED
    BY <2>1, <2>2, <2>3, NotFinalFollows
<1>2. CASE ~(r.exit = NoExit /\ r.code # NoExit)
  BY <1>2, FollowsItself DEF Reaped
<1> QED
  BY <1>1, <1>2

LEMMA NotifyFollows ==
    ASSUME NEW r \in Entry, NEW on \in BOOLEAN
    PROVE  Follows(r, [r EXCEPT !.notify = on])
<1> DEFINE s == [r EXCEPT !.notify = on]
<1>1. /\ s \in Entry /\ s.notified = r.notified /\ s.exit = r.exit /\ s.drain = r.drain
      /\ s.timed_out = r.timed_out /\ s.captured = r.captured
  BY DEF Entry
<1> QED
  BY <1>1, SameResultFollows

LEMMA FreshFollows ==
    ASSUME JobsInv, NEW j \in Job
    PROVE  Follows(job[j], Fresh(j)) /\ Refreshed[j] = Fresh(j)
<1>1. job[j] \in Entry
  BY DEF JobsInv, JobsType
<1>2. Follows(job[j], Limited(job[j])) /\ Limited(job[j]) \in Entry
  BY <1>1, LimitedFollows DEF Follows
<1>3. Follows(Limited(job[j]), Reaped(Limited(job[j])))
  BY <1>2, ReapedFollows
<1> QED
  BY <1>1, <1>2, <1>3, FollowsTransitive DEF Fresh, Refreshed

LEMMA PruneFollows == ASSUME NEW r \in Entry PROVE Follows(r, Prune(r))
BY NotifyFollows, FollowsItself DEF Prune

LEMMA ReadFollows == ASSUME NEW r \in Entry, r.drain = "read" PROVE Follows(r, Read(r))
<1>1. ~Final(r)
  BY DEF Final
<1>2. CASE r.pipe > 0
  <2>1. r.pipe - 1 \in Nat /\ r.captured + 1 \in Nat /\ r.captured <= r.captured + 1
    BY <1>2 DEF Entry
  <2>2. ASSUME NEW m \in Nat, NEW n \in Nat
        PROVE  /\ [r EXCEPT !.pipe = m, !.captured = n] \in Entry
               /\ [r EXCEPT !.pipe = m, !.captured = n].notified = r.notified
               /\ [r EXCEPT !.pipe = m, !.captured = n].captured = n
    BY DEF Entry
  <2> QED
    BY <1>1, <1>2, <2>1, <2>2, NotFinalFollows DEF Read
<1>3. CASE ~(r.pipe > 0)
  <2>1. ASSUME NEW d \in {"done", "blocked"}
        PROVE  /\ [r EXCEPT !.drain = d] \in Entry /\ [r EXCEPT !.drain = d].notified = r.notified
               /\ r.captured <= [r EXCEPT !.drain = d].captured
    BY DEF Entry
  <2> QED
    BY <1>1, <1>3, <2>1, NotFinalFollows DEF Read
<1> QED
  BY <1>2, <1>3

LEMMA BlockedFollows == ASSUME NEW r \in Entry, r.drain = "blocked" PROVE Follows(r, Blocked(r))
BY DEF Blocked, Follows, Final, Result, Entry, Code, NoExit

LEMMA WatchedFollows ==
    ASSUME NEW r \in Entry, NEW on \in BOOLEAN, NEW t \in Task \cup {NoTask}
    PROVE  Follows(r, Watched(r, on, t))
<1>1. ASSUME NEW u \in Task \cup {NoTask}
      PROVE  Follows(r, [r EXCEPT !.notify = on, !.task = u])
  <2> DEFINE s == [r EXCEPT !.notify = on, !.task = u]
  <2>1. /\ s \in Entry /\ s.notified = r.notified /\ s.exit = r.exit /\ s.drain = r.drain
        /\ s.timed_out = r.timed_out /\ s.captured = r.captured
    BY DEF Entry
  <2> QED
    BY <2>1, SameResultFollows
<1>2. r.task \in Task \cup {NoTask}
  BY DEF Entry
<1>3. CASE r.notified
  BY <1>3, FollowsItself DEF Watched
<1>4. CASE ~r.notified /\ t = NoTask
  BY <1>1, <1>2, <1>4 DEF Watched
<1>5. CASE ~r.notified /\ t # NoTask
  BY <1>1, <1>5 DEF Watched
<1> QED
  BY <1>3, <1>4, <1>5

-----------------------------------------------------------------------------
(* What happens to the registry.                                           *)

\* What is true of an entry is true of one that follows it once it is final.
LEMMA ShowsFollows ==
    ASSUME NEW r, NEW s, Follows(r, s), Final(r), NEW t, Shows(t, r)
    PROVE  Shows(t, s)
BY DEF Shows, Holds, Follows, Result

\* A step that gives the conversation nothing.
LEMMA QuietStep ==
    ASSUME JobsInv, \A j \in Job : Follows(job[j], job'[j]),
           job' \in [Job -> Entry], UNCHANGED <<next, told, poll>>
    PROVE  JobsInv'
<1>1. JobsType'
  BY DEF JobsInv, JobsType
<1>2. ToldInv'
  <2>1. ASSUME NEW j \in Job, NEW i \in 1..Len(told[j]) PROVE Shows(told[j][i], job'[j])
    <3>1. told[j] # <<>>
      BY EmptySeq
    <3> QED
      BY <3>1, ShowsFollows DEF JobsInv, ToldInv
  <2> QED
    BY <2>1 DEF JobsInv, ToldInv, Follows, Started
<1>3. PollInv'
  <2>1. CASE poll = NoPoll
    BY <2>1 DEF PollInv
  <2>2. CASE poll # NoPoll
    <3>1. /\ poll.of \in Started /\ poll.of \in Job /\ poll.size \in Nat
          /\ poll.size <= job[poll.of].captured
      BY <2>2, JobsConstantsOK DEF JobsInv, PollInv, JobsType, Started, Job
    <3>2. job[poll.of].captured \in Nat /\ job'[poll.of].captured \in Nat
      BY <3>1 DEF JobsInv, JobsType, Entry
    <3>3. job[poll.of].captured <= job'[poll.of].captured
      BY <3>1 DEF Follows
    <3> QED
      BY <3>1, <3>2, <3>3 DEF PollInv, Started
  <2> QED
    BY <2>1, <2>2
<1> QED
  BY <1>1, <1>2, <1>3 DEF JobsInv

LEMMA QuietEntry ==
    ASSUME JobsInv, NEW j \in Job, NEW r, job' = [job EXCEPT ![j] = r], Follows(job[j], r),
           UNCHANGED <<next, told, poll>>
    PROVE  JobsInv'
<1>1. job \in [Job -> Entry] /\ r \in Entry
  BY DEF JobsInv, JobsType, Follows
<1>2. job' \in [Job -> Entry]
  BY <1>1
<1>3. \A i \in Job : Follows(job[i], job'[i])
  BY <1>1, FollowsItself
<1> QED
  BY <1>2, <1>3, QuietStep

\* The registry is replaced by R.
LEMMA QuietRegistry ==
    ASSUME JobsInv, NEW R, job' = R, R = [j \in Job |-> R[j]],
           \A j \in Job : Follows(job[j], R[j]), UNCHANGED <<next, told, poll>>
    PROVE  JobsInv'
<1>1. R \in [Job -> Entry]
  BY DEF Follows
<1> QED
  BY <1>1, QuietStep

LEMMA RefreshedFollows ==
    ASSUME JobsInv
    PROVE  /\ Refreshed = [j \in Job |-> Refreshed[j]]
           /\ \A j \in Job : Follows(job[j], Refreshed[j])
BY FreshFollows DEF Refreshed

LEMMA PrunedFollows ==
    ASSUME JobsInv
    PROVE  /\ Pruned = [j \in Job |-> Pruned[j]]
           /\ \A j \in Job : Follows(job[j], Pruned[j])
<1>1. ASSUME NEW j \in Job PROVE Follows(job[j], Prune(Fresh(j)))
  <2>1. Follows(job[j], Fresh(j)) /\ Fresh(j) \in Entry
    BY FreshFollows DEF Follows
  <2>2. Follows(Fresh(j), Prune(Fresh(j)))
    BY <2>1, PruneFollows
  <2>3. job[j] \in Entry
    BY DEF JobsInv, JobsType
  <2> QED
    BY <2>1, <2>2, <2>3, FollowsTransitive
<1> QED
  BY <1>1 DEF Pruned

\* The registry is replaced by R, and the jobs of the batch are acknowledged.
\* They have ended in R, and the conversation is given each of them once.
LEMMA TellStep ==
    ASSUME JobsInv, NEW R, R = [j \in Job |-> R[j]], \A j \in Job : Follows(job[j], R[j]),
           NEW batch \in SUBSET Job, \A j \in batch : j \in Started /\ Final(R[j]),
           job' = Acknowledged(R, batch), next' = next, poll' = NoPoll,
           told' \in [Job -> Seq(Told)],
           \A j \in batch : Len(told'[j]) = 1 /\ Shows(told'[j][1], R[j]),
           \A j \in Job \ batch : told'[j] = told[j]
    PROVE  JobsInv'
<1>1. \A j \in Job : R[j] \in Entry
  BY DEF Follows
<1>2. ASSUME NEW r \in Entry
      PROVE  LET m == [r EXCEPT !.notified = TRUE]
             IN  /\ m \in Entry /\ m.notified /\ (Final(m) <=> Final(r)) /\ Result(m) = Result(r)
  <2> DEFINE m == [r EXCEPT !.notified = TRUE]
  <2>1. /\ m \in Entry /\ m.notified /\ m.exit = r.exit /\ m.drain = r.drain
        /\ m.timed_out = r.timed_out /\ m.captured = r.captured
    BY DEF Entry
  <2> QED
    BY <2>1 DEF Final, Result
<1>3. job' \in [Job -> Entry]
  BY <1>1, <1>2 DEF Acknowledged
<1>4. ASSUME NEW j \in Job
      PROVE  /\ job'[j].notified <=> j \in batch \/ job[j].notified
             /\ Final(R[j]) => Final(job'[j])
             /\ Result(job'[j]) = Result(R[j])
             /\ \A t : Shows(t, R[j]) => Shows(t, job'[j])
  <2> DEFINE Good(x) == /\ x.notified <=> j \in batch \/ job[j].notified
                        /\ Final(R[j]) => Final(x)
                        /\ Result(x) = Result(R[j])
  <2>1. ASSUME j \in batch PROVE Good(job'[j])
    <3>1. job'[j] = [R[j] EXCEPT !.notified = TRUE]
      BY <2>1 DEF Acknowledged
    <3>2. R[j] \in Entry
      BY <1>1
    <3>3. Good([R[j] EXCEPT !.notified = TRUE])
      BY <1>2, <2>1, <3>2
    <3> QED
      BY <3>1, <3>3
  <2>2. ASSUME j \notin batch PROVE Good(job'[j])
    <3>1. job'[j] = R[j] /\ R[j].notified = job[j].notified
      BY <2>2 DEF Acknowledged, Follows
    <3> QED
      BY <2>2, <3>1
  <2>3. \A t : Result(job'[j]) = Result(R[j]) /\ Shows(t, R[j]) => Shows(t, job'[j])
    BY DEF Result, Shows, Holds
  <2> QED
    BY <2>1, <2>2, <2>3
<1>5. ASSUME NEW j \in batch PROVE told'[j] # <<>> /\ Len(told'[j]) <= 1
  <2>1. Len(<<>>) = 0
    BY EmptySeq
  <2>2. Len(told'[j]) = 1
    OBVIOUS
  <2>3. told'[j] = <<>> => Len(told'[j]) = 0
    BY <2>1, Zenon
  <2> QED
    BY <2>2, <2>3
<1>6. ToldInv'
  <2> SUFFICES ASSUME NEW j \in Job
               PROVE  /\ Len(told'[j]) <= 1
                      /\ job'[j].notified <=> told'[j] # <<>>
                      /\ told'[j] # <<>> => j \in Started /\ Final(job'[j])
                      /\ \A i \in 1..Len(told'[j]) : Shows(told'[j][i], job'[j])
    BY DEF ToldInv, Started
  <2>1. CASE j \in batch
    <3>1. job'[j].notified
      BY <1>4, <2>1
    <3>2. j \in Started /\ Final(job'[j])
      BY <1>4, <2>1
    <3>3. Len(told'[j]) = 1 /\ Shows(told'[j][1], job'[j])
      BY <1>4, <2>1
    <3>4. \A i \in 1..Len(told'[j]) : i = 1
      BY <3>3
    <3> QED
      BY <1>5, <2>1, <3>1, <3>2, <3>3, <3>4
  <2>2. CASE j \notin batch
    <3>1. told'[j] = told[j]
      BY <2>2
    <3>2. ASSUME NEW i \in 1..Len(told[j]) PROVE Shows(told[j][i], job'[j])
      <4>1. told[j] # <<>>
        BY EmptySeq
      <4>2. Shows(told[j][i], R[j])
        BY <4>1, ShowsFollows DEF JobsInv, ToldInv
      <4> QED
        BY <1>4, <4>2
    <3>3. /\ Len(told'[j]) <= 1
          /\ job'[j].notified <=> told'[j] # <<>>
          /\ told'[j] # <<>> => j \in Started /\ Final(job'[j])
      BY <1>4, <2>2, <3>1 DEF JobsInv, ToldInv, Follows
    <3> QED
      BY <3>1, <3>2, <3>3
  <2> QED
    BY <2>1, <2>2
<1> QED
  BY <1>3, <1>6 DEF JobsInv, JobsType, PollInv

-----------------------------------------------------------------------------
(* The actions.                                                            *)

LEMMA WriteKeeps ==
    ASSUME JobsInv, NEW j \in Job, NEW p \in Process, Write(j, p)
    PROVE  JobsInv'
<1> DEFINE r == job[j]
           s == [r EXCEPT !.out = r.out - 1, !.pipe = r.pipe + 1]
<1>1. job \in [Job -> Entry] /\ r \in Entry
  BY DEF JobsInv, JobsType
<1>2. job' = [job EXCEPT ![j] = s]
  BY <1>1 DEF Write
<1>3. r.out - 1 \in Nat /\ r.pipe + 1 \in Nat
  BY <1>1 DEF Write, Entry
<1>4. ASSUME NEW m \in Nat, NEW n \in Nat
      PROVE  LET t == [r EXCEPT !.out = m, !.pipe = n]
             IN  /\ t \in Entry /\ t.notified = r.notified /\ t.exit = r.exit /\ t.drain = r.drain
                 /\ t.timed_out = r.timed_out /\ t.captured = r.captured
  BY <1>1 DEF Entry
<1>5. /\ s \in Entry /\ s.notified = r.notified /\ s.exit = r.exit /\ s.drain = r.drain
      /\ s.timed_out = r.timed_out /\ s.captured = r.captured
  BY <1>3, <1>4
<1> HIDE DEF s
<1>6. Follows(job[j], s)
  BY <1>5, SameResultFollows
<1> QED
  BY <1>2, <1>6, QuietEntry DEF Write

LEMMA DieKeeps ==
    ASSUME JobsInv, NEW j \in Job, NEW p \in Process, Die(j, p)
    PROVE  JobsInv'
<1> DEFINE r == job[j]
           c == IF p # "leader" THEN r.code ELSE IF r.killed THEN "killed" ELSE "ended"
           s == [r EXCEPT !.alive = r.alive \ {p}, !.code = c]
<1>1. job \in [Job -> Entry] /\ r \in Entry
  BY DEF JobsInv, JobsType
<1>2. job' = [job EXCEPT ![j] = s]
  BY <1>1 DEF Die
<1>3. c \in Code /\ r.alive \ {p} \in SUBSET Process
  BY <1>1 DEF Entry, Code
<1> HIDE DEF c
<1>4. /\ s \in Entry /\ s.notified = r.notified /\ s.exit = r.exit /\ s.drain = r.drain
      /\ s.timed_out = r.timed_out /\ s.captured = r.captured
  BY <1>1, <1>3 DEF Entry
<1> HIDE DEF s
<1>5. Follows(job[j], s)
  BY <1>4, SameResultFollows
<1> QED
  BY <1>2, <1>5, QuietEntry DEF Die

LEMMA ExpireKeeps ==
    ASSUME JobsInv, NEW j \in Job, Expire(j)
    PROVE  JobsInv'
<1> DEFINE r == job[j]
           s == [r EXCEPT !.late = TRUE]
<1>1. job \in [Job -> Entry] /\ r \in Entry
  BY DEF JobsInv, JobsType
<1>2. job' = [job EXCEPT ![j] = s]
  BY <1>1 DEF Expire
<1>3. /\ s \in Entry /\ s.notified = r.notified /\ s.exit = r.exit /\ s.drain = r.drain
      /\ s.timed_out = r.timed_out /\ s.captured = r.captured
  BY <1>1 DEF Entry
<1> HIDE DEF s
<1>4. Follows(job[j], s)
  BY <1>3, SameResultFollows
<1> QED
  BY <1>2, <1>4, QuietEntry DEF Expire

LEMMA DrainKeeps ==
    ASSUME JobsInv, NEW j \in Job, Drain(j) \/ Deadline(j)
    PROVE  JobsInv'
<1>1. job \in [Job -> Entry] /\ job[j] \in Entry
  BY DEF JobsInv, JobsType
<1>2. CASE Drain(j)
  BY <1>1, <1>2, QuietEntry, ReadFollows, BlockedFollows DEF Drain
<1>3. CASE Deadline(j)
  <2> DEFINE s == [job[j] EXCEPT !.drain = "done"]
  <2>1. job' = [job EXCEPT ![j] = s] /\ ~Final(job[j])
    BY <1>1, <1>3 DEF Deadline, Final
  <2>2. s \in Entry /\ s.notified = job[j].notified /\ job[j].captured <= s.captured
    BY <1>1 DEF Entry
  <2> HIDE DEF s
  <2>3. Follows(job[j], s)
    BY <2>1, <2>2, NotFinalFollows
  <2> QED
    BY <1>3, <2>1, <2>3, QuietEntry DEF Deadline
<1> QED
  BY <1>2, <1>3

\* A job that is stopped keeps the exit it has, and a drain that has ended
\* captures nothing more.
LEMMA StopKeeps ==
    ASSUME JobsInv, NEW j \in Job, NEW n \in 0..job[j].pipe, Stop(j, n)
    PROVE  JobsInv'
<1> DEFINE r == job[j]
           ended == IF r.exit # NoExit THEN r.exit ELSE IF r.code # NoExit THEN r.code ELSE "killed"
           s == [r EXCEPT !.notify = FALSE, !.stopping = TRUE, !.drain = "done",
                          !.pipe = r.pipe - n, !.captured = r.captured + n,
                          !.killed = TRUE, !.code = ended, !.exit = ended,
                          !.alive = r.alive \ {"leader"}]
<1>1. job \in [Job -> Entry] /\ r \in Entry
  BY DEF JobsInv, JobsType
<1>2. job' = [job EXCEPT ![j] = s]
  BY DEF Stop
<1>3. /\ ended \in Code /\ r.alive \ {"leader"} \in SUBSET Process
      /\ r.pipe - n \in Nat /\ r.captured + n \in Nat /\ r.captured <= r.captured + n
      /\ Final(r) => ended = r.exit /\ r.captured + n = r.captured
  BY <1>1 DEF Entry, Code, Final, Stop
<1> HIDE DEF ended
<1>4. ASSUME NEW x \in Nat, NEW y \in Nat
      PROVE  LET t == [r EXCEPT !.notify = FALSE, !.stopping = TRUE, !.drain = "done",
                                !.pipe = x, !.captured = y,
                                !.killed = TRUE, !.code = ended, !.exit = ended,
                                !.alive = r.alive \ {"leader"}]
             IN  /\ t \in Entry /\ t.notified = r.notified /\ t.exit = ended
                 /\ t.drain = "done" /\ t.timed_out = r.timed_out /\ t.captured = y
  BY <1>1, <1>3 DEF Entry
<1>5. /\ s \in Entry /\ s.notified = r.notified /\ s.exit = ended
      /\ s.drain = "done" /\ s.timed_out = r.timed_out /\ s.captured = r.captured + n
  BY <1>3, <1>4
<1> HIDE DEF s
<1>6. Follows(job[j], s)
  BY <1>3, <1>5 DEF Follows, Final, Result
<1> QED
  BY <1>2, <1>6, QuietEntry DEF Stop

LEMMA BeginPollKeeps ==
    ASSUME JobsInv, NEW j \in Job, BeginPoll(j)
    PROVE  JobsInv'
<1>1. /\ j \in Started /\ job' = Refreshed /\ poll' = [of |-> j, size |-> job[j].captured]
      /\ UNCHANGED <<next, told>>
  BY DEF BeginPoll
<1>2. /\ Refreshed = [i \in Job |-> Refreshed[i]]
      /\ \A i \in Job : Follows(job[i], Refreshed[i])
  BY RefreshedFollows
<1>3. JobsType'
  BY <1>1, <1>2 DEF JobsInv, JobsType, Follows
<1>4. ToldInv'
  <2>1. ASSUME NEW k \in Job, NEW i \in 1..Len(told[k]) PROVE Shows(told[k][i], job'[k])
    <3>1. told[k] # <<>>
      BY EmptySeq
    <3> QED
      BY <1>1, <1>2, <3>1, ShowsFollows DEF JobsInv, ToldInv
  <2> QED
    BY <1>1, <1>2, <2>1 DEF JobsInv, ToldInv, Follows, Started
<1>5. PollInv'
  <2>1. job[j].captured \in Nat /\ job[j].captured <= job'[j].captured
    BY <1>1, <1>2 DEF JobsInv, JobsType, Entry, Follows
  <2>2. poll'.of = j /\ poll'.size = job[j].captured
    BY <1>1
  <2> QED
    BY <1>1, <2>1, <2>2 DEF PollInv, Started
<1> QED
  BY <1>3, <1>4, <1>5 DEF JobsInv

\* The size that the poll has read may be smaller than what was captured.
LEMMA EndPollKeeps ==
    ASSUME JobsInv, EndPoll
    PROVE  JobsInv'
<1> DEFINE j == poll.of
<1>1. j \in Started /\ j \in Job /\ poll.size \in Nat /\ poll.size <= job[j].captured
  BY JobsConstantsOK DEF EndPoll, Unlocked, JobsInv, PollInv, JobsType, Started, Job
<1>2. poll' = NoPoll /\ next' = next
  BY DEF EndPoll
<1>3. /\ told \in [Job -> Seq(Told)] /\ job \in [Job -> Entry]
      /\ job = [i \in Job |-> job[i]] /\ \A i \in Job : Follows(job[i], job[i])
  BY FollowsItself DEF JobsInv, JobsType
<1>4. CASE Final(job[j])
  <2> DEFINE t == Given("poll", job[j], poll.size)
             e == IF told[j] = <<>> THEN <<t>> ELSE told[j]
  <2>1. told' = [told EXCEPT ![j] = e] /\ job' = [job EXCEPT ![j].notified = TRUE]
    BY <1>4 DEF EndPoll
  <2>2. t \in Told /\ Shows(t, job[j])
    <3>1. job[j] \in Entry
      BY <1>1, <1>3
    <3> QED
      BY <1>1, <3>1 DEF Given, Told, Shows, Holds, Entry
  <2> HIDE DEF t
  <2>3. e \in Seq(Told) /\ Len(e) = 1 /\ Shows(e[1], job[j])
    <3>1. CASE told[j] = <<>>
      <4>1. <<t>> \in Seq(Told) /\ Len(<<t>>) = 1 /\ <<t>>[1] = t
        BY <2>2
      <4> QED
        BY <2>2, <3>1, <4>1
    <3>2. CASE told[j] # <<>>
      <4>1. told[j] \in Seq(Told) /\ Len(told[j]) <= 1
        BY <1>1, <1>3 DEF JobsInv, ToldInv
      <4>2. Len(told[j]) \in Nat \ {0}
        BY <3>2, <4>1, EmptySeq
      <4>3. Len(told[j]) = 1
        <5>1. \A n \in Nat \ {0} : n <= 1 => n = 1
          OBVIOUS
        <5> QED
          BY <4>1, <4>2, <5>1, Zenon
      <4>4. Shows(told[j][1], job[j])
        <5>1. 1 \in 1..Len(told[j])
          BY <4>3
        <5> QED
          BY <1>1, <5>1 DEF JobsInv, ToldInv
      <4> QED
        BY <3>2, <4>1, <4>3, <4>4
    <3> QED
      BY <3>1, <3>2
  <2> HIDE DEF e
  <2>4. told' \in [Job -> Seq(Told)] /\ told'[j] = e
        /\ \A i \in Job \ {j} : told'[i] = told[i]
    BY <1>1, <1>3, <2>1, <2>3
  <2>5. job' = Acknowledged(job, {j})
    BY <1>3, <2>1 DEF Acknowledged
  <2>6. /\ {j} \in SUBSET Job /\ \A i \in {j} : i \in Started /\ Final(job[i])
        /\ \A i \in {j} : Len(told'[i]) = 1 /\ Shows(told'[i][1], job[i])
    BY <1>1, <1>4, <2>3, <2>4
  <2> HIDE DEF j
  <2> QED
    BY <1>2, <1>3, <2>4, <2>5, <2>6, TellStep
<1>5. CASE ~Final(job[j])
  <2>1. UNCHANGED <<job, told, next>> /\ poll' = NoPoll
    BY <1>2, <1>5 DEF EndPoll
  <2> QED
    BY <2>1 DEF JobsInv, JobsType, ToldInv, PollInv, Started
<1> QED
  BY <1>4, <1>5

LEMMA TakeCompletionKeeps ==
    ASSUME JobsInv, TakeCompletion
    PROVE  JobsInv'
<1>1. CASE ~MayNotify
  BY <1>1, RefreshedFollows, QuietRegistry DEF TakeCompletion
<1>2. CASE MayNotify
  <2> DEFINE jobs == Pruned
             batch == Batch(jobs)
             g(j) == Given("notice", jobs[j], jobs[j].captured)
  <2>1. /\ jobs = [j \in Job |-> jobs[j]]
        /\ \A j \in Job : Follows(job[j], jobs[j])
    BY PrunedFollows
  <2>2. batch \in SUBSET Job /\ \A j \in batch : j \in Started /\ Final(jobs[j]) /\ ~jobs[j].notified
    <3>1. Started \subseteq Job
      BY JobsConstantsOK DEF Started, Job, JobsInv, JobsType
    <3> HIDE DEF jobs
    <3> QED
      BY <3>1 DEF Batch, Waiting
  <2>3. \A j \in batch : told[j] = <<>>
    BY <2>1, <2>2 DEF Follows, JobsInv, ToldInv
  <2>4. /\ job' = Acknowledged(jobs, batch)
        /\ told' = [j \in Job |-> IF j \in batch THEN Append(told[j], g(j)) ELSE told[j]]
        /\ next' = next /\ poll' = NoPoll
    BY <1>2 DEF TakeCompletion, Unlocked
  <2> HIDE DEF jobs, batch
  <2>5. ASSUME NEW j \in batch
        PROVE  LET e == Append(told[j], g(j))
               IN  e \in Seq(Told) /\ Len(e) = 1 /\ Shows(e[1], jobs[j])
    <3>1. told[j] \in Seq(Told) /\ Len(told[j]) = 0
      BY <2>2, <2>3, EmptySeq DEF JobsInv, JobsType
    <3>2. jobs[j] \in Entry
      BY <2>1, <2>2 DEF Follows
    <3>3. g(j) \in Told /\ Shows(g(j), jobs[j])
      BY <3>2 DEF Given, Told, Shows, Holds, Entry
    <3> HIDE DEF g
    <3>4. /\ Append(told[j], g(j)) \in Seq(Told) /\ Len(Append(told[j], g(j))) = 1
          /\ Append(told[j], g(j))[1] = g(j)
      BY <3>1, <3>3, AppendProperties
    <3> QED
      BY <3>3, <3>4
  <2> HIDE DEF g
  <2>6. /\ told' \in [Job -> Seq(Told)]
        /\ \A j \in batch : Len(told'[j]) = 1 /\ Shows(told'[j][1], jobs[j])
        /\ \A j \in Job \ batch : told'[j] = told[j]
    BY <2>2, <2>4, <2>5 DEF JobsInv, JobsType
  <2> QED
    BY <2>1, <2>2, <2>4, <2>6, TellStep
<1> QED
  BY <1>1, <1>2

\* The entry of a started job is new: nothing was told of it.
LEMMA StartKeeps ==
    ASSUME JobsInv, next < MaxRetained, NEW a \in StartArgs[next + 1], Start(a)
    PROVE  JobsInv'
<1> DEFINE j == next + 1
           r == [Unused EXCEPT !.notify = a.notify, !.limit = a.limit, !.task = a.task,
                               !.alive = a.alive, !.out = a.out, !.drain = "read"]
<1>1. /\ Refreshed = [i \in Job |-> Refreshed[i]]
      /\ \A i \in Job : Follows(job[i], Refreshed[i])
  BY RefreshedFollows
<1>2. j \in Job /\ j \notin Started /\ next' = j /\ next \in Nat /\ j \in 0..MaxRetained
      /\ told' = told /\ poll' = NoPoll
  BY JobsConstantsOK DEF Start, Job, Started, JobsInv, JobsType, Unlocked
<1>3. a \in Args
  BY <1>2, JobsConstantsOK
<1>4. r \in Entry /\ ~r.notified
  BY <1>3 DEF Unused, Args, Entry, Code
<1>5. job' = [Refreshed EXCEPT ![j] = r]
  BY DEF Start
<1> HIDE DEF r
<1>6. job' \in [Job -> Entry] /\ job'[j] = r /\ \A i \in Job \ {j} : job'[i] = Refreshed[i]
  BY <1>1, <1>2, <1>4, <1>5 DEF Follows
<1>7. told[j] = <<>> /\ ~job'[j].notified
  BY <1>2, <1>4, <1>6 DEF JobsInv, ToldInv
<1>8. Started \subseteq Started'
  BY <1>2 DEF Started
<1>9. ToldInv'
  <2> SUFFICES ASSUME NEW i \in Job
               PROVE  /\ Len(told'[i]) <= 1
                      /\ job'[i].notified <=> told'[i] # <<>>
                      /\ told'[i] # <<>> => i \in Started' /\ Final(job'[i])
                      /\ \A k \in 1..Len(told'[i]) : Shows(told'[i][k], job'[i])
    BY DEF ToldInv
  <2>1. CASE i = j
    <3>1. 1..Len(told'[i]) = {}
      BY <1>2, <1>7, <2>1, EmptySeq
    <3> QED
      BY <1>2, <1>7, <2>1, <3>1 DEF JobsInv, ToldInv
  <2>2. CASE i # j
    <3>1. job'[i] = Refreshed[i] /\ told'[i] = told[i]
      BY <1>2, <1>6, <2>2
    <3>2. ASSUME NEW k \in 1..Len(told[i]) PROVE Shows(told[i][k], job'[i])
      <4>1. told[i] # <<>>
        BY EmptySeq
      <4> QED
        BY <1>1, <3>1, <4>1, ShowsFollows DEF JobsInv, ToldInv
    <3> QED
      BY <1>1, <1>8, <3>1, <3>2 DEF JobsInv, ToldInv, Follows
  <2> QED
    BY <2>1, <2>2
<1> QED
  BY <1>2, <1>6, <1>9 DEF JobsInv, JobsType, PollInv

LEMMA StepKeeps ==
    ASSUME JobsInv, [Next]_vars
    PROVE  JobsInv'
<1>1. job \in [Job -> Entry] /\ \A j \in Job : job[j] \in Entry
  BY DEF JobsInv, JobsType
<1>2. CASE UNCHANGED <<next, job, told, poll>>
  BY <1>1, <1>2, FollowsItself, QuietStep
<1>3. ASSUME NEW j \in Started, NEW on \in BOOLEAN, NEW t \in Task \cup {NoTask}, Watch(j, on, t)
      PROVE  JobsInv'
  <2>1. j \in Job
    BY JobsConstantsOK DEF Started, Job, JobsInv, JobsType
  <2> QED
    BY <1>1, <1>3, <2>1, WatchedFollows, QuietEntry DEF Watch
<1>4. CASE Refresh \/ Leave
  BY <1>4, RefreshedFollows, QuietRegistry DEF Refresh, Leave
<1>5. CASE CancelNotifications
  <2>1. job' = [j \in Job |-> [job[j] EXCEPT !.notify = FALSE]] /\ UNCHANGED <<next, told, poll>>
    BY <1>5 DEF CancelNotifications
  <2>2. \A j \in Job : Follows(job[j], [job[j] EXCEPT !.notify = FALSE])
    BY <1>1, NotifyFollows
  <2>3. \A j \in Job : Follows(job[j], job'[j])
    BY <2>1, <2>2
  <2>4. job' \in [Job -> Entry]
    BY <2>1, <2>2 DEF Follows
  <2> QED
    BY <2>1, <2>3, <2>4, QuietStep
<1>6. ASSUME NEW h, FailNotice(h) PROVE JobsInv'
  BY <1>6, PrunedFollows, QuietRegistry DEF FailNotice
<1>7. ASSUME NEW j \in Started,
             \/ \E p \in Process : Write(j, p) \/ Die(j, p)
             \/ Expire(j) \/ Drain(j) \/ Deadline(j) \/ BeginPoll(j)
             \/ \E n \in 0..job[j].pipe : Stop(j, n)
      PROVE  JobsInv'
  <2>1. j \in Job
    BY JobsConstantsOK DEF Started, Job, JobsInv, JobsType
  <2> QED
    BY <1>7, <2>1, WriteKeeps, DieKeeps, ExpireKeeps, DrainKeeps, BeginPollKeeps, StopKeeps
<1>8. ASSUME next < MaxRetained, NEW a \in StartArgs[next + 1], Start(a)
      PROVE  JobsInv'
  BY <1>8, StartKeeps
<1>9. CASE UNCHANGED vars \/ Interrupt \/ \E t \in Task : UpdateBoard(t)
  BY <1>2, <1>9 DEF vars, Interrupt, UpdateBoard
<1> QED
  BY <1>3, <1>4, <1>5, <1>6, <1>7, <1>8, <1>9, TakeCompletionKeeps, EndPollKeeps DEF Next

LEMMA InitInv == Init => JobsInv
<1> SUFFICES ASSUME Init PROVE JobsInv
  OBVIOUS
<1>1. Unused \in Entry /\ ~Unused.notified
  BY DEF Unused, Entry, Code
<1>2. <<>> \in Seq(Told) /\ Len(<<>>) = 0
  BY EmptySeq
<1>3. next \in 0..MaxRetained
  BY JobsConstantsOK DEF Init
<1>4. job \in [Job -> Entry] /\ \A j \in Job : ~job[j].notified
  BY <1>1 DEF Init
<1>5. told \in [Job -> Seq(Told)] /\ \A j \in Job : told[j] = <<>>
  BY <1>2 DEF Init
<1>6. \A j \in Job : Len(told[j]) <= 1 /\ 1..Len(told[j]) = {}
  BY <1>2, <1>5
<1>7. PollInv
  BY DEF Init, PollInv
<1> QED
  BY <1>3, <1>4, <1>5, <1>6, <1>7 DEF JobsInv, JobsType, ToldInv

LEMMA SpecInv == Spec => []JobsInv
<1>1. JobsInv /\ [Next]_vars => JobsInv'
  BY StepKeeps
<1> QED
  BY <1>1, InitInv, PTL DEF Spec

-----------------------------------------------------------------------------
(* The theorems.                                                           *)

\* The conversation is given the result of a job at most once, by a notice of
\* take_completion or by a poll, and the job is marked as notified exactly
\* then, whatever watches, failed appends and polls come between.
THEOREM AlwaysToldOnce == Spec => []ToldOnce
<1>1. JobsInv => ToldOnce
  BY DEF JobsInv, ToldInv, ToldOnce
<1> QED
  BY <1>1, SpecInv, PTL

\* Neither refresh nor stop nor a late drain changes the exit code or the
\* outcome that the conversation was given of a job, or the output that
\* take_completion has put in a notice; the output that a poll was given is at
\* most cut short.
THEOREM ToldStaysFinal == Spec => []ToldIsFinal
<1>1. JobsInv => ToldIsFinal
  <2> SUFFICES ASSUME JobsInv, NEW j \in Job, NEW i \in 1..Len(told[j])
               PROVE  Final(job[j]) /\ Shows(told[j][i], job[j])
    BY DEF ToldIsFinal, Shows
  <2>1. told[j] # <<>>
    BY EmptySeq
  <2> QED
    BY <2>1 DEF JobsInv, ToldInv
<1> QED
  BY <1>1, SpecInv, PTL
=============================================================================
