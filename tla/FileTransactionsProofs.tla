----------------------- MODULE FileTransactionsProofs -----------------------
(***************************************************************************)
(* Theorems about FileTransactions, for any number of files, processes,    *)
(* edits and faults: no edit of others is overwritten, the journal covers  *)
(* every replacement, and a receipt is true.                               *)
(***************************************************************************)
EXTENDS FileTransactions, TLAPS

\* The steps at which a process holds the lock of the receipt.
Holding == {"apply", "write", "replace", "reverse", "restore", "overwrite", "undone", "done"}
Steps == Holding \cup {"idle", "plan", "create"}

TransactionType ==
    /\ content \in [File -> {"old", "new", "other", Absent}]
    /\ original \in [File -> {"old", Absent}]
    /\ text \in [File -> {"new", "old"}]
    /\ journal \in [state : {"none", "applying", "applied", "recovered"}, applied : 0..N]
    /\ lock \in Process \cup {NoProcess}
    /\ proc \in [Process -> [at : Steps, applied : 0..N]]
    /\ edited \subseteq File
    /\ raced \subseteq edited

\* The lock is held by whoever applies or reverses, nobody plans beside them,
\* and the holder's progress is the journal's.
LockInv ==
    \A p \in Process :
        /\ lock = p <=> proc[p].at \in Holding
        /\ proc[p].at \in {"plan", "create"} =>
              journal = NoJournal /\ \A q \in Process \ {p} : proc[q].at = "idle"
        /\ proc[p].at \in Holding => journal.state # "none" /\ journal.applied = proc[p].applied
        /\ proc[p].at = "plan" => proc[p].applied < N

\* What the holder knows of the file it is at.
StepInv ==
    \A p \in Process :
        LET n == proc[p].applied
        IN  /\ proc[p].at \in {"write", "replace", "restore", "overwrite", "undone"} => n > 0
            /\ proc[p].at = "apply" /\ n \in File \ edited => content[n] = text[n]
            /\ proc[p].at = "replace" => content[n] = original[n] \/ n \in raced
            /\ proc[p].at = "overwrite" => content[n] = text[n] \/ n \in raced
            /\ proc[p].at = "undone" /\ n \notin edited => content[n] = original[n]

\* The files below the journal's progress are replaced, those above it are not,
\* and the one at it may be either.
FileInv ==
    /\ \A f \in File \ edited :
          /\ f > journal.applied => content[f] = original[f]
          /\ f < journal.applied => content[f] = text[f]
          /\ f = journal.applied => content[f] \in {original[f], text[f]}
    /\ journal.state \in {"none", "recovered"} => journal.applied = 0

TransactionInv == TransactionType /\ LockInv /\ StepInv /\ FileInv /\ lost = {}
-----------------------------------------------------------------------------
(* Who moves.                                                              *)

USE DEF File, Absent

\* At most one process is under way.
LEMMA OthersIdle ==
    ASSUME TransactionInv, NEW p \in Process, proc[p].at # "idle"
    PROVE  \A q \in Process \ {p} : proc[q].at = "idle"
<1>1. CASE proc[p].at \in {"plan", "create"}
  BY <1>1 DEF TransactionInv, LockInv
<1>2. CASE proc[p].at \in Holding
  <2>1. lock = p
    BY <1>2 DEF TransactionInv, LockInv
  <2>2. ASSUME NEW q \in Process \ {p} PROVE proc[q].at = "idle"
    <3>1. proc[q].at \notin Holding
      BY <2>1 DEF TransactionInv, LockInv
    <3>2. proc[q].at \notin {"plan", "create"}
      BY <1>2 DEF TransactionInv, LockInv, Holding
    <3> QED
      BY <3>1, <3>2 DEF TransactionInv, TransactionType, Steps
  <2> QED
    BY <2>2
<1> QED
  BY <1>1, <1>2 DEF TransactionInv, TransactionType, Steps

\* The process that is under way goes on, or one begins while all are idle.
LEMMA Moves ==
    ASSUME TransactionInv, NEW p \in Process, NEW s \in Steps, NEW n \in 0..N, Go(p, s, n),
           \A q \in Process \ {p} : proc[q].at = "idle"
    PROVE  /\ proc' \in [Process -> [at : Steps, applied : 0..N]]
           /\ proc'[p].at = s
           /\ proc'[p].applied = n
           /\ \A q \in Process \ {p} : proc'[q].at = "idle"
BY DEF TransactionInv, TransactionType, Go

\* What a process must leave behind when it goes on to step s with n files
\* in progress, all others being idle.
Leaves(p, s, n) ==
    /\ s \in Steps
    /\ n \in 0..N
    /\ lock' = IF s \in Holding THEN p ELSE NoProcess
    /\ s \in {"plan", "create"} => journal' = NoJournal
    /\ s \in Holding => journal'.state # "none" /\ journal'.applied = n
    /\ s = "plan" => n < N
    /\ s \in {"write", "replace", "restore", "overwrite", "undone"} => n > 0
    /\ s = "apply" /\ n \in File \ edited => content'[n] = text[n]
    /\ s = "replace" => content'[n] = original[n] \/ n \in raced
    /\ s = "overwrite" => content'[n] = text[n] \/ n \in raced
    /\ s = "undone" /\ n \notin edited => content'[n] = original[n]

LEMMA StepKeepsInv ==
    ASSUME TransactionInv, NEW p \in Process, NEW s, NEW n, Go(p, s, n), Leaves(p, s, n),
           \A q \in Process \ {p} : proc[q].at = "idle",
           UNCHANGED <<plan, world>>,
           content' \in [File -> {"old", "new", "other", Absent}],
           journal' \in [state : {"none", "applying", "applied", "recovered"}, applied : 0..N],
           FileInv', lost' = {}
    PROVE  TransactionInv'
<1>1. /\ proc' \in [Process -> [at : Steps, applied : 0..N]]
      /\ proc'[p].at = s
      /\ proc'[p].applied = n
      /\ \A q \in Process \ {p} : proc'[q].at = "idle"
  BY Moves DEF Leaves
<1>2. "idle" \notin Holding /\ "plan" \notin Holding /\ "create" \notin Holding
  BY DEF Holding
<1>3. TransactionType'
  BY <1>1 DEF TransactionInv, TransactionType, Leaves, plan, world
<1>4. LockInv'
  <2>1. ASSUME NEW q \in Process PROVE lock' = q <=> proc'[q].at \in Holding
    BY <1>1, <1>2, TransactionConstantsOK DEF Leaves
  <2>2. ASSUME NEW q \in Process, proc'[q].at \in {"plan", "create"}
        PROVE  journal' = NoJournal /\ \A r \in Process \ {q} : proc'[r].at = "idle"
    BY <1>1, <2>2 DEF Leaves
  <2>3. ASSUME NEW q \in Process, proc'[q].at \in Holding
        PROVE  journal'.state # "none" /\ journal'.applied = proc'[q].applied
    BY <1>1, <1>2, <2>3 DEF Leaves
  <2>4. ASSUME NEW q \in Process, proc'[q].at = "plan" PROVE proc'[q].applied < N
    BY <1>1, <2>4 DEF Leaves
  <2> QED
    BY <2>1, <2>2, <2>3, <2>4 DEF LockInv, NoJournal
<1>5. StepInv'
  <2>1. ASSUME NEW q \in Process \ {p} PROVE proc'[q].at = "idle"
    BY <1>1
  <2> QED
    BY <1>1, <2>1 DEF StepInv, Leaves, plan, world
<1> QED
  BY <1>3, <1>4, <1>5 DEF TransactionInv

\* A process that stops.
LEMMA StopKeepsInv ==
    ASSUME TransactionInv, NEW p \in Process, proc[p].at # "idle", Stop(p),
           UNCHANGED <<plan, world>>,
           content' \in [File -> {"old", "new", "other", Absent}],
           journal' = journal, FileInv', lost' = {}
    PROVE  TransactionInv'
<1>1. \A q \in Process \ {p} : proc[q].at = "idle"
  BY OthersIdle
<1>2. lock \in {p, NoProcess}
  BY <1>1 DEF TransactionInv, TransactionType, LockInv, Holding
<1>3. Leaves(p, "idle", 0)
  BY <1>2, TransactionConstantsOK DEF Leaves, Stop, Unlock, Steps, Holding
<1> QED
  BY <1>1, <1>3, StepKeepsInv DEF Stop, TransactionInv, TransactionType

\* A step that leaves the files and the journal alone.
LEMMA QuietFiles ==
    ASSUME TransactionInv, UNCHANGED <<content, plan, journal, world, lost>>
    PROVE  /\ UNCHANGED <<plan, world>>
           /\ content' \in [File -> {"old", "new", "other", Absent}]
           /\ journal' \in [state : {"none", "applying", "applied", "recovered"}, applied : 0..N]
           /\ FileInv'
           /\ lost' = {}
BY DEF TransactionInv, TransactionType, FileInv, plan, world

\* The receipt is saved, or the process stops.
LEMMA PersistKeepsInv ==
    ASSUME TransactionInv, NEW p \in Process, proc[p].at # "idle",
           NEW receipt \in [state : {"applying", "applied", "recovered"}, applied : 0..N],
           NEW s, NEW n, Persist(p, receipt, s, n),
           UNCHANGED <<content, plan, world, lost>>,
           journal' = receipt /\ UNCHANGED lock => Leaves(p, s, n) /\ FileInv'
    PROVE  TransactionInv'
<1>1. CASE journal' = receipt /\ Go(p, s, n) /\ UNCHANGED lock
  <2>1. \A q \in Process \ {p} : proc[q].at = "idle"
    BY OthersIdle
  <2> QED
    BY <1>1, <2>1, StepKeepsInv DEF TransactionInv, TransactionType
<1>2. CASE Stop(p) /\ UNCHANGED journal
  BY <1>2, QuietFiles, StopKeepsInv
<1> QED
  BY <1>1, <1>2 DEF Persist

-----------------------------------------------------------------------------
(* execute.                                                                *)

LEMMA BeginKeepsInv ==
    ASSUME TransactionInv, NEW p \in Process, Begin(p)
    PROVE  TransactionInv'
<1>1. lock = NoProcess
  BY DEF Begin, At, TransactionInv, TransactionType, LockInv, Holding
<1>2. Leaves(p, "plan", 0)
  BY <1>1, TransactionConstantsOK DEF Begin, Leaves, Steps, Holding
<1>3. \A q \in Process \ {p} : proc[q].at = "idle"
  BY DEF Begin, At
<1> QED
  BY <1>2, <1>3, QuietFiles, StepKeepsInv DEF Begin

LEMMA PlanFileKeepsInv ==
    ASSUME TransactionInv, NEW p \in Process, PlanFile(p)
    PROVE  TransactionInv'
<1>1. proc[p].at = "plan" /\ proc[p].applied \in 0..N /\ proc[p].applied < N
  BY DEF PlanFile, At, TransactionInv, TransactionType, LockInv
<1>2. \A q \in Process \ {p} : proc[q].at = "idle"
  BY <1>1, OthersIdle
<1>3. lock = NoProcess /\ journal = NoJournal
  BY <1>1, <1>2 DEF TransactionInv, TransactionType, LockInv, Holding
<1>4. \E s \in {"idle", "plan", "create"}, n \in 0..N : Go(p, s, n) /\ (s = "plan" => n < N)
  <2>1. CASE Go(p, "idle", 0)
    BY <2>1, TransactionConstantsOK
  <2>2. CASE Go(p, "create", 0)
    BY <2>2, TransactionConstantsOK
  <2>3. CASE Go(p, "plan", proc[p].applied + 1) /\ proc[p].applied + 1 # N
    BY <2>3, <1>1, TransactionConstantsOK
  <2> QED
    BY <2>1, <2>2, <2>3 DEF PlanFile, Progress
<1>5. PICK s \in {"idle", "plan", "create"}, n \in 0..N : Go(p, s, n) /\ (s = "plan" => n < N)
  BY <1>4
<1>6. Leaves(p, s, n)
  BY <1>3, <1>5 DEF Leaves, Steps, Holding, PlanFile
<1> QED
  BY <1>2, <1>5, <1>6, QuietFiles, StepKeepsInv DEF PlanFile

LEMMA CreateKeepsInv ==
    ASSUME TransactionInv, NEW p \in Process, Create(p)
    PROVE  TransactionInv'
<1>1. proc[p].at = "create"
  BY DEF Create, At
<1>2. CASE journal' = [state |-> "applying", applied |-> 0] /\ lock' = p /\ Go(p, "apply", 0)
  <2>1. \A q \in Process \ {p} : proc[q].at = "idle"
    BY <1>1, OthersIdle
  <2>2. journal = NoJournal
    BY <1>1 DEF TransactionInv, LockInv
  <2>3. Leaves(p, "apply", 0)
    BY <1>2, TransactionConstantsOK DEF Leaves, Steps, Holding
  <2>4. FileInv'
    BY <1>2, <2>2 DEF TransactionInv, FileInv, NoJournal, Create, plan, world
  <2> QED
    BY <1>2, <2>1, <2>3, <2>4, StepKeepsInv, TransactionConstantsOK
    DEF Create, TransactionInv, TransactionType
<1>3. CASE Stop(p) /\ UNCHANGED journal
  BY <1>1, <1>3, QuietFiles, StopKeepsInv DEF Create
<1> QED
  BY <1>2, <1>3 DEF Create

LEMMA IntendKeepsInv ==
    ASSUME TransactionInv, NEW p \in Process, Intend(p)
    PROVE  TransactionInv'
<1> DEFINE n == proc[p].applied + 1
           receipt == [state |-> "applying", applied |-> n]
<1>1. /\ proc[p].at = "apply" /\ proc[p].applied \in 0..N /\ n \in 1..N
      /\ lock = p /\ journal.applied = proc[p].applied
  BY TransactionConstantsOK DEF Intend, At, Progress, TransactionInv, TransactionType, LockInv, Holding
<1>2. Persist(p, receipt, "write", n)
  BY DEF Intend, Progress, Recorded
<1>3. ASSUME journal' = receipt, UNCHANGED lock PROVE Leaves(p, "write", n)
  BY <1>1, <1>3 DEF Leaves, Steps, Holding
<1>4. ASSUME journal' = receipt PROVE FileInv'
  <2>1. ASSUME NEW f \in File \ edited, f < n PROVE content[f] = text[f]
    <3>1. CASE f < proc[p].applied
      BY <1>1, <3>1 DEF TransactionInv, FileInv
    <3>2. CASE f = proc[p].applied
      BY <1>1, <3>2 DEF TransactionInv, StepInv
    <3> QED
      BY <1>1, <2>1, <3>1, <3>2
  <2>2. ASSUME NEW f \in File \ edited, f >= n PROVE content[f] = original[f]
    BY <1>1, <2>2 DEF TransactionInv, FileInv
  <2> QED
    BY <1>1, <1>4, <2>1, <2>2 DEF FileInv, Intend, plan, world
<1> QED
  BY <1>1, <1>2, <1>3, <1>4, PersistKeepsInv DEF Intend

LEMMA CheckKeepsInv ==
    ASSUME TransactionInv, NEW p \in Process, Check(p)
    PROVE  TransactionInv'
<1> DEFINE n == proc[p].applied
<1>1. proc[p].at = "write" /\ n \in 1..N /\ lock = p /\ journal.applied = n /\ journal.state # "none"
  BY DEF Check, At, TransactionInv, TransactionType, LockInv, StepInv, Holding
<1>2. \A q \in Process \ {p} : proc[q].at = "idle"
  BY <1>1, OthersIdle
<1>3. CASE Fresh(n, original[n]) /\ Go(p, IF text[n] = original[n] THEN "apply" ELSE "replace", n)
  <2>1. Leaves(p, IF text[n] = original[n] THEN "apply" ELSE "replace", n)
    BY <1>1, <1>3 DEF Leaves, Steps, Holding, Fresh, Check
  <2> QED
    BY <1>2, <1>3, <2>1, QuietFiles, StepKeepsInv DEF Check
<1>4. CASE Go(p, "reverse", n)
  <2>1. Leaves(p, "reverse", n)
    BY <1>1, <1>4 DEF Leaves, Steps, Holding, Check
  <2> QED
    BY <1>2, <1>4, <2>1, QuietFiles, StepKeepsInv DEF Check
<1> QED
  BY <1>3, <1>4 DEF Check, Progress

\* Only what the plan found or made is overwritten, or a file that was edited
\* within the window.
LEMMA PutKeepsFiles ==
    ASSUME TransactionInv, NEW n \in File, NEW c \in {original[n], text[n]}, Put(n, c),
           content[n] \in {original[n], text[n]} \/ n \in raced,
           journal.applied = n, UNCHANGED <<plan, journal, world>>
    PROVE  /\ content' \in [File -> {"old", "new", "other", Absent}]
           /\ content'[n] = c
           /\ FileInv'
           /\ lost' = {}
<1>1. content \in [File -> {"old", "new", "other", Absent}] /\ original[n] \in {"old", Absent}
      /\ text[n] \in {"new", "old"} /\ lost = {}
  BY DEF TransactionInv, TransactionType
<1>2. content' = [content EXCEPT ![n] = c] /\ lost' = {}
  BY <1>1 DEF Put
<1>3. content'[n] = c /\ \A f \in File \ {n} : content'[f] = content[f]
  BY <1>1, <1>2
<1>4. FileInv'
  BY <1>3 DEF TransactionInv, FileInv, plan, world
<1> QED
  BY <1>1, <1>2, <1>3, <1>4

LEMMA ReplaceKeepsInv ==
    ASSUME TransactionInv, NEW p \in Process, Replace(p)
    PROVE  TransactionInv'
<1> DEFINE n == proc[p].applied
<1>1. /\ proc[p].at = "replace" /\ n \in 1..N /\ lock = p /\ journal.applied = n
      /\ journal.state # "none"
      /\ content[n] = original[n] \/ n \in raced
  BY DEF Replace, At, TransactionInv, TransactionType, LockInv, StepInv, Holding
<1>2. \A q \in Process \ {p} : proc[q].at = "idle"
  BY <1>1, OthersIdle
<1>3. CASE Go(p, "reverse", n) /\ UNCHANGED <<content, lost>>
  <2>1. Leaves(p, "reverse", n)
    BY <1>1, <1>3 DEF Leaves, Steps, Holding, Replace
  <2> QED
    BY <1>2, <1>3, <2>1, QuietFiles, StepKeepsInv DEF Replace
<1>4. ASSUME Put(n, text[n]), NEW s \in {"apply", "reverse"}, Go(p, s, n)
      PROVE  TransactionInv'
  <2>1. /\ content' \in [File -> {"old", "new", "other", Absent}]
        /\ content'[n] = text[n]
        /\ FileInv'
        /\ lost' = {}
    BY <1>1, <1>4, PutKeepsFiles DEF Replace
  <2>2. Leaves(p, s, n)
    BY <1>1, <2>1 DEF Leaves, Steps, Holding, Replace
  <2> QED
    BY <1>2, <1>4, <2>1, <2>2, StepKeepsInv DEF Replace, TransactionInv, TransactionType
<1> QED
  BY <1>3, <1>4 DEF Replace, Progress

LEMMA FinishKeepsInv ==
    ASSUME TransactionInv, NEW p \in Process, Finish(p)
    PROVE  TransactionInv'
<1> DEFINE receipt == [state |-> "applied", applied |-> N]
<1>1. proc[p].at = "apply" /\ proc[p].applied = N /\ lock = p /\ journal.applied = N
  BY DEF Finish, At, Progress, TransactionInv, TransactionType, LockInv, Holding
<1>2. ASSUME journal' = receipt, UNCHANGED lock PROVE Leaves(p, "done", N)
  BY <1>1, <1>2, TransactionConstantsOK DEF Leaves, Steps, Holding
<1>3. ASSUME journal' = receipt PROVE FileInv'
  BY <1>1, <1>3 DEF FileInv, TransactionInv, Finish, plan, world
<1>4. receipt \in [state : {"applying", "applied", "recovered"}, applied : 0..N]
  BY TransactionConstantsOK
<1> QED
  BY <1>1, <1>2, <1>3, <1>4, PersistKeepsInv DEF Finish

-----------------------------------------------------------------------------
(* reverse.                                                                *)

LEMMA RecoverKeepsInv ==
    ASSUME TransactionInv, NEW p \in Process, Recover(p)
    PROVE  TransactionInv'
<1>1. lock = NoProcess /\ journal # NoJournal
  BY DEF Recover, LockFree
<1>2. \A q \in Process \ {p} : proc[q].at = "idle"
  BY <1>1, TransactionConstantsOK DEF TransactionInv, TransactionType, LockInv, Steps
<1>3. journal.state # "none"
  BY <1>1 DEF TransactionInv, TransactionType, FileInv, NoJournal
<1>4. Leaves(p, "reverse", journal.applied)
  BY <1>3 DEF Leaves, Steps, Holding, Recover, TransactionInv, TransactionType
<1> QED
  BY <1>2, <1>4, QuietFiles, StepKeepsInv DEF Recover

LEMMA LookKeepsInv ==
    ASSUME TransactionInv, NEW p \in Process, Look(p)
    PROVE  TransactionInv'
<1> DEFINE n == proc[p].applied
           s == IF Reversed(n) THEN "undone" ELSE "restore"
<1>1. proc[p].at = "reverse" /\ n \in 1..N /\ lock = p /\ journal.applied = n /\ journal.state # "none"
  BY DEF Look, At, Progress, TransactionInv, TransactionType, LockInv, Holding
<1>2. \A q \in Process \ {p} : proc[q].at = "idle"
  BY <1>1, OthersIdle
<1>3. CASE Go(p, s, n) /\ UNCHANGED lock
  <2>1. Leaves(p, s, n)
    BY <1>1, <1>3 DEF Leaves, Steps, Holding, Look, Reversed
  <2> QED
    BY <1>2, <1>3, <2>1, QuietFiles, StepKeepsInv DEF Look
<1>4. CASE Stop(p)
  BY <1>1, <1>4, QuietFiles, StopKeepsInv DEF Look
<1> QED
  BY <1>3, <1>4 DEF Look, Progress

LEMMA CheckRestoreKeepsInv ==
    ASSUME TransactionInv, NEW p \in Process, CheckRestore(p)
    PROVE  TransactionInv'
<1> DEFINE n == proc[p].applied
<1>1. proc[p].at = "restore" /\ n \in 1..N /\ lock = p /\ journal.applied = n /\ journal.state # "none"
  BY DEF CheckRestore, At, TransactionInv, TransactionType, LockInv, StepInv, Holding
<1>2. \A q \in Process \ {p} : proc[q].at = "idle"
  BY <1>1, OthersIdle
<1>3. CASE content[n] = text[n] /\ Go(p, "overwrite", n) /\ UNCHANGED lock
  <2>1. Leaves(p, "overwrite", n)
    BY <1>1, <1>3 DEF Leaves, Steps, Holding, CheckRestore
  <2> QED
    BY <1>2, <1>3, <2>1, QuietFiles, StepKeepsInv DEF CheckRestore
<1>4. CASE content[n] = original[n] /\ Go(p, "undone", n) /\ UNCHANGED lock
  <2>1. Leaves(p, "undone", n)
    BY <1>1, <1>4 DEF Leaves, Steps, Holding, CheckRestore
  <2> QED
    BY <1>2, <1>4, <2>1, QuietFiles, StepKeepsInv DEF CheckRestore
<1>5. CASE Stop(p)
  BY <1>1, <1>5, QuietFiles, StopKeepsInv DEF CheckRestore
<1> QED
  BY <1>3, <1>4, <1>5 DEF CheckRestore, Progress, Fresh

LEMMA OverwriteKeepsInv ==
    ASSUME TransactionInv, NEW p \in Process, Overwrite(p)
    PROVE  TransactionInv'
<1> DEFINE n == proc[p].applied
<1>1. /\ proc[p].at = "overwrite" /\ n \in 1..N /\ lock = p /\ journal.applied = n
      /\ journal.state # "none"
      /\ content[n] = text[n] \/ n \in raced
  BY DEF Overwrite, At, TransactionInv, TransactionType, LockInv, StepInv, Holding
<1>2. /\ content' \in [File -> {"old", "new", "other", Absent}]
      /\ content'[n] = original[n]
      /\ FileInv'
      /\ lost' = {}
  BY <1>1, PutKeepsFiles DEF Overwrite, Progress
<1>3. CASE Go(p, "undone", n) /\ UNCHANGED lock
  <2>1. Leaves(p, "undone", n)
    BY <1>1, <1>2, <1>3 DEF Leaves, Steps, Holding, Overwrite
  <2>2. \A q \in Process \ {p} : proc[q].at = "idle"
    BY <1>1, OthersIdle
  <2> QED
    BY <1>2, <1>3, <2>1, <2>2, StepKeepsInv DEF Overwrite, TransactionInv, TransactionType
<1>4. CASE Stop(p)
  BY <1>1, <1>2, <1>4, StopKeepsInv DEF Overwrite
<1> QED
  BY <1>3, <1>4 DEF Overwrite, Progress

LEMMA UndoneKeepsInv ==
    ASSUME TransactionInv, NEW p \in Process, Undone(p)
    PROVE  TransactionInv'
<1> DEFINE n == proc[p].applied
           receipt == [journal EXCEPT !.applied = n - 1]
<1>1. /\ proc[p].at = "undone" /\ n \in 1..N /\ n - 1 \in 0..N /\ lock = p
      /\ journal.applied = n /\ journal.state # "none"
      /\ n \notin edited => content[n] = original[n]
  BY TransactionConstantsOK
  DEF Undone, At, TransactionInv, TransactionType, LockInv, StepInv, Holding
<1>2. journal.state \in {"applying", "applied"}
  BY <1>1 DEF TransactionInv, TransactionType, FileInv
<1>3. receipt \in [state : {"applying", "applied", "recovered"}, applied : 0..N]
      /\ receipt.state = journal.state /\ receipt.applied = n - 1
  BY <1>1, <1>2 DEF TransactionInv, TransactionType
<1> HIDE DEF receipt
<1>4. ASSUME journal' = receipt, UNCHANGED lock PROVE Leaves(p, "reverse", n - 1)
  BY <1>1, <1>3, <1>4 DEF Leaves, Steps, Holding
<1>5. ASSUME journal' = receipt PROVE FileInv'
  <2>1. ASSUME NEW f \in File \ edited, f >= n PROVE content[f] = original[f]
    BY <1>1, <2>1 DEF TransactionInv, FileInv
  <2>2. ASSUME NEW f \in File \ edited, f < n PROVE content[f] = text[f]
    BY <1>1, <2>2 DEF TransactionInv, FileInv
  <2> QED
    BY <1>1, <1>2, <1>3, <1>5, <2>1, <2>2 DEF FileInv, Undone, plan, world
<1> QED
  BY <1>1, <1>3, <1>4, <1>5, PersistKeepsInv DEF Undone, Progress, receipt

LEMMA CloseKeepsInv ==
    ASSUME TransactionInv, NEW p \in Process, Close(p)
    PROVE  TransactionInv'
<1> DEFINE receipt == [state |-> "recovered", applied |-> 0]
<1>1. proc[p].at = "reverse" /\ proc[p].applied = 0 /\ lock = p /\ journal.applied = 0
  BY DEF Close, At, Progress, TransactionInv, TransactionType, LockInv, Holding
<1>2. ASSUME journal' = receipt, UNCHANGED lock PROVE Leaves(p, "done", 0)
  BY <1>1, <1>2, TransactionConstantsOK DEF Leaves, Steps, Holding
<1>3. ASSUME journal' = receipt PROVE FileInv'
  BY <1>1, <1>3 DEF FileInv, TransactionInv, Close, plan, world
<1>4. receipt \in [state : {"applying", "applied", "recovered"}, applied : 0..N]
  BY TransactionConstantsOK
<1> QED
  BY <1>1, <1>2, <1>3, <1>4, PersistKeepsInv DEF Close

-----------------------------------------------------------------------------
(* The others, and the theorems.                                           *)

\* An edit leaves the plan, the journal and the processes alone; the file is
\* edited from then on, and raced if it is about to be replaced.
LEMMA EditKeepsInv ==
    ASSUME TransactionInv, NEW f \in File, NEW c \in {"old", "new", "other", Absent}, Edit(f, c)
    PROVE  TransactionInv'
<1>1. /\ content' = [content EXCEPT ![f] = c]
      /\ edited' = edited \cup {f}
      /\ UNCHANGED <<original, text, journal, lock, proc, lost>>
  BY DEF Edit, plan
<1>2. \A g \in File \ edited' : content'[g] = content[g]
  BY <1>1 DEF TransactionInv, TransactionType
<1>3. TransactionType' /\ LockInv' /\ lost' = {}
  BY <1>1 DEF TransactionInv, TransactionType, LockInv, Edit
<1>4. FileInv'
  BY <1>1, <1>2 DEF TransactionInv, FileInv
<1>5. ASSUME NEW p \in Process, proc[p].at \in {"replace", "overwrite"}
      PROVE  LET n == proc[p].applied
             IN  /\ n = f => n \in raced'
                 /\ n # f => content'[n] = content[n] /\ (n \in raced => n \in raced')
  BY <1>1, <1>5 DEF Edit, Progress, TransactionInv, TransactionType
<1>6. StepInv'
  BY <1>1, <1>2, <1>5 DEF TransactionInv, TransactionType, StepInv
<1> QED
  BY <1>3, <1>4, <1>6 DEF TransactionInv

LEMMA InitInv == Init => TransactionInv
<1> SUFFICES ASSUME Init PROVE TransactionInv
  OBVIOUS
<1>1. TransactionType
  BY TransactionConstantsOK DEF Init, TransactionType, NoJournal, Idle, Steps
<1>2. LockInv /\ StepInv
  BY TransactionConstantsOK DEF Init, LockInv, StepInv, Idle, Holding
<1>3. FileInv /\ lost = {}
  BY DEF Init, FileInv, NoJournal
<1> QED
  BY <1>1, <1>2, <1>3 DEF TransactionInv

LEMMA NextInv == TransactionInv /\ [Next]_vars => TransactionInv'
<1> SUFFICES ASSUME TransactionInv, [Next]_vars PROVE TransactionInv'
  OBVIOUS
<1>1. CASE UNCHANGED vars
  BY <1>1 DEF vars, plan, world, TransactionInv, TransactionType, LockInv, StepInv, FileInv
<1>2. ASSUME NEW f \in File, NEW c \in {"old", "new", "other", Absent}, Edit(f, c)
      PROVE  TransactionInv'
  BY <1>2, EditKeepsInv
<1>3. ASSUME NEW p \in Process, Begin(p) \/ Step(p) \/ Recover(p)
      PROVE  TransactionInv'
  <2>1. CASE Exit(p)
    BY <2>1, QuietFiles, StopKeepsInv DEF Exit, At
  <2> QED
    BY <1>3, <2>1, BeginKeepsInv, PlanFileKeepsInv, CreateKeepsInv, IntendKeepsInv,
       CheckKeepsInv, ReplaceKeepsInv, FinishKeepsInv, RecoverKeepsInv, LookKeepsInv,
       CheckRestoreKeepsInv, OverwriteKeepsInv, UndoneKeepsInv, CloseKeepsInv DEF Step
<1>4. ASSUME NEW p \in Process, Crash(p)
      PROVE  TransactionInv'
  BY <1>4, QuietFiles, StopKeepsInv DEF Crash, At
<1> QED
  BY <1>1, <1>2, <1>3, <1>4 DEF Next

LEMMA SpecInv == Spec => []TransactionInv
BY InitInv, NextInv, PTL DEF Spec

\* Neither execute nor reverse overwrites what somebody else wrote to a file
\* outside of the window between commit's last comparison and its rename, for
\* any number of files, processes, edits and faults.
THEOREM EditsAlwaysSurvive == Spec => []EditsSurvive
<1>1. TransactionInv => EditsSurvive
  BY DEF TransactionInv, EditsSurvive
<1> QED
  BY <1>1, SpecInv, PTL

\* persist comes before commit: wherever execute or reverse dies, a file the
\* receipt does not count among the applied ones is as the plan found it.
THEOREM AlwaysJournaled == Spec => []Journaled
<1>1. TransactionInv => Journaled
  BY DEF TransactionInv, FileInv, Journaled
<1> QED
  BY <1>1, SpecInv, PTL

\* A receipt in state recovered or applied is right about every file that
\* nobody else has edited.
THEOREM ReceiptAlwaysTrue == Spec => []ReceiptIsTrue
<1>1. TransactionInv => ReceiptIsTrue
  BY DEF TransactionInv, TransactionType, FileInv, ReceiptIsTrue
<1> QED
  BY <1>1, SpecInv, PTL
=============================================================================
