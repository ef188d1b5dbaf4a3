-------------------------- MODULE FileTransactions --------------------------
(***************************************************************************)
(* A multi-file change of glass-core                                       *)
(* (crates/glass-core/src/transactions.rs over files.rs): one process      *)
(* checks all files, journals each replacement before it makes it, and     *)
(* takes the replacements back when one fails; after a death another       *)
(* process does so from the journal.  Others edit the files meanwhile.     *)
(*                                                                         *)
(* The content of a file is an opaque value.  A replacement is a rename,   *)
(* or a link for a file that did not exist, made after the content was     *)
(* compared with the expected one: the two are separate steps here, and    *)
(* an edit that comes between them is known to be unprotected.             *)
(***************************************************************************)
EXTENDS Naturals, FiniteSets

CONSTANTS
    Process,    \* processes that apply or recover the transaction
    NoProcess,  \* the holder of a free lock
    N,          \* the number of files in the plan
    MaxEdits,   \* bound on the edits by others
    MaxFaults   \* bound on deaths and failures of the file system

ASSUME TransactionConstantsOK ==
    /\ NoProcess \notin Process
    /\ N \in Nat \ {0}
    /\ MaxEdits \in Nat
    /\ MaxFaults \in Nat

File == 1..N
Absent == "absent"

VARIABLES
    content,   \* the content of each file
    original,  \* what the plan expects of each file, kept in the journal
    text,      \* what the plan makes of each file
    journal,   \* the saved receipt
    lock,      \* the process that holds the receipt's lock
    proc,      \* where each process is, and its copy of the receipt's progress
    edits,     \* the number of edits by others
    edited,    \* the files that others have edited
    raced,     \* those whose last edit came between a check and a replacement
    lost,      \* those of which an edit was overwritten otherwise
    faults     \* the number of faults

plan == <<original, text>>
world == <<edits, edited, raced>>
vars == <<content, plan, journal, lock, proc, world, lost, faults>>

NoJournal == [state |-> "none", applied |-> 0]
Idle == [at |-> "idle", applied |-> 0]

At(p, step) == proc[p].at = step
Progress(p) == proc[p].applied
Go(p, step, n) == proc' = [proc EXCEPT ![p] = [at |-> step, applied |-> n]]

\* The plan changes existing files, and may leave one as it is, and creates
\* files.
Init ==
    /\ original \in [File -> {"old", Absent}]
    /\ text \in [File -> {"new", "old"}]
    /\ content = original
    /\ journal = NoJournal
    /\ lock = NoProcess
    /\ proc = [p \in Process |-> Idle]
    /\ edits = 0
    /\ edited = {}
    /\ raced = {}
    /\ lost = {}
    /\ faults = 0

\* Something fails: a write, a sync, a lock that cannot be had in time.
Fault == faults < MaxFaults /\ faults' = faults + 1
NoFault == UNCHANGED faults

Unlock(p) == lock' = IF lock = p THEN NoProcess ELSE lock

\* The process gives up with an error, or is done.
Stop(p) == Go(p, "idle", 0) /\ Unlock(p)

-----------------------------------------------------------------------------
(* execute                                                                 *)

Begin(p) ==
    /\ At(p, "idle")
    /\ journal = NoJournal
    /\ \A q \in Process : At(q, "idle")
    /\ Go(p, "plan", 0)
    /\ UNCHANGED <<content, plan, journal, lock, world, lost, faults>>

\* Every file is validated and its content compared with the expected one.
PlanFile(p) ==
    LET f == Progress(p) + 1
    IN  /\ At(p, "plan")
        /\ IF content[f] # original[f] THEN Go(p, "idle", 0)
           ELSE IF f = N THEN Go(p, "create", 0) ELSE Go(p, "plan", f)
        /\ UNCHANGED <<content, plan, journal, lock, world, lost, faults>>

\* Mutant of LockFree: the receipt is not locked.
LockIgnored == TRUE

\* try_lock_exclusive succeeds.
LockFree == lock = NoProcess

Create(p) ==
    /\ At(p, "create")
    /\ LockFree
    /\ \/ /\ journal' = [state |-> "applying", applied |-> 0]
          /\ lock' = p
          /\ Go(p, "apply", 0)
          /\ NoFault
       \/ /\ Fault
          /\ Stop(p)
          /\ UNCHANGED journal
    /\ UNCHANGED <<content, plan, world, lost>>

\* persist, and go on to `step` with n files in progress.  A receipt that
\* cannot be saved stops the process.
Persist(p, receipt, step, n) ==
    \/ /\ journal' = receipt
       /\ Go(p, step, n)
       /\ NoFault
       /\ UNCHANGED lock
    \/ /\ Fault
       /\ Stop(p)
       /\ UNCHANGED journal

\* Mutant of Recorded: the journal follows the replacement.
RecordedLate(n) == n - 1

\* The progress that is saved before the n-th file is replaced.
Recorded(n) == n

\* The next replacement is journaled before it is made.
Intend(p) ==
    /\ At(p, "apply")
    /\ Progress(p) < N
    /\ Persist(p, [state |-> "applying", applied |-> Recorded(Progress(p) + 1)],
                  "write", Progress(p) + 1)
    /\ UNCHANGED <<content, plan, world, lost>>

\* Mutant of Fresh: the content is not compared again.
FreshAlways(f, expected) == TRUE

\* The revision of the file is the expected one.
Fresh(f, expected) == content[f] = expected

\* The check of commit.  A file that already has the new text is not written;
\* a refusal and a fault lead to the reversal.
Check(p) ==
    LET f == Progress(p)
    IN  /\ At(p, "write")
        /\ \/ /\ Fresh(f, original[f])
              /\ Go(p, IF text[f] = original[f] THEN "apply" ELSE "replace", f)
              /\ NoFault
           \/ /\ ~Fresh(f, original[f])
              /\ Go(p, "reverse", f)
              /\ NoFault
           \/ /\ Fault
              /\ Go(p, "reverse", f)
        /\ UNCHANGED <<content, plan, journal, lock, world, lost>>

\* File f gets content c.  What was there is lost, if it is neither what the
\* plan found nor what it made.
Put(f, c) ==
    /\ content' = [content EXCEPT ![f] = c]
    /\ lost' = IF content[f] \in {original[f], text[f]} \/ f \in raced THEN lost ELSE lost \cup {f}

\* The rename; a link for a new file does not replace one that has come into
\* being.  The sync of the directory may still fail.
Replace(p) ==
    LET f == Progress(p)
    IN  /\ At(p, "replace")
        /\ IF original[f] = Absent /\ content[f] # Absent
           THEN Go(p, "reverse", f) /\ NoFault /\ UNCHANGED <<content, lost>>
           ELSE /\ Put(f, text[f])
                /\ \/ Go(p, "apply", f) /\ NoFault
                   \/ Go(p, "reverse", f) /\ Fault
        /\ UNCHANGED <<plan, journal, lock, world>>

Finish(p) ==
    /\ At(p, "apply")
    /\ Progress(p) = N
    /\ Persist(p, [state |-> "applied", applied |-> N], "done", N)
    /\ UNCHANGED <<content, plan, world, lost>>

-----------------------------------------------------------------------------
(* reverse, after a failure or by `gc transaction recover`.                *)

Recover(p) ==
    /\ At(p, "idle")
    /\ journal # NoJournal
    /\ LockFree
    /\ lock' = p
    /\ Go(p, "reverse", journal.applied)
    /\ UNCHANGED <<content, plan, journal, world, lost, faults>>

\* Mutant of Reversed: a file that was never replaced must be there as text.
ReversedNever(f) == FALSE

\* The file still, or again, has its original content.
Reversed(f) == content[f] = original[f]

\* The current content is read.
Look(p) ==
    LET f == Progress(p)
    IN  /\ At(p, "reverse")
        /\ f > 0
        /\ \/ /\ Go(p, IF Reversed(f) THEN "undone" ELSE "restore", f)
              /\ NoFault
              /\ UNCHANGED lock
           \/ Fault /\ Stop(p)
        /\ UNCHANGED <<content, plan, journal, world, lost>>

\* The write of the original, or the removal of a created file, expects the
\* new text, and refuses anything else.  A created file that is gone is done.
CheckRestore(p) ==
    LET f == Progress(p)
    IN  /\ At(p, "restore")
        /\ \/ /\ Fresh(f, text[f])
              /\ Go(p, "overwrite", f)
              /\ NoFault
              /\ UNCHANGED lock
           \/ /\ original[f] = Absent
              /\ content[f] = Absent
              /\ Go(p, "undone", f)
              /\ NoFault
              /\ UNCHANGED lock
           \/ /\ ~Fresh(f, text[f])
              /\ ~(original[f] = Absent /\ content[f] = Absent)
              /\ Stop(p)
              /\ NoFault
           \/ Fault /\ Stop(p)
        /\ UNCHANGED <<content, plan, journal, world, lost>>

\* A created file that has vanished since it was compared makes unlinkat fail in
\* the code; here it is given back as absent, which it is.
Overwrite(p) ==
    LET f == Progress(p)
    IN  /\ At(p, "overwrite")
        /\ Put(f, original[f])
        /\ \/ Go(p, "undone", f) /\ NoFault /\ UNCHANGED lock
           \/ Fault /\ Stop(p)
        /\ UNCHANGED <<plan, journal, world>>

Undone(p) ==
    /\ At(p, "undone")
    /\ Persist(p, [journal EXCEPT !.applied = Progress(p) - 1], "reverse", Progress(p) - 1)
    /\ UNCHANGED <<content, plan, world, lost>>

Close(p) ==
    /\ At(p, "reverse")
    /\ Progress(p) = 0
    /\ Persist(p, [state |-> "recovered", applied |-> 0], "done", 0)
    /\ UNCHANGED <<content, plan, world, lost>>

-----------------------------------------------------------------------------
Exit(p) ==
    /\ At(p, "done")
    /\ Stop(p)
    /\ UNCHANGED <<content, plan, journal, world, lost, faults>>

\* The process dies; the lock goes with it.
Crash(p) ==
    /\ ~At(p, "idle")
    /\ Fault
    /\ Stop(p)
    /\ UNCHANGED <<content, plan, journal, world, lost>>

\* Somebody else changes, creates or removes a file, without any lock.
Edit(f, c) ==
    /\ edits < MaxEdits
    /\ c # content[f]
    /\ content' = [content EXCEPT ![f] = c]
    /\ edits' = edits + 1
    /\ edited' = edited \cup {f}
    /\ raced' = IF \E p \in Process : proc[p].at \in {"replace", "overwrite"} /\ Progress(p) = f
                THEN raced \cup {f} ELSE raced \ {f}
    /\ UNCHANGED <<plan, journal, lock, proc, lost, faults>>

Step(p) ==
    \/ PlanFile(p) \/ Create(p) \/ Intend(p) \/ Check(p) \/ Replace(p) \/ Finish(p)
    \/ Look(p) \/ CheckRestore(p) \/ Overwrite(p) \/ Undone(p) \/ Close(p) \/ Exit(p)

Next ==
    \/ \E p \in Process : Begin(p) \/ Step(p) \/ Recover(p) \/ Crash(p)
    \/ \E f \in File, c \in {"old", "new", "other", Absent} : Edit(f, c)

\* A process that runs goes on, and somebody asks for recovery, and again
\* after it failed.
Fairness == \A p \in Process : WF_vars(Step(p)) /\ WF_vars(Recover(p))

Spec == Init /\ [][Next]_vars /\ Fairness
-----------------------------------------------------------------------------
(* Properties.                                                             *)

\* "Recovery refuses later edits": neither the transaction nor its recovery
\* overwrites what somebody else wrote, except within the window between the
\* last comparison and the rename.
EditsSurvive == lost = {}

\* "Save the intended operation before applying": wherever a process dies,
\* the files the journal does not mention are as they were.
Journaled ==
    \A f \in File \ edited : f > journal.applied => content[f] = original[f]

\* A receipt that says "recovered" or "applied" is right about every file
\* that nobody else has edited, until a later recovery gets to the file.
ReceiptIsTrue ==
    \A f \in File \ edited :
        /\ journal.state = "recovered" => content[f] = original[f]
        /\ journal.state = "applied" /\ f < journal.applied => content[f] = text[f]

\* When nobody else edits the files, recovery restores all of them, from
\* wherever the process died and however often recovery itself failed.
RecoveryCompletes ==
    journal # NoJournal /\ edits = 0 ~> journal.state = "recovered" \/ edits # 0
=============================================================================
