--------------------------- MODULE DurableJournal ---------------------------
(***************************************************************************)
(* The journal file of glass-core's durable store                          *)
(* (crates/glass-core/src/durable.rs): processes that open it under an     *)
(* exclusive lock, append one frame per commit, and may fail, die or lose  *)
(* power at every point of an append; and a client that polls the journal  *)
(* with `changes`.                                                         *)
(*                                                                         *)
(* A batch of operations is an opaque value of Op.  The SHA-256 chain is   *)
(* modelled as collision free: the hash of a frame is the history of the   *)
(* batches up to and including it.                                         *)
(***************************************************************************)
EXTENDS Sequences, Naturals

CONSTANTS
    Process,    \* the processes that may open the store
    NoProcess,  \* the holder of a free lock
    Op,         \* the batches of operations
    NoOp,       \* what a line that is not a frame reads as
    MaxFrames,  \* bound on the length of the journal
    Large,      \* the batches too large for a page of changes
    PageSize    \* commits per page of changes (at most 100 in the code)

ASSUME JournalConstantsOK ==
    /\ NoProcess \notin Process
    /\ NoOp \notin Op
    /\ MaxFrames \in Nat
    /\ Large \subseteq Op
    /\ PageSize \in Nat \ {0}

Frame == [sequence : Nat, previous : Seq(Op), ops : Op]
Garbage == [sequence |-> 0, previous |-> <<>>, ops |-> NoOp]

VARIABLES
    fsync,     \* log_fsync = "always", a setting that does not change
    outage,    \* whether the machine has lost power
    file,      \* the complete lines of durable.jsonl
    tail,      \* what follows the last newline: nothing, the beginning of a
               \* frame, or pieces of several
    synced,    \* the lines that survive a loss of power
    lock,      \* the process that holds durable.lock
    pc,        \* where each process is in opening and committing
    state,     \* the history each process has applied: its sequence is the length
    pending,   \* the batch each process is appending
    poisoned,  \* whether each process refuses to write until it reopens
    acked,     \* the history as of the last commit that returned Ok
    seen       \* what the polling client has received: its cursor is the length

files == <<file, tail, synced>>
memory == <<state, pending, poisoned>>
power == <<fsync, outage>>
vars == <<power, files, lock, pc, memory, acked, seen>>

-----------------------------------------------------------------------------
\* The batches recorded in the first n lines.
Batches(lines, n) == [i \in 1..n |-> lines[i].ops]
History(lines) == Batches(lines, Len(lines))

\* What Store::open verifies: every line parses, the sequence numbers are
\* consecutive and each frame carries the hash of the one before.
Verified(lines) ==
    \A i \in 1..Len(lines) :
        /\ lines[i] # Garbage
        /\ lines[i].sequence = i
        /\ lines[i].previous = Batches(lines, i - 1)

Init ==
    /\ fsync \in BOOLEAN
    /\ outage = FALSE
    /\ file = <<>>
    /\ tail = "none"
    /\ synced = 0
    /\ lock = NoProcess
    /\ pc = [p \in Process |-> "closed"]
    /\ state = [p \in Process |-> <<>>]
    /\ pending = [p \in Process |-> NoOp]
    /\ poisoned = [p \in Process |-> FALSE]
    /\ acked = <<>>
    /\ seen = <<>>

\* try_lock_exclusive succeeds.
LockFree == lock = NoProcess

\* Mutant of DiscardTail: a torn final frame is left in the file.
KeepTail == UNCHANGED files

\* Bytes after the last newline are cut off, and with log_fsync the file is then
\* synced.
DiscardTail ==
    /\ tail' = "none"
    /\ synced' = IF fsync /\ tail # "none" THEN Len(file) ELSE synced
    /\ UNCHANGED file

Open(p) ==
    /\ pc[p] = "closed"
    /\ LockFree
    /\ Verified(file)
    /\ DiscardTail
    /\ lock' = p
    /\ pc' = [pc EXCEPT ![p] = "open"]
    /\ state' = [state EXCEPT ![p] = History(file)]
    /\ poisoned' = [poisoned EXCEPT ![p] = FALSE]
    /\ UNCHANGED <<power, pending, acked, seen>>

\* commit passes its checks: the store is not poisoned, the expected sequence
\* is the current one and the batch applies.  A refused commit changes nothing.
BeginCommit(p, op) ==
    /\ pc[p] = "open"
    /\ ~poisoned[p]
    /\ Len(file) < MaxFrames
    /\ pc' = [pc EXCEPT ![p] = "append"]
    /\ pending' = [pending EXCEPT ![p] = op]
    /\ UNCHANGED <<power, files, lock, state, poisoned, acked, seen>>

\* write_all has put out some bytes of the frame.
WriteSome(p) ==
    /\ pc[p] = "append"
    /\ pc' = [pc EXCEPT ![p] = "partial"]
    /\ tail' = IF tail = "none" THEN "partial" ELSE "mixed"
    /\ UNCHANGED <<power, file, synced, lock, memory, acked, seen>>

\* Mutant of NewFrame: the batch is not part of the frame.
NewFrameUnchained(p) ==
    [sequence |-> Len(state[p]) + 1, previous |-> state[p], ops |-> NoOp]

NewFrame(p) ==
    [sequence |-> Len(state[p]) + 1, previous |-> state[p], ops |-> pending[p]]

\* write_all has put out the rest, and the newline.
WriteRest(p) ==
    /\ pc[p] = "partial"
    /\ pc' = [pc EXCEPT ![p] = "written"]
    /\ file' = Append(file, IF tail = "partial" THEN NewFrame(p) ELSE Garbage)
    /\ tail' = "none"
    /\ UNCHANGED <<power, synced, lock, memory, acked, seen>>

\* Mutant of SyncData: the commit is acknowledged without a sync.
SkipSync == UNCHANGED files

SyncData ==
    /\ synced' = IF fsync THEN Len(file) ELSE synced
    /\ UNCHANGED <<file, tail>>

\* The sync, if there is one, succeeds, and commit returns Ok.
EndCommit(p) ==
    /\ pc[p] = "written"
    /\ SyncData
    /\ pc' = [pc EXCEPT ![p] = "open"]
    /\ state' = [state EXCEPT ![p] = Append(@, pending[p])]
    /\ pending' = [pending EXCEPT ![p] = NoOp]
    /\ acked' = state'[p]
    /\ UNCHANGED <<power, lock, poisoned, seen>>

\* Mutant of Poisoned: an uncertain append leaves the writer usable.
StillUsable(p) == UNCHANGED poisoned

Poisoned(p) == poisoned' = [poisoned EXCEPT ![p] = TRUE]

\* The write or the sync fails, and commit returns an error.  Once the whole
\* frame is written only a sync can still fail.
FailCommit(p) ==
    /\ pc[p] \in {"append", "partial", "written"}
    /\ pc[p] = "written" => fsync
    /\ Poisoned(p)
    /\ pc' = [pc EXCEPT ![p] = "open"]
    /\ pending' = [pending EXCEPT ![p] = NoOp]
    /\ UNCHANGED <<power, files, lock, state, acked, seen>>

\* The host gives the store up after a commit that was refused.
Poison(p) ==
    /\ pc[p] = "open"
    /\ ~poisoned[p]
    /\ Poisoned(p)
    /\ UNCHANGED <<power, files, lock, pc, state, pending, acked, seen>>

\* The store is dropped, or its process dies wherever it is.
Exit(p) ==
    /\ pc[p] # "closed"
    /\ pc' = [pc EXCEPT ![p] = "closed"]
    /\ lock' = IF lock = p THEN NoProcess ELSE lock
    /\ state' = [state EXCEPT ![p] = <<>>]
    /\ pending' = [pending EXCEPT ![p] = NoOp]
    /\ poisoned' = [poisoned EXCEPT ![p] = FALSE]
    /\ UNCHANGED <<power, files, acked, seen>>

\* All processes die, and of what was not synced any prefix is left.  Without
\* log_fsync the store promises nothing about a loss of power.
LosePower(n) ==
    /\ fsync
    /\ outage' = TRUE
    /\ synced <= n
    /\ file' = SubSeq(file, 1, n)
    /\ tail' \in {"none"} \cup (IF n < Len(file) \/ tail # "none" THEN {"partial"} ELSE {})
    /\ synced' = n
    /\ lock' = NoProcess
    /\ pc' = [p \in Process |-> "closed"]
    /\ state' = [p \in Process |-> <<>>]
    /\ pending' = [p \in Process |-> NoOp]
    /\ poisoned' = [p \in Process |-> FALSE]
    /\ UNCHANGED <<fsync, acked, seen>>

\* Mutant of Page: the commit at the cursor is sent again.
PageFromCursor(last) == SubSeq(History(file), IF seen = <<>> THEN 1 ELSE Len(seen), last)

\* The commits after the client's cursor, up to number `last`.
Page(last) == SubSeq(History(file), Len(seen) + 1, last)

\* changes(cursor) reads the file.  A page ends before a commit that would
\* exceed the limit on commits or on bytes; that commit, or what follows the
\* last one, is read and must parse.  A cursor beyond the store's sequence
\* is an error.
ReadChanges(p, last) ==
    /\ pc[p] = "open"
    /\ Len(seen) <= Len(state[p])
    /\ last \in Len(seen) + 1..Len(seen) + PageSize
    /\ last < Len(file) \/ tail = "none"
    /\ \A i \in Len(seen) + 1..last : file[i].ops \notin Large
    /\ seen' = seen \o Page(last)
    /\ UNCHANGED <<power, files, lock, pc, memory, acked>>

\* The first commit of the page is too large for any page: the client is told
\* to reacquire the state, and gets its sequence as the cursor.
ResetChanges(p) ==
    /\ pc[p] = "open"
    /\ Len(seen) <= Len(state[p])
    /\ Len(seen) < Len(file)
    /\ file[Len(seen) + 1].ops \in Large
    /\ seen' = state[p]
    /\ UNCHANGED <<power, files, lock, pc, memory, acked>>

Next ==
    \/ \E p \in Process :
        \/ Open(p)
        \/ \E op \in Op : BeginCommit(p, op)
        \/ WriteSome(p)
        \/ WriteRest(p)
        \/ EndCommit(p)
        \/ FailCommit(p)
        \/ Poison(p)
        \/ Exit(p)
        \/ \E last \in 1..Len(file) : ReadChanges(p, last)
        \/ ResetChanges(p)
    \/ \E n \in 0..Len(file) : LosePower(n)

Spec == Init /\ [][Next]_vars
-----------------------------------------------------------------------------
(* Properties.                                                             *)

\* Every variable has its type.
TypeOK ==
    /\ fsync \in BOOLEAN
    /\ outage \in BOOLEAN
    /\ file \in Seq(Frame \cup {Garbage})
    /\ tail \in {"none", "partial", "mixed"}
    /\ synced \in 0..Len(file)
    /\ lock \in Process \cup {NoProcess}
    /\ pc \in [Process -> {"closed", "open", "append", "partial", "written"}]
    /\ state \in [Process -> Seq(Op)]
    /\ pending \in [Process -> Op \cup {NoOp}]
    /\ poisoned \in [Process -> BOOLEAN]
    /\ acked \in Seq(Op)
    /\ seen \in Seq(Op)

\* Whatever failed, died or lost power before, the journal verifies, so that
\* the store can be opened again: no frame is ever appended to a torn one, by
\* a second writer, or by a writer that does not know the journal's end.
JournalOpens == Verified(file)

\* The history h is a prefix of what the journal holds.
Recorded(h) == Len(h) <= Len(file) /\ h = Batches(file, Len(h))

\* Reads are served from memory, and the journal is the authority: a usable
\* store that is not in the middle of an append holds exactly the journal.
MemoryIsJournal ==
    \A p \in Process : pc[p] = "open" /\ ~poisoned[p] => state[p] = History(file)

\* What a client collected by polling is the beginning of the journal: no
\* commit is skipped, repeated or taken back, across errors and restarts.
\* Only a loss of power can take back a frame that a client has seen, if the
\* sync of that frame had failed.
ObservedIsHistory == ~outage => Recorded(seen)

\* The journal implements DurableLog.
Log == INSTANCE DurableLog WITH log <- History(file)
ImplementsLog == Log!Spec
=============================================================================
