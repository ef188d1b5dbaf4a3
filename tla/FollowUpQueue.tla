--------------------------- MODULE FollowUpQueue ---------------------------
(***************************************************************************)
(* The saved queue of a session's follow-ups and corrections               *)
(* (crates/glass-core/src/queue.rs).  The queue is kept in memory and in a *)
(* sidecar file that is replaced as a whole.  Delivering a prompt appends  *)
(* a numbered receipt and the prompt to the session's log, and then saves  *)
(* the shorter queue; a process that dies between the two is made good by  *)
(* Queue::open, which takes a prompt off the saved queue for every receipt *)
(* that the sidecar does not know of.  A receipt counts when a user record *)
(* is directly behind it, whoever wrote that record.                       *)
(*                                                                         *)
(* Of the log, the model keeps the receipts and what is directly behind    *)
(* each: the prompt that was delivered with it, a record that was appended *)
(* later because the delivery was torn, or nothing yet.                    *)
(*                                                                         *)
(* Every prompt is a message of its own, so that it can be told whether    *)
(* one is lost or delivered twice.                                         *)
(***************************************************************************)
EXTENDS Sequences, Naturals, SequencesExt

CONSTANTS
    Message,    \* the prompts
    NoMessage,  \* no prompt
    MaxLog,     \* bound on the deliveries in a log
    MaxBranch   \* bound on the branches that are made

ASSUME QueueConstantsOK ==
    /\ NoMessage \notin Message
    /\ MaxLog \in Nat
    /\ MaxBranch \in Nat

VARIABLES
    log,        \* the receipts in the session's log, each with what follows it
    sidecar,    \* the saved queue, or none
    queue,      \* the queue in memory
    process,    \* whether a process has the session open, and what it is doing
    refused,    \* whether a failed append has disabled writes to the log
    accepted,   \* the prompts that were acknowledged in this session
    withdrawn,  \* the ones of them that were removed or replaced again
    branches    \* the number of branches made

vars == <<log, sidecar, queue, process, refused, accepted, withdrawn, branches>>

Empty == [pending |-> <<>>, steer |-> NoMessage, delivered |-> 0]
NoFile == [exists |-> FALSE, queue |-> Empty]
File(q) == [exists |-> TRUE, queue |-> q]

IsEmpty(q) == q.pending = <<>> /\ q.steer = NoMessage
Prompts(q) == ToSet(q.pending) \cup ({q.steer} \ {NoMessage})
Logged == {log[i].prompt : i \in 1..Len(log)} \ {NoMessage}

\* A receipt, the kind of the record directly behind it ("nothing", "user" or
\* "other"), and the prompt of the queue if it is that record.
Receipt(n, next, m) == [seq |-> n, next |-> next, prompt |-> m]

\* The receipts of L after a record of this kind is appended to the log: only
\* a receipt that is the last record gets it as its next record.
Followed(L, kind) ==
    IF L # <<>> /\ Last(L).next = "nothing" THEN [L EXCEPT ![Len(L)].next = kind] ELSE L

\* A correction goes before queued work.
NextPrompt(q) == IF q.steer # NoMessage THEN q.steer ELSE Head(q.pending)

TakeNext(q) ==
    IF q.steer # NoMessage THEN [q EXCEPT !.steer = NoMessage]
    ELSE IF q.pending = <<>> THEN q
    ELSE [q EXCEPT !.pending = Tail(@)]

-----------------------------------------------------------------------------
(* Queue::open                                                             *)

\* Mutant of Counts: receipts that the sidecar already knows are applied again.
CountsAlways(delivery, q) == delivery.next = "user"

\* A receipt counts if a user record follows it and the sidecar is older.
Counts(delivery, q) == delivery.next = "user" /\ delivery.seq > q.delivered

\* The queue after the receipts of the log.
Replayed(q) ==
    LET after[i \in 0..Len(log)] ==
            IF i = 0 THEN q
            ELSE IF Counts(log[i], after[i-1])
                 THEN [TakeNext(after[i-1]) EXCEPT !.delivered = log[i].seq]
                 ELSE after[i-1]
    IN  after[Len(log)]

\* What a process finds that opens the session now.
Recovered ==
    IF ~sidecar.exists THEN Empty
    ELSE IF IsEmpty(sidecar.queue) THEN sidecar.queue
    ELSE Replayed(sidecar.queue)

Open ==
    /\ process = "none"
    /\ process' = "idle"
    /\ queue' = Recovered
    /\ sidecar' = IF ~sidecar.exists \/ IsEmpty(sidecar.queue) THEN sidecar ELSE File(Recovered)
    /\ refused' = FALSE
    /\ UNCHANGED <<log, accepted, withdrawn, branches>>

Exit ==
    /\ process # "none"
    /\ process' = "none"
    /\ UNCHANGED <<log, sidecar, queue, refused, accepted, withdrawn, branches>>

-----------------------------------------------------------------------------
Init ==
    /\ log = <<>>
    /\ sidecar = NoFile
    /\ queue = Empty
    /\ process = "none"
    /\ refused = FALSE
    /\ accepted = {}
    /\ withdrawn = {}
    /\ branches = 0

\* A change is saved first and then made, or not made at all if the save
\* fails (push_checked, edit_saved, manage).
Change(next) ==
    /\ process = "idle"
    /\ queue' = next
    /\ sidecar' = File(next)
    /\ accepted' = accepted \cup Prompts(next)
    /\ withdrawn' = withdrawn \cup (Prompts(queue) \ Prompts(next))
    /\ UNCHANGED <<log, process, refused, branches>>

New == Message \ (accepted \cup withdrawn \cup Logged)

PushFollowUp ==
    \E m \in New : Change([queue EXCEPT !.pending = Append(@, m)])

\* A second correction replaces the first.
PushSteer ==
    \E m \in New : Change([queue EXCEPT !.steer = m])

Clear ==
    /\ ~IsEmpty(queue)
    /\ Change([queue EXCEPT !.pending = <<>>, !.steer = NoMessage])

Edit ==
    \E m \in New :
        \/ queue.steer # NoMessage /\ Change([queue EXCEPT !.steer = m])
        \/ \E i \in 1..Len(queue.pending) : Change([queue EXCEPT !.pending[i] = m])

\* Moving one up is moving the one before it down.
Move ==
    \E i \in 1..Len(queue.pending) - 1 :
        Change([queue EXCEPT !.pending[i] = queue.pending[i+1], !.pending[i+1] = queue.pending[i]])

\* A follow-up becomes the correction; the old correction is next in line.
Promote ==
    \E i \in 1..Len(queue.pending) :
        LET rest == RemoveAt(queue.pending, i)
        IN  Change([queue EXCEPT
                      !.pending = IF queue.steer = NoMessage THEN rest ELSE <<queue.steer>> \o rest,
                      !.steer = queue.pending[i]])

Discard ==
    \/ queue.steer # NoMessage /\ Change([queue EXCEPT !.steer = NoMessage])
    \/ \E i \in 1..Len(queue.pending) : Change([queue EXCEPT !.pending = RemoveAt(@, i)])

-----------------------------------------------------------------------------
(* Queue::deliver                                                          *)

MayDeliver == process = "idle" /\ ~IsEmpty(queue) /\ ~refused /\ Len(log) < MaxLog

\* Mutant of NextSequence: the counter is not advanced.
NextSequenceSame == queue.delivered

NextSequence == queue.delivered + 1

\* The receipt and the prompt are in the log; the shorter queue is in memory.
Deliver ==
    /\ MayDeliver
    /\ log' = Append(Followed(log, "other"), Receipt(NextSequence, "user", NextPrompt(queue)))
    /\ queue' = [TakeNext(queue) EXCEPT !.delivered = NextSequence]
    /\ process' = "save"
    /\ UNCHANGED <<sidecar, refused, accepted, withdrawn, branches>>

\* The process dies after the receipt and before the prompt is written whole.
\* The next process that opens the log cuts off the torn line only, so that
\* the receipt is the last record.
TearDelivery ==
    /\ MayDeliver
    /\ log' = Append(Followed(log, "other"), Receipt(NextSequence, "nothing", NoMessage))
    /\ process' = "none"
    /\ UNCHANGED <<sidecar, queue, refused, accepted, withdrawn, branches>>

\* Mutant of FailAppend: the failed delivery uses up a number.
FailAppendCounted ==
    /\ process = "idle" /\ ~refused
    /\ refused' = TRUE
    /\ queue' = [queue EXCEPT !.delivered = NextSequence]
    /\ UNCHANGED <<log, sidecar, process, accepted, withdrawn, branches>>

\* An append, of a delivery or of any other record, fails and is undone:
\* nothing more is written to this log.
FailAppend ==
    /\ process = "idle" /\ ~refused
    /\ refused' = TRUE
    /\ UNCHANGED <<log, sidecar, queue, process, accepted, withdrawn, branches>>

\* A record that does not come from the queue is appended: a prompt that was
\* typed, a job's notice or a headless run's prompt ("user"), or any other.  A
\* headless run has the session open and never its queue.
AppendRecord ==
    /\ process = "none" \/ (process = "idle" /\ ~refused)
    /\ \E kind \in {"user", "other"} : log' = Followed(log, kind)
    /\ UNCHANGED <<sidecar, queue, process, refused, accepted, withdrawn, branches>>

\* The shorter queue is saved; a failure to do so is only reported.
Save ==
    /\ process = "save"
    /\ process' = "idle"
    /\ sidecar' \in {sidecar, File(queue)}
    /\ UNCHANGED <<log, queue, refused, accepted, withdrawn, branches>>

\* Session::branch: a new session whose log begins with the records of this
\* one up to a user record, followed by a record of the branch, and which has
\* no sidecar.  The queue of this session stays with it.
Branch ==
    /\ process = "idle"
    /\ branches < MaxBranch
    /\ \E n \in 0..Len(log) :
          \/ log' = Followed(SubSeq(log, 1, n), "other")
          \/ n < Len(log) /\ log' = Append(SubSeq(log, 1, n), Receipt(log[n+1].seq, "other", NoMessage))
    /\ sidecar' = NoFile
    /\ queue' = Empty
    /\ refused' = FALSE
    /\ accepted' = {}
    /\ withdrawn' = {}
    /\ branches' = branches + 1
    /\ UNCHANGED process

-----------------------------------------------------------------------------
Next ==
    \/ Open \/ Exit
    \/ PushFollowUp \/ PushSteer
    \/ Clear \/ Edit \/ Move \/ Promote \/ Discard
    \/ Deliver \/ TearDelivery \/ Save
    \/ AppendRecord \/ FailAppend
    \/ Branch

Spec == Init /\ [][Next]_vars

-----------------------------------------------------------------------------
(* Properties.                                                             *)

(* "Manages durable follow-ups": at every point, also between the receipt  *)
(* and the save, each prompt that was acknowledged and not withdrawn is in *)
(* the log or in the queue that a restart would find.                      *)
NothingLost == accepted \ withdrawn \subseteq Logged \cup Prompts(Recovered)

\* A receipt without its prompt is taken for a delivery, because a record
\* that is not the queue's follows it.
Misread == \E i \in 1..Len(log) : log[i].next = "user" /\ log[i].prompt = NoMessage

\* The receipts and the sidecar have counted the same from the beginning.
Intact == branches = 0 /\ ~Misread

(* The same of a session that is not a branch and in whose log no receipt  *)
(* of a torn delivery is taken for one that was completed, however often   *)
(* deliveries are torn and saves fail.                                     *)
OwnPromptsKept == Intact => NothingLost

(* "Delivery receipts prevent replay after a crash": a prompt that is in   *)
(* the log, or was withdrawn, is not in the queue that a restart would     *)
(* find; no prompt is in the log twice, and none that was withdrawn.       *)
NeverAgain ==
    /\ Prompts(Recovered) \cap (Logged \cup withdrawn) = {}
    /\ Logged \cap withdrawn = {}
    /\ \A i, j \in 1..Len(log) :
          i # j /\ log[i].prompt = log[j].prompt => log[i].prompt = NoMessage

(* A failed save costs nothing: whatever saves failed before, the queue    *)
(* that a restart of such a session would find is the one in memory.       *)
RestartIsInvisible == process = "idle" /\ Intact => Recovered = queue
=============================================================================
