------------------------------- MODULE Inbox -------------------------------
(***************************************************************************)
(* Messages between glass-core sessions (crates/glass-core/src/inbox.rs):  *)
(* senders append lines to the mailbox of a session under a lock; the      *)
(* session reads them without the lock, and records in its own log how far *)
(* it has come.  Senders and the session may die at every step.            *)
(*                                                                         *)
(* The mailbox is a sequence of pieces: a line is written as a beginning   *)
(* and an end, the end with the newline.  Each sender has one message,     *)
(* which is known by its sender.                                           *)
(***************************************************************************)
EXTENDS Sequences, Naturals, FiniteSets

CONSTANTS
    Sender,    \* the senders, and their messages
    NoSender,  \* the holder of a free lock
    MaxRuns    \* bound on the processes that run the session

ASSUME InboxConstantsOK ==
    /\ NoSender \notin Sender
    /\ MaxRuns \in Nat

VARIABLES
    file,     \* the pieces in the mailbox
    lock,     \* the sender that holds its lock
    sender,   \* where each sender is
    start,    \* the length that the holder of the lock has found
    log,      \* the session's log: receipts and prompts
    mailbox,  \* the session's cursor in memory
    runs,     \* the number of processes that have run the session
    torn      \* the messages whose delivery was torn by a death

box == <<file, lock, sender, start>>
session == <<log, mailbox, runs, torn>>
vars == <<box, session>>

Piece(m, part) == [of |-> m, part |-> part]
Upto(n) == SubSeq(file, 1, n)

\* The boundary stands for the content before the cursor: the code compares a
\* hash of its last 256 bytes, and the device and inode of the mailbox.
Cursor(n) == [offset |-> n, boundary |-> Upto(n)]
NoCursor == [offset |-> 0, boundary |-> <<>>]

Receipt(c) == [kind |-> "receipt", cursor |-> c, of |-> NoSender]
Prompt(m) == [kind |-> "prompt", cursor |-> NoCursor, of |-> m]

Closed == [up |-> FALSE, broken |-> FALSE, cursor |-> NoCursor, pending |-> FALSE,
           next |-> NoCursor, message |-> NoSender]

Init ==
    /\ file = <<>>
    /\ lock = NoSender
    /\ sender = [m \in Sender |-> "new"]
    /\ start = 0
    /\ log = <<>>
    /\ mailbox = Closed
    /\ runs = 0
    /\ torn = {}

-----------------------------------------------------------------------------
(* send                                                                    *)

\* try_lock_exclusive succeeds; otherwise the message is refused.
Lock(m) ==
    /\ sender[m] = "new"
    /\ lock = NoSender
    /\ lock' = m
    /\ start' = Len(file)
    /\ sender' = [sender EXCEPT ![m] = "locked"]
    /\ UNCHANGED <<file, session>>

\* writeln! has put out the beginning of the line, and then the rest.
Write(m, from, to, part) ==
    /\ sender[m] = from
    /\ file' = Append(file, Piece(m, part))
    /\ sender' = [sender EXCEPT ![m] = to]
    /\ UNCHANGED <<lock, start, session>>

WriteSome(m) == Write(m, "locked", "partial", "begin")
WriteRest(m) == Write(m, "partial", "written", "end")

Release(m, outcome) ==
    /\ sender' = [sender EXCEPT ![m] = outcome]
    /\ lock' = IF lock = m THEN NoSender ELSE lock
    /\ start' = IF lock = m THEN 0 ELSE start

\* The data is synced, and the sender is told that the message was sent.
Acknowledge(m) ==
    /\ sender[m] = "written"
    /\ Release(m, "sent")
    /\ UNCHANGED <<file, session>>

Sending(m) == sender[m] \in {"locked", "partial", "written"}

\* The write or the sync fails: what was written is cut off.
Fail(m) ==
    /\ Sending(m)
    /\ file' = Upto(start)
    /\ Release(m, "failed")
    /\ UNCHANGED session

\* The sender dies, or cannot cut off what it wrote.
Die(m) ==
    /\ Sending(m)
    /\ Release(m, "failed")
    /\ UNCHANGED <<file, session>>

-----------------------------------------------------------------------------
(* Mailbox                                                                 *)

Receipts == {i \in 1..Len(log) : log[i].kind = "receipt"}

\* The last receipt in the log says how far the session came.
Position ==
    IF Receipts = {} THEN NoCursor
    ELSE log[CHOOSE i \in Receipts : \A j \in Receipts : j <= i].cursor

\* Mailbox::open
Open ==
    /\ ~mailbox.up
    /\ runs < MaxRuns
    /\ runs' = runs + 1
    /\ mailbox' = [Closed EXCEPT !.up = TRUE, !.cursor = Position]
    /\ UNCHANGED <<box, log, torn>>

Idle == mailbox.up /\ ~mailbox.broken /\ ~mailbox.pending

\* The mailbox still begins with what the session has read.
Known(c) == c.offset <= Len(file) /\ c.boundary = Upto(c.offset)

Ends(n) == {i \in n + 1..Len(file) : file[i].part = "end"}

\* Mutant of Complete: the rest of the file is taken for a line.
CompleteAny(n, i) == i = Len(file)

\* The line that begins after n ends at i.
Complete(n, i) == i \in Ends(n) /\ \A j \in Ends(n) : i <= j

\* The line parses if nothing but one message is in it.
Parsed(n, i) ==
    IF i = n + 2 /\ file[i - 1] = Piece(file[i].of, "begin") THEN file[i].of ELSE NoSender

\* peek finds a complete line.  A line that does not parse has no message.
Peek(i) ==
    LET n == mailbox.cursor.offset
    IN  /\ Idle
        /\ Known(mailbox.cursor)
        /\ n < i /\ i <= Len(file)
        /\ Complete(n, i)
        /\ mailbox' = [mailbox EXCEPT !.pending = TRUE, !.next = Cursor(i), !.message = Parsed(n, i)]
        /\ UNCHANGED <<box, log, runs, torn>>

Prompts(m) == IF m = NoSender THEN <<>> ELSE <<Prompt(m)>>

\* Mutant of Records: the prompt comes before its receipt.
RecordsPromptFirst(c, m) == Append(Prompts(m), Receipt(c))

\* What deliver appends to the log: the receipt, and the prompt if there is one.
Records(c, m) == <<Receipt(c)>> \o Prompts(m)

Deliver ==
    /\ mailbox.pending
    /\ log' = log \o Records(mailbox.next, mailbox.message)
    /\ mailbox' = [mailbox EXCEPT !.pending = FALSE, !.cursor = mailbox.next,
                                  !.next = NoCursor, !.message = NoSender]
    /\ UNCHANGED <<box, runs, torn>>

\* The append fails and is undone; the session accepts no more records.
FailDelivery ==
    /\ mailbox.pending
    /\ mailbox' = [mailbox EXCEPT !.pending = FALSE, !.broken = TRUE,
                                  !.next = NoCursor, !.message = NoSender]
    /\ UNCHANGED <<box, log, runs, torn>>

\* The process dies within the append, when one of two records is written.
TearDelivery ==
    /\ mailbox.pending
    /\ Len(Records(mailbox.next, mailbox.message)) = 2
    /\ log' = Append(log, Records(mailbox.next, mailbox.message)[1])
    /\ torn' = torn \cup {mailbox.message}
    /\ mailbox' = Closed
    /\ UNCHANGED <<box, runs>>

Exit ==
    /\ mailbox.up
    /\ mailbox' = Closed
    /\ UNCHANGED <<box, log, runs, torn>>

-----------------------------------------------------------------------------
Next ==
    \/ \E m \in Sender :
        Lock(m) \/ WriteSome(m) \/ WriteRest(m) \/ Acknowledge(m) \/ Fail(m) \/ Die(m)
    \/ Open
    \/ \E i \in 1..Len(file) : Peek(i)
    \/ Deliver \/ FailDelivery \/ TearDelivery
    \/ Exit

Spec == Init /\ [][Next]_vars
-----------------------------------------------------------------------------
(* Properties.                                                             *)

Delivered == {i \in 1..Len(log) : log[i].kind = "prompt"}

\* "a restart never repeats this prompt": no message is delivered twice, not
\* even one whose delivery was torn, and messages keep the mailbox's order.
DeliveredOnce ==
    /\ \A i, j \in Delivered : log[i].of = log[j].of => i = j
    /\ \A i, j \in Delivered, k, l \in 1..Len(file) :
          i < j /\ file[k] = Piece(log[i].of, "end") /\ file[l] = Piece(log[j].of, "end") => k < l

\* A message was written onto the remains of a line that was never finished.
Glued(i) == i > 1 /\ file[i - 1].part = "begin"

\* A message that was acknowledged to its sender (send returned Ok) is in the
\* mailbox, and is either still to be read from there or delivered.  It is lost
\* only if it was written behind the remains of another sender's line, or if
\* the session died within the append of receipt and prompt; and it is held up,
\* with an error, if the mailbox was cut back below what the session has read.
AckedArrives ==
    \A m \in Sender : sender[m] = "sent" =>
        \E i \in 1..Len(file) - 1 :
            /\ file[i] = Piece(m, "begin") /\ file[i + 1] = Piece(m, "end")
            /\ \/ Position.offset < i
               \/ \E j \in Delivered : log[j].of = m
               \/ Glued(i)
               \/ m \in torn
               \/ ~Known(Position)

\* "Acceptance and the user prompt are one durable transaction": a message that was
\* sent, and whose intact line the session's receipts have passed, is a prompt
\* of its log.  The code breaks this when the process dies between the two
\* records of deliver.
AcceptedWhole ==
    \A m \in Sender, i \in 2..Len(file) :
        /\ sender[m] = "sent"
        /\ file[i - 1] = Piece(m, "begin") /\ file[i] = Piece(m, "end") /\ ~Glued(i - 1)
        /\ i <= Position.offset /\ Known(Position)
        => \E j \in Delivered : log[j].of = m

=============================================================================
