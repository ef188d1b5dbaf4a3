---------------------------- MODULE InboxProofs ----------------------------
(***************************************************************************)
(* Theorems about Inbox: no message is delivered twice or out of order,    *)
(* and an acknowledged message arrives, for every number of senders and of *)
(* restarts and wherever senders and the session die.                      *)
(***************************************************************************)
EXTENDS Inbox, SequenceTheorems, TLAPS

Pieces == [of : Sender, part : {"begin", "end"}]
Cursors == {c \in [offset : Nat, boundary : Seq(Pieces)] : Len(c.boundary) = c.offset}
LogRecord == [kind : {"receipt", "prompt"}, cursor : Cursors, of : Sender \cup {NoSender}]

TypeInv ==
    /\ file \in Seq(Pieces)
    /\ lock \in Sender \cup {NoSender}
    /\ sender \in [Sender -> {"new", "locked", "partial", "written", "sent", "failed"}]
    /\ start \in Nat
    /\ log \in Seq(LogRecord)
    /\ mailbox \in [up : BOOLEAN, broken : BOOLEAN, cursor : Cursors, pending : BOOLEAN,
                    next : Cursors, message : Sender \cup {NoSender}]
    /\ runs \in Nat
    /\ torn \subseteq Sender \cup {NoSender}

-----------------------------------------------------------------------------
(* The mailbox file.                                                       *)

\* A piece is in b at most once.
Once(b) == \A i, j \in 1..Len(b) : b[i] = b[j] => i = j

\* What is in b was written by senders that had come that far.
Begun(b) ==
    \A i \in 1..Len(b) : /\ sender[b[i].of] \notin {"new", "locked"}
                         /\ b[i].part = "end" => sender[b[i].of] # "partial"

\* The holder of the lock has written what it has written, behind start.
Holding(h) ==
    /\ sender[h] \in {"locked", "partial", "written"}
    /\ sender[h] = "locked" => Len(file) = start
    /\ sender[h] = "partial" => Len(file) = start + 1
    /\ sender[h] = "written" => Len(file) = start + 2 /\ file[start + 2] = Piece(h, "end")
    /\ sender[h] # "locked" => file[start + 1] = Piece(h, "begin")

InFile(m) ==
    \E i \in 1..Len(file) - 1 : file[i] = Piece(m, "begin") /\ file[i + 1] = Piece(m, "end")

BoxInv ==
    /\ TypeInv
    /\ \A m \in Sender : Sending(m) => lock = m
    /\ lock # NoSender => Holding(lock)
    /\ \A m \in Sender : sender[m] = "sent" => InFile(m)
    /\ Once(file)
    /\ Begun(file)

\* Pieces are records that their two fields determine.
LEMMA PieceEq ==
    ASSUME NEW m \in Sender, NEW part \in {"begin", "end"}
    PROVE  /\ Piece(m, part) \in Pieces
           /\ Piece(m, part).of = m /\ Piece(m, part).part = part
           /\ \A p \in Pieces : p = Piece(m, part) <=> p.of = m /\ p.part = part
BY DEF Piece, Pieces

LEMMA OfSender ==
    ASSUME NEW b \in Seq(Pieces)
    PROVE  \A i \in 1..Len(b) : b[i] \in Pieces /\ b[i].of \in Sender
<1>1. \A i \in 1..Len(b) : b[i] \in Pieces
  OBVIOUS
<1> QED
  BY <1>1 DEF Pieces

\* A lock, an acknowledgement and a death leave the file alone.
LEMMA QuietBox ==
    ASSUME BoxInv, NEW m \in Sender, Lock(m) \/ Acknowledge(m) \/ Die(m)
    PROVE  BoxInv'
<1>0. TypeInv /\ NoSender \notin Sender /\ Len(file) \in Nat
  BY InboxConstantsOK DEF BoxInv, TypeInv
<1>1. CASE Lock(m)
  <2>1. /\ lock = NoSender /\ sender[m] = "new" /\ lock' = m /\ start' = Len(file)
        /\ sender' = [sender EXCEPT ![m] = "locked"] /\ UNCHANGED <<file, session>>
    BY <1>1 DEF Lock
  <2>2. sender'[m] = "locked" /\ \A u \in Sender : u # m => sender'[u] = sender[u]
    BY <1>0, <2>1 DEF TypeInv
  <2>3. TypeInv'
    BY <1>0, <2>1 DEF TypeInv, session
  <2>4. \A u \in Sender : Sending(u)' => lock' = u
    BY <1>0, <2>1, <2>2 DEF BoxInv, Sending
  <2>5. Holding(lock)'
    BY <2>1, <2>2 DEF Holding
  <2>6. \A u \in Sender : sender'[u] = "sent" => InFile(u)'
    BY <2>1, <2>2 DEF BoxInv, InFile
  <2>7. Once(file)' /\ Begun(file)'
    BY <1>0, <2>1, <2>2 DEF BoxInv, Once, Begun, TypeInv, Pieces
  <2> QED
    BY <2>3, <2>4, <2>5, <2>6, <2>7 DEF BoxInv
<1>2. CASE Acknowledge(m) \/ Die(m)
  <2>1. PICK x \in {"sent", "failed"} :
           /\ Sending(m) /\ (x = "sent" => sender[m] = "written")
           /\ sender' = [sender EXCEPT ![m] = x] /\ UNCHANGED <<file, session>>
           /\ lock' = (IF lock = m THEN NoSender ELSE lock)
           /\ start' = (IF lock = m THEN 0 ELSE start)
    BY <1>2 DEF Acknowledge, Die, Release, Sending
  <2>2. sender'[m] = x /\ \A u \in Sender : u # m => sender'[u] = sender[u]
    BY <1>0, <2>1 DEF TypeInv
  <2>3. lock = m /\ lock' = NoSender /\ Holding(m)
    BY <1>0, <2>1 DEF BoxInv
  <2>4. TypeInv'
    BY <1>0, <2>1 DEF TypeInv, session
  <2>5. \A u \in Sender : ~Sending(u)'
    BY <1>0, <2>2, <2>3 DEF BoxInv, Sending
  <2>6. x = "sent" => InFile(m)
    <3> SUFFICES ASSUME x = "sent" PROVE InFile(m)
      OBVIOUS
    <3>1. /\ Len(file) = start + 2 /\ start \in Nat
          /\ file[start + 1] = Piece(m, "begin") /\ file[start + 2] = Piece(m, "end")
      BY <1>0, <2>1, <2>3 DEF Holding, TypeInv
    <3>2. start + 1 \in 1..Len(file) - 1 /\ (start + 1) + 1 = start + 2
      BY <3>1
    <3> QED
      BY <3>1, <3>2 DEF InFile
  <2>7. \A u \in Sender : sender'[u] = "sent" => InFile(u)'
    BY <2>1, <2>2, <2>6 DEF BoxInv, InFile
  <2>8. Once(file)' /\ Begun(file)'
    BY <1>0, <2>1, <2>2 DEF BoxInv, Once, Begun, TypeInv, Pieces
  <2> QED
    BY <2>3, <2>4, <2>5, <2>7, <2>8 DEF BoxInv
<1> QED
  BY <1>1, <1>2

LEMMA WriteBox ==
    ASSUME BoxInv, NEW m \in Sender, WriteSome(m) \/ WriteRest(m)
    PROVE  BoxInv'
<1>0. TypeInv /\ NoSender \notin Sender /\ Len(file) \in Nat /\ start \in Nat
  BY InboxConstantsOK DEF BoxInv, TypeInv
<1>1. PICK part \in {"begin", "end"} :
         /\ sender[m] = (IF part = "begin" THEN "locked" ELSE "partial")
         /\ file' = Append(file, Piece(m, part))
         /\ sender' = [sender EXCEPT ![m] = IF part = "begin" THEN "partial" ELSE "written"]
         /\ UNCHANGED <<lock, start, session>>
  BY DEF WriteSome, WriteRest, Write
<1>2. /\ sender'[m] = (IF part = "begin" THEN "partial" ELSE "written")
      /\ \A u \in Sender : u # m => sender'[u] = sender[u]
  BY <1>0, <1>1 DEF TypeInv
<1>3. lock = m /\ Holding(m)
  BY <1>0, <1>1 DEF BoxInv, Sending
<1> DEFINE n == Len(file)
           p == Piece(m, part)
<1>4. p \in Pieces /\ p.of = m /\ p.part = part
  BY PieceEq
<1>5. Len(file') = n + 1 /\ file'[n + 1] = p /\ \A i \in 1..n : file'[i] = file[i]
  BY <1>0, <1>1, <1>4 DEF TypeInv
<1>6. TypeInv'
  BY <1>0, <1>1, <1>4 DEF TypeInv, session
<1>7. \A u \in Sender : Sending(u)' => lock' = u
  BY <1>1, <1>2, <1>3 DEF BoxInv, Sending
<1>8. Holding(lock)'
  <2>1. CASE part = "begin"
    BY <1>0, <1>1, <1>2, <1>3, <1>5, <2>1 DEF Holding
  <2>2. CASE part = "end"
    BY <1>0, <1>1, <1>2, <1>3, <1>5, <2>2 DEF Holding
  <2> QED
    BY <2>1, <2>2
<1>9. ASSUME NEW u \in Sender, sender'[u] = "sent" PROVE InFile(u)'
  <2>1. InFile(u)
    BY <1>2, <1>9 DEF BoxInv
  <2>2. PICK i \in 1..n - 1 : file[i] = Piece(u, "begin") /\ file[i + 1] = Piece(u, "end")
    BY <2>1 DEF InFile
  <2>3. i \in 1..Len(file') - 1 /\ file'[i] = file[i] /\ file'[i + 1] = file[i + 1]
    BY <1>0, <1>5
  <2> QED
    BY <2>2, <2>3 DEF InFile
<1>10. \A i \in 1..n : file[i] # p
  BY <1>0, <1>1, <1>4 DEF BoxInv, Begun
<1>11. Once(file)'
  BY <1>0, <1>5, <1>10 DEF BoxInv, Once
<1>12. Begun(file)'
  <2>1. \A i \in 1..n : file[i].of \in Sender
    BY <1>0, OfSender DEF TypeInv
  <2> QED
    BY <1>0, <1>1, <1>2, <1>4, <1>5, <2>1 DEF BoxInv, Begun
<1> QED
  BY <1>3, <1>6, <1>7, <1>8, <1>9, <1>11, <1>12 DEF BoxInv

LEMMA FailBox ==
    ASSUME BoxInv, NEW m \in Sender, Fail(m)
    PROVE  BoxInv'
<1>0. TypeInv /\ NoSender \notin Sender /\ Len(file) \in Nat /\ start \in Nat
  BY InboxConstantsOK DEF BoxInv, TypeInv
<1>1. /\ Sending(m) /\ file' = SubSeq(file, 1, start)
      /\ sender' = [sender EXCEPT ![m] = "failed"] /\ UNCHANGED session
      /\ lock' = (IF lock = m THEN NoSender ELSE lock)
      /\ start' = (IF lock = m THEN 0 ELSE start)
  BY DEF Fail, Release, Upto
<1>2. sender'[m] = "failed" /\ \A u \in Sender : u # m => sender'[u] = sender[u]
  BY <1>0, <1>1 DEF TypeInv
<1>3. lock = m /\ lock' = NoSender /\ Holding(m)
  BY <1>0, <1>1 DEF BoxInv
<1>4. start <= Len(file)
  BY <1>0, <1>3 DEF Holding
<1>5. Len(file') = start /\ \A i \in 1..start : file'[i] = file[i]
  BY <1>0, <1>1, <1>4 DEF TypeInv
<1>6. TypeInv'
  <2>1. file' \in Seq(Pieces)
    BY <1>0, <1>1, <1>4 DEF TypeInv
  <2> QED
    BY <1>0, <1>1, <2>1 DEF TypeInv, session
<1>7. \A u \in Sender : ~Sending(u)'
  BY <1>0, <1>2, <1>3 DEF BoxInv, Sending
<1>8. \A i \in start + 1..Len(file) : file[i].of = m
  <2>1. Piece(m, "begin").of = m /\ Piece(m, "end").of = m
    BY PieceEq
  <2> QED
    BY <1>0, <1>3, <2>1 DEF Holding
<1>9. ASSUME NEW u \in Sender, sender'[u] = "sent" PROVE InFile(u)'
  <2>1. InFile(u) /\ u # m
    BY <1>2, <1>9 DEF BoxInv
  <2>2. PICK i \in 1..Len(file) - 1 : file[i] = Piece(u, "begin") /\ file[i + 1] = Piece(u, "end")
    BY <2>1 DEF InFile
  <2>3. file[i + 1].of = u
    BY <2>2, PieceEq
  <2>4. i + 1 <= start
    BY <1>0, <1>8, <2>1, <2>3
  <2>5. i \in 1..Len(file') - 1 /\ file'[i] = file[i] /\ file'[i + 1] = file[i + 1]
    BY <1>0, <1>5, <2>4
  <2> QED
    BY <2>2, <2>5 DEF InFile
<1>10. Once(file)'
  BY <1>0, <1>4, <1>5 DEF BoxInv, Once
<1>11. Begun(file)'
  <2>1. \A i \in 1..Len(file) : file[i].of \in Sender
    BY <1>0, OfSender DEF TypeInv
  <2> QED
    BY <1>0, <1>2, <1>4, <1>5, <2>1 DEF BoxInv, Begun
<1> QED
  BY <1>3, <1>6, <1>7, <1>9, <1>10, <1>11 DEF BoxInv

-----------------------------------------------------------------------------
(* What the session has read.                                              *)

\* What is both in b and in the file is at the same place: a piece that is
\* cut off is not written again.
InPlace(b) == \A k \in 1..Len(b), l \in 1..Len(file) : b[k] = file[l] => k = l

Read(b) == b \in Seq(Pieces) /\ Once(b) /\ Begun(b) /\ InPlace(b)

\* A line of b with nothing but one message in it begins at k.
Whole(b, k) ==
    /\ b[k].part = "begin" /\ b[k + 1] = Piece(b[k].of, "end")
    /\ k > 1 => b[k - 1].part = "end"

\* The log has the messages of b, in their order: what is in the log is in b,
\* and the other whole messages of b were torn.
Recorded(b) ==
    /\ Len(b) > 0 => b[Len(b)].part = "end"
    /\ \A i \in Delivered : \E k \in 1..Len(b) : b[k] = Piece(log[i].of, "end")
    /\ \A i, j \in Delivered, k, l \in 1..Len(b) :
          i < j /\ b[k] = Piece(log[i].of, "end") /\ b[l] = Piece(log[j].of, "end") => k < l
    /\ \A k \in 1..Len(b) - 1 : Whole(b, k) =>
          b[k].of \in torn \/ \E j \in Delivered : log[j].of = b[k].of

\* b is a and one more line, whose message is m.
LineAfter(a, b, m) ==
    /\ Len(a) < Len(b)
    /\ \A k \in 1..Len(a) : b[k] = a[k]
    /\ \A k \in Len(a) + 1..Len(b) - 1 : b[k].part = "begin"
    /\ b[Len(b)].part = "end"
    /\ m = IF Len(b) = Len(a) + 2 /\ b[Len(a) + 1].of = b[Len(b)].of THEN b[Len(b)].of ELSE NoSender

SessionInv ==
    /\ Position \in Cursors
    /\ Read(Position.boundary)
    /\ Recorded(Position.boundary)
    /\ mailbox.up => mailbox.cursor = Position
    /\ mailbox.pending =>
         /\ mailbox.up
         /\ Read(mailbox.next.boundary)
         /\ LineAfter(Position.boundary, mailbox.next.boundary, mailbox.message)

\* Whatever the senders do, what was read stays what was written, and is not
\* written again.
LEMMA ReadKept ==
    ASSUME BoxInv, BoxInv', NEW m \in Sender, NEW b, Read(b),
           Lock(m) \/ WriteSome(m) \/ WriteRest(m) \/ Acknowledge(m) \/ Fail(m) \/ Die(m)
    PROVE  Begun(b)' /\ InPlace(b)'
<1>0. TypeInv /\ Len(file) \in Nat /\ Len(b) \in Nat
  BY DEF BoxInv, TypeInv, Read
<1>1. \A i \in 1..Len(b) : b[i] \in Pieces /\ b[i].of \in Sender
  BY OfSender DEF Read
<1>2. CASE Lock(m)
  <2>1. sender[m] = "new" /\ sender'[m] = "locked" /\ file' = file
        /\ \A u \in Sender : u # m => sender'[u] = sender[u]
    BY <1>0, <1>2 DEF Lock, TypeInv
  <2> QED
    BY <1>1, <2>1 DEF Read, Begun, InPlace
<1>3. CASE WriteSome(m) \/ WriteRest(m)
  <2>1. PICK part \in {"begin", "end"} :
           /\ sender[m] = (IF part = "begin" THEN "locked" ELSE "partial")
           /\ file' = Append(file, Piece(m, part))
           /\ sender' = [sender EXCEPT ![m] = IF part = "begin" THEN "partial" ELSE "written"]
    BY <1>3 DEF WriteSome, WriteRest, Write
  <2>2. /\ sender'[m] = (IF part = "begin" THEN "partial" ELSE "written")
        /\ \A u \in Sender : u # m => sender'[u] = sender[u]
    BY <1>0, <2>1 DEF TypeInv
  <2> DEFINE p == Piece(m, part)
             n == Len(file)
  <2>3. p \in Pieces /\ p.of = m /\ p.part = part
    BY PieceEq
  <2>4. Len(file') = n + 1 /\ file'[n + 1] = p /\ \A i \in 1..n : file'[i] = file[i]
    BY <1>0, <2>1, <2>3 DEF TypeInv
  <2>5. \A k \in 1..Len(b) : b[k] # p
    BY <2>1, <2>3 DEF Read, Begun
  <2> HIDE DEF p, n
  <2>6. InPlace(b)'
    <3> SUFFICES ASSUME NEW k \in 1..Len(b), NEW l \in 1..Len(file'), b[k] = file'[l]
                 PROVE  k = l
      BY DEF InPlace
    <3>1. l # n + 1
      BY <2>4, <2>5
    <3>2. l \in 1..n /\ file'[l] = file[l]
      BY <1>0, <2>4, <3>1 DEF n
    <3> QED
      BY <3>2 DEF Read, InPlace, n
  <2>7. Begun(b)'
    BY <1>1, <2>1, <2>2 DEF Read, Begun
  <2> QED
    BY <2>6, <2>7
<1>4. CASE Acknowledge(m) \/ Die(m)
  <2>1. PICK x \in {"sent", "failed"} : sender' = [sender EXCEPT ![m] = x] /\ file' = file
    BY <1>4 DEF Acknowledge, Die, Release
  <2>2. sender'[m] = x /\ \A u \in Sender : u # m => sender'[u] = sender[u]
    BY <1>0, <2>1 DEF TypeInv
  <2> QED
    BY <1>1, <2>1, <2>2 DEF Read, Begun, InPlace
<1>5. CASE Fail(m)
  <2>1. Sending(m) /\ file' = SubSeq(file, 1, start) /\ sender' = [sender EXCEPT ![m] = "failed"]
    BY <1>5 DEF Fail, Release, Upto
  <2>2. sender'[m] = "failed" /\ \A u \in Sender : u # m => sender'[u] = sender[u]
    BY <1>0, <2>1 DEF TypeInv
  <2>3. lock = m /\ Holding(m) /\ start \in Nat
    BY <1>0, <2>1, InboxConstantsOK DEF BoxInv, TypeInv
  <2>4. start <= Len(file)
    BY <1>0, <2>3 DEF Holding
  <2>5. Len(file') = start /\ \A i \in 1..start : file'[i] = file[i]
    BY <1>0, <2>1, <2>3, <2>4 DEF TypeInv
  <2>6. InPlace(b)'
    BY <1>0, <2>3, <2>4, <2>5 DEF Read, InPlace
  <2>7. Begun(b)'
    BY <1>1, <2>2 DEF Read, Begun
  <2> QED
    BY <2>6, <2>7
<1> QED
  BY <1>2, <1>3, <1>4, <1>5

LEMMA SendSession ==
    ASSUME BoxInv, BoxInv', SessionInv, NEW m \in Sender,
           Lock(m) \/ WriteSome(m) \/ WriteRest(m) \/ Acknowledge(m) \/ Fail(m) \/ Die(m)
    PROVE  SessionInv'
<1>1. log' = log /\ mailbox' = mailbox /\ torn' = torn
  BY DEF Lock, WriteSome, WriteRest, Write, Acknowledge, Fail, Die, session
<1>2. Position' = Position /\ Delivered' = Delivered
  BY <1>1 DEF Position, Receipts, Delivered
<1>3. ASSUME NEW b, Read(b) PROVE b \in Seq(Pieces) /\ Once(b) /\ Begun(b)' /\ InPlace(b)'
  BY <1>3, ReadKept DEF Read
<1>4. PICK b : b = Position.boundary
  OBVIOUS
<1>5. PICK c : c = mailbox.next.boundary
  OBVIOUS
<1>6. Read(b)'
  BY <1>3, <1>4 DEF SessionInv, Read, Once
<1>7. mailbox.pending => Read(c)'
  BY <1>3, <1>5 DEF SessionInv, Read, Once
<1>8. Recorded(b)'
  BY <1>1, <1>2, <1>4 DEF SessionInv, Recorded
<1>9. mailbox.pending => LineAfter(b, c, mailbox.message)'
  BY <1>1, <1>4, <1>5 DEF SessionInv, LineAfter
<1>10. /\ Read(Position.boundary)' /\ Recorded(Position.boundary)'
       /\ mailbox'.pending => /\ Read(mailbox.next.boundary)'
                              /\ LineAfter(Position.boundary, mailbox.next.boundary, mailbox.message)'
  BY <1>1, <1>2, <1>4, <1>5, <1>6, <1>7, <1>8, <1>9
     DEF Read, Once, Begun, InPlace, Recorded, LineAfter
<1> QED
  BY <1>1, <1>2, <1>10 DEF SessionInv

LEMMA NoCursorType == NoCursor \in Cursors /\ NoCursor.boundary = <<>> /\ NoCursor.offset = 0
<1>1. <<>> \in Seq(Pieces)
  OBVIOUS
<1>2. Len(<<>>) = 0
  OBVIOUS
<1> QED
  BY <1>1, <1>2 DEF NoCursor, Cursors

\* A cursor that peek takes stands for the file up to the end of a line.
LEMMA CursorAt ==
    ASSUME TypeInv, NEW i \in 1..Len(file)
    PROVE  /\ Cursor(i) \in Cursors
           /\ Cursor(i).boundary \in Seq(Pieces) /\ Len(Cursor(i).boundary) = i
           /\ \A k \in 1..i : Cursor(i).boundary[k] = file[k]
<1> DEFINE b == SubSeq(file, 1, i)
<1>1. file \in Seq(Pieces) /\ Len(file) \in Nat
  BY DEF TypeInv
<1>2. b \in Seq(Pieces) /\ Len(b) = i /\ \A k \in 1..i : b[k] = file[k]
  BY <1>1
<1>3. Cursor(i) = [offset |-> i, boundary |-> b]
  BY DEF Cursor, Upto
<1> HIDE DEF b
<1>4. Cursor(i).boundary = b /\ Cursor(i).offset = i /\ i \in Nat
  BY <1>1, <1>3
<1>5. Cursor(i) \in Cursors
  BY <1>2, <1>3, <1>4 DEF Cursors
<1> QED
  BY <1>2, <1>4, <1>5

\* The session's steps leave the mailbox file and the senders alone.
LEMMA SessionBox ==
    ASSUME BoxInv, TypeInv', UNCHANGED box
    PROVE  BoxInv'
BY DEF BoxInv, box, Sending, Holding, InFile, Once, Begun

LEMMA PeekStep ==
    ASSUME BoxInv, SessionInv, NEW i \in 1..Len(file), Peek(i)
    PROVE  BoxInv' /\ SessionInv'
<1> DEFINE n == mailbox.cursor.offset
           a == Position.boundary
           b == Cursor(i).boundary
           m == Parsed(n, i)
<1>0. TypeInv /\ Len(file) \in Nat /\ i \in Nat
  BY DEF BoxInv, TypeInv
<1>1. /\ mailbox.up /\ Known(mailbox.cursor) /\ n < i /\ Complete(n, i)
      /\ mailbox' = [mailbox EXCEPT !.pending = TRUE, !.next = Cursor(i), !.message = m]
      /\ UNCHANGED <<box, log, runs, torn>>
  BY DEF Peek, Idle
<1>2. /\ mailbox.cursor = Position /\ Position \in Cursors
  BY <1>1 DEF SessionInv
<1>3. a \in Seq(Pieces) /\ Len(a) = n /\ n \in Nat
  BY <1>2 DEF Cursors
<1>4. a = SubSeq(file, 1, n) /\ n <= Len(file)
  BY <1>1, <1>2 DEF Known, Upto
<1>5. \A k \in 1..n : a[k] = file[k]
  BY <1>0, <1>3, <1>4 DEF TypeInv
<1>6. b \in Seq(Pieces) /\ Len(b) = i /\ (\A k \in 1..i : b[k] = file[k]) /\ Cursor(i) \in Cursors
  BY <1>0, CursorAt
<1>7. \A k \in 1..Len(file) : file[k] \in Pieces /\ file[k].of \in Sender
  BY <1>0, OfSender DEF TypeInv
<1>8. \A k \in 1..Len(file) : file[k].part \in {"begin", "end"}
  BY <1>7 DEF Pieces
<1>9. file[i].part = "end" /\ \A k \in n + 1..i - 1 : file[k].part = "begin"
  BY <1>0, <1>1, <1>3, <1>8 DEF Complete, Ends
<1>10. m = IF i = n + 2 /\ file[n + 1].of = file[i].of THEN file[i].of ELSE NoSender
  <2>1. CASE i = n + 2
    <3>1. n + 1 \in 1..Len(file) /\ n + 1 \in n + 1..i - 1 /\ i - 1 = n + 1
      BY <1>0, <1>3, <2>1, SMTT(30)
    <3>2. file[n + 1] = Piece(file[i].of, "begin") <=> file[n + 1].of = file[i].of
      BY <1>7, <1>9, <3>1, PieceEq
    <3> QED
      BY <2>1, <3>1, <3>2 DEF Parsed
  <2>2. CASE i # n + 2
    BY <2>2 DEF Parsed
  <2> QED
    BY <2>1, <2>2
<1>11. m \in Sender \cup {NoSender}
  BY <1>7, <1>10
<1> HIDE DEF a, b, m, n
<1>12. TypeInv'
  BY <1>0, <1>1, <1>6, <1>11 DEF TypeInv, box
<1>13. Once(b) /\ Begun(b) /\ InPlace(b)
  BY <1>0, <1>6 DEF BoxInv, Once, Begun, InPlace
<1>14. LineAfter(a, b, m)
  <2>1. Len(a) < Len(b) /\ \A k \in 1..Len(a) : b[k] = a[k]
    BY <1>0, <1>1, <1>3, <1>4, <1>5, <1>6 DEF n
  <2>2. (\A k \in Len(a) + 1..Len(b) - 1 : b[k].part = "begin") /\ b[Len(b)].part = "end"
    BY <1>0, <1>3, <1>6, <1>9
  <2>3. m = IF Len(b) = Len(a) + 2 /\ b[Len(a) + 1].of = b[Len(b)].of THEN b[Len(b)].of ELSE NoSender
    <3>1. i = n + 2 => n + 1 \in 1..i
      BY <1>0, <1>3
    <3> QED
      BY <1>0, <1>3, <1>6, <1>10, <3>1
  <2> QED
    BY <2>1, <2>2, <2>3 DEF LineAfter
<1>15. /\ mailbox'.pending /\ mailbox'.up /\ mailbox'.cursor = mailbox.cursor
       /\ mailbox'.next = Cursor(i) /\ mailbox'.message = m
  BY <1>0, <1>1 DEF TypeInv
<1>16. Position' = Position /\ Delivered' = Delivered
  BY <1>1 DEF Position, Receipts, Delivered
<1>17. file' = file /\ sender' = sender /\ log' = log /\ torn' = torn
  BY <1>1 DEF box
<1>18. mailbox'.next.boundary = b /\ Position'.boundary = a
  BY <1>15, <1>16 DEF a, b
<1>19. Read(mailbox.next.boundary)'
  BY <1>6, <1>13, <1>17, <1>18 DEF Read, Once, Begun, InPlace
<1>20. LineAfter(Position.boundary, mailbox.next.boundary, mailbox.message)'
  BY <1>14, <1>15, <1>18 DEF LineAfter
<1>21. Read(Position.boundary)' /\ Recorded(Position.boundary)'
  BY <1>16, <1>17 DEF SessionInv, Read, Once, Begun, InPlace, Recorded
<1> QED
  BY <1>0, <1>1, <1>2, <1>12, <1>15, <1>16, <1>19, <1>20, <1>21, SessionBox DEF SessionInv

\* Opening, giving up and dying keep the position that the log records.
LEMMA QuietSession ==
    ASSUME BoxInv, SessionInv, Open \/ FailDelivery \/ Exit
    PROVE  BoxInv' /\ SessionInv'
<1>0. TypeInv
  BY DEF BoxInv
<1>1. UNCHANGED <<box, log, torn>> /\ runs' \in Nat
  BY <1>0 DEF Open, FailDelivery, Exit, TypeInv
<1>2. Position' = Position /\ Delivered' = Delivered
  BY <1>1 DEF Position, Receipts, Delivered
<1>3. Closed \in [up : BOOLEAN, broken : BOOLEAN, cursor : Cursors, pending : BOOLEAN,
                  next : Cursors, message : Sender \cup {NoSender}]
      /\ ~Closed.up /\ ~Closed.pending
  BY NoCursorType DEF Closed
<1>4. /\ mailbox' \in [up : BOOLEAN, broken : BOOLEAN, cursor : Cursors, pending : BOOLEAN,
                       next : Cursors, message : Sender \cup {NoSender}]
      /\ ~mailbox'.pending /\ (mailbox'.up => mailbox'.cursor = Position)
  <2>1. CASE Open
    BY <1>3, <2>1 DEF Open, SessionInv
  <2>2. CASE FailDelivery
    BY <1>0, <2>2, NoCursorType DEF FailDelivery, SessionInv, TypeInv
  <2>3. CASE Exit
    BY <1>3, <2>3 DEF Exit
  <2> QED
    BY <2>1, <2>2, <2>3
<1>5. TypeInv'
  BY <1>0, <1>1, <1>4 DEF TypeInv, box
<1>6. Read(Position.boundary)' /\ Recorded(Position.boundary)'
  BY <1>1, <1>2 DEF SessionInv, Read, Once, Begun, InPlace, Recorded, box
<1> QED
  BY <1>1, <1>2, <1>4, <1>5, <1>6, SessionBox DEF SessionInv

\* What deliver has appended is the session's new position.
LEMMA PositionAfter ==
    ASSUME Len(log) \in Nat, NEW c, NEW n \in {Len(log) + 1, Len(log) + 2}, Len(log') = n,
           log'[Len(log) + 1].kind = "receipt", log'[Len(log) + 1].cursor = c,
           n = Len(log) + 2 => log'[n].kind # "receipt"
    PROVE  Position' = c
<1> DEFINE R == {i \in 1..Len(log') : log'[i].kind = "receipt"}
           x == CHOOSE i \in R : \A j \in R : j <= i
           n1 == Len(log) + 1
<1>1. n1 \in R /\ \A j \in R : j <= n1
  OBVIOUS
<1>2. R \subseteq Nat
  OBVIOUS
<1>3. Position' = IF R = {} THEN NoCursor ELSE log'[x].cursor
  BY DEF Position, Receipts
<1> HIDE DEF R
<1>4. x \in R /\ \A j \in R : j <= x
  BY <1>1, Zenon
<1> HIDE DEF x
<1>5. x = n1
  BY <1>1, <1>2, <1>4
<1> QED
  BY <1>1, <1>3, <1>5

\* The position moves behind the line, whose message, if it has one, is now
\* in the log or torn.
LEMMA Accept ==
    ASSUME BoxInv, SessionInv, mailbox.pending, NEW a, NEW b, NEW m, NEW D,
           a = Position.boundary, b = mailbox.next.boundary, m = mailbox.message,
           UNCHANGED box, torn \subseteq torn',
           \A i \in Delivered : log'[i] = log[i] /\ i \in Nat /\ i <= Len(log),
           Delivered' = Delivered \cup D,
           \A i \in D : /\ i \in Nat /\ Len(log) < i /\ log'[i].of = m /\ m # NoSender
                        /\ \A j \in D : i = j,
           m # NoSender => m \in torn' \/ D # {}
    PROVE  Read(b)' /\ Recorded(b)'
<1>0. TypeInv /\ Len(log) \in Nat /\ m \in Sender \cup {NoSender}
  BY DEF BoxInv, TypeInv
<1>1. Read(a) /\ Recorded(a) /\ Read(b) /\ LineAfter(a, b, m)
  BY DEF SessionInv
<1>2. Read(b)'
  BY <1>1 DEF Read, Once, Begun, InPlace, box
<1>3. Len(a) \in Nat /\ Len(b) \in Nat
  BY <1>1 DEF Read
<1>4. /\ Len(a) < Len(b)
      /\ \A k \in 1..Len(a) : b[k] = a[k]
      /\ \A k \in Len(a) + 1..Len(b) - 1 : b[k].part = "begin"
      /\ b[Len(b)].part = "end"
      /\ m = IF Len(b) = Len(a) + 2 /\ b[Len(a) + 1].of = b[Len(b)].of THEN b[Len(b)].of ELSE NoSender
  BY <1>1 DEF LineAfter
<1>5. \A k \in 1..Len(b) : b[k] \in Pieces /\ b[k].of \in Sender
  BY <1>1, OfSender DEF Read
<1>6. m # NoSender => b[Len(b)] = Piece(m, "end")
  BY <1>0, <1>3, <1>4, <1>5, PieceEq
<1>7. ASSUME NEW i \in Delivered'
      PROVE  \/ /\ i \in Delivered /\ log'[i] = log[i] /\ i \in Nat /\ i <= Len(log)
                /\ \E k \in 1..Len(a) : b[k] = Piece(log'[i].of, "end")
             \/ /\ i \in D /\ i \in Nat /\ Len(log) < i
                /\ b[Len(b)] = Piece(log'[i].of, "end")
  <2>1. CASE i \in Delivered
    BY <1>1, <1>4, <2>1 DEF Recorded
  <2>2. CASE i \in D
    BY <1>6, <2>2
  <2> QED
    BY <2>1, <2>2
<1>8. \A i \in Delivered' : \E k \in 1..Len(b) : b[k] = Piece(log'[i].of, "end")
  <2> SUFFICES ASSUME NEW i \in Delivered'
               PROVE  \E k \in 1..Len(b) : b[k] = Piece(log'[i].of, "end")
    OBVIOUS
  <2>1. CASE \E k \in 1..Len(a) : b[k] = Piece(log'[i].of, "end")
    BY <1>3, <1>4, <2>1
  <2>2. CASE b[Len(b)] = Piece(log'[i].of, "end")
    BY <1>3, <1>4, <2>2
  <2> QED
    BY <1>7, <2>1, <2>2
<1>9. ASSUME NEW i \in Delivered', NEW j \in Delivered', NEW k \in 1..Len(b), NEW l \in 1..Len(b),
             i < j, b[k] = Piece(log'[i].of, "end"), b[l] = Piece(log'[j].of, "end")
      PROVE  k < l
  <2>1. i \notin D
    BY <1>0, <1>7, <1>9
  <2>2. i \in Delivered /\ log'[i] = log[i]
    BY <1>7, <2>1
  <2>3. PICK k1 \in 1..Len(a) : b[k1] = Piece(log'[i].of, "end")
    BY <1>7, <2>1
  <2>4. k = k1 /\ k \in 1..Len(a)
    BY <1>1, <1>3, <1>4, <1>9, <2>3 DEF Read, Once
  <2>5. CASE j \in Delivered /\ log'[j] = log[j] /\ \E l1 \in 1..Len(a) : b[l1] = Piece(log'[j].of, "end")
    <3>1. PICK l1 \in 1..Len(a) : b[l1] = Piece(log'[j].of, "end")
      BY <2>5
    <3>2. l = l1 /\ l \in 1..Len(a)
      BY <1>1, <1>3, <1>4, <1>9, <3>1 DEF Read, Once
    <3>3. a[k] = Piece(log[i].of, "end") /\ a[l] = Piece(log[j].of, "end")
      BY <1>4, <1>9, <2>2, <2>4, <2>5, <3>2
    <3> QED
      BY <1>1, <1>9, <2>2, <2>4, <2>5, <3>2, <3>3 DEF Recorded
  <2>6. CASE b[Len(b)] = Piece(log'[j].of, "end")
    <3>1. l = Len(b)
      BY <1>1, <1>3, <1>4, <1>9, <2>6 DEF Read, Once
    <3> QED
      BY <1>3, <1>4, <2>4, <3>1
  <2> QED
    BY <1>7, <2>5, <2>6
<1>10. ASSUME NEW k \in 1..Len(b) - 1, Whole(b, k)
       PROVE  b[k].of \in torn' \/ \E j \in Delivered' : log'[j].of = b[k].of
  <2>1. /\ b[k].part = "begin" /\ b[k + 1] = Piece(b[k].of, "end")
        /\ k > 1 => b[k - 1].part = "end"
    BY <1>10 DEF Whole
  <2>2. b[k + 1].part = "end" /\ b[k + 1].of = b[k].of
    <3>1. b[k].of \in Sender
      BY <1>3, <1>5
    <3> QED
      BY <2>1, <3>1, PieceEq
  <2>3. CASE k + 1 <= Len(a)
    <3>1. k \in 1..Len(a) - 1 /\ k \in 1..Len(a) /\ k + 1 \in 1..Len(a) /\ (k > 1 => k - 1 \in 1..Len(a))
      BY <1>3, <2>3
    <3>2. Whole(a, k) /\ a[k] = b[k]
      BY <1>4, <2>1, <3>1 DEF Whole
    <3>3. a[k].of \in torn \/ \E j \in Delivered : log[j].of = a[k].of
      BY <1>1, <3>1, <3>2 DEF Recorded
    <3> QED
      BY <3>2, <3>3
  <2>4. CASE k = Len(a)
    BY <1>1, <1>3, <1>4, <2>1, <2>4 DEF Recorded
  <2>5. CASE k > Len(a)
    <3>1. k + 1 = Len(b)
      BY <1>3, <1>4, <2>2, <2>5
    <3>2. k = Len(a) + 1
      <4>1. CASE k > 1
        <5>1. k - 1 \notin Len(a) + 1..Len(b) - 1
          BY <1>4, <2>1, <4>1
        <5> QED
          BY <1>3, <2>5, <4>1, <5>1
      <4>2. CASE ~(k > 1)
        BY <1>3, <2>5, <4>2
      <4> QED
        BY <4>1, <4>2
    <3>3. m = b[k].of /\ m # NoSender
      BY <1>3, <1>4, <1>5, <2>2, <3>1, <3>2, InboxConstantsOK
    <3> QED
      BY <3>3
  <2> QED
    BY <1>3, <2>3, <2>4, <2>5
<1>11. Recorded(b)'
  BY <1>4, <1>8, <1>9, <1>10 DEF Recorded, Whole
<1> QED
  BY <1>2, <1>11

LEMMA RecordTypes ==
    ASSUME NEW c \in Cursors, NEW m \in Sender
    PROVE  /\ Receipt(c) \in LogRecord /\ Receipt(c).kind = "receipt" /\ Receipt(c).cursor = c
           /\ Prompt(m) \in LogRecord /\ Prompt(m).kind = "prompt" /\ Prompt(m).of = m
BY NoCursorType DEF Receipt, Prompt, LogRecord

LEMMA ReceiptType ==
    ASSUME NEW c \in Cursors
    PROVE  Receipt(c) \in LogRecord /\ Receipt(c).kind = "receipt" /\ Receipt(c).cursor = c
BY DEF Receipt, LogRecord

\* What deliver appends to the log.
LEMMA RecordsAre ==
    ASSUME NEW c \in Cursors, NEW m \in Sender \cup {NoSender}
    PROVE  /\ Records(c, m) \in Seq(LogRecord)
           /\ Records(c, m)[1] = Receipt(c)
           /\ m = NoSender => Len(Records(c, m)) = 1
           /\ m # NoSender => Len(Records(c, m)) = 2 /\ Records(c, m)[2] = Prompt(m)
<1>1. PICK r \in LogRecord : r = Receipt(c)
  BY ReceiptType
<1>2. CASE m = NoSender
  <2>1. Records(c, m) = <<r>> \o <<>>
    BY <1>1, <1>2 DEF Records, Prompts
  <2>2. <<r>> \in Seq(LogRecord) /\ Len(<<r>>) = 1 /\ <<r>>[1] = r
    OBVIOUS
  <2>3. Records(c, m) = <<r>>
    BY <2>1, <2>2, ConcatEmptySeq
  <2> QED
    BY <1>1, <1>2, <2>2, <2>3
<1>3. CASE m # NoSender
  <2>1. PICK p \in LogRecord : p = Prompt(m)
    BY <1>3, RecordTypes
  <2>2. Records(c, m) = <<r>> \o <<p>>
    BY <1>1, <1>3, <2>1 DEF Records, Prompts
  <2> QED
    BY <1>1, <1>3, <2>1, <2>2
<1> QED
  BY <1>2, <1>3

LEMMA DeliverStep ==
    ASSUME BoxInv, SessionInv, Deliver
    PROVE  BoxInv' /\ SessionInv'
<1> DEFINE N == Len(log) + 2
<1>0. /\ TypeInv /\ Len(log) \in Nat /\ mailbox.next \in Cursors
      /\ mailbox.message \in Sender \cup {NoSender} /\ mailbox.pending /\ mailbox.up
  BY DEF BoxInv, TypeInv, SessionInv, Deliver
<1>1. PICK c \in Cursors, m \in Sender \cup {NoSender} : c = mailbox.next /\ m = mailbox.message
  BY <1>0
<1>2. /\ log' = log \o Records(c, m) /\ UNCHANGED <<box, runs, torn>>
      /\ mailbox' = [mailbox EXCEPT !.pending = FALSE, !.cursor = c,
                                    !.next = NoCursor, !.message = NoSender]
  BY <1>1 DEF Deliver
<1>3. /\ log' \in Seq(LogRecord)
      /\ \A i \in 1..Len(log) : log'[i] = log[i]
      /\ log'[Len(log) + 1] = Receipt(c)
      /\ m = NoSender => Len(log') = Len(log) + 1
      /\ m # NoSender => Len(log') = N /\ log'[N] = Prompt(m)
  <2>1. PICK R : R = Records(c, m)
    OBVIOUS
  <2>2. /\ R \in Seq(LogRecord) /\ R[1] = Receipt(c)
        /\ m = NoSender => Len(R) = 1
        /\ m # NoSender => Len(R) = 2 /\ R[2] = Prompt(m)
    BY <2>1, RecordsAre
  <2>3. /\ log' \in Seq(LogRecord) /\ Len(log') = Len(log) + Len(R)
        /\ \A i \in 1..Len(log) + Len(R) : log'[i] = IF i <= Len(log) THEN log[i] ELSE R[i - Len(log)]
    BY <1>0, <1>2, <2>1, <2>2, ConcatProperties DEF TypeInv
  <2> QED
    BY <1>0, <2>2, <2>3
<1>4. Receipt(c).kind = "receipt" /\ Receipt(c).cursor = c
  BY ReceiptType
<1>5. m # NoSender => Prompt(m).kind = "prompt" /\ Prompt(m).of = m
  BY RecordTypes
<1>6. Position' = c
  BY <1>0, <1>3, <1>4, <1>5, PositionAfter
<1>7. TypeInv'
  BY <1>0, <1>2, <1>3, NoCursorType DEF TypeInv, box
<1>8. BoxInv'
  BY <1>2, <1>7, SessionBox
<1> DEFINE D == IF m = NoSender THEN {} ELSE {N}
<1>9. Delivered' = Delivered \cup D
  <2>1. Delivered' = {i \in 1..Len(log') : log'[i].kind = "prompt"}
    BY DEF Delivered
  <2>2. Delivered = {i \in 1..Len(log) : log[i].kind = "prompt"}
    BY DEF Delivered
  <2> QED
    BY <1>0, <1>3, <1>4, <1>5, <2>1, <2>2
<1>10. \A i \in Delivered : log'[i] = log[i] /\ i \in Nat /\ i <= Len(log)
  BY <1>0, <1>3 DEF Delivered
<1>11. \A i \in D : /\ i \in Nat /\ Len(log) < i /\ log'[i].of = m /\ m # NoSender
                    /\ \A j \in D : i = j
  BY <1>0, <1>3, <1>5
<1>12. m # NoSender => D # {}
  OBVIOUS
<1> HIDE DEF D, N
<1>13. PICK a, b : a = Position.boundary /\ b = c.boundary
  OBVIOUS
<1>14. Read(b)' /\ Recorded(b)'
  <2>1. b = mailbox.next.boundary /\ UNCHANGED box /\ torn \subseteq torn'
    BY <1>1, <1>2, <1>13
  <2> QED
    BY <1>0, <1>1, <1>9, <1>10, <1>11, <1>12, <1>13, <2>1, Accept
<1>15. Read(Position.boundary)' /\ Recorded(Position.boundary)'
  BY <1>6, <1>13, <1>14 DEF Read, Once, Begun, InPlace, Recorded
<1>16. ~mailbox'.pending /\ mailbox'.cursor = c
  BY <1>0, <1>2 DEF TypeInv
<1> QED
  BY <1>6, <1>8, <1>15, <1>16 DEF SessionInv

LEMMA TearStep ==
    ASSUME BoxInv, SessionInv, TearDelivery
    PROVE  BoxInv' /\ SessionInv'
<1>0. /\ TypeInv /\ Len(log) \in Nat /\ mailbox.next \in Cursors
      /\ mailbox.message \in Sender \cup {NoSender} /\ mailbox.pending
  BY DEF BoxInv, TypeInv, TearDelivery
<1>1. PICK c \in Cursors, m \in Sender \cup {NoSender} : c = mailbox.next /\ m = mailbox.message
  BY <1>0
<1>2. Records(c, m)[1] = Receipt(c)
  BY RecordsAre
<1>3. Receipt(c) \in LogRecord /\ Receipt(c).kind = "receipt" /\ Receipt(c).cursor = c
  BY ReceiptType
<1>4. /\ log' = Append(log, Receipt(c)) /\ torn' = torn \cup {m} /\ mailbox' = Closed
      /\ UNCHANGED <<box, runs>>
  BY <1>1, <1>2 DEF TearDelivery
<1>5. /\ log' \in Seq(LogRecord) /\ Len(log') = Len(log) + 1
      /\ \A i \in 1..Len(log) : log'[i] = log[i]
      /\ log'[Len(log) + 1] = Receipt(c)
  BY <1>0, <1>3, <1>4 DEF TypeInv
<1>6. Position' = c
  BY <1>0, <1>3, <1>5, PositionAfter
<1>7. Closed \in [up : BOOLEAN, broken : BOOLEAN, cursor : Cursors, pending : BOOLEAN,
                  next : Cursors, message : Sender \cup {NoSender}]
      /\ ~Closed.up /\ ~Closed.pending
  BY NoCursorType DEF Closed
<1>8. TypeInv'
  BY <1>0, <1>4, <1>5, <1>7 DEF TypeInv, box
<1>9. BoxInv'
  BY <1>4, <1>8, SessionBox
<1>10. Delivered' = Delivered \cup {}
  BY <1>0, <1>3, <1>5 DEF Delivered
<1>11. \A i \in Delivered : log'[i] = log[i] /\ i \in Nat /\ i <= Len(log)
  BY <1>0, <1>5 DEF Delivered
<1>12. PICK a, b : a = Position.boundary /\ b = c.boundary
  OBVIOUS
<1>13. PICK D : D = {}
  OBVIOUS
<1>14. Read(b)' /\ Recorded(b)'
  <2>1. /\ b = mailbox.next.boundary /\ UNCHANGED box /\ torn \subseteq torn' /\ m \in torn'
        /\ Delivered' = Delivered \cup D
    BY <1>1, <1>4, <1>10, <1>12, <1>13
  <2>2. \A i \in D : /\ i \in Nat /\ Len(log) < i /\ log'[i].of = m /\ m # NoSender
                     /\ \A j \in D : i = j
    BY <1>13
  <2> QED
    BY <1>0, <1>1, <1>11, <1>12, <2>1, <2>2, Accept
<1>15. Read(Position.boundary)' /\ Recorded(Position.boundary)'
  BY <1>6, <1>12, <1>14 DEF Read, Once, Begun, InPlace, Recorded
<1> QED
  BY <1>4, <1>6, <1>7, <1>9, <1>15 DEF SessionInv

-----------------------------------------------------------------------------
InboxInv == BoxInv /\ SessionInv

LEMMA NextInbox == InboxInv /\ [Next]_vars => InboxInv'
<1> SUFFICES ASSUME BoxInv, SessionInv, [Next]_vars PROVE BoxInv' /\ SessionInv'
  BY DEF InboxInv
<1>1. ASSUME NEW m \in Sender,
             Lock(m) \/ WriteSome(m) \/ WriteRest(m) \/ Acknowledge(m) \/ Fail(m) \/ Die(m)
      PROVE  BoxInv' /\ SessionInv'
  <2>1. BoxInv'
    BY <1>1, QuietBox, WriteBox, FailBox
  <2> QED
    BY <1>1, <2>1, SendSession
<1>2. CASE Open \/ FailDelivery \/ Exit
  BY <1>2, QuietSession
<1>3. ASSUME NEW i \in 1..Len(file), Peek(i) PROVE BoxInv' /\ SessionInv'
  BY <1>3, PeekStep
<1>4. CASE Deliver
  BY <1>4, DeliverStep
<1>5. CASE TearDelivery
  BY <1>5, TearStep
<1>6. CASE UNCHANGED vars
  <2>1. UNCHANGED <<box, log, mailbox, runs, torn>>
    BY <1>6 DEF vars, session
  <2>2. TypeInv'
    BY <2>1 DEF BoxInv, TypeInv, box
  <2>3. Position' = Position /\ Delivered' = Delivered
    BY <2>1 DEF Position, Receipts, Delivered
  <2>4. Read(Position.boundary)' /\ Recorded(Position.boundary)'
    <3>1. Read(Position.boundary)'
      BY <2>1, <2>3 DEF SessionInv, Read, Once, Begun, InPlace, box
    <3>2. Recorded(Position.boundary)'
      BY <2>1, <2>3 DEF SessionInv, Recorded
    <3> QED
      BY <3>1, <3>2
  <2>5. mailbox.pending => Read(mailbox.next.boundary)'
    BY <2>1 DEF SessionInv, Read, Once, Begun, InPlace, box
  <2>6. mailbox.pending => LineAfter(Position.boundary, mailbox.next.boundary, mailbox.message)'
    BY <2>1, <2>3 DEF SessionInv, LineAfter
  <2> QED
    BY <2>1, <2>2, <2>3, <2>4, <2>5, <2>6, SessionBox DEF SessionInv
<1> QED
  BY <1>1, <1>2, <1>3, <1>4, <1>5, <1>6 DEF Next

LEMMA InitInbox == Init => InboxInv
<1> SUFFICES ASSUME Init PROVE InboxInv
  OBVIOUS
<1>1. file = <<>> /\ log = <<>> /\ Len(file) = 0 /\ Len(log) = 0
  BY DEF Init
<1>2. /\ lock = NoSender /\ start = 0 /\ runs = 0 /\ torn = {} /\ mailbox = Closed
      /\ sender = [m \in Sender |-> "new"]
  BY DEF Init
<1>3. Closed \in [up : BOOLEAN, broken : BOOLEAN, cursor : Cursors, pending : BOOLEAN,
                  next : Cursors, message : Sender \cup {NoSender}]
      /\ ~Closed.up /\ ~Closed.pending
  BY NoCursorType DEF Closed
<1>4. TypeInv
  <2>1. file \in Seq(Pieces) /\ log \in Seq(LogRecord)
    BY <1>1
  <2> QED
    BY <1>2, <1>3, <2>1 DEF TypeInv
<1>5. BoxInv
  BY <1>1, <1>2, <1>4 DEF BoxInv, Sending, Once, Begun
<1>6. Position = NoCursor /\ Delivered = {}
  BY <1>1 DEF Position, Receipts, Delivered
<1>7. PICK b : b = NoCursor.boundary /\ b \in Seq(Pieces) /\ Len(b) = 0
  BY NoCursorType DEF Cursors
<1>8. Read(b) /\ Recorded(b)
  BY <1>6, <1>7 DEF Read, Once, Begun, InPlace, Recorded
<1> QED
  BY <1>2, <1>3, <1>5, <1>6, <1>7, <1>8, NoCursorType DEF InboxInv, SessionInv

\* No message is delivered twice, and messages keep the order of the mailbox
\* (DeliveredOnce), for all senders and wherever they or the session die: what
\* was delivered is in the content that the position stands for.
THEOREM AlwaysDeliveredOnce == Spec => []DeliveredOnce
<1>1. InboxInv => DeliveredOnce
  <2> SUFFICES ASSUME InboxInv PROVE DeliveredOnce
    OBVIOUS
  <2>1. PICK b : b = Position.boundary
    OBVIOUS
  <2>2. Read(b) /\ Recorded(b)
    BY <2>1 DEF InboxInv, SessionInv
  <2>3. Len(b) \in Nat /\ Delivered \subseteq Nat
    BY <2>2 DEF Read, InboxInv, BoxInv, TypeInv, Delivered
  <2>4. ASSUME NEW i \in Delivered, NEW j \in Delivered, log[i].of = log[j].of, i < j PROVE FALSE
    <3>1. PICK k \in 1..Len(b) : b[k] = Piece(log[i].of, "end")
      BY <2>2 DEF Recorded
    <3>2. k < k
      BY <2>2, <2>4, <3>1 DEF Recorded
    <3> QED
      BY <2>3, <3>2
  <2>5. \A i, j \in Delivered : log[i].of = log[j].of => i = j
    BY <2>3, <2>4
  <2>6. ASSUME NEW i \in Delivered, NEW j \in Delivered,
               NEW k \in 1..Len(file), NEW l \in 1..Len(file),
               i < j, file[k] = Piece(log[i].of, "end"), file[l] = Piece(log[j].of, "end")
        PROVE  k < l
    <3>1. PICK k1 \in 1..Len(b) : b[k1] = Piece(log[i].of, "end")
      BY <2>2 DEF Recorded
    <3>2. PICK l1 \in 1..Len(b) : b[l1] = Piece(log[j].of, "end")
      BY <2>2 DEF Recorded
    <3>3. k1 = k /\ l1 = l
      BY <2>2, <2>6, <3>1, <3>2 DEF Read, InPlace
    <3> QED
      BY <2>2, <2>6, <3>1, <3>2, <3>3 DEF Recorded
  <2> QED
    BY <2>5, <2>6 DEF DeliveredOnce
<1> QED
  BY <1>1, InitInbox, NextInbox, PTL DEF Spec

\* A message that was acknowledged to its sender is in the mailbox and is read
\* from there or delivered (AckedArrives), but for the losses that the property
\* names.
THEOREM AckedAlwaysArrives == Spec => []AckedArrives
<1>1. InboxInv => AckedArrives
  <2> SUFFICES ASSUME InboxInv, NEW m \in Sender, sender[m] = "sent"
               PROVE  \E i \in 1..Len(file) - 1 :
                         /\ file[i] = Piece(m, "begin") /\ file[i + 1] = Piece(m, "end")
                         /\ \/ Position.offset < i
                            \/ \E j \in Delivered : log[j].of = m
                            \/ Glued(i)
                            \/ m \in torn
                            \/ ~Known(Position)
    BY DEF AckedArrives
  <2>0. BoxInv /\ SessionInv /\ TypeInv
    BY DEF InboxInv, BoxInv
  <2>1. PICK i \in 1..Len(file) - 1 : file[i] = Piece(m, "begin") /\ file[i + 1] = Piece(m, "end")
    BY <2>0 DEF BoxInv, InFile
  <2> SUFFICES ASSUME ~(Position.offset < i), ~Glued(i), Known(Position)
               PROVE  m \in torn \/ \E j \in Delivered : log[j].of = m
    BY <2>1
  <2>2. PICK b : b = Position.boundary
    OBVIOUS
  <2>3. PICK n \in Nat : n = Position.offset /\ Len(b) = n /\ b \in Seq(Pieces)
    BY <2>0, <2>2 DEF SessionInv, Cursors
  <2>4. n <= Len(file) /\ b = SubSeq(file, 1, n) /\ file \in Seq(Pieces) /\ Len(file) \in Nat
    BY <2>0, <2>2, <2>3 DEF Known, Upto, TypeInv
  <2>5. \A k \in 1..n : b[k] = file[k]
    BY <2>4
  <2>6. Recorded(b)
    BY <2>0, <2>2 DEF SessionInv
  <2>7. Piece(m, "begin").part = "begin" /\ Piece(m, "begin").of = m
    BY PieceEq
  <2>8. i <= n /\ i \in Nat
    BY <2>3, <2>4
  <2>9. i # n
    BY <2>1, <2>3, <2>5, <2>6, <2>7, <2>8 DEF Recorded
  <2>10. i \in 1..Len(b) - 1 /\ i \in 1..n /\ i + 1 \in 1..n /\ (i > 1 => i - 1 \in 1..n)
    BY <2>3, <2>8, <2>9
  <2>11. i > 1 => file[i - 1].part = "end"
    <3>1. \A k \in 1..Len(file) : file[k].part \in {"begin", "end"}
      <4>1. \A k \in 1..Len(file) : file[k] \in Pieces
        BY <2>4
      <4> QED
        BY <4>1 DEF Pieces
    <3> QED
      BY <2>4, <2>10, <3>1 DEF Glued
  <2>12. Whole(b, i)
    BY <2>1, <2>5, <2>7, <2>10, <2>11 DEF Whole
  <2> QED
    BY <2>1, <2>5, <2>6, <2>7, <2>10, <2>12 DEF Recorded
<1> QED
  BY <1>1, InitInbox, NextInbox, PTL DEF Spec
=============================================================================
