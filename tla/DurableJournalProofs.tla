------------------------ MODULE DurableJournalProofs ------------------------
(***************************************************************************)
(* Theorems about DurableJournal, for every set of processes and batches   *)
(* and every length: the journal can always be opened, memory and what a   *)
(* client has seen agree with it, and it implements DurableLog.            *)
(***************************************************************************)
EXTENDS DurableJournal, SequenceTheorems, TLAPS

\* The lock is held by the process that has the store open.
HolderInv == \A p \in Process : lock = p <=> pc[p] # "closed"

\* What a writer that was never refused knows of the end of the journal.
WriterInv ==
    \A p \in Process :
        /\ pc[p] \in {"append", "partial", "written"} => ~poisoned[p] /\ pending[p] \in Op
        /\ pc[p] \in {"open", "append", "written"} /\ ~poisoned[p] => tail = "none"
        /\ pc[p] = "partial" => tail = "partial"
        /\ pc[p] \in {"open", "append", "partial"} /\ ~poisoned[p] => state[p] = History(file)
        /\ pc[p] = "written" => History(file) = Append(state[p], pending[p])

\* The history h is a prefix of what the lines record.
Holds(lines, h) == Len(h) <= Len(lines) /\ h = Batches(lines, Len(h))

\* What is known of the journal is in it: the memory of a store that refuses to
\* write, what was acknowledged, and what the client has seen.
KnownInv ==
    /\ \A p \in Process : Holds(file, state[p])
    /\ Holds(file, acked)
    /\ fsync => Len(acked) <= synced
    /\ ~outage => Holds(file, seen)

JournalInv == TypeOK /\ Verified(file) /\ HolderInv /\ WriterInv /\ KnownInv

-----------------------------------------------------------------------------
(* Histories.                                                              *)

\* The first n batches of a journal.
LEMMA BatchesType ==
    ASSUME NEW lines \in Seq(Frame), NEW n \in 0..Len(lines)
    PROVE  /\ Batches(lines, n) \in Seq(Op)
           /\ Len(Batches(lines, n)) = n
           /\ \A i \in 1..n : Batches(lines, n)[i] = lines[i].ops
<1>1. ASSUME NEW i \in 1..n PROVE lines[i].ops \in Op
  <2>1. i \in 1..Len(lines)
    OBVIOUS
  <2>2. lines[i] \in Frame
    BY <2>1, ElementOfSeq
  <2> QED
    BY <2>2 DEF Frame
<1>2. Batches(lines, n) \in [1..n -> Op]
  BY <1>1 DEF Batches
<1>3. Batches(lines, n) \in Seq(Op)
  BY <1>2
<1>4. Len(Batches(lines, n)) = n
  BY <1>2, <1>3
<1> QED
  BY <1>3, <1>4 DEF Batches

\* A verified journal holds frames only.
LEMMA VerifiedFrames ==
    ASSUME NEW lines \in Seq(Frame \cup {Garbage}), Verified(lines)
    PROVE  lines \in Seq(Frame)
<1>1. \A i \in 1..Len(lines) : lines[i] \in Frame
  BY DEF Verified
<1> QED
  BY <1>1

\* An appended frame leaves what was recorded alone.
LEMMA BatchesAppend ==
    ASSUME NEW lines \in Seq(Frame), NEW e \in Frame, NEW n \in 0..Len(lines)
    PROVE  Batches(Append(lines, e), n) = Batches(lines, n)
<1>1. \A i \in 1..n : Append(lines, e)[i] = lines[i]
  OBVIOUS
<1> QED
  BY <1>1 DEF Batches

LEMMA HistoryAppend ==
    ASSUME NEW lines \in Seq(Frame), NEW e \in Frame
    PROVE  History(Append(lines, e)) = Append(History(lines), e.ops)
<1> DEFINE more == Append(lines, e)
           n == Len(lines)
<1>1. more \in Seq(Frame) /\ Len(more) = n + 1 /\ n \in Nat /\ n \in 0..Len(lines)
      /\ more[n + 1] = e
      /\ \A i \in 1..n : more[i] = lines[i]
  OBVIOUS
<1> HIDE DEF more
<1>2. /\ Batches(more, n + 1) \in Seq(Op)
      /\ Len(Batches(more, n + 1)) = n + 1
      /\ \A i \in 1..n + 1 : Batches(more, n + 1)[i] = more[i].ops
  BY <1>1, BatchesType
<1>3. /\ Batches(lines, n) \in Seq(Op)
      /\ Len(Batches(lines, n)) = n
      /\ \A i \in 1..n : Batches(lines, n)[i] = lines[i].ops
  BY <1>1, BatchesType
<1>4. e.ops \in Op
  BY DEF Frame
<1>5. \A i \in 1..n + 1 : Batches(more, n + 1)[i] = Append(Batches(lines, n), e.ops)[i]
  BY <1>1, <1>2, <1>3, <1>4
<1>6. Batches(more, n + 1) = Append(Batches(lines, n), e.ops)
  BY <1>1, <1>2, <1>3, <1>4, <1>5, SeqEqual
<1> QED
  BY <1>1, <1>6 DEF History, more

\* A prefix of a journal.
LEMMA PrefixOfJournal ==
    ASSUME NEW lines \in Seq(Frame), NEW n \in 0..Len(lines)
    PROVE  /\ SubSeq(lines, 1, n) \in Seq(Frame)
           /\ Len(SubSeq(lines, 1, n)) = n
           /\ \A k \in 0..n : Batches(SubSeq(lines, 1, n), k) = Batches(lines, k)
           /\ Verified(lines) => Verified(SubSeq(lines, 1, n))
           /\ History(SubSeq(lines, 1, n)) = SubSeq(History(lines), 1, n)
<1> DEFINE part == SubSeq(lines, 1, n)
<1>1. part \in Seq(Frame) /\ Len(part) = n /\ \A i \in 1..n : part[i] = lines[i]
  OBVIOUS
<1> HIDE DEF part
<1>2. \A k \in 0..n : Batches(part, k) = Batches(lines, k)
  BY <1>1 DEF Batches
<1>3. ASSUME Verified(lines) PROVE Verified(part)
  <2>1. ASSUME NEW i \in 1..n
        PROVE  part[i] # Garbage /\ part[i].sequence = i /\ part[i].previous = Batches(part, i - 1)
    <3>1. i \in 1..Len(lines) /\ i - 1 \in 0..n
      OBVIOUS
    <3> QED
      BY <1>1, <1>2, <1>3, <3>1 DEF Verified
  <2> QED
    BY <1>1, <2>1 DEF Verified
<1>4. History(part) = SubSeq(History(lines), 1, n)
  <2> DEFINE h == Batches(lines, Len(lines))
             b == Batches(lines, n)
  <2>1. h \in Seq(Op) /\ Len(h) = Len(lines) /\ \A i \in 1..Len(lines) : h[i] = lines[i].ops
    BY BatchesType
  <2>2. b \in Seq(Op) /\ Len(b) = n /\ \A i \in 1..n : b[i] = lines[i].ops
    BY BatchesType
  <2> HIDE DEF h, b
  <2>3. SubSeq(h, 1, n) \in Seq(Op) /\ Len(SubSeq(h, 1, n)) = n
        /\ \A i \in 1..n : SubSeq(h, 1, n)[i] = h[i]
    BY <2>1
  <2>4. b = SubSeq(h, 1, n)
    BY <2>1, <2>2, <2>3, SeqEqual
  <2> QED
    BY <1>1, <1>2, <2>4 DEF History, h, b
<1> QED
  BY <1>1, <1>2, <1>3, <1>4 DEF part

\* The page that starts after what was seen continues it.
LEMMA PageContinues ==
    ASSUME NEW lines \in Seq(Frame), NEW k \in 0..Len(lines), NEW last \in k + 1..Len(lines)
    PROVE  Batches(lines, k) \o SubSeq(History(lines), k + 1, last) = Batches(lines, last)
<1> DEFINE h == Batches(lines, Len(lines))
           a == Batches(lines, k)
           b == Batches(lines, last)
           s == SubSeq(h, k + 1, last)
<1>0. Len(lines) \in Nat /\ k \in Nat /\ last \in Nat /\ k < last /\ last <= Len(lines)
  OBVIOUS
<1>1. h \in Seq(Op) /\ Len(h) = Len(lines) /\ \A i \in 1..Len(lines) : h[i] = lines[i].ops
  BY BatchesType
<1>2. a \in Seq(Op) /\ Len(a) = k /\ \A i \in 1..k : a[i] = lines[i].ops
  BY BatchesType
<1>3. b \in Seq(Op) /\ Len(b) = last /\ \A i \in 1..last : b[i] = lines[i].ops
  BY BatchesType
<1> HIDE DEF h, a, b
<1>4. s \in Seq(Op) /\ Len(s) = last - k /\ \A i \in 1..last - k : s[i] = h[k + i]
  BY <1>0, <1>1
<1> HIDE DEF s
<1>5. a \o s \in Seq(Op) /\ Len(a \o s) = last
  <2>1. a \o s \in Seq(Op) /\ Len(a \o s) = Len(a) + Len(s)
    BY <1>2, <1>4, ConcatProperties
  <2> QED
    BY <1>0, <1>2, <1>4, <2>1
<1>6. ASSUME NEW i \in 1..last PROVE (a \o s)[i] = b[i]
  <2>1. (a \o s)[i] = IF i <= k THEN a[i] ELSE s[i - k]
    BY <1>0, <1>2, <1>4, ConcatProperties
  <2>2. CASE i <= k
    BY <1>0, <1>2, <1>3, <2>1, <2>2
  <2>3. CASE ~(i <= k)
    <3>1. i - k \in 1..last - k /\ k + (i - k) = i /\ i \in 1..Len(lines)
      BY <1>0, <2>3
    <3>2. s[i - k] = h[i]
      BY <1>4, <3>1
    <3> QED
      BY <1>1, <1>3, <2>1, <2>3, <3>1, <3>2
  <2> QED
    BY <2>2, <2>3
<1>7. a \o s = b
  BY <1>3, <1>5, <1>6, SeqEqual
<1> QED
  BY <1>7 DEF h, a, b, s, History

-----------------------------------------------------------------------------
(* The invariant.                                                          *)

\* Only the process that has the store open moves, so that the others are
\* closed before and after.
LEMMA OneHolder ==
    ASSUME JournalInv, NEW p \in Process, pc[p] # "closed"
    PROVE  lock = p /\ \A q \in Process \ {p} : pc[q] = "closed"
BY DEF JournalInv, HolderInv

LEMMA FileType ==
    ASSUME JournalInv
    PROVE  file \in Seq(Frame) /\ Len(file) \in Nat /\ History(file) \in Seq(Op)
           /\ Len(History(file)) = Len(file)
<1>1. file \in Seq(Frame)
  BY VerifiedFrames DEF JournalInv, TypeOK
<1>2. Len(file) \in Nat
  BY <1>1
<1>3. Len(file) \in 0..Len(file)
  BY <1>2
<1> QED
  BY <1>1, <1>2, <1>3, BatchesType DEF History

\* A history stays recorded when a frame is appended, and when no more than
\* what follows it is lost.
LEMMA HoldsAppend ==
    ASSUME NEW lines \in Seq(Frame), NEW e \in Frame, NEW h \in Seq(Op), Holds(lines, h)
    PROVE  Holds(Append(lines, e), h)
<1>1. Len(h) \in 0..Len(lines) /\ Len(Append(lines, e)) = Len(lines) + 1 /\ Len(lines) \in Nat
  BY DEF Holds
<1>2. Batches(Append(lines, e), Len(h)) = Batches(lines, Len(h))
  BY <1>1, BatchesAppend
<1> QED
  BY <1>1, <1>2 DEF Holds

LEMMA HoldsPrefix ==
    ASSUME NEW lines \in Seq(Frame), NEW n \in 0..Len(lines), NEW h \in Seq(Op),
           Holds(lines, h), Len(h) <= n
    PROVE  Holds(SubSeq(lines, 1, n), h)
<1>1. Len(h) \in 0..n
  OBVIOUS
<1> QED
  BY <1>1, PrefixOfJournal DEF Holds

LEMMA HoldsAll ==
    ASSUME NEW lines \in Seq(Frame)
    PROVE  /\ Holds(lines, History(lines))
           /\ Holds(lines, <<>>)
           /\ \A n \in 0..Len(lines) : Holds(lines, Batches(lines, n))
<1>1. \A n \in 0..Len(lines) : Holds(lines, Batches(lines, n))
  BY BatchesType DEF Holds
<1>2. Batches(lines, 0) = <<>>
  <2>1. Batches(lines, 0) \in Seq(Op) /\ Len(Batches(lines, 0)) = 0
    BY BatchesType
  <2> QED
    BY <2>1, EmptySeq
<1> QED
  BY <1>1, <1>2 DEF History

LEMMA OpenKeepsInv ==
    ASSUME JournalInv, NEW p \in Process, Open(p)
    PROVE  JournalInv'
<1>1. lock = NoProcess /\ pc[p] = "closed" /\ file' = file /\ tail' = "none"
      /\ \A q \in Process : pc[q] = "closed"
  BY JournalConstantsOK DEF Open, DiscardTail, LockFree, JournalInv, HolderInv
<1>2. /\ file \in Seq(Frame)
      /\ Len(file) \in Nat
      /\ History(file) \in Seq(Op)
      /\ Len(History(file)) = Len(file)
  BY FileType
<1>3. TypeOK'
  BY <1>1, <1>2 DEF JournalInv, TypeOK, Open, DiscardTail, power
<1>4. HolderInv'
  BY <1>1, JournalConstantsOK DEF JournalInv, TypeOK, HolderInv, Open
<1>5. WriterInv'
  BY <1>1 DEF JournalInv, TypeOK, WriterInv, Open
<1>6. KnownInv'
  <2>1. Holds(file, History(file))
    BY <1>2, HoldsAll
  <2>2. (fsync => Len(acked) <= synced)'
    BY <1>1, <1>2 DEF JournalInv, TypeOK, KnownInv, Holds, Open, DiscardTail, power
  <2> QED
    BY <1>1, <2>1, <2>2 DEF JournalInv, TypeOK, KnownInv, Open, power
<1> QED
  BY <1>1, <1>3, <1>4, <1>5, <1>6 DEF JournalInv

LEMMA BeginCommitKeepsInv ==
    ASSUME JournalInv, NEW p \in Process, NEW op \in Op, BeginCommit(p, op)
    PROVE  JournalInv'
<1>1. lock = p /\ pc[p] = "open" /\ \A q \in Process \ {p} : pc[q] = "closed"
  BY OneHolder DEF BeginCommit
<1>2. TypeOK' /\ HolderInv'
  BY <1>1 DEF JournalInv, TypeOK, HolderInv, BeginCommit, power, files
<1>3. WriterInv'
  BY <1>1 DEF JournalInv, TypeOK, WriterInv, BeginCommit, files
<1> QED
  BY <1>2, <1>3 DEF JournalInv, KnownInv, BeginCommit, power, files

LEMMA WriteSomeKeepsInv ==
    ASSUME JournalInv, NEW p \in Process, WriteSome(p)
    PROVE  JournalInv'
<1>1. lock = p /\ pc[p] = "append" /\ \A q \in Process \ {p} : pc[q] = "closed"
  BY OneHolder DEF WriteSome
<1>2. ~poisoned[p] /\ tail = "none" /\ tail' = "partial" /\ file' = file
  BY <1>1 DEF JournalInv, WriterInv, WriteSome
<1>3. TypeOK' /\ HolderInv'
  BY <1>1, <1>2 DEF JournalInv, TypeOK, HolderInv, WriteSome, power, memory
<1>4. WriterInv'
  BY <1>1, <1>2 DEF JournalInv, TypeOK, WriterInv, WriteSome, memory
<1> QED
  BY <1>2, <1>3, <1>4 DEF JournalInv, KnownInv, WriteSome, power, memory

\* The frame continues the journal the writer knows.
LEMMA WriteRestAppends ==
    ASSUME JournalInv, NEW p \in Process, WriteRest(p)
    PROVE  /\ pending[p] \in Op
           /\ NewFrame(p) \in Frame
           /\ file' = Append(file, NewFrame(p))
           /\ History(file') = Append(History(file), pending[p])
           /\ Verified(file')
           /\ state[p] = History(file)
<1>1. /\ pc[p] = "partial" /\ tail = "partial" /\ pending[p] \in Op
      /\ state[p] = History(file)
  BY DEF WriteRest, JournalInv, WriterInv
<1>2. /\ file \in Seq(Frame)
      /\ Len(file) \in Nat
      /\ History(file) \in Seq(Op)
      /\ Len(History(file)) = Len(file)
  BY FileType
<1>3. NewFrame(p) \in Frame /\ NewFrame(p).ops = pending[p]
      /\ NewFrame(p).sequence = Len(file) + 1 /\ NewFrame(p).previous = Batches(file, Len(file))
  BY <1>1, <1>2 DEF NewFrame, Frame, History
<1>4. file' = Append(file, NewFrame(p))
  BY <1>1 DEF WriteRest
<1> DEFINE e == NewFrame(p)
<1> HIDE DEF e
<1>5. e # Garbage
  BY <1>1, <1>3, JournalConstantsOK DEF Garbage, e
<1>6. Verified(Append(file, e))
  <2> DEFINE more == Append(file, e)
  <2>1. /\ Len(more) = Len(file) + 1 /\ more[Len(file) + 1] = e
        /\ \A i \in 1..Len(file) : more[i] = file[i]
    BY <1>2, <1>3, AppendProperties DEF e
  <2>2. \A n \in 0..Len(file) : Batches(more, n) = Batches(file, n)
    BY <1>2, <1>3, BatchesAppend DEF e
  <2> HIDE DEF more
  <2>3. ASSUME NEW i \in 1..Len(more)
        PROVE  more[i] # Garbage /\ more[i].sequence = i /\ more[i].previous = Batches(more, i - 1)
    <3>1. CASE i \in 1..Len(file)
      <4>1. i - 1 \in 0..Len(file)
        BY <1>2, <3>1
      <4> QED
        BY <2>1, <2>2, <3>1, <4>1 DEF JournalInv, Verified
    <3>2. CASE i = Len(file) + 1
      <4>1. i - 1 = Len(file) /\ Len(file) \in 0..Len(file)
        BY <1>2, <3>2
      <4> QED
        BY <1>3, <1>5, <2>1, <2>2, <3>2, <4>1 DEF e
    <3> QED
      BY <1>2, <2>1, <3>1, <3>2
  <2> QED
    BY <2>3 DEF Verified, more
<1> QED
  BY <1>1, <1>2, <1>3, <1>4, <1>6, HistoryAppend DEF e

LEMMA WriteRestKeepsInv ==
    ASSUME JournalInv, NEW p \in Process, WriteRest(p)
    PROVE  JournalInv'
<1>1. lock = p /\ pc[p] = "partial" /\ \A q \in Process \ {p} : pc[q] = "closed"
  BY OneHolder DEF WriteRest
<1>2. /\ pending[p] \in Op
      /\ NewFrame(p) \in Frame
      /\ file' = Append(file, NewFrame(p))
      /\ History(file') = Append(History(file), pending[p])
      /\ Verified(file')
      /\ state[p] = History(file)
  BY WriteRestAppends
<1>3. file \in Seq(Frame) /\ Len(file) \in Nat
  BY FileType
<1>4. file' \in Seq(Frame \cup {Garbage}) /\ Len(file') = Len(file) + 1
  BY <1>2, <1>3
<1> HIDE DEF NewFrame
<1>5. TypeOK' /\ HolderInv'
  BY <1>1, <1>3, <1>4 DEF JournalInv, TypeOK, HolderInv, WriteRest, power, memory
<1>6. WriterInv'
  BY <1>1, <1>2 DEF JournalInv, TypeOK, WriterInv, WriteRest, memory
<1>7. \A h \in Seq(Op) : Holds(file, h) => Holds(file', h)
  BY <1>2, <1>3, HoldsAppend
<1>8. KnownInv'
  BY <1>7 DEF JournalInv, TypeOK, KnownInv, WriteRest, power, memory
<1> QED
  BY <1>2, <1>5, <1>6, <1>8 DEF JournalInv

LEMMA EndCommitKeepsInv ==
    ASSUME JournalInv, NEW p \in Process, EndCommit(p)
    PROVE  JournalInv' /\ acked' = History(file)
<1>1. /\ lock = p /\ pc[p] = "written" /\ \A q \in Process \ {p} : pc[q] = "closed"
      /\ file' = file /\ tail' = tail
  BY OneHolder DEF EndCommit, SyncData
<1>2. ~poisoned[p] /\ pending[p] \in Op /\ tail = "none"
      /\ History(file) = Append(state[p], pending[p])
  BY <1>1 DEF JournalInv, WriterInv
<1>3. /\ file \in Seq(Frame)
      /\ Len(file) \in Nat
      /\ History(file) \in Seq(Op)
      /\ Len(History(file)) = Len(file)
  BY FileType
<1>4. state' = [state EXCEPT ![p] = History(file)] /\ acked' = History(file)
  BY <1>2 DEF EndCommit, JournalInv, TypeOK
<1>5. TypeOK' /\ HolderInv'
  BY <1>1, <1>3, <1>4 DEF JournalInv, TypeOK, HolderInv, EndCommit, SyncData, power
<1>6. WriterInv'
  BY <1>1, <1>2, <1>4 DEF JournalInv, TypeOK, WriterInv, EndCommit
<1>7. Holds(file, History(file))
  BY <1>3, HoldsAll
<1>8. KnownInv'
  <2>1. (fsync => Len(acked) <= synced)'
    BY <1>1, <1>3, <1>4 DEF EndCommit, SyncData, power
  <2> QED
    BY <1>1, <1>4, <1>7, <2>1 DEF JournalInv, TypeOK, KnownInv, EndCommit, power
<1> QED
  BY <1>1, <1>4, <1>5, <1>6, <1>8 DEF JournalInv

LEMMA FailCommitKeepsInv ==
    ASSUME JournalInv, NEW p \in Process, FailCommit(p)
    PROVE  JournalInv'
<1>1. lock = p /\ pc[p] # "closed" /\ \A q \in Process \ {p} : pc[q] = "closed"
  BY OneHolder DEF FailCommit
<1>2. TypeOK' /\ HolderInv'
  BY <1>1 DEF JournalInv, TypeOK, HolderInv, FailCommit, Poisoned, power, files
<1>3. WriterInv'
  BY <1>1 DEF JournalInv, TypeOK, WriterInv, FailCommit, Poisoned, files
<1> QED
  BY <1>2, <1>3 DEF JournalInv, KnownInv, FailCommit, power, files

LEMMA PoisonKeepsInv ==
    ASSUME JournalInv, NEW p \in Process, Poison(p)
    PROVE  JournalInv'
<1>1. lock = p /\ pc[p] = "open" /\ \A q \in Process \ {p} : pc[q] = "closed"
  BY OneHolder DEF Poison
<1>2. TypeOK' /\ HolderInv'
  BY <1>1 DEF JournalInv, TypeOK, HolderInv, Poison, Poisoned, power, files
<1>3. WriterInv'
  BY <1>1 DEF JournalInv, TypeOK, WriterInv, Poison, Poisoned, files
<1> QED
  BY <1>2, <1>3 DEF JournalInv, KnownInv, Poison, power, files

LEMMA ExitKeepsInv ==
    ASSUME JournalInv, NEW p \in Process, Exit(p)
    PROVE  JournalInv'
<1>1. lock = p /\ lock' = NoProcess /\ \A q \in Process \ {p} : pc[q] = "closed"
  BY OneHolder DEF Exit
<1>2. TypeOK'
  BY <1>1 DEF JournalInv, TypeOK, Exit, power, files
<1>3. HolderInv' /\ WriterInv'
  BY <1>1, JournalConstantsOK DEF JournalInv, TypeOK, HolderInv, WriterInv, Exit, files
<1>4. Holds(file, <<>>)
  BY FileType, HoldsAll
<1>5. KnownInv'
  BY <1>4 DEF JournalInv, TypeOK, KnownInv, Exit, power, files
<1> QED
  BY <1>2, <1>3, <1>5 DEF JournalInv, Exit, files

LEMMA LosePowerKeepsInv ==
    ASSUME JournalInv, NEW n \in 0..Len(file), LosePower(n)
    PROVE  JournalInv' /\ Len(acked) <= n
<1>1. file \in Seq(Frame) /\ Len(file) \in Nat
  BY FileType
<1>2. /\ file' \in Seq(Frame)
      /\ Len(file') = n
      /\ Verified(file')
  BY <1>1, PrefixOfJournal DEF LosePower, JournalInv
<1>3. Len(acked) <= n
  BY <1>1 DEF JournalInv, TypeOK, KnownInv, LosePower
<1>4. Holds(file', acked) /\ Holds(file', <<>>)
  BY <1>1, <1>2, <1>3, HoldsPrefix, HoldsAll DEF LosePower, JournalInv, TypeOK, KnownInv
<1>5. file' \in Seq(Frame \cup {Garbage})
  BY <1>2, SeqMonotonic
<1>6. TypeOK'
  <2>1. tail' \in {"none", "partial", "mixed"}
    BY DEF LosePower
  <2>2. synced' \in 0..Len(file')
    BY <1>2 DEF LosePower
  <2> QED
    BY <1>5, <2>1, <2>2, EmptySeq DEF JournalInv, TypeOK, LosePower
<1>7. HolderInv' /\ WriterInv'
  BY JournalConstantsOK DEF HolderInv, WriterInv, LosePower
<1>8. KnownInv'
  BY <1>3, <1>4 DEF KnownInv, LosePower
<1> QED
  BY <1>2, <1>3, <1>6, <1>7, <1>8 DEF JournalInv

\* A poll only changes what the client has seen.
LEMMA SeenKeepsInv ==
    ASSUME JournalInv, UNCHANGED <<power, files, lock, pc, memory, acked>>,
           seen' \in Seq(Op), ~outage => Holds(file, seen')
    PROVE  JournalInv'
<1>1. TypeOK'
  BY DEF JournalInv, TypeOK, power, files, memory
<1>2. HolderInv' /\ WriterInv'
  BY DEF JournalInv, HolderInv, WriterInv, files, memory
<1>3. KnownInv' /\ Verified(file')
  BY DEF JournalInv, KnownInv, power, files, memory
<1> QED
  BY <1>1, <1>2, <1>3 DEF JournalInv

LEMMA ReadChangesKeepsInv ==
    ASSUME JournalInv, NEW p \in Process, NEW last \in 1..Len(file), ReadChanges(p, last)
    PROVE  JournalInv'
<1>1. /\ file \in Seq(Frame)
      /\ Len(file) \in Nat
      /\ History(file) \in Seq(Op)
      /\ Len(History(file)) = Len(file)
  BY FileType
<1>2. seen \in Seq(Op) /\ Len(seen) \in Nat
  BY DEF JournalInv, TypeOK
<1>3. last \in Len(seen) + 1..Len(file)
  BY <1>1, <1>2, JournalConstantsOK DEF ReadChanges
<1>4. seen' = seen \o SubSeq(History(file), Len(seen) + 1, last)
  BY DEF ReadChanges, Page
<1>5. seen' \in Seq(Op)
  <2>1. \A i \in Len(seen) + 1..last : History(file)[i] \in Op
    BY <1>1, <1>2, <1>3, ElementOfSeq
  <2>2. SubSeq(History(file), Len(seen) + 1, last) \in Seq(Op)
    BY <1>2, <2>1, SubSeqProperties
  <2> QED
    BY <1>2, <1>4, <2>2, ConcatProperties
<1>6. ASSUME ~outage PROVE Holds(file, seen')
  <2>1. seen = Batches(file, Len(seen))
    BY <1>6 DEF JournalInv, KnownInv, Holds
  <2>2. Len(seen) \in 0..Len(file)
    BY <1>1, <1>2, <1>3
  <2>3. Batches(file, Len(seen)) \o SubSeq(History(file), Len(seen) + 1, last) = Batches(file, last)
    BY <1>1, <1>3, <2>2, PageContinues
  <2>4. Holds(file, Batches(file, last))
    BY <1>1, HoldsAll
  <2> QED
    BY <1>4, <2>1, <2>3, <2>4
<1> QED
  BY <1>5, <1>6, SeenKeepsInv DEF ReadChanges

LEMMA ResetChangesKeepsInv ==
    ASSUME JournalInv, NEW p \in Process, ResetChanges(p)
    PROVE  JournalInv'
<1>1. seen' \in Seq(Op) /\ Holds(file, seen')
  BY DEF JournalInv, TypeOK, KnownInv, ResetChanges
<1> QED
  BY <1>1, SeenKeepsInv DEF ResetChanges

LEMMA InitInv == Init => JournalInv
<1> SUFFICES ASSUME Init PROVE JournalInv
  OBVIOUS
<1>1. file = <<>> /\ file \in Seq(Frame) /\ Len(file) = 0
  BY EmptySeq DEF Init
<1>2. Holds(file, <<>>)
  BY <1>1, HoldsAll
<1>3. TypeOK
  <2>1. <<>> \in Seq(Op) /\ <<>> \in Seq(Frame \cup {Garbage})
    BY EmptySeq
  <2>2. synced \in 0..Len(file)
    BY <1>1 DEF Init
  <2>3. state \in [Process -> Seq(Op)]
    BY <2>1 DEF Init
  <2>4. acked \in Seq(Op) /\ seen \in Seq(Op) /\ file \in Seq(Frame \cup {Garbage})
    BY <2>1 DEF Init
  <2> QED
    BY <2>2, <2>3, <2>4 DEF Init, TypeOK
<1>4. Verified(file)
  BY <1>1 DEF Verified
<1>5. HolderInv /\ WriterInv
  BY JournalConstantsOK DEF Init, HolderInv, WriterInv
<1>6. KnownInv
  BY <1>2, EmptySeq DEF Init, KnownInv
<1> QED
  BY <1>3, <1>4, <1>5, <1>6 DEF JournalInv

LEMMA StutterInv == JournalInv /\ UNCHANGED vars => JournalInv'
<1> SUFFICES ASSUME JournalInv, UNCHANGED vars PROVE JournalInv'
  OBVIOUS
<1>1. UNCHANGED <<power, files, lock, pc, memory, acked>> /\ seen' = seen
  BY DEF vars
<1> QED
  BY <1>1, SeenKeepsInv DEF JournalInv, TypeOK, KnownInv

LEMMA NextInv == JournalInv /\ [Next]_vars => JournalInv'
<1> SUFFICES ASSUME JournalInv, [Next]_vars PROVE JournalInv'
  OBVIOUS
<1> QED
  BY StutterInv, OpenKeepsInv, BeginCommitKeepsInv, WriteSomeKeepsInv, WriteRestKeepsInv,
     EndCommitKeepsInv, FailCommitKeepsInv, PoisonKeepsInv, ExitKeepsInv, LosePowerKeepsInv,
     ReadChangesKeepsInv, ResetChangesKeepsInv DEF Next

LEMMA SpecInv == Spec => []JournalInv
BY InitInv, NextInv, PTL DEF Spec

-----------------------------------------------------------------------------
(* The theorems.                                                           *)

\* The variables of the journal keep their types.
THEOREM TypeCorrect == Spec => []TypeOK
<1>1. JournalInv => TypeOK
  BY DEF JournalInv
<1> QED
  BY <1>1, SpecInv, PTL

\* Store::open always verifies: no commit is appended to a torn frame, by a
\* second writer or after an append whose outcome the writer does not know.
THEOREM JournalAlwaysOpens == Spec => []JournalOpens
<1>1. JournalInv => JournalOpens
  BY DEF JournalInv, JournalOpens
<1> QED
  BY <1>1, SpecInv, PTL

\* A store that is open, not poisoned and not in commit holds in memory exactly
\* what its journal records.
THEOREM MemoryIsAlwaysJournal == Spec => []MemoryIsJournal
<1>1. JournalInv => MemoryIsJournal
  BY DEF JournalInv, WriterInv, MemoryIsJournal
<1> QED
  BY <1>1, SpecInv, PTL

\* What a client has collected with changes, pages and resets, is a prefix of
\* the journal until the machine loses power.
THEOREM ObservedIsAlwaysHistory == Spec => []ObservedIsHistory
<1>1. JournalInv => ObservedIsHistory
  BY DEF JournalInv, KnownInv, ObservedIsHistory, Recorded, Holds
<1> QED
  BY <1>1, SpecInv, PTL

\* The journal implements DurableLog: commit appends to one history, and what
\* was acknowledged is never lost, whatever fails, dies or loses power.
THEOREM JournalImplementsLog == Spec => ImplementsLog
<1>1. Init => Log!Init
  <2> SUFFICES ASSUME Init PROVE Log!Init
    OBVIOUS
  <2>1. file = <<>> /\ acked = <<>> /\ Len(file) = 0
    BY EmptySeq DEF Init
  <2>2. History(file) = <<>>
    BY <2>1 DEF History, Batches
  <2> QED
    BY <2>1, <2>2 DEF Log!Init
<1>2. JournalInv /\ [Next]_vars => [Log!Next]_(Log!vars)
  <2> SUFFICES ASSUME JournalInv, [Next]_vars PROVE [Log!Next]_(Log!vars)
    OBVIOUS
  <2>1. CASE file' = file /\ acked' = acked
    BY <2>1 DEF Log!vars
  <2>2. ASSUME NEW p \in Process, WriteRest(p) PROVE Log!Next
    BY <2>2, WriteRestAppends DEF WriteRest, Log!Next, Log!Commit
  <2>3. ASSUME NEW p \in Process, EndCommit(p) PROVE Log!Next
    BY <2>3, EndCommitKeepsInv DEF EndCommit, SyncData, Log!Next, Log!Acknowledge
  <2>4. ASSUME NEW n \in 0..Len(file), LosePower(n) PROVE Log!Next
    <3>1. Len(acked) <= n
      BY <2>4, LosePowerKeepsInv
    <3>2. file \in Seq(Frame) /\ Len(History(file)) = Len(file)
      BY FileType
    <3>3. History(file') = SubSeq(History(file), 1, n)
      BY <2>4, <3>2, PrefixOfJournal DEF LosePower
    <3> QED
      BY <2>4, <3>1, <3>2, <3>3 DEF LosePower, Log!Next, Log!Lose
  <2>5. CASE UNCHANGED vars
    BY <2>1, <2>5 DEF vars, files
  <2>6. ASSUME NEW p \in Process, Open(p) PROVE file' = file /\ acked' = acked
    BY <2>6 DEF Open, DiscardTail
  <2>7. ASSUME NEW p \in Process, WriteSome(p) PROVE file' = file /\ acked' = acked
    BY <2>7 DEF WriteSome
  <2> QED
    BY <2>1, <2>2, <2>3, <2>4, <2>5, <2>6, <2>7
    DEF Next, BeginCommit, FailCommit, Poison, Exit, ReadChanges, ResetChanges, files
<1> QED
  BY <1>1, <1>2, SpecInv, PTL DEF Spec, ImplementsLog, Log!Spec
=============================================================================
