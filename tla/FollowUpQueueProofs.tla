------------------------ MODULE FollowUpQueueProofs ------------------------
(***************************************************************************)
(* Theorems about FollowUpQueue, for all prompts, any number of deliveries *)
(* and branches, wherever saves fail and the process dies, and whatever    *)
(* else is appended to the log: no prompt is delivered again; and as long  *)
(* as the session is no branch and no receipt of a torn delivery is taken  *)
(* for a delivery, no prompt is lost and a restart finds the queue that    *)
(* was in memory.                                                          *)
(***************************************************************************)
EXTENDS FollowUpQueue, SequenceTheorems, WellFoundedInduction, TLAPS

Queue == [pending : Seq(Message), steer : Message \cup {NoMessage}, delivered : Nat]
Delivery == [seq : Nat, next : {"nothing", "user", "other"}, prompt : Message \cup {NoMessage}]

TypeInv ==
    /\ log \in Seq(Delivery)
    /\ sidecar \in [exists : BOOLEAN, queue : Queue]
    /\ queue \in Queue
    /\ process \in {"none", "idle", "save"}
    /\ branches \in Nat

\* The receipts that open takes for deliveries, and the ones that are.
Given(L) == {i \in 1..Len(L) : L[i].next = "user"}
Prompted(L) == {i \in 1..Len(L) : L[i].prompt # NoMessage}

\* A counter that began at 0 and was advanced by these receipts.
Reached(L, n) == n = 0 \/ \E i \in Given(L) : L[i].seq = n

\* No number is given before the one that precedes it, and none of a torn
\* delivery would be.
NoGap(L) ==
    \A i \in 1..Len(L) :
        \/ L[i].seq = 1
        \/ \E j \in Given(L) : j < i /\ L[j].seq + 1 = L[i].seq

\* The i-th prompt in the order of delivery, and the number of prompts.
Size(q) == Len(q.pending) + (IF q.steer = NoMessage THEN 0 ELSE 1)
At(q, i) == IF q.steer = NoMessage THEN q.pending[i]
            ELSE IF i = 1 THEN q.steer ELSE q.pending[i - 1]

Distinct(q) ==
    \A i \in 1..Len(q.pending) :
        /\ q.pending[i] # q.steer
        /\ \A j \in 1..Len(q.pending) : q.pending[i] = q.pending[j] => i = j

\* r is q without as many prompts as r has more receipts.
Behind(r, q) ==
    /\ r.delivered >= q.delivered
    /\ Size(r) = IF Size(q) > r.delivered - q.delivered
                 THEN Size(q) - (r.delivered - q.delivered) ELSE 0
    /\ \A i \in 1..Size(r) : At(r, i) = At(q, i + (r.delivered - q.delivered))

\* The queue q has each prompt once, and only own prompts that are not gone.
Fresh(q, own, gone) == Distinct(q) /\ Prompts(q) \subseteq own \ gone

\* In an intact session, a restart finds what is in memory, and it has counted
\* all receipts.
RestartInv ==
    Intact =>
        /\ \A i \in Given(log) : log[i].seq <= Recovered.delivered
        /\ process # "none" => Recovered = queue

\* The log numbers its receipts without gaps, and no prompt is in it twice.
LogInv ==
    /\ NoGap(log)
    /\ Prompted(log) \subseteq Given(log)
    /\ \A i, j \in Prompted(log) : log[i].prompt = log[j].prompt => i = j
    /\ Logged \cap withdrawn = {}

QueueInv ==
    /\ Reached(log, sidecar.queue.delivered)
    /\ Fresh(Recovered, accepted, Logged \cup withdrawn)
    /\ process # "none" =>
         /\ Reached(log, queue.delivered)
         /\ Fresh(queue, accepted, Logged \cup withdrawn)
         /\ Behind(Recovered, queue)
         /\ IsEmpty(queue) \/ (sidecar.exists /\ ~IsEmpty(sidecar.queue))

FollowUpInv == TypeInv /\ RestartInv /\ OwnPromptsKept /\ LogInv /\ QueueInv

-----------------------------------------------------------------------------
(* Queue::open: what the loop over the receipts computes.                  *)

\* One turn of the loop.
Taken(r, d) == IF Counts(d, r) THEN [TakeNext(r) EXCEPT !.delivered = d.seq] ELSE r

\* f has the queues after each of the receipts of L, starting from q.
Chain(L, q, f) ==
    f = [i \in 0..Len(L) |-> IF i = 0 THEN q
                             ELSE IF Counts(L[i], f[i-1])
                                  THEN [TakeNext(f[i-1]) EXCEPT !.delivered = L[i].seq]
                                  ELSE f[i-1]]

ReplayOf(L, q) == (CHOOSE f : Chain(L, q, f))[Len(L)]

LEMMA ReplayedIs == \A q : Replayed(q) = ReplayOf(log, q)
BY Zenon DEF Replayed, ReplayOf, Chain

LEMMA Least ==
    ASSUME NEW S \in SUBSET Nat, S # {}
    PROVE  \E n \in S : \A m \in S : n <= m
<1>1. PICK x \in S : \A y \in S : ~(<<y, x>> \in OpToRel(<, Nat))
  BY NatLessThanWellFounded, WFMin
<1>2. \A y \in S : ~(y < x)
  BY <1>1 DEF OpToRel
<1> QED
  BY <1>2

LEMMA ChainSteps ==
    ASSUME NEW L, Len(L) \in Nat, NEW q, NEW f
    PROVE  Chain(L, q, f) <=>
             /\ f = [i \in 0..Len(L) |-> f[i]]
             /\ f[0] = q
             /\ \A i \in 1..Len(L) : f[i] = Taken(f[i - 1], L[i])
<1> DEFINE g(i) == IF i = 0 THEN q ELSE Taken(f[i - 1], L[i])
<1>1. Chain(L, q, f) <=> f = [i \in 0..Len(L) |-> g(i)]
  BY Zenon DEF Chain, Taken
<1>2. ASSUME f = [i \in 0..Len(L) |-> g(i)]
      PROVE  /\ f = [i \in 0..Len(L) |-> f[i]]
             /\ f[0] = q
             /\ \A i \in 1..Len(L) : f[i] = Taken(f[i - 1], L[i])
  <2>1. \A i \in 0..Len(L) : f[i] = g(i)
    BY <1>2, Zenon
  <2>2. f = [i \in 0..Len(L) |-> f[i]]
    BY <1>2, Zenon
  <2>3. f[0] = q
    BY <2>1
  <2>4. \A i \in 1..Len(L) : i # 0 /\ i \in 0..Len(L)
    OBVIOUS
  <2> QED
    BY <2>1, <2>2, <2>3, <2>4, Zenon
<1>3. ASSUME f = [i \in 0..Len(L) |-> f[i]], f[0] = q,
             \A i \in 1..Len(L) : f[i] = Taken(f[i - 1], L[i])
      PROVE  f = [i \in 0..Len(L) |-> g(i)]
  <2>1. \A i \in 0..Len(L) : i # 0 => i \in 1..Len(L)
    OBVIOUS
  <2>2. \A i \in 0..Len(L) : f[i] = g(i)
    BY <1>3, <2>1, Zenon
  <2> QED
    BY <1>3, <2>2, Zenon
<1> QED
  BY <1>1, <1>2, <1>3, Zenon

LEMMA ChainExists ==
    ASSUME NEW L, Len(L) \in Nat, NEW q
    PROVE  \E f : Chain(L, q, f)
<1> DEFINE G(n, f) == /\ f = [i \in 0..n |-> f[i]]
                      /\ f[0] = q
                      /\ \A i \in 1..n : f[i] = Taken(f[i - 1], L[i])
           S == {n \in Nat : ~\E f : G(n, f)}
<1>1. \E f : G(0, f)
  <2> DEFINE f == [i \in 0..0 |-> q]
  <2>1. G(0, f)
    OBVIOUS
  <2> QED
    BY <2>1, Zenon
<1>2. ASSUME NEW n \in Nat, NEW f, G(n, f)
      PROVE  \E g : G(n + 1, g)
  <2> DEFINE g == [i \in 0..n + 1 |-> IF i = n + 1 THEN Taken(f[n], L[n + 1]) ELSE f[i]]
  <2> HIDE DEF G
  <2>1. g = [i \in 0..n + 1 |-> g[i]]
    OBVIOUS
  <2>2. g[0] = q
    BY <1>2 DEF G
  <2>3. ASSUME NEW i \in 1..n + 1 PROVE g[i] = Taken(g[i - 1], L[i])
    <3>1. CASE i = n + 1
      <4>1. g[i] = Taken(f[n], L[n + 1]) /\ g[i - 1] = f[n]
        BY <3>1
      <4> QED
        BY <4>1, <3>1
    <3>2. CASE i # n + 1
      <4>1. i \in 1..n /\ g[i] = f[i] /\ g[i - 1] = f[i - 1]
        BY <3>2
      <4>2. f[i] = Taken(f[i - 1], L[i])
        BY <4>1, <1>2 DEF G
      <4> QED
        BY <4>1, <4>2
    <3> QED
      BY <3>1, <3>2
  <2> HIDE DEF g
  <2>4. G(n + 1, g)
    BY <2>1, <2>2, <2>3 DEF G
  <2> QED
    BY <2>4
<1> HIDE DEF G
<1>3. S = {}
  <2> SUFFICES ASSUME S # {} PROVE FALSE
    OBVIOUS
  <2>1. PICK n \in S : \A m \in S : n <= m
    BY Least
  <2>2. n \in Nat /\ n # 0
    BY <2>1, <1>1
  <2>3. n - 1 \in Nat /\ n - 1 \notin S
    BY <2>1, <2>2
  <2>4. PICK f : G(n - 1, f)
    BY <2>3
  <2>5. \E g : G(n - 1 + 1, g)
    BY <2>3, <2>4, <1>2
  <2> QED
    BY <2>5, <2>2, <2>1
<1>4. PICK f : G(Len(L), f)
  BY <1>3
<1> QED
  BY <1>4, ChainSteps DEF G

LEMMA ChainUnique ==
    ASSUME NEW L, Len(L) \in Nat, NEW q, NEW f, NEW g, Chain(L, q, f), Chain(L, q, g)
    PROVE  f = g
<1> DEFINE S == {i \in 0..Len(L) : f[i] # g[i]}
<1>1. /\ f = [i \in 0..Len(L) |-> f[i]] /\ f[0] = q
      /\ \A i \in 1..Len(L) : f[i] = Taken(f[i - 1], L[i])
  BY ChainSteps
<1>2. /\ g = [i \in 0..Len(L) |-> g[i]] /\ g[0] = q
      /\ \A i \in 1..Len(L) : g[i] = Taken(g[i - 1], L[i])
  BY ChainSteps
<1>3. S = {}
  <2> SUFFICES ASSUME S # {} PROVE FALSE
    OBVIOUS
  <2>1. S \in SUBSET Nat
    OBVIOUS
  <2>2. PICK n \in S : \A m \in S : n <= m
    BY <2>1, Least
  <2>3. n \in 1..Len(L) /\ n - 1 \in 0..Len(L) /\ n - 1 \notin S
    BY <2>2, <1>1, <1>2
  <2>4. f[n - 1] = g[n - 1]
    BY <2>3
  <2> QED
    BY <2>2, <2>3, <2>4, <1>1, <1>2
<1>4. \A i \in 0..Len(L) : f[i] = g[i]
  BY <1>3
<1> QED
  BY <1>1, <1>2, <1>4, Zenon

LEMMA ReplayChain ==
    ASSUME NEW L, Len(L) \in Nat, NEW q, NEW f, Chain(L, q, f)
    PROVE  ReplayOf(L, q) = f[Len(L)]
<1> DEFINE g == CHOOSE h : Chain(L, q, h)
<1>1. Chain(L, q, g)
  BY Zenon
<1>2. ReplayOf(L, q) = g[Len(L)]
  BY DEF ReplayOf
<1> HIDE DEF g
<1> QED
  BY <1>1, <1>2, ChainUnique

\* A receipt more is a turn more.
LEMMA ReplayAppend ==
    ASSUME NEW L \in Seq(Delivery), NEW d \in Delivery, NEW q
    PROVE  ReplayOf(Append(L, d), q) = Taken(ReplayOf(L, q), d)
<1> DEFINE M == Append(L, d)
           n == Len(L)
<1>1. n \in Nat /\ Len(M) = n + 1 /\ M[n + 1] = d /\ \A i \in 1..n : M[i] = L[i]
  OBVIOUS
<1> HIDE DEF M
<1>2. Len(M) \in Nat
  BY <1>1
<1>3. PICK f : Chain(M, q, f)
  BY <1>2, ChainExists
<1>4. /\ f[0] = q
      /\ \A i \in 1..Len(M) : f[i] = Taken(f[i - 1], M[i])
  BY <1>2, <1>3, ChainSteps
<1> DEFINE g == [i \in 0..n |-> f[i]]
<1>5. g = [i \in 0..n |-> g[i]] /\ g[0] = q
  BY <1>1, <1>4
<1>6. ASSUME NEW i \in 1..n PROVE g[i] = Taken(g[i - 1], L[i])
  <2>1. g[i] = f[i] /\ g[i - 1] = f[i - 1] /\ i \in 1..Len(M) /\ L[i] = M[i]
    BY <1>1
  <2> QED
    BY <2>1, <1>4
<1>7. g[n] = f[n]
  BY <1>1
<1> HIDE DEF g
<1>8. Chain(L, q, g)
  BY <1>1, <1>5, <1>6, ChainSteps
<1>9. ReplayOf(L, q) = f[n]
  BY <1>1, <1>7, <1>8, ReplayChain
<1>10. ReplayOf(M, q) = f[n + 1]
  BY <1>1, <1>2, <1>3, ReplayChain
<1>11. f[n + 1] = Taken(f[n], d)
  BY <1>1, <1>4
<1> QED
  BY <1>9, <1>10, <1>11 DEF M

\* If the queue knows of all receipts, it stays as it is.
LEMMA ReplayNothing ==
    ASSUME NEW L \in Seq(Delivery), NEW q, q.delivered \in Nat,
           \A i \in Given(L) : L[i].seq <= q.delivered
    PROVE  ReplayOf(L, q) = q
<1>1. Len(L) \in Nat
  OBVIOUS
<1>2. PICK f : Chain(L, q, f)
  BY <1>1, ChainExists
<1>3. f[0] = q /\ \A i \in 1..Len(L) : f[i] = Taken(f[i - 1], L[i])
  BY <1>1, <1>2, ChainSteps
<1> DEFINE S == {i \in 0..Len(L) : f[i] # q}
<1>4. S = {}
  <2> SUFFICES ASSUME S # {} PROVE FALSE
    OBVIOUS
  <2>1. S \in SUBSET Nat
    OBVIOUS
  <2>2. PICK n \in S : \A m \in S : n <= m
    BY <2>1, Least
  <2>3. n \in 1..Len(L) /\ n - 1 \in 0..Len(L) /\ n - 1 \notin S
    BY <2>2, <1>3
  <2>4. f[n] = Taken(q, L[n])
    BY <2>3, <1>3
  <2>5. L[n] \in Delivery
    BY <2>3
  <2>6. ~Counts(L[n], q)
    BY <2>3, <2>5 DEF Counts, Given, Delivery
  <2> QED
    BY <2>2, <2>4, <2>6 DEF Taken
<1> QED
  BY <1>1, <1>2, <1>4, ReplayChain

-----------------------------------------------------------------------------
(* Queues in the order of delivery.                                        *)

LEMMA QueueOrder ==
    ASSUME NEW q \in Queue
    PROVE  /\ Size(q) \in Nat
           /\ IsEmpty(q) <=> Size(q) = 0
           /\ \A i \in 1..Size(q) : At(q, i) \in Message
           /\ Prompts(q) = {At(q, i) : i \in 1..Size(q)}
           /\ Size(q) > 0 => NextPrompt(q) = At(q, 1)
<1> USE QueueConstantsOK DEF Queue
<1>1. Size(q) \in Nat
  BY DEF Size
<1>2. IsEmpty(q) <=> Size(q) = 0
  BY DEF Size, IsEmpty
<1>3. \A i \in 1..Size(q) : At(q, i) \in Message
  BY DEF Size, At
<1>4. Size(q) > 0 => NextPrompt(q) = At(q, 1)
  BY DEF Size, At, NextPrompt
<1>5. Prompts(q) = {At(q, i) : i \in 1..Size(q)}
  <2>1. CASE q.steer = NoMessage
    BY <2>1 DEF Size, At, Prompts, ToSet
  <2>2. CASE q.steer # NoMessage
    <3>1. Prompts(q) = {q.pending[i] : i \in 1..Len(q.pending)} \cup {q.steer}
      BY <2>2 DEF Prompts, ToSet
    <3>2. Size(q) = Len(q.pending) + 1
      BY <2>2 DEF Size
    <3>3. ASSUME NEW i \in 1..Len(q.pending)
          PROVE  i + 1 \in 1..Size(q) /\ At(q, i + 1) = q.pending[i]
      BY <2>2, <3>2 DEF At
    <3>4. 1 \in 1..Size(q) /\ At(q, 1) = q.steer
      BY <2>2, <3>2 DEF At
    <3>5. ASSUME NEW i \in 1..Size(q)
          PROVE  i = 1 \/ (i - 1 \in 1..Len(q.pending) /\ At(q, i) = q.pending[i - 1])
      BY <2>2, <3>2 DEF At
    <3>6. Prompts(q) \subseteq {At(q, i) : i \in 1..Size(q)}
      <4> SUFFICES ASSUME NEW m \in Prompts(q) PROVE \E i \in 1..Size(q) : m = At(q, i)
        OBVIOUS
      <4> QED
        BY <3>1, <3>3, <3>4
    <3>7. {At(q, i) : i \in 1..Size(q)} \subseteq Prompts(q)
      BY <3>1, <3>4, <3>5
    <3> QED
      BY <3>6, <3>7
  <2> QED
    BY <2>1, <2>2
<1> QED
  BY <1>1, <1>2, <1>3, <1>4, <1>5

LEMMA TakeNextOrder ==
    ASSUME NEW q \in Queue, NEW n \in Nat, NEW r, r = [TakeNext(q) EXCEPT !.delivered = n]
    PROVE  /\ r \in Queue /\ r.delivered = n
           /\ Size(r) = IF Size(q) = 0 THEN 0 ELSE Size(q) - 1
           /\ \A i \in 1..Size(r) : At(r, i) = At(q, i + 1)
<1> DEFINE p == q.pending
<1>0. p \in Seq(Message) /\ Len(p) \in Nat /\ q.steer \in Message \cup {NoMessage}
  BY DEF Queue
<1>1. CASE q.steer # NoMessage
  <2>1. r = [q EXCEPT !.steer = NoMessage, !.delivered = n]
    BY <1>1 DEF TakeNext
  <2>2. r \in Queue /\ r.delivered = n /\ r.steer = NoMessage /\ r.pending = p
    BY <2>1 DEF Queue
  <2>3. Size(q) = Len(p) + 1 /\ Size(r) = Len(p)
    BY <1>0, <1>1, <2>2 DEF Size
  <2>4. \A i \in 1..Len(p) : At(r, i) = p[i] /\ At(q, i + 1) = p[i]
    BY <1>0, <1>1, <2>2 DEF At
  <2> QED
    BY <1>0, <2>2, <2>3, <2>4
<1>2. CASE q.steer = NoMessage /\ p = <<>>
  <2>1. r = [q EXCEPT !.delivered = n]
    BY <1>2 DEF TakeNext
  <2>2. r \in Queue /\ r.delivered = n /\ r.steer = NoMessage /\ r.pending = p
    BY <1>2, <2>1 DEF Queue
  <2>3. Size(q) = 0 /\ Size(r) = 0
    BY <1>2, <2>2 DEF Size
  <2> QED
    BY <2>2, <2>3
<1>3. CASE q.steer = NoMessage /\ p # <<>>
  <2>1. r = [q EXCEPT !.pending = Tail(p), !.delivered = n]
    BY <1>3 DEF TakeNext
  <2>2. Tail(p) \in Seq(Message) /\ Len(Tail(p)) = Len(p) - 1 /\ Len(p) > 0
        /\ \A i \in 1..Len(p) - 1 : Tail(p)[i] = p[i + 1]
    BY <1>0, <1>3
  <2>3. r \in Queue /\ r.delivered = n /\ r.steer = NoMessage /\ r.pending = Tail(p)
    BY <1>3, <2>1, <2>2 DEF Queue
  <2>4. Size(q) = Len(p) /\ Size(r) = Len(p) - 1
    <3>1. Size(q) = Len(p)
      BY <1>0, <1>3 DEF Size
    <3>2. Len(r.pending) = Len(p) - 1
      BY <2>2, <2>3
    <3>3. Size(r) = Len(p) - 1
      BY <1>0, <2>3, <3>2 DEF Size
    <3> QED
      BY <3>1, <3>3
  <2>5. \A i \in 1..Len(p) - 1 : At(r, i) = p[i + 1] /\ At(q, i + 1) = p[i + 1]
    BY <1>3, <2>2, <2>3 DEF At
  <2> QED
    BY <1>0, <2>2, <2>3, <2>4, <2>5
<1> QED
  BY <1>1, <1>2, <1>3

\* A receipt that counts takes one prompt more.
LEMMA TakenBehind ==
    ASSUME NEW q \in Queue, NEW r \in Queue, Behind(r, q),
           NEW s, s = [TakeNext(r) EXCEPT !.delivered = r.delivered + 1]
    PROVE  s \in Queue /\ s.delivered = r.delivered + 1 /\ Behind(s, q)
<1>1. r.delivered \in Nat /\ q.delivered \in Nat /\ Size(q) \in Nat /\ Size(r) \in Nat
  BY QueueOrder DEF Queue
<1>2. /\ s \in Queue /\ s.delivered = r.delivered + 1
      /\ Size(s) = IF Size(r) = 0 THEN 0 ELSE Size(r) - 1
      /\ \A i \in 1..Size(s) : At(s, i) = At(r, i + 1)
  <2>1. r.delivered + 1 \in Nat
    BY <1>1
  <2> QED
    BY <2>1, TakeNextOrder
<1> DEFINE d == r.delivered - q.delivered
<1>3. d \in Nat /\ s.delivered - q.delivered = d + 1
  BY <1>1, <1>2 DEF Behind
<1>4. /\ Size(r) = IF Size(q) > d THEN Size(q) - d ELSE 0
      /\ \A i \in 1..Size(r) : At(r, i) = At(q, i + d)
  BY DEF Behind
<1> HIDE DEF d
<1>5. Size(s) = IF Size(q) > d + 1 THEN Size(q) - (d + 1) ELSE 0
  BY <1>1, <1>2, <1>3, <1>4
<1>6. ASSUME NEW i \in 1..Size(s) PROVE At(s, i) = At(q, i + (d + 1))
  <2>1. i + 1 \in 1..Size(r) /\ (i + 1) + d = i + (d + 1)
    BY <1>1, <1>2, <1>3
  <2> QED
    BY <1>2, <1>4, <2>1
<1> QED
  BY <1>1, <1>2, <1>3, <1>5, <1>6 DEF Behind

LEMMA BehindItself ==
    ASSUME NEW q \in Queue
    PROVE  Behind(q, q)
<1>1. Size(q) \in Nat /\ q.delivered \in Nat
  BY QueueOrder DEF Queue
<1> QED
  BY <1>1 DEF Behind

\* Without gaps in the log, the queue that is found is behind the saved one.
LEMMA ReplayBehind ==
    ASSUME NEW L \in Seq(Delivery), NoGap(L), NEW q \in Queue
    PROVE  /\ ReplayOf(L, q) \in Queue
           /\ Behind(ReplayOf(L, q), q)
           /\ \A k \in Given(L) : L[k].seq <= ReplayOf(L, q).delivered
           /\ Reached(L, q.delivered) => Reached(L, ReplayOf(L, q).delivered)
<1>1. Len(L) \in Nat
  OBVIOUS
<1>2. PICK f : Chain(L, q, f)
  BY <1>1, ChainExists
<1>3. f[0] = q /\ \A i \in 1..Len(L) : f[i] = Taken(f[i - 1], L[i])
  BY <1>1, <1>2, ChainSteps
<1> DEFINE Good(i) ==
             /\ f[i] \in Queue
             /\ Behind(f[i], q)
             /\ \A k \in Given(L) : k <= i => L[k].seq <= f[i].delivered
             /\ f[i].delivered = q.delivered \/ \E k \in Given(L) : L[k].seq = f[i].delivered
           S == {i \in 0..Len(L) : ~Good(i)}
<1>4. \A k \in Given(L) : k \in 1..Len(L) /\ L[k].seq \in Nat
  <2>1. \A k \in 1..Len(L) : L[k] \in Delivery
    OBVIOUS
  <2> QED
    BY <2>1 DEF Given, Delivery
<1>5. Good(0)
  BY <1>3, <1>4, BehindItself
<1>6. ASSUME NEW i \in 1..Len(L), Good(i - 1) PROVE Good(i)
  <2> DEFINE r == f[i - 1]
  <2>1. /\ r \in Queue /\ r.delivered \in Nat /\ Behind(r, q)
        /\ \A k \in Given(L) : k <= i - 1 => L[k].seq <= r.delivered
        /\ r.delivered = q.delivered \/ \E k \in Given(L) : L[k].seq = r.delivered
    BY <1>6 DEF Queue
  <2>2. f[i] = Taken(r, L[i]) /\ L[i] \in Delivery /\ L[i].seq \in Nat
    <3>1. L[i] \in Delivery
      OBVIOUS
    <3> QED
      BY <1>3, <3>1 DEF Delivery
  <2> HIDE DEF r
  <2>3. CASE Counts(L[i], r)
    <3>1. i \in Given(L) /\ L[i].seq > r.delivered
      BY <2>3 DEF Counts, Given
    <3>2. L[i].seq = r.delivered + 1
      <4>1. CASE L[i].seq = 1
        BY <4>1, <3>1, <2>1
      <4>2. CASE \E j \in Given(L) : j < i /\ L[j].seq + 1 = L[i].seq
        <5>1. PICK j \in Given(L) : j < i /\ L[j].seq + 1 = L[i].seq
          BY <4>2
        <5>2. j <= i - 1 /\ L[j].seq \in Nat
          BY <5>1, <1>4
        <5>3. L[j].seq <= r.delivered
          BY <5>2, <2>1
        <5> QED
          BY <5>1, <5>2, <5>3, <3>1, <2>1, <2>2
      <4> QED
        BY <3>1, <4>1, <4>2 DEF NoGap
    <3>3. f[i] = [TakeNext(r) EXCEPT !.delivered = r.delivered + 1]
      BY <2>2, <2>3, <3>2 DEF Taken
    <3>4. f[i] \in Queue /\ f[i].delivered = r.delivered + 1 /\ Behind(f[i], q)
      BY <2>1, <3>3, TakenBehind
    <3>5. ASSUME NEW k \in Given(L), k <= i PROVE L[k].seq <= f[i].delivered
      <4>1. CASE k = i
        BY <4>1, <3>2, <3>4, <2>1
      <4>2. CASE k # i
        <5>1. k <= i - 1 /\ L[k].seq \in Nat
          BY <4>2, <3>5, <1>4
        <5> QED
          BY <5>1, <2>1, <3>4
      <4> QED
        BY <4>1, <4>2
    <3> QED
      BY <3>1, <3>2, <3>4, <3>5
  <2>4. CASE ~Counts(L[i], r)
    <3>1. f[i] = r
      BY <2>2, <2>4 DEF Taken
    <3>2. i \in Given(L) => L[i].seq <= r.delivered
      BY <2>1, <2>2, <2>4 DEF Counts, Given
    <3>3. ASSUME NEW k \in Given(L), k <= i PROVE L[k].seq <= r.delivered
      <4>1. k = i \/ k <= i - 1
        BY <3>3, <1>4
      <4> QED
        BY <4>1, <3>2, <2>1
    <3> QED
      BY <3>1, <3>3, <2>1
  <2> QED
    BY <2>3, <2>4
<1> HIDE DEF Good
<1>7. S = {}
  <2> SUFFICES ASSUME S # {} PROVE FALSE
    OBVIOUS
  <2>1. S \in SUBSET Nat
    OBVIOUS
  <2>2. PICK n \in S : \A m \in S : n <= m
    BY <2>1, Least
  <2>3. n \in 1..Len(L) /\ n - 1 \in 0..Len(L) /\ n - 1 \notin S
    BY <2>2, <1>5
  <2>4. Good(n - 1)
    BY <2>3
  <2> QED
    BY <2>2, <2>3, <2>4, <1>6
<1>8. Good(Len(L))
  BY <1>1, <1>7
<1>9. ReplayOf(L, q) = f[Len(L)]
  BY <1>1, <1>2, ReplayChain
<1>10. \A k \in Given(L) : L[k].seq <= f[Len(L)].delivered
  BY <1>1, <1>4, <1>8 DEF Good
<1> QED
  BY <1>8, <1>9, <1>10 DEF Good, Reached

LEMMA DistinctAt ==
    ASSUME NEW q \in Queue
    PROVE  Distinct(q) <=> \A i, j \in 1..Size(q) : At(q, i) = At(q, j) => i = j
<1> DEFINE p == q.pending
<1>0. p \in Seq(Message) /\ Len(p) \in Nat /\ \A i \in 1..Len(p) : p[i] \in Message
  BY DEF Queue
<1>1. CASE q.steer = NoMessage
  <2>1. Size(q) = Len(p) /\ \A i \in 1..Len(p) : At(q, i) = p[i] /\ p[i] # q.steer
    BY <1>0, <1>1, QueueConstantsOK DEF Size, At
  <2> QED
    BY <2>1 DEF Distinct
<1>2. CASE q.steer # NoMessage
  <2>1. Size(q) = Len(p) + 1 /\ At(q, 1) = q.steer
    BY <1>0, <1>2 DEF Size, At
  <2>2. \A i \in 1..Len(p) : i + 1 \in 1..Size(q) /\ At(q, i + 1) = p[i]
    BY <1>0, <1>2, <2>1 DEF At
  <2>3. \A i \in 1..Size(q) : i = 1 \/ (i - 1 \in 1..Len(p) /\ At(q, i) = p[i - 1])
    BY <1>0, <1>2, <2>1 DEF At
  <2>4. ASSUME Distinct(q), NEW i \in 1..Size(q), NEW j \in 1..Size(q), At(q, i) = At(q, j)
        PROVE  i = j
    <3>1. \A k \in 1..Len(p) : p[k] # q.steer /\ \A l \in 1..Len(p) : p[k] = p[l] => k = l
      BY <2>4 DEF Distinct
    <3>2. (i = 1) <=> (j = 1)
      BY <2>1, <2>3, <2>4, <3>1
    <3>3. i # 1 => i - 1 = j - 1
      BY <2>3, <2>4, <3>1, <3>2
    <3> QED
      BY <3>2, <3>3
  <2>5. ASSUME \A i, j \in 1..Size(q) : At(q, i) = At(q, j) => i = j,
               NEW k \in 1..Len(p)
        PROVE  p[k] # q.steer /\ \A l \in 1..Len(p) : p[k] = p[l] => k = l
    <3>1. k + 1 # 1 /\ 1 \in 1..Size(q)
      BY <1>0, <2>1
    <3>2. p[k] # q.steer
      BY <2>1, <2>2, <2>5, <3>1
    <3>3. ASSUME NEW l \in 1..Len(p), p[k] = p[l] PROVE k = l
      <4>1. k + 1 = l + 1
        BY <2>2, <2>5, <3>3
      <4> QED
        BY <4>1
    <3> QED
      BY <3>2, <3>3
  <2> QED
    BY <2>4, <2>5 DEF Distinct
<1> QED
  BY <1>1, <1>2

LEMMA BehindFresh ==
    ASSUME NEW q \in Queue, NEW r \in Queue, Behind(r, q),
           NEW own, NEW gone, Fresh(q, own, gone)
    PROVE  Fresh(r, own, gone) /\ Prompts(r) \subseteq Prompts(q)
<1> DEFINE d == r.delivered - q.delivered
<1>1. d \in Nat /\ Size(q) \in Nat /\ Size(r) \in Nat
  BY QueueOrder DEF Queue, Behind
<1>2. \A i \in 1..Size(r) : At(r, i) = At(q, i + d)
  BY DEF Behind
<1>3. Size(r) = IF Size(q) > d THEN Size(q) - d ELSE 0
  BY DEF Behind
<1> HIDE DEF d
<1>4. \A i \in 1..Size(r) : i + d \in 1..Size(q)
  BY <1>1, <1>3
<1>5. Prompts(r) = {At(r, i) : i \in 1..Size(r)} /\ Prompts(q) = {At(q, i) : i \in 1..Size(q)}
  BY QueueOrder
<1>6. Prompts(r) \subseteq Prompts(q)
  BY <1>2, <1>4, <1>5
<1>7. \A i, j \in 1..Size(q) : At(q, i) = At(q, j) => i = j
  BY DistinctAt DEF Fresh
<1>8. ASSUME NEW i \in 1..Size(r), NEW j \in 1..Size(r), At(r, i) = At(r, j) PROVE i = j
  <2>1. i + d = j + d
    BY <1>2, <1>4, <1>7, <1>8
  <2> QED
    BY <2>1, <1>1
<1>9. Distinct(r)
  BY <1>8, DistinctAt
<1> QED
  BY <1>6, <1>9 DEF Fresh

-----------------------------------------------------------------------------
(* What a restart finds.                                                   *)

Find(L, s) == IF ~s.exists THEN Empty ELSE IF IsEmpty(s.queue) THEN s.queue ELSE ReplayOf(L, s.queue)

LEMMA RecoveredIs == Recovered = Find(log, sidecar)
BY ReplayedIs DEF Recovered, Find

LEMMA EmptyQueue == Empty \in Queue /\ IsEmpty(Empty) /\ Prompts(Empty) = {} /\ Distinct(Empty)
<1>1. Empty \in Queue
  BY DEF Empty, Queue
<1>2. Empty.pending = <<>> /\ Empty.steer = NoMessage
  BY DEF Empty
<1> QED
  BY <1>1, <1>2 DEF IsEmpty, Prompts, Distinct, ToSet

LEMMA FindSaved ==
    ASSUME NEW L \in Seq(Delivery), NoGap(L), NEW q \in Queue, NEW s, s = File(q)
    PROVE  /\ Find(L, s) \in Queue
           /\ Behind(Find(L, s), q)
           /\ (\A i \in Given(L) : L[i].seq <= q.delivered) => Find(L, s) = q
<1>1. s.exists /\ s.queue = q
  BY DEF File
<1>2. CASE IsEmpty(q)
  BY <1>1, <1>2, BehindItself DEF Find
<1>3. CASE ~IsEmpty(q)
  <2>1. Find(L, s) = ReplayOf(L, q)
    BY <1>1, <1>3 DEF Find
  <2>2. q.delivered \in Nat
    BY DEF Queue
  <2> QED
    BY <2>1, <2>2, ReplayBehind, ReplayNothing
<1> QED
  BY <1>2, <1>3

LEMMA FindType ==
    ASSUME NEW L \in Seq(Delivery), NoGap(L), NEW s \in [exists : BOOLEAN, queue : Queue]
    PROVE  /\ Find(L, s) \in Queue
           /\ Reached(L, s.queue.delivered) => Reached(L, Find(L, s).delivered)
<1>1. s.queue \in Queue
  OBVIOUS
<1>2. Reached(L, Empty.delivered)
  BY DEF Reached, Empty
<1> QED
  BY <1>1, <1>2, EmptyQueue, ReplayBehind DEF Find

\* The log M is L with the receipt d after it.
Extends(L, d, M) ==
    /\ M \in Seq(Delivery) /\ Len(M) = Len(L) + 1 /\ M[Len(L) + 1] = d
    /\ Given(L) \subseteq 1..Len(L) /\ Prompted(L) \subseteq 1..Len(L)
    /\ Given(M) = IF d.next = "user" THEN Given(L) \cup {Len(L) + 1} ELSE Given(L)
    /\ Prompted(M) = IF d.prompt = NoMessage THEN Prompted(L) ELSE Prompted(L) \cup {Len(L) + 1}
    /\ \A i \in 1..Len(L) : M[i] = L[i]

LEMMA AppendGiven ==
    ASSUME NEW L \in Seq(Delivery), NEW d \in Delivery
    PROVE  Extends(L, d, Append(L, d))
<1> DEFINE M == Append(L, d)
<1>1. /\ M \in Seq(Delivery) /\ Len(M) = Len(L) + 1 /\ M[Len(L) + 1] = d
      /\ \A i \in 1..Len(L) : M[i] = L[i]
  OBVIOUS
<1> HIDE DEF M
<1> SUFFICES Extends(L, d, M)
  BY DEF M
<1>2. 1..Len(M) = 1..Len(L) \cup {Len(L) + 1}
  BY <1>1
<1>3. Given(L) \subseteq 1..Len(L) /\ Prompted(L) \subseteq 1..Len(L)
  BY DEF Given, Prompted
<1>4. Given(M) = IF d.next = "user" THEN Given(L) \cup {Len(L) + 1} ELSE Given(L)
  <2>1. \A i \in 1..Len(L) : i \in Given(M) <=> i \in Given(L)
    BY <1>1, <1>2 DEF Given
  <2>2. Len(L) + 1 \in Given(M) <=> d.next = "user"
    BY <1>1, <1>2 DEF Given
  <2>3. Given(M) \subseteq 1..Len(L) \cup {Len(L) + 1}
    BY <1>2 DEF Given
  <2>4. CASE d.next = "user"
    BY <1>3, <2>1, <2>2, <2>3, <2>4
  <2>5. CASE d.next # "user"
    <3>1. Given(M) = Given(L)
      BY <1>3, <2>1, <2>2, <2>3, <2>5
    <3> QED
      BY <2>5, <3>1
  <2> QED
    BY <2>4, <2>5
<1>5. Prompted(M) = IF d.prompt = NoMessage THEN Prompted(L) ELSE Prompted(L) \cup {Len(L) + 1}
  <2>1. \A i \in 1..Len(L) : i \in Prompted(M) <=> i \in Prompted(L)
    BY <1>1, <1>2 DEF Prompted
  <2>2. Len(L) + 1 \in Prompted(M) <=> d.prompt # NoMessage
    BY <1>1, <1>2 DEF Prompted
  <2>3. Prompted(M) \subseteq 1..Len(L) \cup {Len(L) + 1}
    BY <1>2 DEF Prompted
  <2>4. CASE d.prompt = NoMessage
    <3>1. Prompted(M) = Prompted(L)
      BY <1>3, <2>1, <2>2, <2>3, <2>4
    <3> QED
      BY <2>4, <3>1
  <2>5. CASE d.prompt # NoMessage
    BY <1>3, <2>1, <2>2, <2>3, <2>5
  <2> QED
    BY <2>4, <2>5
<1> QED
  BY <1>1, <1>3, <1>4, <1>5 DEF Extends

LEMMA LoggedIs == Logged = {log[i].prompt : i \in Prompted(log)}
BY DEF Logged, Prompted

\* M has the receipts of L, and perhaps another record behind the last one.
SameReceipts(L, M) ==
    /\ M \in Seq(Delivery) /\ Len(M) = Len(L) /\ Prompted(M) = Prompted(L)
    /\ \A i \in 1..Len(L) : M[i].seq = L[i].seq /\ M[i].prompt = L[i].prompt

LEMMA FollowedIs ==
    ASSUME NEW L \in Seq(Delivery), NEW kind \in {"user", "other"}, NEW M, M = Followed(L, kind)
    PROVE  /\ SameReceipts(L, M)
           /\ \/ Given(M) = Given(L) /\ \A q : ReplayOf(M, q) = ReplayOf(L, q)
              \/ /\ kind = "user" /\ Len(L) \in 1..Len(L) /\ M[Len(L)].next = "user"
                 /\ Len(L) \notin Given(L) /\ Given(M) = Given(L) \cup {Len(L)}
                 /\ \A q : ReplayOf(M, q) = Taken(ReplayOf(L, q), M[Len(L)])
<1> DEFINE n == Len(L)
<1>0. n \in Nat /\ \A i \in 1..n : L[i] \in Delivery
  OBVIOUS
<1>1. CASE M = L
  BY <1>0, <1>1 DEF SameReceipts
<1>2. CASE M # L
  <2>1. n \in 1..n /\ L[n].next = "nothing" /\ M = [L EXCEPT ![n].next = kind]
    BY <1>0, <1>2 DEF Followed, Last
  <2>2. PICK d, e : d = L[n] /\ e = [d EXCEPT !.next = kind]
    OBVIOUS
  <2>3. d \in Delivery /\ e \in Delivery /\ e.seq = d.seq /\ e.prompt = d.prompt /\ e.next = kind
        /\ d.next = "nothing"
    BY <1>0, <2>1, <2>2 DEF Delivery
  <2>4. M = [L EXCEPT ![n] = e]
    BY <2>1, <2>2
  <2>5. M \in Seq(Delivery) /\ Len(M) = n /\ \A i \in 1..n : M[i] = IF i = n THEN e ELSE L[i]
    BY <1>0, <2>1, <2>3, <2>4
  <2>6. \A i \in 1..n : M[i].seq = L[i].seq /\ M[i].prompt = L[i].prompt
    BY <2>2, <2>3, <2>5
  <2>7. SameReceipts(L, M)
    <3>1. Prompted(M) = Prompted(L)
      BY <2>5, <2>6 DEF Prompted
    <3> QED
      BY <2>5, <2>6, <3>1 DEF SameReceipts
  <2>8. n \notin Given(L) /\ Given(M) = IF kind = "user" THEN Given(L) \cup {n} ELSE Given(L)
    BY <2>1, <2>2, <2>3, <2>5 DEF Given
  <2> DEFINE F == SubSeq(L, 1, n - 1)
  <2>9. F \in Seq(Delivery) /\ Len(F) = n - 1 /\ \A i \in 1..n - 1 : F[i] = L[i]
    <3>1. n - 1 \in Nat /\ n - 1 <= n
      BY <1>0, <2>1
    <3> HIDE DEF n
    <3>2. L \in Seq(Delivery) /\ Len(L) = n
      BY DEF n
    <3> QED
      BY <3>1, <3>2
  <2> HIDE DEF F
  <2>10. L = Append(F, d)
    <3>1. Append(F, d) \in Seq(Delivery) /\ Len(Append(F, d)) = n /\ Append(F, d)[n] = d
          /\ \A i \in 1..n - 1 : Append(F, d)[i] = F[i]
      BY <1>0, <2>1, <2>3, <2>9
    <3>2. \A i \in 1..n : i = n \/ i \in 1..n - 1
      BY <1>0
    <3>3. \A i \in 1..n : Append(F, d)[i] = L[i]
      BY <2>2, <2>9, <3>1, <3>2
    <3> QED
      BY <3>1, <3>3, SeqEqual
  <2>11. M = Append(F, e)
    <3>1. Append(F, e) \in Seq(Delivery) /\ Len(Append(F, e)) = n /\ Append(F, e)[n] = e
          /\ \A i \in 1..n - 1 : Append(F, e)[i] = F[i]
      BY <1>0, <2>1, <2>3, <2>9
    <3>2. \A i \in 1..n : i = n \/ (i \in 1..n - 1 /\ i # n)
      BY <1>0
    <3>3. \A i \in 1..n : Append(F, e)[i] = M[i]
      BY <2>5, <2>9, <3>1, <3>2
    <3> QED
      BY <2>5, <3>1, <3>3, SeqEqual
  <2>12. \A q : Taken(q, d) = q
    BY <2>3 DEF Taken, Counts
  <2>13. \A q : ReplayOf(L, q) = ReplayOf(F, q)
    BY <2>3, <2>9, <2>10, <2>12, ReplayAppend
  <2>14. \A q : ReplayOf(M, q) = Taken(ReplayOf(L, q), e)
    BY <2>3, <2>9, <2>11, <2>13, ReplayAppend
  <2>15. CASE kind = "user"
    BY <2>1, <2>3, <2>5, <2>7, <2>8, <2>14, <2>15
  <2>16. CASE kind = "other"
    <3>1. \A q : Taken(q, e) = q
      BY <2>3, <2>16 DEF Taken, Counts
    <3> QED
      BY <2>7, <2>8, <2>14, <2>16, <3>1
  <2> QED
    BY <2>15, <2>16
<1> QED
  BY <1>1, <1>2

\* The number of a receipt that follows all of L does not leave a gap.
Successive(L, n) == n = 1 \/ \E j \in Given(L) : L[j].seq + 1 = n

LEMMA NoGapSame ==
    ASSUME NEW L \in Seq(Delivery), NEW M, NoGap(L), SameReceipts(L, M), Given(L) \subseteq Given(M)
    PROVE  NoGap(M)
<1> SUFFICES ASSUME NEW i \in 1..Len(L)
             PROVE  \/ M[i].seq = 1
                    \/ \E j \in Given(M) : j < i /\ M[j].seq + 1 = M[i].seq
  BY DEF NoGap, SameReceipts
<1>1. \A j \in Given(L) : j \in 1..Len(L)
  BY DEF Given
<1>2. \A j \in 1..Len(L) : M[j].seq = L[j].seq
  BY DEF SameReceipts
<1> QED
  BY <1>1, <1>2 DEF NoGap

LEMMA NoGapAppend ==
    ASSUME NEW L \in Seq(Delivery), NoGap(L), NEW d \in Delivery, Successive(L, d.seq),
           NEW M, Extends(L, d, M)
    PROVE  NoGap(M)
<1>1. /\ Len(L) \in Nat /\ Len(M) = Len(L) + 1 /\ M[Len(L) + 1] = d
      /\ Given(L) \subseteq Given(M) /\ Given(L) \subseteq 1..Len(L)
      /\ \A i \in 1..Len(L) : M[i] = L[i]
  BY DEF Extends
<1> SUFFICES ASSUME NEW i \in 1..Len(M)
             PROVE  \/ M[i].seq = 1
                    \/ \E j \in Given(M) : j < i /\ M[j].seq + 1 = M[i].seq
  BY DEF NoGap
<1>2. CASE i \in 1..Len(L)
  BY <1>1, <1>2 DEF NoGap
<1>3. CASE i = Len(L) + 1
  <2>1. \A j \in Given(L) : j < i /\ j \in Given(M) /\ M[j] = L[j]
    BY <1>1, <1>3
  <2> QED
    BY <1>1, <1>3, <2>1 DEF Successive
<1> QED
  BY <1>1, <1>2, <1>3

-----------------------------------------------------------------------------
(* The steps.                                                              *)

LEMMA Facts ==
    ASSUME FollowUpInv
    PROVE  /\ log \in Seq(Delivery) /\ NoGap(log) /\ queue \in Queue /\ sidecar.queue \in Queue
           /\ Recovered = Find(log, sidecar) /\ Recovered' = Find(log', sidecar')
           /\ Recovered \in Queue
<1>1. /\ log \in Seq(Delivery) /\ NoGap(log) /\ queue \in Queue
      /\ sidecar \in [exists : BOOLEAN, queue : Queue] /\ sidecar.queue \in Queue
  BY DEF FollowUpInv, TypeInv, LogInv
<1>2. Recovered = Find(log, sidecar) /\ Recovered' = Find(log', sidecar')
  <2>1. Recovered = Find(log, sidecar)
    BY RecoveredIs
  <2>2. (Recovered = Find(log, sidecar))'
    BY RecoveredIs, PTL
  <2> QED
    BY <2>1, <2>2
<1> QED
  BY <1>1, <1>2, FindType

\* Steps that change neither the log nor the queue that a restart finds.
LEMMA ExitStep ==
    ASSUME FollowUpInv, Exit \/ FailAppend
    PROVE  FollowUpInv'
<1>1. UNCHANGED <<log, sidecar, queue, accepted, withdrawn, branches>>
      /\ process' \in {"none", process}
  BY DEF Exit, FailAppend
<1>2. Recovered' = Recovered
  BY <1>1, Facts
<1>3. Logged' = Logged /\ Intact' = Intact
  BY <1>1 DEF Logged, Intact, Misread
<1>4. TypeInv'
  BY <1>1 DEF FollowUpInv, TypeInv
<1>5. RestartInv'
  BY <1>1, <1>2, <1>3 DEF FollowUpInv, RestartInv
<1>6. OwnPromptsKept'
  BY <1>1, <1>2, <1>3 DEF FollowUpInv, OwnPromptsKept, NothingLost
<1>7. LogInv'
  BY <1>1, <1>3 DEF FollowUpInv, LogInv
<1>8. QueueInv'
  BY <1>1, <1>2, <1>3 DEF FollowUpInv, QueueInv
<1> QED
  BY <1>4, <1>5, <1>6, <1>7, <1>8 DEF FollowUpInv

\* The queue q is in memory and in the sidecar, and the log is as it was.
LEMMA SavedStep ==
    ASSUME FollowUpInv, NEW q \in Queue,
           log' = log, queue' = q, sidecar' = File(q), process' \in {"idle", "save"},
           branches' = branches,
           Intact => q.delivered = Recovered.delivered,
           Reached(log, q.delivered),
           Fresh(q, accepted', (Logged \cup withdrawn)'),
           Intact => accepted' \ withdrawn' \subseteq Logged \cup Prompts(q),
           Logged \cap withdrawn' = {}
    PROVE  FollowUpInv'
<1> USE Facts
<1>1. TypeInv'
  BY DEF FollowUpInv, TypeInv, File
<1>2. Recovered' \in Queue /\ Behind(Recovered', q)
      /\ ((\A i \in Given(log) : log[i].seq <= q.delivered) => Recovered' = q)
  <2>1. PICK s : s = File(q)
    OBVIOUS
  <2>2. /\ Find(log, s) \in Queue /\ Behind(Find(log, s), q)
        /\ (\A i \in Given(log) : log[i].seq <= q.delivered) => Find(log, s) = q
    BY <2>1, FindSaved
  <2>3. Recovered' = Find(log, s)
    BY <2>1
  <2> QED
    BY <2>2, <2>3
<1>3. Intact => Recovered' = q /\ \A i \in Given(log) : log[i].seq <= q.delivered
  BY <1>2 DEF FollowUpInv, RestartInv
<1>4. Logged' = Logged /\ Intact' = Intact
  BY DEF Logged, Intact, Misread
<1>5. RestartInv'
  BY <1>3, <1>4 DEF RestartInv
<1>6. OwnPromptsKept'
  BY <1>3, <1>4 DEF OwnPromptsKept, NothingLost
<1>7. LogInv'
  BY <1>4 DEF FollowUpInv, LogInv
<1>8. Fresh(Recovered', accepted', (Logged \cup withdrawn)')
  <2>1. PICK own, gone, r : own = accepted' /\ gone = (Logged \cup withdrawn)' /\ r = Recovered'
    OBVIOUS
  <2>2. Fresh(r, own, gone)
    BY <1>2, <2>1, BehindFresh
  <2> QED
    BY <2>1, <2>2
<1>9. IsEmpty(q) \/ (sidecar'.exists /\ ~IsEmpty(sidecar'.queue))
  BY DEF File
<1>10. Reached(log, sidecar'.queue.delivered)
  BY DEF File
<1>11. QueueInv'
  BY <1>2, <1>8, <1>9, <1>10 DEF QueueInv
<1> QED
  BY <1>1, <1>5, <1>6, <1>7, <1>11 DEF FollowUpInv

LEMMA OpenStep ==
    ASSUME FollowUpInv, Open
    PROVE  FollowUpInv'
<1> USE Facts
<1>1. /\ process = "none" /\ process' = "idle" /\ queue' = Recovered
      /\ UNCHANGED <<log, accepted, withdrawn, branches>>
      /\ sidecar' = IF ~sidecar.exists \/ IsEmpty(sidecar.queue) THEN sidecar ELSE File(Recovered)
  BY DEF Open
<1>2. Logged' = Logged /\ (Logged \cup withdrawn)' = Logged \cup withdrawn /\ Intact' = Intact
  BY <1>1 DEF Logged, Intact, Misread
<1>3. sidecar \in [exists : BOOLEAN, queue : Queue]
  BY DEF FollowUpInv, TypeInv
<1>4. Reached(log, Recovered.delivered)
  <2>1. Reached(log, sidecar.queue.delivered)
    BY DEF FollowUpInv, QueueInv
  <2> QED
    BY <1>3, <2>1, FindType
<1>5. Fresh(Recovered, accepted, Logged \cup withdrawn)
  BY DEF FollowUpInv, QueueInv
<1>6. CASE ~sidecar.exists \/ IsEmpty(sidecar.queue)
  <2>1. sidecar' = sidecar /\ Recovered' = Recovered
    BY <1>1, <1>6
  <2>2. IsEmpty(Recovered)
    BY <1>6, EmptyQueue DEF Find
  <2>3. TypeInv'
    BY <1>1, <2>1 DEF FollowUpInv, TypeInv
  <2>4. RestartInv'
    BY <1>1, <1>2, <2>1 DEF FollowUpInv, RestartInv
  <2>5. OwnPromptsKept'
    BY <1>1, <1>2, <2>1 DEF FollowUpInv, OwnPromptsKept, NothingLost
  <2>6. LogInv'
    BY <1>1, <1>2 DEF FollowUpInv, LogInv
  <2>7. Behind(Recovered, Recovered)
    BY BehindItself
  <2>8. QueueInv'
    BY <1>1, <1>2, <1>4, <1>5, <2>1, <2>2, <2>7 DEF FollowUpInv, QueueInv
  <2> QED
    BY <2>3, <2>4, <2>5, <2>6, <2>8 DEF FollowUpInv
<1>7. CASE ~(~sidecar.exists \/ IsEmpty(sidecar.queue))
  <2>1. PICK q : q = Recovered
    OBVIOUS
  <2>2. sidecar' = File(q)
    BY <1>1, <1>7, <2>1
  <2>3. Intact => accepted \ withdrawn \subseteq Logged \cup Prompts(q)
    BY <2>1 DEF FollowUpInv, OwnPromptsKept, NothingLost
  <2>4. Logged \cap withdrawn = {}
    BY DEF FollowUpInv, LogInv
  <2> QED
    BY <1>1, <1>2, <1>4, <1>5, <2>1, <2>2, <2>3, <2>4, SavedStep
<1> QED
  BY <1>6, <1>7

LEMMA SaveStep ==
    ASSUME FollowUpInv, Save
    PROVE  FollowUpInv'
<1> USE Facts
<1>1. /\ process = "save" /\ process' = "idle"
      /\ UNCHANGED <<log, queue, accepted, withdrawn, branches>>
      /\ sidecar' \in {sidecar, File(queue)}
  BY DEF Save
<1>2. Logged' = Logged /\ (Logged \cup withdrawn)' = Logged \cup withdrawn /\ Intact' = Intact
  BY <1>1 DEF Logged, Intact, Misread
<1>3. CASE sidecar' = sidecar
  <2>1. Recovered' = Recovered
    BY <1>1, <1>3
  <2>2. TypeInv'
    BY <1>1, <1>3 DEF FollowUpInv, TypeInv
  <2>3. RestartInv'
    BY <1>1, <1>2, <2>1 DEF FollowUpInv, RestartInv
  <2>4. OwnPromptsKept'
    BY <1>1, <1>2, <2>1 DEF FollowUpInv, OwnPromptsKept, NothingLost
  <2>5. LogInv'
    BY <1>1, <1>2 DEF FollowUpInv, LogInv
  <2>6. QueueInv'
    BY <1>1, <1>2, <1>3, <2>1 DEF FollowUpInv, QueueInv
  <2> QED
    BY <2>2, <2>3, <2>4, <2>5, <2>6 DEF FollowUpInv
<1>4. CASE sidecar' = File(queue)
  <2>1. Intact => Recovered = queue
    BY <1>1 DEF FollowUpInv, RestartInv
  <2>2. Intact => accepted \ withdrawn \subseteq Logged \cup Prompts(queue)
    BY <2>1 DEF FollowUpInv, OwnPromptsKept, NothingLost
  <2>3. Logged \cap withdrawn = {}
    BY DEF FollowUpInv, LogInv
  <2>4. Reached(log, queue.delivered) /\ Fresh(queue, accepted, Logged \cup withdrawn)
    BY <1>1 DEF FollowUpInv, QueueInv
  <2> QED
    BY <1>1, <1>2, <1>4, <2>1, <2>2, <2>3, <2>4, SavedStep
<1> QED
  BY <1>1, <1>3, <1>4

\* A change of the queue by its owner.
LEMMA ChangeStep ==
    ASSUME FollowUpInv, NEW next \in Queue, Change(next),
           next.delivered = queue.delivered, Distinct(next),
           Prompts(next) \subseteq Prompts(queue) \cup New
    PROVE  FollowUpInv'
<1> USE Facts
<1>1. /\ process = "idle" /\ process' = "idle" /\ queue' = next /\ sidecar' = File(next)
      /\ accepted' = accepted \cup Prompts(next)
      /\ withdrawn' = withdrawn \cup (Prompts(queue) \ Prompts(next))
      /\ UNCHANGED <<log, branches>>
  BY DEF Change
<1>2. Logged' = Logged /\ Intact' = Intact
  BY <1>1 DEF Logged, Intact, Misread
<1>3. Intact => Recovered = queue
  BY <1>1 DEF FollowUpInv, RestartInv
<1>4. Intact => accepted \ withdrawn \subseteq Logged \cup Prompts(queue)
  BY <1>3 DEF FollowUpInv, OwnPromptsKept, NothingLost
<1>5. Logged \cap withdrawn = {}
  BY DEF FollowUpInv, LogInv
<1>6. Reached(log, queue.delivered) /\ Prompts(queue) \subseteq accepted \ (Logged \cup withdrawn)
  BY <1>1 DEF FollowUpInv, QueueInv, Fresh
<1>7. Prompts(next) \cap (Logged \cup withdrawn) = {}
  BY <1>6 DEF New
<1>8. Fresh(next, accepted', (Logged \cup withdrawn)')
  BY <1>1, <1>2, <1>7 DEF Fresh
<1>9. Intact => accepted' \ withdrawn' \subseteq Logged \cup Prompts(next)
  BY <1>1, <1>4
<1>10. Logged \cap withdrawn' = {}
  BY <1>1, <1>5, <1>6
<1> QED
  BY <1>1, <1>3, <1>6, <1>8, <1>9, <1>10, SavedStep

LEMMA PromptsAre ==
    ASSUME NEW q \in Queue
    PROVE  Prompts(q) = {q.pending[i] : i \in 1..Len(q.pending)} \cup ({q.steer} \ {NoMessage})
BY DEF Prompts, ToSet, Queue

LEMMA RemoveAtIs ==
    ASSUME NEW p \in Seq(Message), NEW i \in 1..Len(p)
    PROVE  /\ RemoveAt(p, i) \in Seq(Message) /\ Len(RemoveAt(p, i)) = Len(p) - 1
           /\ \A k \in 1..Len(p) - 1 : RemoveAt(p, i)[k] = IF k < i THEN p[k] ELSE p[k + 1]
<1> DEFINE a == SubSeq(p, 1, i - 1)
           b == SubSeq(p, i + 1, Len(p))
<1>1. Len(p) \in Nat
  OBVIOUS
<1>2. a \in Seq(Message) /\ Len(a) = i - 1 /\ \A k \in 1..i - 1 : a[k] = p[k]
  BY <1>1
<1>3. b \in Seq(Message) /\ Len(b) = Len(p) - i /\ \A k \in 1..Len(p) - i : b[k] = p[i + k]
  BY <1>1
<1> HIDE DEF a, b
<1>4. RemoveAt(p, i) = a \o b
  BY DEF RemoveAt, a, b
<1>5. a \o b \in Seq(Message) /\ Len(a \o b) = Len(p) - 1
  <2>1. a \in Seq(Message) /\ b \in Seq(Message)
    BY <1>2, <1>3
  <2>2. a \o b \in Seq(Message) /\ Len(a \o b) = Len(a) + Len(b)
    BY <2>1
  <2> QED
    BY <1>1, <1>2, <1>3, <2>2
<1>6. ASSUME NEW k \in 1..Len(p) - 1
      PROVE  (a \o b)[k] = IF k < i THEN p[k] ELSE p[k + 1]
  <2>1. CASE k < i
    <3>1. k \in 1..Len(a) /\ (a \o b)[k] = a[k]
      BY <1>1, <1>2, <1>3, <2>1
    <3> QED
      BY <1>2, <2>1, <3>1
  <2>2. CASE ~(k < i)
    <3>1. (a \o b)[k] = b[k - Len(a)]
      BY <1>1, <1>2, <1>3, <2>2
    <3>2. k - Len(a) \in 1..Len(p) - i /\ i + (k - Len(a)) = k + 1
      BY <1>1, <1>2, <2>2
    <3> QED
      BY <1>3, <2>2, <3>1, <3>2
  <2> QED
    BY <2>1, <2>2
<1> QED
  BY <1>4, <1>5, <1>6

\* The prompts of s, with the correction t, are distinct and all queued or new.
Arranged(s, t) ==
    /\ \A i \in 1..Len(s) : s[i] # t /\ \A j \in 1..Len(s) : s[i] = s[j] => i = j
    /\ \A i \in 1..Len(s) : s[i] \in Prompts(queue) \cup New
    /\ t \in Prompts(queue) \cup New \cup {NoMessage}

\* The owner's operations keep prompts distinct and bring in new ones only.
LEMMA EditStep ==
    ASSUME FollowUpInv,
           PushFollowUp \/ PushSteer \/ Clear \/ Edit \/ Move \/ Promote \/ Discard
    PROVE  FollowUpInv'
<1> DEFINE p == queue.pending
           Sound(next) == /\ next \in Queue /\ next.delivered = queue.delivered /\ Distinct(next)
                          /\ Prompts(next) \subseteq Prompts(queue) \cup New
<1>0. /\ queue \in Queue /\ p \in Seq(Message) /\ Len(p) \in Nat
      /\ queue.steer \in Message \cup {NoMessage} /\ queue.delivered \in Nat
  BY Facts DEF Queue
<1>a. process = "idle" =>
        /\ Distinct(queue)
        /\ Prompts(queue) \subseteq accepted
  BY DEF FollowUpInv, QueueInv, Fresh
<1>b. \A m \in New : m \in Message /\ m \notin accepted /\ m # NoMessage
  BY QueueConstantsOK DEF New
<1>c. Prompts(queue) = {p[i] : i \in 1..Len(p)} \cup ({queue.steer} \ {NoMessage})
  BY <1>0, PromptsAre
<1>d. \A next : Change(next) => process = "idle"
  BY DEF Change
<1>e. process = "idle" =>
        /\ \A i \in 1..Len(p) : /\ p[i] # queue.steer
                                /\ \A j \in 1..Len(p) : p[i] = p[j] => i = j
        /\ \A m \in New : m # queue.steer /\ \A i \in 1..Len(p) : p[i] # m
  BY <1>a, <1>b, <1>c DEF Distinct
<1>f. \A i \in 1..Len(p) : p[i] \in Message /\ p[i] # NoMessage
  BY <1>0, QueueConstantsOK
<1>g. ASSUME NEW next \in Queue, next.delivered = queue.delivered,
             Arranged(next.pending, next.steer)
      PROVE  Sound(next)
  <2>1. Prompts(next) = {next.pending[i] : i \in 1..Len(next.pending)} \cup ({next.steer} \ {NoMessage})
    BY PromptsAre
  <2>2. Distinct(next)
    BY <1>g DEF Distinct, Arranged
  <2>3. Prompts(next) \subseteq Prompts(queue) \cup New
    BY <1>g, <2>1 DEF Arranged
  <2> QED
    BY <1>g, <2>2, <2>3
<1>h. ASSUME NEW next, Sound(next), Change(next) PROVE FollowUpInv'
  BY <1>h, ChangeStep
<1>i. queue = [queue EXCEPT !.steer = queue.steer] /\ queue.steer \in Prompts(queue) \cup {NoMessage}
      /\ \A i \in 1..Len(p) : p[i] \in Prompts(queue)
  BY <1>0, <1>c DEF Queue
<1> HIDE DEF Sound
<1>1. CASE PushFollowUp
  <2>1. PICK m \in New : Change([queue EXCEPT !.pending = Append(@, m)])
    BY <1>1 DEF PushFollowUp
  <2>2. PICK s, next : s = Append(p, m) /\ next = [queue EXCEPT !.pending = s]
    OBVIOUS
  <2>3. /\ s \in Seq(Message) /\ Len(s) = Len(p) + 1 /\ s[Len(p) + 1] = m
        /\ \A i \in 1..Len(p) : s[i] = p[i]
    BY <1>0, <1>b, <2>2
  <2>4. next \in Queue /\ next.delivered = queue.delivered /\ next.pending = s /\ next.steer = queue.steer
    BY <1>0, <2>2, <2>3 DEF Queue
  <2>5. \A i \in 1..Len(s) : i \in 1..Len(p) \/ i = Len(p) + 1
    BY <1>0, <2>3
  <2>6. process = "idle"
    BY <1>d, <2>1
  <2>7. \A i \in 1..Len(s) : s[i] # queue.steer /\ \A j \in 1..Len(s) : s[i] = s[j] => i = j
    BY <1>e, <2>3, <2>5, <2>6
  <2>8. \A i \in 1..Len(s) : s[i] \in Prompts(queue) \cup New
    BY <1>i, <2>3, <2>5
  <2>9. Sound(next)
    <3>1. Arranged(s, queue.steer)
      BY <1>i, <2>7, <2>8 DEF Arranged
    <3> QED
      BY <1>g, <3>1, <2>4
  <2> QED
    BY <1>h, <2>1, <2>2, <2>9
<1>2. CASE PushSteer \/ \E m \in New : queue.steer # NoMessage /\ Change([queue EXCEPT !.steer = m])
  <2>1. PICK m \in New : Change([queue EXCEPT !.steer = m])
    BY <1>2 DEF PushSteer
  <2>2. PICK next : next = [queue EXCEPT !.steer = m]
    OBVIOUS
  <2>3. next \in Queue /\ next.delivered = queue.delivered /\ next.pending = p /\ next.steer = m
    BY <1>0, <1>b, <2>2 DEF Queue
  <2>4. process = "idle"
    BY <1>d, <2>1
  <2>5. Sound(next)
    <3>1. Arranged(p, m)
      BY <1>e, <1>i, <2>4 DEF Arranged
    <3> QED
      BY <1>g, <3>1, <2>3
  <2> QED
    BY <1>h, <2>1, <2>2, <2>5
<1>3. CASE Clear
  <2>1. Change([queue EXCEPT !.pending = <<>>, !.steer = NoMessage])
    BY <1>3 DEF Clear
  <2>2. PICK next, s : s = <<>> /\ next = [queue EXCEPT !.pending = s, !.steer = NoMessage]
    OBVIOUS
  <2>3. /\ next \in Queue /\ next.delivered = queue.delivered
        /\ next.pending = <<>> /\ next.steer = NoMessage
    <3>1. s \in Seq(Message)
      BY <2>2
    <3>2. /\ next \in Queue /\ next.delivered = queue.delivered
          /\ next.pending = s /\ next.steer = NoMessage
      BY <1>0, <2>2, <3>1 DEF Queue
    <3> QED
      BY <2>2, <3>2
  <2>4. Sound(next)
    <3>1. Arranged(<<>>, NoMessage)
      BY DEF Arranged
    <3> QED
      BY <1>g, <3>1, <2>3
  <2> QED
    BY <1>h, <2>1, <2>2, <2>4
<1>4. ASSUME NEW m \in New, NEW i \in 1..Len(p), Change([queue EXCEPT !.pending[i] = m])
      PROVE  FollowUpInv'
  <2>1. PICK s, next : s = [p EXCEPT ![i] = m] /\ next = [queue EXCEPT !.pending = s]
    OBVIOUS
  <2>2. /\ s \in Seq(Message) /\ Len(s) = Len(p)
        /\ \A k \in 1..Len(p) : s[k] = IF k = i THEN m ELSE p[k]
    BY <1>0, <1>b, <2>1
  <2>3. /\ next \in Queue /\ next.delivered = queue.delivered /\ next.pending = s /\ next.steer = queue.steer
        /\ Change(next)
    BY <1>0, <1>4, <2>1, <2>2 DEF Queue
  <2>4. process = "idle"
    BY <1>d, <2>3
  <2>5. \A k \in 1..Len(s) : s[k] # queue.steer /\ \A j \in 1..Len(s) : s[k] = s[j] => k = j
    BY <1>e, <2>2, <2>4
  <2>6. \A k \in 1..Len(s) : s[k] \in Prompts(queue) \cup New
    BY <1>i, <2>2
  <2>7. Sound(next)
    <3>1. Arranged(s, queue.steer)
      BY <1>i, <2>5, <2>6 DEF Arranged
    <3> QED
      BY <1>g, <3>1, <2>3
  <2> QED
    BY <1>h, <2>3, <2>7
<1>5. CASE Move
  <2>1. PICK i \in 1..Len(p) - 1 :
           Change([queue EXCEPT !.pending[i] = p[i+1], !.pending[i+1] = p[i]])
    BY <1>5 DEF Move
  <2>2. PICK s, next : s = [p EXCEPT ![i] = p[i+1], ![i+1] = p[i]] /\ next = [queue EXCEPT !.pending = s]
    OBVIOUS
  <2>3. i \in 1..Len(p) /\ i + 1 \in 1..Len(p) /\ i # i + 1
    BY <1>0
  <2>4. /\ s \in Seq(Message) /\ Len(s) = Len(p)
        /\ \A k \in 1..Len(p) : s[k] = IF k = i THEN p[i+1] ELSE IF k = i + 1 THEN p[i] ELSE p[k]
    BY <1>0, <1>f, <2>2, <2>3
  <2>5. /\ next \in Queue /\ next.delivered = queue.delivered /\ next.pending = s /\ next.steer = queue.steer
        /\ Change(next)
    BY <1>0, <2>1, <2>2, <2>4 DEF Queue
  <2>6. process = "idle"
    BY <1>d, <2>5
  <2>7. \A k \in 1..Len(s) : s[k] # queue.steer /\ \A j \in 1..Len(s) : s[k] = s[j] => k = j
    BY <1>e, <2>3, <2>4, <2>6
  <2>8. \A k \in 1..Len(s) : s[k] \in Prompts(queue) \cup New
    BY <1>i, <2>3, <2>4
  <2>9. Sound(next)
    <3>1. Arranged(s, queue.steer)
      BY <1>i, <2>7, <2>8 DEF Arranged
    <3> QED
      BY <1>g, <3>1, <2>5
  <2> QED
    BY <1>h, <2>5, <2>9
<1>6. ASSUME NEW i \in 1..Len(p), NEW s, s = RemoveAt(p, i), process = "idle"
      PROVE  /\ s \in Seq(Message) /\ Len(s) \in Nat
             /\ \A k \in 1..Len(s) : /\ s[k] # p[i] /\ s[k] # queue.steer
                                     /\ s[k] \in Prompts(queue)
                                     /\ \A j \in 1..Len(s) : s[k] = s[j] => k = j
  <2>1. /\ s \in Seq(Message) /\ Len(s) = Len(p) - 1
        /\ \A k \in 1..Len(p) - 1 : s[k] = IF k < i THEN p[k] ELSE p[k + 1]
    BY <1>0, <1>6, RemoveAtIs
  <2>2. \A k \in 1..Len(s) : k \in 1..Len(p) /\ k + 1 \in 1..Len(p) /\ k # k + 1
    BY <1>0, <2>1
  <2>3. ASSUME NEW k \in 1..Len(s)
        PROVE  s[k] # p[i] /\ s[k] # queue.steer /\ s[k] \in Prompts(queue)
    BY <1>e, <1>i, <1>6, <2>1, <2>2
  <2>4. \A k, j \in 1..Len(s) : s[k] = s[j] => k = j
    <3> SUFFICES ASSUME NEW k \in 1..Len(s), NEW j \in 1..Len(s), s[k] = s[j] PROVE k = j
      OBVIOUS
    <3> QED
      BY <1>e, <1>6, <2>1, <2>2
  <2>5. Len(s) \in Nat
    BY <2>1
  <2> HIDE DEF p
  <2> QED
    BY <2>1, <2>3, <2>4, <2>5
<1>7. CASE Promote
  <2>1. PICK i \in 1..Len(p) :
          Change([queue EXCEPT
                    !.pending = IF queue.steer = NoMessage THEN RemoveAt(p, i)
                                ELSE <<queue.steer>> \o RemoveAt(p, i),
                    !.steer = p[i]])
    BY <1>7 DEF Promote
  <2>2. process = "idle"
    BY <1>d, <2>1
  <2>3. PICK rest, s, next :
          /\ rest = RemoveAt(p, i)
          /\ s = IF queue.steer = NoMessage THEN rest ELSE <<queue.steer>> \o rest
          /\ next = [queue EXCEPT !.pending = s, !.steer = p[i]]
    OBVIOUS
  <2>4. /\ rest \in Seq(Message) /\ Len(rest) \in Nat
        /\ \A k \in 1..Len(rest) : /\ rest[k] # p[i] /\ rest[k] # queue.steer
                                   /\ rest[k] \in Prompts(queue)
                                   /\ \A j \in 1..Len(rest) : rest[k] = rest[j] => k = j
    BY <1>6, <2>2, <2>3
  <2>5. /\ s \in Seq(Message)
        /\ \A k \in 1..Len(s) : s[k] # p[i] /\ \A j \in 1..Len(s) : s[k] = s[j] => k = j
        /\ \A k \in 1..Len(s) : s[k] \in Prompts(queue)
    <3>1. CASE queue.steer = NoMessage
      BY <2>3, <2>4, <3>1
    <3>2. CASE queue.steer # NoMessage
      <4>1. /\ s \in Seq(Message) /\ Len(s) = Len(rest) + 1 /\ s[1] = queue.steer
            /\ \A k \in 1..Len(s) : k = 1 \/ (k - 1 \in 1..Len(rest) /\ s[k] = rest[k - 1])
        BY <1>0, <2>3, <2>4, <3>2
      <4>2. queue.steer # p[i] /\ queue.steer \in Prompts(queue)
        BY <1>c, <1>e, <2>2, <3>2
      <4>3. ASSUME NEW k \in 1..Len(s), NEW j \in 1..Len(s), s[k] = s[j] PROVE k = j
        <5>1. \A l \in 1..Len(rest) : rest[l] # s[1]
          BY <2>4, <4>1
        <5>2. (k = 1) <=> (j = 1)
          BY <4>1, <4>3, <5>1
        <5>3. k # 1 => k - 1 = j - 1
          BY <2>4, <4>1, <4>3, <5>2
        <5> QED
          BY <5>2, <5>3
      <4>4. \A k \in 1..Len(s) : s[k] # p[i] /\ s[k] \in Prompts(queue)
        BY <2>4, <4>1, <4>2
      <4> QED
        BY <4>1, <4>3, <4>4
    <3> QED
      BY <3>1, <3>2
  <2>6. /\ next \in Queue /\ Change(next) /\ next.delivered = queue.delivered
        /\ next.pending = s /\ next.steer = p[i]
    BY <1>0, <1>f, <2>1, <2>3, <2>5 DEF Queue
  <2>7. Sound(next)
    <3>1. Arranged(s, p[i])
      BY <1>i, <2>5 DEF Arranged
    <3> QED
      BY <1>g, <3>1, <2>6
  <2> QED
    BY <1>h, <2>6, <2>7
<1>8. ASSUME Change([queue EXCEPT !.steer = NoMessage]) PROVE FollowUpInv'
  <2>1. PICK next : next = [queue EXCEPT !.steer = NoMessage]
    OBVIOUS
  <2>2. next \in Queue /\ next.delivered = queue.delivered /\ next.pending = p /\ next.steer = NoMessage
    BY <1>0, <2>1 DEF Queue
  <2>3. process = "idle"
    BY <1>d, <1>8
  <2>4. Sound(next)
    <3>1. Arranged(p, NoMessage)
      BY <1>e, <1>f, <1>i, <2>3 DEF Arranged
    <3> QED
      BY <1>g, <3>1, <2>2
  <2> QED
    BY <1>h, <1>8, <2>1, <2>4
<1>9. ASSUME NEW i \in 1..Len(p), Change([queue EXCEPT !.pending = RemoveAt(@, i)])
      PROVE  FollowUpInv'
  <2>1. process = "idle"
    BY <1>d, <1>9
  <2>2. PICK s, next : s = RemoveAt(p, i) /\ next = [queue EXCEPT !.pending = s]
    OBVIOUS
  <2>3. /\ s \in Seq(Message)
        /\ \A k \in 1..Len(s) : s[k] # queue.steer /\ \A j \in 1..Len(s) : s[k] = s[j] => k = j
        /\ \A k \in 1..Len(s) : s[k] \in Prompts(queue)
    BY <1>6, <2>1, <2>2
  <2>4. /\ next \in Queue /\ next.delivered = queue.delivered /\ next.pending = s /\ next.steer = queue.steer
        /\ Change(next)
    BY <1>0, <1>9, <2>2, <2>3 DEF Queue
  <2>5. Sound(next)
    <3>1. Arranged(s, queue.steer)
      BY <1>i, <2>3 DEF Arranged
    <3> QED
      BY <1>g, <3>1, <2>4
  <2> QED
    BY <1>h, <2>4, <2>5
<1>10. CASE Edit
  BY <1>10, <1>2, <1>4 DEF Edit
<1>11. CASE Discard
  BY <1>11, <1>8, <1>9 DEF Discard
<1> QED
  BY <1>1, <1>2, <1>3, <1>5, <1>7, <1>10, <1>11

LEMMA DeliverStep ==
    ASSUME FollowUpInv, Deliver
    PROVE  FollowUpInv'
<1> USE Facts
<1> DEFINE n == queue.delivered + 1
           m == NextPrompt(queue)
           d == Receipt(n, "user", m)
           L == Followed(log, "other")
<1>1. /\ process = "idle" /\ process' = "save" /\ ~IsEmpty(queue)
      /\ log' = Append(L, d)
      /\ queue' = [TakeNext(queue) EXCEPT !.delivered = n]
      /\ UNCHANGED <<sidecar, accepted, withdrawn, branches>>
  BY DEF Deliver, MayDeliver, NextSequence
<1>2. queue.delivered \in Nat /\ n \in Nat /\ Recovered.delivered \in Nat
  BY DEF Queue
<1>3. Size(queue) \in Nat /\ Size(queue) > 0 /\ Size(Recovered) \in Nat
  BY <1>1, QueueOrder
<1>4. m = At(queue, 1) /\ m \in Message /\ m \in Prompts(queue) /\ m # NoMessage
  <2>1. 1 \in 1..Size(queue)
    BY <1>3
  <2> QED
    BY <1>3, <2>1, QueueOrder, QueueConstantsOK
<1>5. d \in Delivery /\ d.prompt = m /\ d.seq = n /\ d.next = "user"
  BY <1>2, <1>4 DEF Delivery, Receipt
<1>6. /\ Reached(log, queue.delivered) /\ Fresh(queue, accepted, Logged \cup withdrawn)
      /\ Behind(Recovered, queue) /\ sidecar.exists /\ ~IsEmpty(sidecar.queue)
  BY <1>1 DEF FollowUpInv, QueueInv
<1>7. PICK e : e = d
  OBVIOUS
<1>8. e \in Delivery /\ e.prompt = m /\ e.seq = n /\ e.next = "user" /\ log' = Append(L, e)
  BY <1>1, <1>5, <1>7
<1>s. /\ L \in Seq(Delivery) /\ Len(L) = Len(log) /\ NoGap(L)
      /\ Given(L) = Given(log) /\ Prompted(L) = Prompted(log)
      /\ \A i \in 1..Len(log) : L[i].seq = log[i].seq /\ L[i].prompt = log[i].prompt
      /\ \A q : ReplayOf(L, q) = ReplayOf(log, q)
  <2>1. SameReceipts(log, L) /\ Given(L) = Given(log) /\ \A q : ReplayOf(L, q) = ReplayOf(log, q)
    BY FollowedIs
  <2>2. NoGap(L)
    BY <2>1, NoGapSame
  <2> QED
    BY <2>1, <2>2 DEF SameReceipts
<1> HIDE DEF d, m, n, L
<1>9. Recovered' = Taken(Recovered, e)
  BY <1>1, <1>6, <1>8, <1>s, ReplayAppend DEF Find
<1>e. Extends(L, e, log')
  BY <1>8, <1>s, AppendGiven
<1>10. /\ log' \in Seq(Delivery) /\ Len(log') = Len(log) + 1 /\ log'[Len(log) + 1] = e
       /\ Given(log) \subseteq 1..Len(log) /\ Prompted(log) \subseteq 1..Len(log)
       /\ Given(log') = Given(log) \cup {Len(log) + 1}
       /\ Prompted(log') = Prompted(log) \cup {Len(log) + 1}
       /\ \A i \in 1..Len(log) : log'[i] = L[i]
  BY <1>4, <1>8, <1>e, <1>s DEF Extends
<1>11. \A i \in 1..Len(log) : /\ log'[i].seq = log[i].seq /\ log'[i].prompt = log[i].prompt
                              /\ i # Len(log) + 1 /\ i < Len(log) + 1
  BY <1>10, <1>s
<1>12. Logged' = Logged \cup {m}
  <2>1. /\ Logged = {log[i].prompt : i \in Prompted(log)}
        /\ Logged' = {log'[i].prompt : i \in Prompted(log')}
    <3>1. (Logged = {log[i].prompt : i \in Prompted(log)})'
      BY LoggedIs, PTL
    <3> QED
      BY <3>1, LoggedIs
  <2> QED
    BY <1>8, <1>10, <1>11, <2>1
<1>i. Intact' => Intact
  <2>1. ASSUME Misread PROVE Misread'
    <3>1. PICK i \in 1..Len(log) : i \in Given(log) /\ log[i].prompt = NoMessage
      BY <2>1 DEF Misread, Given
    <3>2. i \in Given(log') /\ log'[i].prompt = NoMessage
      BY <1>10, <1>11, <3>1
    <3> QED
      BY <3>2 DEF Misread, Given
  <2> QED
    BY <1>1, <2>1 DEF Intact
\* The queue in memory.
<1>13. /\ queue' \in Queue /\ queue'.delivered = n
       /\ Size(queue') = Size(queue) - 1
       /\ \A i \in 1..Size(queue') : At(queue', i) = At(queue, i + 1)
  <2>1. PICK q : q = queue'
    OBVIOUS
  <2>2. /\ q \in Queue /\ q.delivered = n
        /\ Size(q) = IF Size(queue) = 0 THEN 0 ELSE Size(queue) - 1
        /\ \A i \in 1..Size(q) : At(q, i) = At(queue, i + 1)
    BY <1>1, <1>2, <2>1, TakeNextOrder
  <2> QED
    BY <1>3, <2>1, <2>2
<1>14. Fresh(queue', accepted', (Logged \cup withdrawn)')
  <2>1. \A i, j \in 1..Size(queue) : At(queue, i) = At(queue, j) => i = j
    BY <1>6, DistinctAt DEF Fresh
  <2>2. \A i \in 1..Size(queue') : i + 1 \in 1..Size(queue) /\ i + 1 # 1 /\ 1 \in 1..Size(queue)
    BY <1>3, <1>13
  <2>3. PICK q : q = queue'
    OBVIOUS
  <2>4. ASSUME NEW i \in 1..Size(q), NEW j \in 1..Size(q), At(q, i) = At(q, j) PROVE i = j
    <3>1. i + 1 = j + 1
      BY <1>13, <2>1, <2>2, <2>3, <2>4
    <3> QED
      BY <3>1
  <2>5. Distinct(q)
    BY <1>13, <2>3, <2>4, DistinctAt
  <2>6. Prompts(q) = {At(q, i) : i \in 1..Size(q)} /\ Prompts(queue) = {At(queue, i) : i \in 1..Size(queue)}
    BY <1>13, <2>3, QueueOrder
  <2>7. Prompts(q) \subseteq Prompts(queue) \ {m}
    BY <1>4, <1>13, <2>1, <2>2, <2>3, <2>6
  <2> QED
    BY <1>1, <1>6, <1>12, <2>3, <2>5, <2>7 DEF Fresh
\* The queue that a restart finds.
<1>15. Recovered' \in Queue /\ Behind(Recovered', queue')
  <2> DEFINE k == Recovered.delivered - queue.delivered
  <2>1. /\ k \in Nat
        /\ Size(Recovered) = IF Size(queue) > k THEN Size(queue) - k ELSE 0
        /\ \A i \in 1..Size(Recovered) : At(Recovered, i) = At(queue, i + k)
    BY <1>2, <1>6 DEF Behind
  <2>2. CASE k = 0
    <3>1. Recovered.delivered = queue.delivered
      BY <1>2, <2>2
    <3>2. Counts(e, Recovered)
      BY <1>2, <1>4, <1>8, <3>1 DEF Counts, n
    <3>3. PICK r : r = Recovered'
      OBVIOUS
    <3>4. r = [TakeNext(Recovered) EXCEPT !.delivered = n]
      BY <1>8, <1>9, <3>2, <3>3 DEF Taken
    <3>5. /\ r \in Queue /\ r.delivered = n
          /\ Size(r) = IF Size(Recovered) = 0 THEN 0 ELSE Size(Recovered) - 1
          /\ \A i \in 1..Size(r) : At(r, i) = At(Recovered, i + 1)
      BY <1>2, <3>4, TakeNextOrder
    <3>6. Size(Recovered) = Size(queue) /\ Size(r) = Size(queue')
      BY <1>3, <1>13, <2>1, <2>2, <3>5
    <3>7. ASSUME NEW i \in 1..Size(r) PROVE At(r, i) = At(queue', i + 0)
      <4>1. i + 1 \in 1..Size(Recovered) /\ (i + 1) + k = i + 1 /\ i + 0 = i
        BY <1>3, <1>13, <2>2, <3>6
      <4> QED
        BY <1>13, <2>1, <3>5, <3>6, <4>1
    <3>8. r.delivered - queue'.delivered = 0 /\ r.delivered >= queue'.delivered
      BY <1>2, <1>13, <3>5
    <3>9. Size(r) = IF Size(queue') > 0 THEN Size(queue') - 0 ELSE 0
      BY <1>3, <1>13, <3>6
    <3> QED
      BY <3>3, <3>5, <3>7, <3>8, <3>9 DEF Behind
  <2>3. CASE k # 0
    <3>1. k >= 1 /\ Recovered.delivered >= n
      BY <1>2, <2>1, <2>3 DEF n
    <3>2. ~Counts(e, Recovered)
      BY <1>2, <1>8, <3>1 DEF Counts
    <3>3. Recovered' = Recovered
      BY <1>9, <3>2 DEF Taken
    <3>4. Recovered.delivered - queue'.delivered = k - 1
      BY <1>2, <1>13 DEF n
    <3> HIDE DEF k
    <3>5. Size(Recovered) = IF Size(queue') > k - 1 THEN Size(queue') - (k - 1) ELSE 0
      BY <1>3, <1>13, <2>1, <3>1
    <3>6. ASSUME NEW i \in 1..Size(Recovered) PROVE At(Recovered, i) = At(queue', i + (k - 1))
      <4>1. i + (k - 1) \in 1..Size(queue') /\ (i + (k - 1)) + 1 = i + k
        BY <1>3, <1>13, <2>1, <3>1, <3>5
      <4> QED
        BY <1>13, <2>1, <4>1
    <3> QED
      BY <1>13, <3>1, <3>3, <3>4, <3>5, <3>6 DEF Behind
  <2> QED
    BY <2>2, <2>3
<1>16. Fresh(Recovered', accepted', (Logged \cup withdrawn)')
  <2>1. PICK q, r, own, gone : /\ q = queue' /\ r = Recovered'
                               /\ own = accepted' /\ gone = (Logged \cup withdrawn)'
    OBVIOUS
  <2>2. Fresh(r, own, gone)
    BY <1>13, <1>14, <1>15, <2>1, BehindFresh
  <2> QED
    BY <2>1, <2>2
<1>17. Intact => Recovered' = queue'
  <2> SUFFICES ASSUME Intact PROVE Recovered' = queue'
    OBVIOUS
  <2>1. Recovered = queue
    BY <1>1 DEF FollowUpInv, RestartInv
  <2>2. Counts(e, queue)
    BY <1>2, <1>4, <1>8 DEF Counts, n
  <2> QED
    BY <1>1, <1>8, <1>9, <2>1, <2>2 DEF Taken
<1>18. TypeInv'
  BY <1>1, <1>10, <1>13 DEF FollowUpInv, TypeInv
<1>19. RestartInv'
  <2> SUFFICES ASSUME Intact
               PROVE  \A i \in Given(log') : log'[i].seq <= n
    BY <1>1, <1>13, <1>17, <1>i DEF RestartInv
  <2>1. \A i \in Given(log) : log[i].seq <= queue.delivered
    BY <1>1 DEF FollowUpInv, RestartInv
  <2>2. \A i \in Given(log) : log[i].seq \in Nat
    <3>1. \A i \in 1..Len(log) : log[i] \in Delivery
      OBVIOUS
    <3> QED
      BY <1>10, <3>1 DEF Delivery
  <2> QED
    BY <1>2, <1>8, <1>10, <1>11, <2>1, <2>2 DEF n
<1>20. OwnPromptsKept'
  <2> SUFFICES ASSUME Intact
               PROVE  accepted \ withdrawn \subseteq Logged' \cup Prompts(queue')
    BY <1>1, <1>17, <1>i DEF OwnPromptsKept, NothingLost
  <2>1. accepted \ withdrawn \subseteq Logged \cup Prompts(queue)
    BY <1>1 DEF FollowUpInv, RestartInv, OwnPromptsKept, NothingLost
  <2>2. Prompts(queue) \subseteq Prompts(queue') \cup {m}
    <3>1. Prompts(queue') = {At(queue', i) : i \in 1..Size(queue')}
      <4>1. PICK q : q = queue'
        OBVIOUS
      <4> QED
        BY <1>13, <4>1, QueueOrder
    <3>2. Prompts(queue) = {At(queue, i) : i \in 1..Size(queue)}
      BY QueueOrder
    <3>3. ASSUME NEW i \in 1..Size(queue) PROVE At(queue, i) \in Prompts(queue') \cup {m}
      <4>1. CASE i = 1
        BY <1>4, <4>1
      <4>2. CASE i # 1
        <5>1. i - 1 \in 1..Size(queue') /\ (i - 1) + 1 = i
          BY <1>3, <1>13, <4>2
        <5>2. At(queue', i - 1) = At(queue, i)
          BY <1>13, <5>1
        <5> QED
          BY <3>1, <5>1, <5>2
      <4> QED
        BY <4>1, <4>2
    <3> QED
      BY <3>2, <3>3
  <2> QED
    BY <1>12, <2>1, <2>2
\* The log.
<1>21. LogInv'
  <2>1. m \notin Logged /\ m \notin withdrawn
    BY <1>4, <1>6 DEF Fresh
  <2>2. Logged' \cap withdrawn' = {}
    BY <1>1, <1>12, <2>1 DEF FollowUpInv, LogInv
  <2>3. \A i \in Prompted(log) : log[i].prompt # m
    BY <2>1, LoggedIs
  <2>4. \A i, j \in Prompted(log') : log'[i].prompt = log'[j].prompt => i = j
    <3>1. \A i, j \in Prompted(log) : log[i].prompt = log[j].prompt => i = j
      BY DEF FollowUpInv, LogInv
    <3> QED
      BY <1>8, <1>10, <1>11, <2>3, <3>1
  <2>5. NoGap(log')
    <3>1. Successive(L, e.seq)
      <4>1. queue.delivered = 0 \/ \E j \in Given(L) : L[j].seq = queue.delivered
        BY <1>6, <1>10, <1>s DEF Reached
      <4> QED
        BY <1>8, <4>1 DEF Successive, n
    <3> QED
      BY <1>8, <1>e, <1>s, <3>1, NoGapAppend
  <2>6. Prompted(log') \subseteq Given(log')
    BY <1>10 DEF FollowUpInv, LogInv
  <2> QED
    BY <2>2, <2>4, <2>5, <2>6 DEF LogInv
<1>22. QueueInv'
  <2>1. Reached(log', n)
    BY <1>8, <1>10 DEF Reached
  <2>2. Reached(log', sidecar'.queue.delivered)
    <3>1. Reached(log, sidecar.queue.delivered)
      BY DEF FollowUpInv, QueueInv
    <3> QED
      BY <1>1, <1>10, <1>11, <3>1 DEF Reached
  <2> QED
    BY <1>1, <1>6, <1>13, <1>14, <1>15, <1>16, <2>1, <2>2 DEF QueueInv
<1> QED
  BY <1>18, <1>19, <1>20, <1>21, <1>22 DEF FollowUpInv

LEMMA TearStep ==
    ASSUME FollowUpInv, TearDelivery
    PROVE  FollowUpInv'
<1> USE Facts
<1>1. PICK e, L : e = Receipt(queue.delivered + 1, "nothing", NoMessage) /\ L = Followed(log, "other")
  OBVIOUS
<1>2. /\ process = "idle" /\ process' = "none" /\ log' = Append(L, e)
      /\ UNCHANGED <<sidecar, queue, accepted, withdrawn, branches>>
  BY <1>1 DEF TearDelivery, NextSequence, MayDeliver
<1>3. e \in Delivery /\ e.prompt = NoMessage /\ e.next = "nothing" /\ e.seq = queue.delivered + 1
  BY <1>1 DEF Delivery, Queue, Receipt
<1>s. SameReceipts(log, L) /\ Given(L) = Given(log) /\ \A q : ReplayOf(L, q) = ReplayOf(log, q)
  BY <1>1, FollowedIs
<1>n. NoGap(L) /\ L \in Seq(Delivery) /\ Len(L) = Len(log) /\ Prompted(L) = Prompted(log)
  BY <1>s, NoGapSame DEF SameReceipts
<1>e. Extends(L, e, log')
  BY <1>2, <1>3, <1>n, AppendGiven
<1>4. /\ log' \in Seq(Delivery) /\ Given(log') = Given(log) /\ Prompted(log') = Prompted(log)
      /\ Given(log) \subseteq 1..Len(log) /\ Prompted(log) \subseteq 1..Len(log)
      /\ \A i \in 1..Len(log) : log'[i].seq = log[i].seq /\ log'[i].prompt = log[i].prompt
  BY <1>3, <1>e, <1>s, <1>n DEF Extends, SameReceipts
<1>5. Recovered' = Recovered
  <2>1. \A q : Taken(q, e) = q
    BY <1>3 DEF Taken, Counts
  <2>2. \A q : ReplayOf(log', q) = ReplayOf(log, q)
    BY <1>2, <1>3, <1>n, <1>s, <2>1, ReplayAppend
  <2> QED
    BY <1>2, <2>2 DEF Find
<1>6. Logged' = Logged
  <2>1. (Logged = {log[i].prompt : i \in Prompted(log)})'
    BY LoggedIs, PTL
  <2> QED
    BY <1>4, <2>1, LoggedIs
<1>i. Intact' => Intact
  <2>1. ASSUME Misread PROVE Misread'
    <3>1. PICK i \in 1..Len(log) : i \in Given(log) /\ log[i].prompt = NoMessage
      BY <2>1 DEF Misread, Given
    <3>2. i \in Given(log') /\ log'[i].prompt = NoMessage
      BY <1>4, <3>1
    <3> QED
      BY <3>2 DEF Misread, Given
  <2> QED
    BY <1>2, <2>1 DEF Intact
<1>7. TypeInv'
  BY <1>2, <1>4 DEF FollowUpInv, TypeInv
<1>8. RestartInv'
  BY <1>2, <1>4, <1>5, <1>i DEF FollowUpInv, RestartInv
<1>9. OwnPromptsKept'
  BY <1>2, <1>5, <1>6, <1>i DEF FollowUpInv, OwnPromptsKept, NothingLost
<1>10. LogInv'
  <2>1. Successive(L, e.seq)
    <3>1. Reached(log, queue.delivered)
      BY <1>2 DEF FollowUpInv, QueueInv
    <3>2. queue.delivered = 0 \/ \E j \in Given(L) : L[j].seq = queue.delivered
      BY <1>4, <1>s, <3>1 DEF Reached, SameReceipts
    <3> QED
      BY <1>3, <3>2 DEF Successive
  <2>2. NoGap(log')
    BY <1>3, <1>e, <1>n, <2>1, NoGapAppend
  <2>3. /\ \A i, j \in Prompted(log') : log'[i].prompt = log'[j].prompt => i = j
        /\ Prompted(log') \subseteq Given(log')
    BY <1>4 DEF FollowUpInv, LogInv
  <2> QED
    BY <1>2, <1>6, <2>2, <2>3 DEF FollowUpInv, LogInv
<1>11. QueueInv'
  <2>1. Reached(log', sidecar'.queue.delivered)
    BY <1>2, <1>4 DEF FollowUpInv, QueueInv, Reached
  <2> QED
    BY <1>2, <1>5, <1>6, <2>1 DEF FollowUpInv, QueueInv
<1> QED
  BY <1>7, <1>8, <1>9, <1>10, <1>11 DEF FollowUpInv

\* A record that is not the queue's: it may complete the receipt of a torn
\* delivery, and then the session is not intact, but the queue that a restart
\* finds is only shorter.
LEMMA RecordStep ==
    ASSUME FollowUpInv, AppendRecord
    PROVE  FollowUpInv'
<1> USE Facts
<1>1. PICK kind \in {"user", "other"} : log' = Followed(log, kind)
  BY DEF AppendRecord
<1>2. UNCHANGED <<sidecar, queue, process, accepted, withdrawn, branches>>
  BY DEF AppendRecord
<1>3. /\ SameReceipts(log, log')
      /\ \/ Given(log') = Given(log) /\ \A q : ReplayOf(log', q) = ReplayOf(log, q)
         \/ /\ Len(log) \in 1..Len(log) /\ log'[Len(log)].next = "user"
            /\ Len(log) \notin Given(log) /\ Given(log') = Given(log) \cup {Len(log)}
            /\ \A q : ReplayOf(log', q) = Taken(ReplayOf(log, q), log'[Len(log)])
  BY <1>1, FollowedIs
<1>4. /\ log' \in Seq(Delivery) /\ Len(log') = Len(log) /\ Prompted(log') = Prompted(log)
      /\ Given(log) \subseteq Given(log') /\ Given(log) \subseteq 1..Len(log)
      /\ Prompted(log) \subseteq 1..Len(log)
      /\ \A i \in 1..Len(log) : log'[i].seq = log[i].seq /\ log'[i].prompt = log[i].prompt
  BY <1>3 DEF SameReceipts, Given, Prompted
<1>5. Logged' = Logged
  <2>1. (Logged = {log[i].prompt : i \in Prompted(log)})'
    BY LoggedIs, PTL
  <2> QED
    BY <1>4, <2>1, LoggedIs
<1>6. TypeInv'
  BY <1>2, <1>4 DEF FollowUpInv, TypeInv
<1>7. LogInv'
  <2>1. NoGap(log')
    BY <1>3, <1>4, NoGapSame
  <2>2. /\ \A i, j \in Prompted(log') : log'[i].prompt = log'[j].prompt => i = j
        /\ Prompted(log') \subseteq Given(log')
    BY <1>4 DEF FollowUpInv, LogInv
  <2> QED
    BY <1>2, <1>5, <2>1, <2>2 DEF FollowUpInv, LogInv
<1>8. \A k : Reached(log, k) => Reached(log', k)
  BY <1>4 DEF Reached
<1>9. CASE Given(log') = Given(log) /\ \A q : ReplayOf(log', q) = ReplayOf(log, q)
  <2>1. Recovered' = Recovered
    BY <1>2, <1>9 DEF Find
  <2>2. Intact' => Intact
    <3>1. ASSUME Misread PROVE Misread'
      <4>1. PICK i \in 1..Len(log) : i \in Given(log) /\ log[i].prompt = NoMessage
        BY <3>1 DEF Misread, Given
      <4>2. i \in Given(log') /\ log'[i].prompt = NoMessage
        BY <1>4, <4>1
      <4> QED
        BY <4>2 DEF Misread, Given
    <3> QED
      BY <1>2, <3>1 DEF Intact
  <2>3. RestartInv'
    BY <1>2, <1>4, <1>9, <2>1, <2>2 DEF FollowUpInv, RestartInv
  <2>4. OwnPromptsKept'
    BY <1>2, <1>5, <2>1, <2>2 DEF FollowUpInv, OwnPromptsKept, NothingLost
  <2>5. QueueInv'
    BY <1>2, <1>5, <1>8, <2>1 DEF FollowUpInv, QueueInv
  <2> QED
    BY <1>6, <1>7, <2>3, <2>4, <2>5 DEF FollowUpInv
<1>10. CASE /\ Len(log) \in 1..Len(log) /\ log'[Len(log)].next = "user"
            /\ Len(log) \notin Given(log) /\ Given(log') = Given(log) \cup {Len(log)}
            /\ \A q : ReplayOf(log', q) = Taken(ReplayOf(log, q), log'[Len(log)])
  <2>1. PICK e : e = log'[Len(log)]
    OBVIOUS
  <2>2. e \in Delivery /\ e.seq \in Nat /\ e.seq = log[Len(log)].seq /\ e.next = "user"
    <3>1. e \in Delivery
      BY <1>4, <1>10, <2>1
    <3> QED
      BY <1>4, <1>10, <2>1, <3>1 DEF Delivery
  <2>3. Misread'
    <3>1. log[Len(log)].prompt = NoMessage
      <4>1. Len(log) \notin Given(log)
        BY <1>10
      <4>2. Len(log) \notin Prompted(log)
        BY <4>1 DEF FollowUpInv, LogInv
      <4> QED
        BY <1>10, <4>2 DEF Prompted
    <3> QED
      BY <1>4, <1>10, <3>1 DEF Misread
  <2>4. RestartInv' /\ OwnPromptsKept'
    BY <2>3 DEF RestartInv, OwnPromptsKept, Intact
  \* The receipt takes the next prompt off, or is not counted.
  <2>5. \/ Recovered' = Recovered
        \/ Recovered' = [TakeNext(Recovered) EXCEPT !.delivered = Recovered.delivered + 1]
    <3>1. CASE ~sidecar.exists \/ IsEmpty(sidecar.queue)
      BY <1>2, <3>1 DEF Find
    <3>2. CASE ~(~sidecar.exists \/ IsEmpty(sidecar.queue))
      <4>1. Recovered = ReplayOf(log, sidecar.queue) /\ Recovered' = Taken(Recovered, e)
        BY <1>2, <1>10, <2>1, <3>2 DEF Find
      <4>2. \A k \in Given(log) : log[k].seq <= Recovered.delivered
        BY <4>1, ReplayBehind
      <4>3. e.seq = 1 \/ \E k \in Given(log) : log[k].seq + 1 = e.seq
        BY <1>10, <2>2 DEF NoGap
      <4>4. Recovered.delivered \in Nat /\ \A k \in Given(log) : log[k].seq \in Nat
        <5>1. \A k \in 1..Len(log) : log[k] \in Delivery
          OBVIOUS
        <5> QED
          BY <1>4, <5>1 DEF Queue, Delivery
      <4>5. e.seq <= Recovered.delivered + 1
        BY <2>2, <4>2, <4>3, <4>4
      <4>6. CASE e.seq > Recovered.delivered
        <5>1. e.seq = Recovered.delivered + 1 /\ Counts(e, Recovered)
          BY <2>2, <4>4, <4>5, <4>6 DEF Counts
        <5> QED
          BY <4>1, <5>1 DEF Taken
      <4>7. CASE ~(e.seq > Recovered.delivered)
        BY <4>1, <4>7 DEF Taken, Counts
      <4> QED
        BY <4>6, <4>7
    <3> QED
      BY <3>1, <3>2
  <2>6. ASSUME NEW q \in Queue, Behind(Recovered, q)
        PROVE  Recovered' \in Queue /\ Behind(Recovered', q)
    <3>1. CASE Recovered' = Recovered
      BY <2>6, <3>1
    <3>2. CASE Recovered' = [TakeNext(Recovered) EXCEPT !.delivered = Recovered.delivered + 1]
      <4>1. PICK s : s = [TakeNext(Recovered) EXCEPT !.delivered = Recovered.delivered + 1]
        OBVIOUS
      <4>2. s \in Queue /\ Behind(s, q)
        BY <2>6, <4>1, TakenBehind
      <4> QED
        BY <3>2, <4>1, <4>2
    <3> QED
      BY <2>5, <3>1, <3>2
  <2>7. Fresh(Recovered', accepted', (Logged \cup withdrawn)')
    <3>1. PICK r : r = Recovered'
      OBVIOUS
    <3>2. r \in Queue /\ Behind(r, Recovered)
      BY <2>6, <3>1, BehindItself
    <3>3. Fresh(Recovered, accepted, Logged \cup withdrawn)
      BY DEF FollowUpInv, QueueInv
    <3>4. Fresh(r, accepted, Logged \cup withdrawn)
      BY <3>2, <3>3, BehindFresh
    <3> QED
      BY <1>2, <1>5, <3>1, <3>4
  <2>8. process # "none" => Behind(Recovered', queue')
    BY <1>2, <2>6 DEF FollowUpInv, QueueInv
  <2>9. QueueInv'
    BY <1>2, <1>5, <1>8, <2>7, <2>8 DEF FollowUpInv, QueueInv
  <2> QED
    BY <1>6, <1>7, <2>4, <2>9 DEF FollowUpInv
<1> QED
  BY <1>3, <1>9, <1>10

LEMMA BranchStep ==
    ASSUME FollowUpInv, Branch
    PROVE  FollowUpInv'
<1> USE Facts
<1>1. /\ process' = process /\ sidecar' = NoFile /\ queue' = Empty
      /\ accepted' = {} /\ withdrawn' = {} /\ branches' = branches + 1
  BY DEF Branch
<1>a. PICK n \in 0..Len(log) :
         \/ log' = Followed(SubSeq(log, 1, n), "other")
         \/ /\ n < Len(log)
            /\ log' = Append(SubSeq(log, 1, n), Receipt(log[n+1].seq, "other", NoMessage))
  BY DEF Branch
<1>2. PICK L :
         /\ L = SubSeq(log, 1, n)
         /\ \/ log' = Followed(L, "other")
            \/ n < Len(log) /\ log' = Append(L, Receipt(log[n+1].seq, "other", NoMessage))
  BY <1>a
<1>3. L \in Seq(Delivery) /\ Len(L) = n /\ \A i \in 1..n : L[i] = log[i]
  BY <1>2
<1>4. n \in Nat /\ n <= Len(log) /\ Len(log) \in Nat
  OBVIOUS
<1>5. /\ \A i \in Given(L) : i \in 1..n /\ i \in Given(log)
      /\ \A i \in Prompted(L) : i \in 1..n /\ i \in Prompted(log)
      /\ \A i \in Given(log) : i \in 1..Len(log) /\ (i <= n => i \in Given(L))
      /\ \A i \in Prompted(log) : i <= n => i \in Prompted(L)
  BY <1>3, <1>4 DEF Given, Prompted
<1>6. NoGap(L) /\ (n < Len(log) => Successive(L, log[n+1].seq))
  <2>1. ASSUME NEW i \in 1..Len(log), i <= n + 1
        PROVE  \/ log[i].seq = 1
               \/ \E j \in Given(L) : j < i /\ L[j].seq + 1 = log[i].seq
    <3>1. \/ log[i].seq = 1
          \/ \E j \in Given(log) : j < i /\ log[j].seq + 1 = log[i].seq
      BY DEF NoGap
    <3>2. ASSUME NEW j \in Given(log), j < i, log[j].seq + 1 = log[i].seq
          PROVE  j \in Given(L) /\ L[j].seq + 1 = log[i].seq
      <4>1. j \in 1..n
        BY <1>4, <1>5, <2>1, <3>2
      <4> QED
        BY <1>3, <1>5, <3>2, <4>1
    <3> QED
      BY <3>1, <3>2
  <2>2. NoGap(L)
    <3> SUFFICES ASSUME NEW i \in 1..n
                 PROVE  \/ L[i].seq = 1
                        \/ \E j \in Given(L) : j < i /\ L[j].seq + 1 = L[i].seq
      BY <1>3 DEF NoGap
    <3>1. i \in 1..Len(log) /\ i <= n + 1 /\ L[i] = log[i]
      BY <1>3, <1>4
    <3> QED
      BY <2>1, <3>1
  <2>3. n < Len(log) => n + 1 \in 1..Len(log) /\ n + 1 <= n + 1
    BY <1>4
  <2> QED
    BY <2>1, <2>2, <2>3 DEF Successive
<1>b. /\ log' \in Seq(Delivery) /\ NoGap(log')
      /\ Prompted(log') = Prompted(L) /\ Given(L) \subseteq Given(log')
      /\ \A i \in 1..n : log'[i].prompt = L[i].prompt
  <2>1. CASE log' = Followed(L, "other")
    <3>1. SameReceipts(L, log') /\ Given(log') = Given(L)
      BY <1>3, <2>1, FollowedIs
    <3> QED
      BY <1>3, <1>6, <3>1, NoGapSame DEF SameReceipts
  <2>2. CASE n < Len(log) /\ log' = Append(L, Receipt(log[n+1].seq, "other", NoMessage))
    <3>1. PICK e : e = Receipt(log[n+1].seq, "other", NoMessage)
      OBVIOUS
    <3>2. e \in Delivery /\ e.prompt = NoMessage /\ e.next = "other" /\ e.seq = log[n+1].seq
      <4>1. log[n+1] \in Delivery
        BY <1>4, <2>2
      <4> QED
        BY <3>1, <4>1 DEF Delivery, Receipt
    <3>3. Extends(L, e, log')
      BY <1>3, <2>2, <3>1, <3>2, AppendGiven
    <3>4. NoGap(log')
      BY <1>3, <1>6, <2>2, <3>2, <3>3, NoGapAppend
    <3> QED
      BY <1>3, <3>2, <3>3, <3>4 DEF Extends
  <2> QED
    BY <1>2, <2>1, <2>2
<1>7. branches \in Nat /\ branches' # 0
  BY <1>1 DEF FollowUpInv, TypeInv
<1>8. NoFile.queue = Empty /\ ~NoFile.exists /\ Empty.delivered = 0 /\ NoFile \in [exists : BOOLEAN, queue : Queue]
  BY EmptyQueue DEF NoFile, Empty
<1>9. Recovered' = Empty
  BY <1>1, <1>8 DEF Find
<1>10. TypeInv'
  BY <1>1, <1>b, <1>7, <1>8, EmptyQueue DEF FollowUpInv, TypeInv
<1>11. RestartInv' /\ OwnPromptsKept'
  BY <1>7 DEF RestartInv, OwnPromptsKept, Intact
<1>13. LogInv'
  <2>1. \A i, j \in Prompted(log') : log'[i].prompt = log'[j].prompt => i = j
    BY <1>3, <1>5, <1>b DEF FollowUpInv, LogInv
  <2>2. Prompted(log') \subseteq Given(log')
    <3>1. \A i \in Prompted(L) : i \in Given(log) /\ i <= n
      BY <1>4, <1>5 DEF FollowUpInv, LogInv
    <3> QED
      BY <1>5, <1>b, <3>1
  <2> QED
    BY <1>1, <1>b, <2>1, <2>2 DEF LogInv
<1>14. Fresh(Empty, accepted', (Logged \cup withdrawn)') /\ Behind(Empty, Empty)
  BY EmptyQueue, BehindItself DEF Fresh
<1>15. Reached(log', 0)
  BY DEF Reached
<1>16. QueueInv'
  BY <1>1, <1>8, <1>9, <1>14, <1>15, EmptyQueue DEF QueueInv
<1> QED
  BY <1>10, <1>11, <1>13, <1>16 DEF FollowUpInv

LEMMA FollowUpInvHolds == Spec => []FollowUpInv
<1>1. Init => FollowUpInv
  <2> SUFFICES ASSUME Init PROVE FollowUpInv
    OBVIOUS
  <2>1. /\ log = <<>> /\ sidecar = NoFile /\ queue = Empty /\ process = "none"
        /\ accepted = {} /\ withdrawn = {} /\ branches = 0
    BY DEF Init
  <2>2. Len(log) = 0 /\ Given(log) = {} /\ Prompted(log) = {} /\ log \in Seq(Delivery)
    BY <2>1 DEF Given, Prompted
  <2>3. /\ NoFile.queue = Empty /\ ~NoFile.exists /\ Empty.delivered = 0
        /\ NoFile \in [exists : BOOLEAN, queue : Queue]
    BY EmptyQueue DEF NoFile, Empty
  <2>4. Recovered = Empty
    BY <2>1, <2>3 DEF Recovered
  <2>5. Logged = {}
    BY <2>2, LoggedIs
  <2>6. TypeInv
    BY <2>1, <2>2, <2>3, EmptyQueue DEF TypeInv
  <2>7. RestartInv
    BY <2>1, <2>2 DEF RestartInv
  <2>8. OwnPromptsKept
    BY <2>1 DEF OwnPromptsKept, NothingLost
  <2>9. LogInv
    BY <2>1, <2>2, <2>5 DEF LogInv, NoGap
  <2>10. QueueInv
    BY <2>1, <2>3, <2>4, EmptyQueue DEF QueueInv, Reached, Fresh
  <2> QED
    BY <2>6, <2>7, <2>8, <2>9, <2>10 DEF FollowUpInv
<1>2. FollowUpInv /\ [Next]_vars => FollowUpInv'
  <2> SUFFICES ASSUME FollowUpInv, [Next]_vars PROVE FollowUpInv'
    OBVIOUS
  <2>1. CASE Open
    BY <2>1, OpenStep
  <2>2. CASE Exit \/ FailAppend
    BY <2>2, ExitStep
  <2>3. CASE PushFollowUp \/ PushSteer \/ Clear \/ Edit \/ Move \/ Promote \/ Discard
    BY <2>3, EditStep
  <2>4. CASE Deliver
    BY <2>4, DeliverStep
  <2>5. CASE TearDelivery
    BY <2>5, TearStep
  <2>6. CASE Save
    BY <2>6, SaveStep
  <2>9. CASE AppendRecord
    BY <2>9, RecordStep
  <2>7. CASE Branch
    BY <2>7, BranchStep
  <2>8. CASE UNCHANGED vars
    <3>1. UNCHANGED <<log, sidecar, queue, process, accepted, withdrawn, branches>>
      BY <2>8 DEF vars
    <3>2. Recovered' = Recovered
      BY <3>1, Facts
    <3>3. Logged' = Logged /\ Intact' = Intact
      BY <3>1 DEF Logged, Intact, Misread
    <3>4. TypeInv' /\ LogInv'
      BY <3>1, <3>3 DEF FollowUpInv, TypeInv, LogInv
    <3>5. RestartInv'
      BY <3>1, <3>2, <3>3 DEF FollowUpInv, RestartInv
    <3>6. OwnPromptsKept'
      BY <3>1, <3>2, <3>3 DEF FollowUpInv, OwnPromptsKept, NothingLost
    <3>7. QueueInv'
      BY <3>1, <3>2, <3>3 DEF FollowUpInv, QueueInv
    <3> QED
      BY <3>4, <3>5, <3>6, <3>7 DEF FollowUpInv
  <2> QED
    BY <2>1, <2>2, <2>3, <2>4, <2>5, <2>6, <2>7, <2>8, <2>9 DEF Next
<1> QED
  BY <1>1, <1>2, PTL DEF Spec

\* In an intact session, a prompt that was acknowledged and not withdrawn is in
\* the log or in the queue that Queue::open would find, also between the
\* receipt and the save of Queue::deliver, after deliveries that were torn and
\* after saves that failed.
THEOREM OwnPromptsAlwaysKept == Spec => []OwnPromptsKept
<1>1. FollowUpInv => OwnPromptsKept
  BY DEF FollowUpInv
<1> QED
  BY <1>1, FollowUpInvHolds, PTL

\* No prompt is delivered twice or after it was withdrawn, and none that was
\* is in the queue that Queue::open would find, in branches and with misread
\* receipts too.
THEOREM AlwaysNeverAgain == Spec => []NeverAgain
<1>1. FollowUpInv => NeverAgain
  <2> SUFFICES ASSUME FollowUpInv PROVE NeverAgain
    OBVIOUS
  <2>1. Prompts(Recovered) \cap (Logged \cup withdrawn) = {}
    BY DEF FollowUpInv, QueueInv, Fresh
  <2>2. Logged \cap withdrawn = {}
    BY DEF FollowUpInv, LogInv
  <2>3. \A i, j \in Prompted(log) : log[i].prompt = log[j].prompt => i = j
    BY DEF FollowUpInv, LogInv
  <2>4. \A i, j \in 1..Len(log) :
           i # j /\ log[i].prompt = log[j].prompt => log[i].prompt = NoMessage
    BY <2>3 DEF Prompted
  <2> QED
    BY <2>1, <2>2, <2>4 DEF NeverAgain
<1> QED
  BY <1>1, FollowUpInvHolds, PTL

\* Whatever saves of the sidecar failed, Queue::open would find the queue of an
\* intact session that is in memory.
THEOREM RestartAlwaysInvisible == Spec => []RestartIsInvisible
<1>1. FollowUpInv => RestartIsInvisible
  BY DEF FollowUpInv, RestartInv, RestartIsInvisible
<1> QED
  BY <1>1, FollowUpInvHolds, PTL
=============================================================================
