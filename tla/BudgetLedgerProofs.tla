------------------------- MODULE BudgetLedgerProofs -------------------------
(***************************************************************************)
(* Theorems about BudgetLedger, for every set of threads, amounts, limits  *)
(* and children: the limit holds, a settlement releases its own            *)
(* reservation, a restart is conservative, an overrun stops the spending,  *)
(* and children are bounded.                                               *)
(***************************************************************************)
EXTENDS BudgetLedger, FiniteSetTheorems, WellFoundedInduction, TLAPS

\* A thread that sends has a bound; one that has a reservation holds an ID
\* that is not handed out again.
ThreadInv ==
    \A t \in Thread :
        /\ pc[t] # "idle" => up /\ amount[t] \in Amount
        /\ ticket[t] # NoTicket => pc[t] \in {"ready", "sent"} /\ ticket[t] < ledger.next

\* A ledger in memory that is trusted holds what was billed, and its process
\* still has the reservations of all requests that are not settled.
MemoryInv ==
    up /\ ~ledger.unknown =>
        /\ billed <= ledger.spent
        /\ \A t \in exposed : t \in Thread /\ ticket[t] # NoTicket
        /\ disk.children = ledger.children
        /\ admitted \subseteq ledger.children

\* The children of every copy of the ledger are within the ceiling, and a
\* trusted copy knows of all that were admitted.
ChildrenInv ==
    /\ \A l \in {ledger, disk, stable} :
          IsFiniteSet(l.children) /\ Cardinality(l.children) <= MaxChildren
    /\ \A l \in {disk, stable} : l.unknown \/ admitted \subseteq l.children
    /\ ChildrenBounded

BudgetInv ==
    /\ TypeOK
    /\ ThreadInv
    /\ OwnReservation
    /\ MemoryInv
    /\ RestartIsConservative
    /\ OverrunStops
    /\ ChildrenInv

-----------------------------------------------------------------------------
(* Ledgers.                                                                *)

LEMMA ReservationsType ==
    ASSUME NEW l \in LedgerType
    PROVE  /\ DOMAIN l.reservations \subseteq Ids
           /\ l.reservations \in [DOMAIN l.reservations -> Amount]
<1>1. l.reservations \in UNION {[S -> Amount] : S \in SUBSET Ids}
  BY DEF LedgerType
<1>2. PICK S \in SUBSET Ids : l.reservations \in [S -> Amount]
  BY <1>1
<1> QED
  BY <1>2

\* Two ledgers that agree but for what a step changes on purpose.
Alike(l, m) == l.next = m.next /\ l.children = m.children /\ l.reservations = m.reservations

LEMMA WithUnknown ==
    ASSUME NEW l \in LedgerType, NEW u \in BOOLEAN
    PROVE  LET m == [l EXCEPT !.unknown = u]
           IN  m \in LedgerType /\ m.unknown = u /\ m.spent = l.spent /\ m.limit = l.limit
               /\ Alike(m, l)
BY DEF LedgerType, Alike

LEMMA WithLimit ==
    ASSUME NEW l \in LedgerType, NEW n \in Limit \cup {NoLimit}
    PROVE  LET m == [l EXCEPT !.limit = n]
           IN  m \in LedgerType /\ m.unknown = l.unknown /\ m.spent = l.spent /\ Alike(m, l)
BY DEF LedgerType, Alike

LEMMA WithSpent ==
    ASSUME NEW l \in LedgerType, NEW n \in Nat
    PROVE  LET m == [l EXCEPT !.spent = n]
           IN  m \in LedgerType /\ m.unknown = l.unknown /\ m.spent = n /\ Alike(m, l)
BY DEF LedgerType, Alike

LEMMA WithChildren ==
    ASSUME NEW l \in LedgerType, NEW C \in SUBSET Child
    PROVE  LET m == [l EXCEPT !.children = C]
           IN  /\ m \in LedgerType /\ m.unknown = l.unknown /\ m.spent = l.spent
               /\ m.children = C /\ m.next = l.next /\ m.reservations = l.reservations
BY DEF LedgerType

LEMMA TrustedUnknown ==
    ASSUME NEW l \in LedgerType
    PROVE  /\ Trusted(l) \in LedgerType
           /\ Trusted(l).unknown <=> l.unknown \/ DOMAIN l.reservations # {}
           /\ Trusted(l).spent = l.spent
           /\ Alike(Trusted(l), l)
<1>1. l.unknown \in BOOLEAN
  BY DEF LedgerType
<1>2. (l.unknown \/ DOMAIN l.reservations # {}) \in BOOLEAN
  OBVIOUS
<1> QED
  BY <1>2, WithUnknown DEF Trusted

LEMMA WithoutReservation ==
    ASSUME NEW l \in LedgerType, NEW id
    PROVE  LET m == Without(l, id)
           IN  /\ m \in LedgerType /\ m.unknown = l.unknown /\ m.spent = l.spent
               /\ m.children = l.children /\ m.next = l.next
               /\ DOMAIN m.reservations = DOMAIN l.reservations \ {id}
               /\ \A i \in DOMAIN l.reservations \ {id} : m.reservations[i] = l.reservations[i]
<1> DEFINE r == [i \in DOMAIN l.reservations \ {id} |-> l.reservations[i]]
<1>1. r \in [DOMAIN l.reservations \ {id} -> Amount] /\ DOMAIN l.reservations \ {id} \in SUBSET Ids
  BY ReservationsType
<1>2. r \in UNION {[S -> Amount] : S \in SUBSET Ids}
  BY <1>1
<1>3. DOMAIN r = DOMAIN l.reservations \ {id}
      /\ \A i \in DOMAIN l.reservations \ {id} : r[i] = l.reservations[i]
  OBVIOUS
<1>4. Without(l, id) = [l EXCEPT !.reservations = r]
  BY DEF Without
<1> HIDE DEF r
<1>5. LET m == [l EXCEPT !.reservations = r]
      IN  /\ m \in LedgerType /\ m.unknown = l.unknown /\ m.spent = l.spent
          /\ m.children = l.children /\ m.next = l.next /\ m.reservations = r
  BY <1>2 DEF LedgerType
<1> QED
  BY <1>3, <1>4, <1>5

LEMMA SettledLedger ==
    ASSUME NEW l \in LedgerType, NEW id \in DOMAIN l.reservations, NEW actual \in Nat
    PROVE  LET m == Settled(l, id, actual)
           IN  /\ m \in LedgerType /\ m.spent = l.spent + actual
               /\ m.unknown <=> l.unknown \/ actual > l.reservations[id]
               /\ m.children = l.children /\ m.next = l.next
               /\ DOMAIN m.reservations = DOMAIN l.reservations \ {id}
               /\ \A i \in DOMAIN l.reservations \ {id} : m.reservations[i] = l.reservations[i]
<1> DEFINE w == Without(l, id)
           n == l.spent + actual
           u == l.unknown \/ actual > l.reservations[id]
           m == [w EXCEPT !.spent = n, !.unknown = u]
<1>1. /\ w \in LedgerType /\ w.unknown = l.unknown /\ w.spent = l.spent
      /\ w.children = l.children /\ w.next = l.next
      /\ DOMAIN w.reservations = DOMAIN l.reservations \ {id}
      /\ \A i \in DOMAIN l.reservations \ {id} : w.reservations[i] = l.reservations[i]
  BY WithoutReservation
<1>2. n \in Nat /\ u \in BOOLEAN
  BY DEF LedgerType
<1>3. Settled(l, id, actual) = m
  BY <1>1 DEF Settled
<1> HIDE DEF w, n, u
<1>4. /\ m \in LedgerType /\ m.spent = n /\ m.unknown = u
      /\ m.children = w.children /\ m.next = w.next /\ m.reservations = w.reservations
  BY <1>1, <1>2 DEF LedgerType
<1> QED
  BY <1>1, <1>3, <1>4 DEF n, u

\* The ledger that Reserve writes.
WithReservation(l, a) ==
    [l EXCEPT !.next = NextId(l),
              !.reservations = [i \in DOMAIN @ \cup {l.next} |-> IF i = l.next THEN a ELSE @[i]]]

LEMMA ReservedLedger ==
    ASSUME NEW l \in LedgerType, NEW a \in Amount, HasIds(l)
    PROVE  LET m == WithReservation(l, a)
           IN  /\ m \in LedgerType /\ m.unknown = l.unknown /\ m.spent = l.spent
               /\ m.children = l.children /\ m.limit = l.limit /\ m.next = l.next + 1
               /\ DOMAIN m.reservations = DOMAIN l.reservations \cup {l.next}
               /\ m.reservations[l.next] = a
               /\ \A i \in DOMAIN l.reservations \ {l.next} : m.reservations[i] = l.reservations[i]
<1> DEFINE D == DOMAIN l.reservations \cup {l.next}
           r == [i \in D |-> IF i = l.next THEN a ELSE l.reservations[i]]
           n == l.next + 1
           m == [l EXCEPT !.next = n, !.reservations = r]
<1>1. l.next \in Ids /\ n \in Ids
  BY BudgetConstantsOK DEF LedgerType, Ids, HasIds
<1>2. D \in SUBSET Ids /\ r \in [D -> Amount]
  BY <1>1, ReservationsType
<1>3. r \in UNION {[S -> Amount] : S \in SUBSET Ids}
  BY <1>2
<1>4. /\ DOMAIN r = D /\ r[l.next] = a
      /\ \A i \in DOMAIN l.reservations \ {l.next} : r[i] = l.reservations[i]
  OBVIOUS
<1>5. WithReservation(l, a) = m
  BY DEF WithReservation, NextId
<1> HIDE DEF r, n
<1>6. /\ m \in LedgerType /\ m.unknown = l.unknown /\ m.spent = l.spent
      /\ m.children = l.children /\ m.limit = l.limit /\ m.next = n /\ m.reservations = r
  BY <1>1, <1>3 DEF LedgerType
<1> QED
  BY <1>4, <1>5, <1>6 DEF n

-----------------------------------------------------------------------------
(* What a step leaves in memory and in the file.                           *)

\* After the step, the ledger l is fit to be kept: it is not trusted, or it
\* holds what was billed, all that is not settled, and all children.
Good(l) ==
    /\ l \in LedgerType
    /\ overrun' => l.unknown
    /\ \/ l.unknown
       \/ /\ billed' <= l.spent
          /\ \A t \in exposed' : t \in Thread /\ ticket'[t] # NoTicket
                                 /\ ticket'[t] \in DOMAIN l.reservations
          /\ admitted' \subseteq l.children
    /\ IsFiniteSet(l.children)
    /\ Cardinality(l.children) <= MaxChildren

\* A ledger that was in the file before is still right after the step, which
\* neither begins an unsettled request nor bills one without a trace.
StillRight ==
    /\ exposed = {} => exposed' = {} /\ billed' = billed
    /\ overrun' => overrun \/ exposed # {}
    /\ admitted' = admitted

\* The rest of the invariant after the step: threads and history.
ThreadsGood ==
    /\ up' \in BOOLEAN
    /\ pc' \in [Thread -> {"idle", "reserve", "ready", "sent"}]
    /\ amount' \in [Thread -> Amount \cup {0}]
    /\ ticket' \in [Thread -> Ids \cup {NoTicket}]
    /\ requests' \in 0..MaxRequests
    /\ exposed' \subseteq Thread \cup {Lost}
    /\ billed' \in Nat
    /\ overrun' \in BOOLEAN
    /\ admitted' \subseteq Child
    /\ ThreadInv'
    /\ OwnReservation'
    /\ ChildrenBounded'

\* What the invariant asks of a ledger in the file.
InFile(l, e, b, o, a) ==
    /\ l \in LedgerType
    /\ Trusted(l).unknown \/ (e = {} /\ b <= l.spent)
    /\ o => Trusted(l).unknown
    /\ l.unknown \/ a \subseteq l.children
    /\ IsFiniteSet(l.children)
    /\ Cardinality(l.children) <= MaxChildren

LEMMA FilesInv ==
    BudgetInv => \A l \in {disk, stable} : InFile(l, exposed, billed, overrun, admitted)
BY DEF BudgetInv, TypeOK, RestartIsConservative, OverrunStops, ChildrenInv, InFile

LEMMA GoodInFile ==
    ASSUME NEW l, Good(l)
    PROVE  InFile(l, exposed', billed', overrun', admitted')
<1>1. Trusted(l).unknown <=> l.unknown \/ DOMAIN l.reservations # {}
  BY TrustedUnknown DEF Good
<1> QED
  BY <1>1 DEF Good, InFile

LEMMA StillInFile ==
    ASSUME StillRight, NEW l, InFile(l, exposed, billed, overrun, admitted)
    PROVE  InFile(l, exposed', billed', overrun', admitted')
BY DEF StillRight, InFile

\* A step of a process that runs, by what it leaves.
LEMMA KeepsInv ==
    ASSUME up', ThreadsGood, Good(ledger'),
           ledger'.unknown \/ disk'.children = ledger'.children,
           \A l \in {disk', stable'} : InFile(l, exposed', billed', overrun', admitted')
    PROVE  BudgetInv'
<1>1. TypeOK'
  BY DEF TypeOK, ThreadsGood, Good, InFile
<1>2. MemoryInv'
  BY DEF MemoryInv, Good
<1>3. RestartIsConservative'
  BY DEF RestartIsConservative, InFile, Trusted
<1>4. OverrunStops'
  BY DEF OverrunStops, Good, InFile, Trusted
<1>5. ChildrenInv'
  BY DEF ChildrenInv, Good, InFile, ThreadsGood
<1> QED
  BY <1>1, <1>2, <1>3, <1>4, <1>5 DEF BudgetInv, ThreadsGood

\* A ledger that could not be saved is as good as it was, being untrusted.
LEMMA UntrustedGood ==
    ASSUME NEW l, Good(l), NEW ok \in BOOLEAN
    PROVE  Good([l EXCEPT !.unknown = @ \/ ~ok])
<1> DEFINE u == l.unknown \/ ~ok
           m == [l EXCEPT !.unknown = u]
<1>1. l \in LedgerType /\ u \in BOOLEAN
  BY DEF Good
<1>2. m \in LedgerType /\ m.unknown = u /\ m.spent = l.spent /\ Alike(m, l)
  BY <1>1, WithUnknown
<1> HIDE DEF m
<1>3. Good(m)
  BY <1>2 DEF Good, Alike
<1> QED
  BY <1>3 DEF m

\* The ledger l is saved, or not, and kept.
LEMMA SaveKeepsInv ==
    ASSUME BudgetInv, NEW l, NEW ok \in BOOLEAN, Persist(l, ok), Good(l), Good(ledger'),
           ledger'.children = l.children, ledger'.unknown \/ ok,
           up', ThreadsGood, ok \/ StillRight
    PROVE  BudgetInv'
<1>1. InFile(l, exposed', billed', overrun', admitted')
  BY GoodInFile
<1>2. CASE ok
  BY <1>1, <1>2, KeepsInv DEF Persist
<1>3. CASE ~ok
  <2>1. \A m \in {disk, stable} : InFile(m, exposed', billed', overrun', admitted')
    BY <1>3, FilesInv, StillInFile
  <2>2. disk' \in {disk, l} /\ stable' = stable
    BY <1>3 DEF Persist
  <2>3. ledger'.unknown
    BY <1>3
  <2> QED
    BY <1>1, <2>1, <2>2, <2>3, KeepsInv
<1> QED
  BY <1>2, <1>3

LEMMA KeepKeepsInv ==
    ASSUME BudgetInv, NEW l, NEW ok \in BOOLEAN, Keep(l, ok), Good(l),
           up', ThreadsGood, ok \/ StillRight
    PROVE  BudgetInv'
<1>1. Good(ledger')
  BY UntrustedGood DEF Keep
<1>2. ledger'.children = l.children /\ (ledger'.unknown \/ ok)
  <2>1. l \in LedgerType /\ (l.unknown \/ ~ok) \in BOOLEAN
    BY DEF Good
  <2>2. ledger' = [l EXCEPT !.unknown = l.unknown \/ ~ok]
    BY DEF Keep
  <2>3. Alike(ledger', l) /\ ledger'.unknown = (l.unknown \/ ~ok)
    BY <2>1, <2>2, WithUnknown
  <2> QED
    BY <2>3 DEF Alike
<1> QED
  BY <1>1, <1>2, SaveKeepsInv DEF Keep

\* Only memory changes.
LEMMA MemoryKeepsInv ==
    ASSUME BudgetInv, UNCHANGED files, StillRight, up', ThreadsGood, Good(ledger'),
           ledger'.unknown \/ disk.children = ledger'.children
    PROVE  BudgetInv'
<1>1. \A m \in {disk, stable} : InFile(m, exposed', billed', overrun', admitted')
  BY FilesInv, StillInFile
<1> QED
  BY <1>1, KeepsInv DEF files

-----------------------------------------------------------------------------
(* Threads.                                                                *)

HistoryGood ==
    /\ exposed' \subseteq Thread \cup {Lost}
    /\ billed' \in Nat
    /\ overrun' \in BOOLEAN
    /\ admitted' \subseteq Child
    /\ ChildrenBounded'

\* The reservations of the threads other than t are kept.
OthersKept(t, l) ==
    \A u \in Thread \ {t} : ticket[u] # NoTicket =>
        /\ ticket[u] \in DOMAIN l.reservations
        /\ l.reservations[ticket[u]] = ledger.reservations[ticket[u]]
        /\ ticket[u] < l.next

LEMMA UnchangedHistoryGood ==
    BudgetInv /\ UNCHANGED history => HistoryGood
BY DEF BudgetInv, TypeOK, ChildrenInv, ChildrenBounded, HistoryGood, history

LEMMA UnchangedHistoryRight ==
    BudgetInv /\ UNCHANGED history => StillRight
BY DEF BudgetInv, TypeOK, StillRight, history

LEMMA DoneThreads ==
    ASSUME BudgetInv, up, up' = up, NEW t \in Thread, Done(t), OthersKept(t, ledger'), HistoryGood
    PROVE  ThreadsGood
<1>1. /\ pc \in [Thread -> {"idle", "reserve", "ready", "sent"}]
      /\ amount \in [Thread -> Amount \cup {0}]
      /\ ticket \in [Thread -> Ids \cup {NoTicket}]
      /\ requests \in 0..MaxRequests
  BY DEF BudgetInv, TypeOK
<1>2. /\ pc' \in [Thread -> {"idle", "reserve", "ready", "sent"}]
      /\ amount' \in [Thread -> Amount \cup {0}]
      /\ ticket' \in [Thread -> Ids \cup {NoTicket}]
      /\ requests' \in 0..MaxRequests
      /\ pc'[t] = "idle" /\ ticket'[t] = NoTicket
      /\ \A u \in Thread \ {t} : pc'[u] = pc[u] /\ amount'[u] = amount[u] /\ ticket'[u] = ticket[u]
  BY <1>1 DEF Done
<1>3. ThreadInv'
  BY <1>2 DEF BudgetInv, ThreadInv, OthersKept
<1>4. OwnReservation'
  BY <1>2 DEF BudgetInv, OwnReservation, OthersKept
<1> QED
  BY <1>2, <1>3, <1>4 DEF ThreadsGood, HistoryGood

\* A thread goes on with its request and its ticket.
LEMMA GoesOnThreads ==
    ASSUME BudgetInv, up, up' = up, UNCHANGED <<ledger, ticket>>, HistoryGood, NEW t \in Thread,
           NEW s \in {"reserve", "ready", "sent"}, pc' = [pc EXCEPT ![t] = s],
           NEW a \in Amount, amount' = [amount EXCEPT ![t] = a], requests' \in 0..MaxRequests,
           ticket[t] # NoTicket => s \in {"ready", "sent"} /\ a = amount[t]
    PROVE  ThreadsGood
<1>1. /\ pc \in [Thread -> {"idle", "reserve", "ready", "sent"}]
      /\ amount \in [Thread -> Amount \cup {0}]
      /\ ticket \in [Thread -> Ids \cup {NoTicket}]
  BY DEF BudgetInv, TypeOK
<1>2. /\ pc' \in [Thread -> {"idle", "reserve", "ready", "sent"}]
      /\ amount' \in [Thread -> Amount \cup {0}]
      /\ pc'[t] = s /\ amount'[t] = a
      /\ \A u \in Thread \ {t} : pc'[u] = pc[u] /\ amount'[u] = amount[u]
  BY <1>1
<1>3. ThreadInv'
  BY <1>2 DEF BudgetInv, ThreadInv
<1>4. OwnReservation'
  BY <1>2 DEF BudgetInv, OwnReservation
<1> QED
  BY <1>1, <1>2, <1>3, <1>4 DEF ThreadsGood, HistoryGood, BudgetInv, TypeOK

LEMMA SameThreads ==
    ASSUME BudgetInv, up, up' = up, UNCHANGED threads, HistoryGood,
           ledger'.reservations = ledger.reservations, ledger'.next = ledger.next
    PROVE  ThreadsGood
<1>1. ThreadInv' /\ OwnReservation'
  BY DEF BudgetInv, ThreadInv, OwnReservation, threads
<1> QED
  BY <1>1 DEF ThreadsGood, HistoryGood, BudgetInv, TypeOK, threads

\* What the ledger in memory holds.
LEMMA LedgerNow ==
    ASSUME BudgetInv, up
    PROVE  /\ ledger \in LedgerType
           /\ ledger.spent \in Nat
           /\ overrun => ledger.unknown
           /\ \/ ledger.unknown
              \/ /\ billed <= ledger.spent
                 /\ \A t \in exposed : t \in Thread /\ ticket[t] # NoTicket
                                       /\ ticket[t] \in DOMAIN ledger.reservations
                 /\ admitted \subseteq ledger.children
                 /\ disk.children = ledger.children
           /\ IsFiniteSet(ledger.children)
           /\ Cardinality(ledger.children) <= MaxChildren
<1>1. ledger \in LedgerType /\ ledger.spent \in Nat
  BY DEF BudgetInv, TypeOK, LedgerType
<1> QED
  BY <1>1 DEF BudgetInv, OverrunStops, MemoryInv, OwnReservation, ChildrenInv

\* A thread that is under way, and what it holds.
LEMMA ThreadNow ==
    ASSUME BudgetInv, NEW t \in Thread, pc[t] # "idle"
    PROVE  /\ up
           /\ amount[t] \in Amount
           /\ amount[t] \in Nat \ {0}
           /\ ticket[t] # NoTicket => /\ pc[t] \in {"ready", "sent"}
                                      /\ ticket[t] \in DOMAIN ledger.reservations
                                      /\ ledger.reservations[ticket[t]] = amount[t]
           /\ \A u \in Thread \ {t} : ticket[u] # NoTicket => ticket[u] # ticket[t]
           /\ OthersKept(t, ledger)
<1>1. up /\ amount[t] \in Amount
  BY DEF BudgetInv, ThreadInv
<1>2. amount[t] \in Nat \ {0}
  BY <1>1, BudgetConstantsOK
<1>3. OthersKept(t, ledger)
  BY DEF BudgetInv, ThreadInv, OwnReservation, OthersKept
<1> QED
  BY <1>1, <1>2, <1>3 DEF BudgetInv, ThreadInv, OwnReservation

-----------------------------------------------------------------------------
(* The actions of a thread.                                                *)

LEMMA BeginKeepsInv ==
    ASSUME BudgetInv, NEW t \in Thread, NEW a \in Amount, Begin(t, a)
    PROVE  BudgetInv'
<1>1. up /\ up' = up /\ UNCHANGED <<ledger, ticket, files, history>>
  BY DEF Begin
<1>2. ticket[t] = NoTicket
  BY DEF Begin, BudgetInv, ThreadInv
<1>3. requests' \in 0..MaxRequests
  BY BudgetConstantsOK DEF Begin, BudgetInv, TypeOK
<1>4. ThreadsGood
  <2>1. PICK s \in {"reserve", "ready"} : pc' = [pc EXCEPT ![t] = s]
    BY DEF Begin
  <2> QED
    BY <1>1, <1>2, <1>3, <2>1, GoesOnThreads, UnchangedHistoryGood DEF Begin
<1>5. Good(ledger')
  BY <1>1, LedgerNow DEF Good, history
<1> QED
  BY <1>1, <1>4, <1>5, LedgerNow, UnchangedHistoryRight, MemoryKeepsInv

LEMMA SendKeepsInv ==
    ASSUME BudgetInv, NEW t \in Thread, Send(t)
    PROVE  BudgetInv'
<1>1. pc[t] = "ready" /\ up' = up /\ UNCHANGED <<ledger, ticket, amount, requests, files, history>>
  BY DEF Send
<1>2. up /\ amount[t] \in Amount
  BY <1>1, ThreadNow
<1>3. ThreadsGood
  <2>1. amount' = [amount EXCEPT ![t] = amount[t]] /\ requests' \in 0..MaxRequests
    BY <1>1 DEF BudgetInv, TypeOK
  <2> QED
    BY <1>1, <1>2, <2>1, GoesOnThreads, UnchangedHistoryGood DEF Send
<1>4. Good(ledger')
  BY <1>1, <1>2, LedgerNow DEF Good, history
<1> QED
  BY <1>1, <1>2, <1>3, <1>4, LedgerNow, UnchangedHistoryRight, MemoryKeepsInv

LEMMA RefuseKeepsInv ==
    ASSUME BudgetInv, NEW t \in Thread, Refuse(t)
    PROVE  BudgetInv'
<1>1. pc[t] = "reserve" /\ up' = up /\ UNCHANGED <<ledger, files, history>> /\ Done(t)
  BY DEF Refuse
<1>2. up /\ ticket[t] = NoTicket /\ OthersKept(t, ledger')
  BY <1>1, ThreadNow
<1>3. ThreadsGood
  BY <1>1, <1>2, DoneThreads, UnchangedHistoryGood
<1>4. \A u \in Thread \ {t} : ticket'[u] = ticket[u]
  BY <1>1 DEF Done, BudgetInv, TypeOK
<1>5. Good(ledger')
  BY <1>1, <1>2, <1>4, LedgerNow DEF Good, history
<1> QED
  BY <1>1, <1>2, <1>3, <1>5, LedgerNow, UnchangedHistoryRight, MemoryKeepsInv

\* A ledger that is no longer trusted.
LEMMA UnknownGood ==
    ASSUME BudgetInv, up, UNCHANGED admitted, NEW m \in LedgerType, m.unknown,
           m.children = ledger.children
    PROVE  Good(m)
BY LedgerNow DEF Good

LEMMA GiveUpKeepsInv ==
    ASSUME BudgetInv, NEW t \in Thread, NEW ok \in BOOLEAN, pc[t] # "idle",
           ledger' = [ledger EXCEPT !.unknown = TRUE], Persist(ledger', ok), Done(t),
           UNCHANGED <<up, history>>
    PROVE  BudgetInv'
<1>1. up /\ OthersKept(t, ledger) /\ ledger \in LedgerType
  BY ThreadNow, LedgerNow
<1>2. ledger' \in LedgerType /\ ledger'.unknown /\ Alike(ledger', ledger)
  BY <1>1, WithUnknown
<1>3. ThreadsGood
  BY <1>1, <1>2, DoneThreads, UnchangedHistoryGood DEF OthersKept, Alike
<1>4. Good(ledger')
  BY <1>1, <1>2, UnknownGood DEF Alike, history
<1> QED
  BY <1>1, <1>2, <1>3, <1>4, SaveKeepsInv, UnchangedHistoryRight

LEMMA PoisonKeepsInv ==
    ASSUME BudgetInv, NEW t \in Thread, Poison(t)
    PROVE  BudgetInv'
<1> DEFINE l == IF ticket[t] = NoTicket THEN ledger ELSE Without(ledger, ticket[t])
<1>1. /\ up /\ OthersKept(t, ledger) /\ ledger \in LedgerType
      /\ \A u \in Thread \ {t} : ticket[u] # NoTicket => ticket[u] # ticket[t]
  BY ThreadNow, LedgerNow DEF Poison
<1>2. l \in LedgerType /\ l.children = ledger.children /\ l.next = ledger.next /\ OthersKept(t, l)
  BY <1>1, WithoutReservation DEF OthersKept
<1>3. ledger' = [l EXCEPT !.unknown = TRUE]
  BY DEF Poison
<1> HIDE DEF l
<1>4. ledger' \in LedgerType /\ ledger'.unknown /\ Alike(ledger', l)
  BY <1>2, <1>3, WithUnknown
<1>5. ThreadsGood
  BY <1>1, <1>2, <1>4, DoneThreads, UnchangedHistoryGood DEF OthersKept, Alike, Poison
<1>6. Good(ledger')
  BY <1>1, <1>2, <1>4, UnknownGood DEF Alike, history, Poison
<1> QED
  BY <1>1, <1>4, <1>5, <1>6, MemoryKeepsInv, UnchangedHistoryRight DEF Poison

\* Under a limit the reservation is in the file before the request is sent;
\* its ID is no other thread's.
LEMMA ReserveKeepsInv ==
    ASSUME BudgetInv, NEW t \in Thread, NEW ok \in BOOLEAN, Reserve(t, ok)
    PROVE  BudgetInv'
<1> DEFINE id == ledger.next
           l == WithReservation(ledger, amount[t])
<1>1. /\ pc[t] = "reserve" /\ HasIds(ledger) /\ up' = up
      /\ UNCHANGED <<billed, overrun, admitted>>
      /\ Keep(l, ok)
  BY DEF Reserve, WithReservation
<1>2. /\ up /\ amount[t] \in Amount /\ ledger \in LedgerType /\ ticket[t] = NoTicket
      /\ OthersKept(t, ledger)
      /\ ledger.next \in Ids
  BY <1>1, ThreadNow, LedgerNow DEF LedgerType
<1>3. /\ l \in LedgerType /\ l.unknown = ledger.unknown /\ l.spent = ledger.spent
      /\ l.children = ledger.children /\ l.limit = ledger.limit /\ l.next = id + 1
      /\ DOMAIN l.reservations = DOMAIN ledger.reservations \cup {id}
      /\ l.reservations[id] = amount[t]
      /\ \A i \in DOMAIN ledger.reservations \ {id} : l.reservations[i] = ledger.reservations[i]
  BY <1>1, <1>2, ReservedLedger
<1>4. /\ \/ /\ Admitted(l, ok)
            /\ pc' = [pc EXCEPT ![t] = "ready"]
            /\ ticket' = [ticket EXCEPT ![t] = id]
            /\ exposed' = IF Limited(l) THEN exposed \cup {t} ELSE exposed
            /\ UNCHANGED <<amount, requests>>
         \/ ~Admitted(l, ok) /\ Done(t) /\ UNCHANGED exposed
  BY DEF Reserve, WithReservation
<1> HIDE DEF l
<1>5. \A u \in Thread \ {t} : ticket[u] # NoTicket => ticket[u] < id /\ ticket[u] # id
  BY <1>2 DEF BudgetInv, ThreadInv, TypeOK, Ids, NoTicket
<1>6. OthersKept(t, l)
  <2>1. ASSUME NEW u \in Thread \ {t}, ticket[u] # NoTicket
        PROVE  ticket[u] \in Nat /\ ticket[u] < id + 1
    BY <1>2, <1>5, <2>1 DEF BudgetInv, TypeOK, Ids
  <2> QED
    BY <1>2, <1>3, <1>5, <2>1 DEF OthersKept
<1>7. ledger'.reservations = l.reservations /\ ledger'.next = l.next
  <2>1. (l.unknown \/ ~ok) \in BOOLEAN /\ ledger' = [l EXCEPT !.unknown = l.unknown \/ ~ok]
    BY <1>1 DEF Keep
  <2> QED
    BY <1>3, <2>1, WithUnknown DEF Alike
<1>8. OthersKept(t, ledger')
  BY <1>6, <1>7 DEF OthersKept
<1>9. HistoryGood
  BY <1>1, <1>4 DEF HistoryGood, BudgetInv, TypeOK, ChildrenInv, ChildrenBounded
<1>10. CASE ~Admitted(l, ok) /\ Done(t) /\ UNCHANGED exposed
  <2>1. ThreadsGood
    BY <1>1, <1>2, <1>8, <1>9, <1>10, DoneThreads
  <2>2. \A u \in Thread \ {t} : ticket'[u] = ticket[u]
    BY <1>10 DEF Done, BudgetInv, TypeOK
  <2>3. Good(l)
    BY <1>1, <1>2, <1>3, <1>10, <2>2, LedgerNow DEF Good
  <2>4. StillRight
    BY <1>1, <1>10 DEF StillRight, BudgetInv, TypeOK
  <2> QED
    BY <1>1, <1>2, <2>1, <2>3, <2>4, KeepKeepsInv
<1>11. CASE /\ Admitted(l, ok)
            /\ pc' = [pc EXCEPT ![t] = "ready"]
            /\ ticket' = [ticket EXCEPT ![t] = id]
            /\ exposed' = IF Limited(l) THEN exposed \cup {t} ELSE exposed
            /\ UNCHANGED <<amount, requests>>
  <2>1. /\ pc' \in [Thread -> {"idle", "reserve", "ready", "sent"}]
        /\ ticket' \in [Thread -> Ids \cup {NoTicket}]
        /\ pc'[t] = "ready" /\ ticket'[t] = id
        /\ \A u \in Thread \ {t} : pc'[u] = pc[u] /\ ticket'[u] = ticket[u]
    BY <1>2, <1>11 DEF BudgetInv, TypeOK
  <2>2. id < id + 1 /\ id # NoTicket
    BY <1>2, BudgetConstantsOK DEF Ids, NoTicket
  <2>3. ThreadInv'
    <3> SUFFICES ASSUME NEW u \in Thread
                 PROVE  /\ pc'[u] # "idle" => up' /\ amount'[u] \in Amount
                        /\ ticket'[u] # NoTicket => pc'[u] \in {"ready", "sent"}
                                                    /\ ticket'[u] < ledger'.next
      BY DEF ThreadInv, NoTicket
    <3>1. CASE u = t
      BY <1>1, <1>2, <1>3, <1>7, <1>11, <2>1, <2>2, <3>1
    <3>2. CASE u # t
      BY <1>1, <1>8, <1>11, <2>1, <3>2 DEF OthersKept, BudgetInv, ThreadInv
    <3> QED
      BY <3>1, <3>2
  <2>4. OwnReservation'
    <3> SUFFICES ASSUME NEW u \in Thread, ticket'[u] # NoTicket
                 PROVE  /\ ticket'[u] \in DOMAIN ledger'.reservations
                        /\ ledger'.reservations[ticket'[u]] = amount'[u]
                        /\ \A v \in Thread \ {u} : ticket'[v] # ticket'[u]
      BY DEF OwnReservation, NoTicket
    <3>1. CASE u = t
      BY <1>3, <1>5, <1>7, <1>11, <2>1, <2>2, <3>1
    <3>2. CASE u # t
      BY <1>5, <1>8, <1>11, <2>1, <3>2 DEF OthersKept, BudgetInv, OwnReservation
    <3> QED
      BY <3>1, <3>2
  <2>5. ThreadsGood
    BY <1>1, <1>9, <1>11, <2>1, <2>3, <2>4 DEF ThreadsGood, HistoryGood, BudgetInv, TypeOK
  <2>6. \A u \in exposed' : u \in exposed \/ u = t
    BY <1>11
  <2>7. Good(l)
    BY <1>1, <1>2, <1>3, <2>1, <2>2, <2>6, LedgerNow DEF Good
  <2>8. ok \/ StillRight
    BY <1>1, <1>11 DEF Admitted, StillRight, BudgetInv, TypeOK
  <2> QED
    BY <1>1, <1>2, <2>5, <2>7, <2>8, KeepKeepsInv
<1> QED
  BY <1>4, <1>10, <1>11

\* A thread is done, and l, without its reservation, is kept.
LEMMA ReleaseKeepsInv ==
    ASSUME BudgetInv, NEW t \in Thread, NEW ok \in BOOLEAN, NEW l \in LedgerType,
           up, up' = up, Done(t), Keep(l, ok), HistoryGood, StillRight,
           l.children = ledger.children, l.next = ledger.next,
           overrun' => l.unknown, ledger.unknown => l.unknown,
           DOMAIN ledger.reservations \ {ticket[t]} \subseteq DOMAIN l.reservations,
           \A i \in DOMAIN ledger.reservations \ {ticket[t]} :
               l.reservations[i] = ledger.reservations[i],
           ~l.unknown => billed' <= l.spent,
           exposed' \subseteq exposed, t \notin exposed' \/ ticket[t] = NoTicket
    PROVE  BudgetInv'
<1>1. \A u \in Thread \ {t} : ticket[u] # NoTicket =>
          /\ ticket[u] # ticket[t]
          /\ ticket[u] \in DOMAIN ledger.reservations
          /\ ticket[u] < ledger.next
  BY DEF BudgetInv, OwnReservation, ThreadInv
<1>2. OthersKept(t, l)
  BY <1>1 DEF OthersKept
<1>3. Alike(ledger', l)
  <2>1. (l.unknown \/ ~ok) \in BOOLEAN /\ ledger' = [l EXCEPT !.unknown = l.unknown \/ ~ok]
    BY DEF Keep
  <2> QED
    BY <2>1, WithUnknown
<1>4. ThreadsGood
  BY <1>2, <1>3, DoneThreads DEF OthersKept, Alike
<1>5. \A u \in Thread \ {t} : ticket'[u] = ticket[u]
  BY DEF Done, BudgetInv, TypeOK
<1>6. ASSUME ~l.unknown
      PROVE  /\ billed' <= l.spent
             /\ \A u \in exposed' : u \in Thread /\ ticket'[u] # NoTicket
                                    /\ ticket'[u] \in DOMAIN l.reservations
             /\ admitted' \subseteq l.children
  <2>1. /\ \A u \in exposed : u \in Thread /\ ticket[u] # NoTicket
        /\ admitted \subseteq ledger.children
    BY <1>6, LedgerNow
  <2> QED
    BY <1>1, <1>5, <1>6, <2>1 DEF StillRight
<1>7. Good(l)
  BY <1>6, LedgerNow DEF Good
<1> QED
  BY <1>4, <1>7, KeepKeepsInv

LEMMA AbandonKeepsInv ==
    ASSUME BudgetInv, NEW t \in Thread, NEW ok \in BOOLEAN, Abandon(t, ok)
    PROVE  BudgetInv'
<1>1. /\ pc[t] = "ready" /\ up' = up /\ Done(t) /\ exposed' = exposed \ {t}
      /\ UNCHANGED <<billed, overrun, admitted>>
  BY DEF Abandon
<1>2. up /\ ledger \in LedgerType /\ OthersKept(t, ledger)
  BY <1>1, ThreadNow, LedgerNow
<1>3. HistoryGood /\ StillRight
  BY <1>1 DEF HistoryGood, StillRight, BudgetInv, TypeOK, ChildrenInv, ChildrenBounded
<1>4. CASE ticket[t] = NoTicket /\ UNCHANGED <<ledger, files>>
  <2>1. ThreadsGood
    BY <1>1, <1>2, <1>3, <1>4, DoneThreads
  <2>2. \A u \in Thread \ {t} : ticket'[u] = ticket[u]
    BY <1>1 DEF Done, BudgetInv, TypeOK
  <2>3. Good(ledger')
    BY <1>1, <1>2, <1>4, <2>2, LedgerNow DEF Good
  <2> QED
    BY <1>1, <1>2, <1>3, <1>4, <2>1, <2>3, LedgerNow, MemoryKeepsInv
<1>5. CASE Keep(Without(ledger, ticket[t]), ok)
  <2> DEFINE l == Without(ledger, ticket[t])
  <2>1. /\ l \in LedgerType /\ l.unknown = ledger.unknown /\ l.spent = ledger.spent
        /\ l.children = ledger.children /\ l.next = ledger.next
        /\ DOMAIN l.reservations = DOMAIN ledger.reservations \ {ticket[t]}
        /\ \A i \in DOMAIN ledger.reservations \ {ticket[t]} :
               l.reservations[i] = ledger.reservations[i]
    BY <1>2, WithoutReservation
  <2> HIDE DEF l
  <2>2. (overrun' => l.unknown) /\ (ledger.unknown => l.unknown) /\ (~l.unknown => billed' <= l.spent)
    BY <1>1, <1>2, <2>1, LedgerNow
  <2> QED
    BY <1>1, <1>2, <1>3, <1>5, <2>1, <2>2, ReleaseKeepsInv DEF l
<1> QED
  BY <1>4, <1>5 DEF Abandon

LEMMA CostsType ==
    ASSUME NEW a \in Nat \ {0}, NEW c \in Costs(a)
    PROVE  c \in Nat
BY DEF Costs

\* What the request has cost goes from the reservation to what is spent, and a
\* cost beyond the bound is noticed.
LEMMA SettleKeepsInv ==
    ASSUME BudgetInv, NEW t \in Thread, NEW ok \in BOOLEAN, NEW actual \in Costs(amount[t]),
           Settle(t, actual, ok)
    PROVE  BudgetInv'
<1>1. /\ pc[t] = "sent" /\ ticket[t] # NoTicket /\ up' = up /\ Done(t) /\ UNCHANGED admitted
      /\ exposed' = exposed \ {t}
      /\ billed' = IF t \in exposed THEN billed + actual ELSE billed
      /\ overrun' = (overrun \/ (t \in exposed /\ actual > amount[t]))
  BY DEF Settle
<1>2. /\ up /\ ledger \in LedgerType /\ ledger.spent \in Nat /\ actual \in Nat
      /\ amount[t] \in Nat
      /\ ticket[t] \in DOMAIN ledger.reservations
      /\ ledger.reservations[ticket[t]] = amount[t]
  BY <1>1, ThreadNow, LedgerNow, CostsType
<1>3. billed \in Nat /\ billed' \in Nat /\ overrun' \in BOOLEAN
  BY <1>1, <1>2 DEF BudgetInv, TypeOK
<1>4. HistoryGood
  BY <1>1, <1>3 DEF HistoryGood, BudgetInv, TypeOK, ChildrenInv, ChildrenBounded
<1>5. StillRight
  BY <1>1, <1>3 DEF StillRight
<1> DEFINE l == Settled(ledger, ticket[t], actual)
<1>6. Keep(l, ok)
  BY <1>2 DEF Settle
<1>7. /\ l \in LedgerType /\ l.spent = ledger.spent + actual
      /\ l.unknown <=> ledger.unknown \/ actual > amount[t]
      /\ l.children = ledger.children /\ l.next = ledger.next
      /\ DOMAIN l.reservations = DOMAIN ledger.reservations \ {ticket[t]}
      /\ \A i \in DOMAIN ledger.reservations \ {ticket[t]} :
             l.reservations[i] = ledger.reservations[i]
  BY <1>2, SettledLedger
<1> HIDE DEF l
<1>8. overrun' => l.unknown
  BY <1>1, <1>2, <1>7, LedgerNow
<1>9. ~l.unknown => billed' <= l.spent
  <2>1. ~l.unknown => billed <= ledger.spent
    BY <1>2, <1>7, LedgerNow
  <2> QED
    BY <1>1, <1>2, <1>3, <1>7, <2>1
<1> QED
  BY <1>1, <1>2, <1>4, <1>5, <1>6, <1>7, <1>8, <1>9, ReleaseKeepsInv

LEMMA ChargeKeepsInv ==
    ASSUME BudgetInv, NEW t \in Thread, NEW ok \in BOOLEAN, NEW actual \in Costs(amount[t]),
           Charge(t, actual, ok)
    PROVE  BudgetInv'
<1> DEFINE n == ledger.spent + actual
           l == [ledger EXCEPT !.spent = n]
<1>1. /\ pc[t] = "sent" /\ ticket[t] = NoTicket /\ up' = up /\ Done(t) /\ UNCHANGED history
      /\ Keep(l, ok)
  BY DEF Charge
<1>2. up /\ ledger \in LedgerType /\ ledger.spent \in Nat /\ actual \in Nat /\ n \in Nat
  BY <1>1, ThreadNow, LedgerNow, CostsType
<1> HIDE DEF n
<1>3. l \in LedgerType /\ l.unknown = ledger.unknown /\ l.spent = n /\ Alike(l, ledger)
  BY <1>2, WithSpent
<1> HIDE DEF l
<1>4. HistoryGood /\ StillRight
  BY <1>1, UnchangedHistoryGood, UnchangedHistoryRight
<1>5. billed' = billed /\ billed \in Nat /\ overrun' = overrun /\ exposed' = exposed
  BY <1>1 DEF history, BudgetInv, TypeOK
<1>6. ~l.unknown => billed' <= l.spent
  BY <1>2, <1>3, <1>5, LedgerNow DEF n
<1>7. overrun' => l.unknown
  BY <1>2, <1>3, <1>5, LedgerNow
<1> QED
  BY <1>1, <1>2, <1>3, <1>4, <1>5, <1>6, <1>7, ReleaseKeepsInv DEF Alike

-----------------------------------------------------------------------------
(* The rest of the process.                                                *)

LEMMA LimitGood ==
    ASSUME BudgetInv, up, UNCHANGED <<threads, history>>, NEW n \in Limit \cup {NoLimit}
    PROVE  /\ Good([ledger EXCEPT !.limit = n])
           /\ [ledger EXCEPT !.limit = n].unknown = ledger.unknown
           /\ Alike([ledger EXCEPT !.limit = n], ledger)
<1> DEFINE l == [ledger EXCEPT !.limit = n]
<1>1. l \in LedgerType /\ l.unknown = ledger.unknown /\ l.spent = ledger.spent /\ Alike(l, ledger)
  BY LedgerNow, WithLimit
<1> HIDE DEF l
<1>2. Good(l)
  BY <1>1, LedgerNow DEF Good, Alike, threads, history
<1> QED
  BY <1>1, <1>2 DEF l

LEMMA SetLimitKeepsInv ==
    ASSUME BudgetInv, NEW n \in Limit \cup {NoLimit}, NEW ok \in BOOLEAN, SetLimit(n, ok)
    PROVE  BudgetInv'
<1> DEFINE l == [ledger EXCEPT !.limit = n]
<1>1. up /\ up' = up /\ UNCHANGED <<threads, history>> /\ Keep(l, ok)
  BY DEF SetLimit
<1>2. Good(l) /\ Alike(l, ledger)
  BY <1>1, LimitGood
<1> HIDE DEF l
<1>3. Alike(ledger', l)
  <2>1. (l.unknown \/ ~ok) \in BOOLEAN /\ ledger' = [l EXCEPT !.unknown = l.unknown \/ ~ok]
    BY <1>1 DEF Keep
  <2> QED
    BY <1>2, <2>1, WithUnknown DEF Good
<1>4. ThreadsGood
  BY <1>1, <1>2, <1>3, SameThreads, UnchangedHistoryGood DEF Alike
<1> QED
  BY <1>1, <1>2, <1>4, KeepKeepsInv, UnchangedHistoryRight

LEMMA ConfigureKeepsInv ==
    ASSUME BudgetInv, NEW n \in Limit \cup {NoLimit}, Configure(n)
    PROVE  BudgetInv'
<1>1. up /\ up' = up /\ UNCHANGED <<files, threads, history>>
  BY DEF Configure
<1>2. Good(ledger') /\ ledger'.unknown = ledger.unknown /\ Alike(ledger', ledger)
  BY <1>1, LimitGood DEF Configure
<1>3. ThreadsGood
  BY <1>1, <1>2, SameThreads, UnchangedHistoryGood DEF Alike
<1>4. ledger'.unknown \/ disk.children = ledger'.children
  BY <1>1, <1>2, LedgerNow DEF Alike
<1> QED
  BY <1>1, <1>2, <1>3, <1>4, MemoryKeepsInv, UnchangedHistoryRight

\* A child that counts is among the children of a ledger that is trusted.
LEMMA AdmitChildKeepsInv ==
    ASSUME BudgetInv, NEW c \in Child, NEW ok \in BOOLEAN, AdmitChild(c, ok)
    PROVE  BudgetInv'
<1>1. /\ up /\ up' = up /\ UNCHANGED threads /\ UNCHANGED <<exposed, billed, overrun>>
      /\ admitted' = IF ok /\ c \in stable'.children THEN admitted \cup {c} ELSE admitted
  BY DEF AdmitChild
<1>2. /\ ledger \in LedgerType
      /\ overrun => ledger.unknown
      /\ IsFiniteSet(ledger.children)
      /\ Cardinality(ledger.children) <= MaxChildren
      /\ ledger.children \subseteq Child
  BY <1>1, LedgerNow DEF LedgerType
<1>3. CASE c \in ledger.children /\ ~ledger.unknown /\ UNCHANGED <<ledger, files>>
  <2>1. /\ disk' = disk /\ stable' = stable /\ ledger' = ledger
        /\ ~ledger.unknown /\ ~overrun /\ billed <= ledger.spent
        /\ \A t \in exposed : t \in Thread /\ ticket[t] # NoTicket
                              /\ ticket[t] \in DOMAIN ledger.reservations
        /\ admitted \subseteq ledger.children /\ disk.children = ledger.children
    BY <1>1, <1>3, LedgerNow DEF files
  <2>2. admitted' \subseteq ledger.children
    BY <1>1, <1>3, <2>1
  <2>3. Cardinality(admitted') <= MaxChildren
    <3>1. /\ Cardinality(admitted') <= Cardinality(ledger.children)
          /\ IsFiniteSet(admitted')
      BY <1>2, <2>2, FS_Subset
    <3>2. Cardinality(admitted') \in Nat /\ Cardinality(ledger.children) \in Nat
      BY <1>2, <3>1, FS_CardinalityType
    <3> QED
      BY <1>2, <3>1, <3>2, BudgetConstantsOK
  <2>4. HistoryGood
    BY <1>1, <1>2, <2>2, <2>3 DEF HistoryGood, BudgetInv, TypeOK, ChildrenBounded
  <2>5. ThreadsGood
    BY <1>1, <2>1, <2>4, SameThreads
  <2>6. Good(ledger')
    BY <1>1, <1>2, <2>1, <2>2 DEF Good, threads
  <2>7. \A l \in {disk, stable} : InFile(l, exposed', billed', overrun', admitted')
    <3>1. InFile(disk, exposed', billed', overrun', admitted')
      BY <1>1, <2>1, <2>2, FilesInv DEF InFile
    <3>2. InFile(stable, exposed', billed', overrun', admitted')
      BY <1>1, <2>1, FilesInv DEF InFile
    <3> QED
      BY <3>1, <3>2
  <2> QED
    BY <1>1, <2>1, <2>5, <2>6, <2>7, KeepsInv
<1>4. CASE c \notin ledger.children /\ MayAdmit(ledger)
           /\ Keep([ledger EXCEPT !.children = @ \cup {c}], ok)
  <2> DEFINE C == ledger.children \cup {c}
             l == [ledger EXCEPT !.children = C]
  <2>1. /\ ~ledger.unknown /\ ~overrun /\ billed <= ledger.spent
        /\ \A t \in exposed : t \in Thread /\ ticket[t] # NoTicket
                              /\ ticket[t] \in DOMAIN ledger.reservations
        /\ admitted \subseteq ledger.children
        /\ Cardinality(ledger.children) < MaxChildren
    BY <1>1, <1>4, LedgerNow DEF MayAdmit
  <2>2. C \in SUBSET Child /\ IsFiniteSet(C) /\ Cardinality(C) = Cardinality(ledger.children) + 1
    BY <1>2, <1>4, FS_AddElement
  <2>3. Cardinality(C) <= MaxChildren
    <3>1. Cardinality(ledger.children) \in Nat
      BY <1>2, FS_CardinalityType
    <3> QED
      BY <2>1, <2>2, <3>1, BudgetConstantsOK
  <2>4. admitted' \subseteq C
    BY <1>1, <2>1
  <2>5. Cardinality(admitted') <= MaxChildren
    <3>1. Cardinality(admitted') <= Cardinality(C) /\ IsFiniteSet(admitted')
      BY <2>2, <2>4, FS_Subset
    <3>2. Cardinality(admitted') \in Nat /\ Cardinality(C) \in Nat
      BY <2>2, <3>1, FS_CardinalityType
    <3> QED
      BY <2>3, <3>1, <3>2, BudgetConstantsOK
  <2> HIDE DEF C
  <2>6. /\ l \in LedgerType /\ l.unknown = ledger.unknown /\ l.spent = ledger.spent
        /\ l.children = C /\ l.next = ledger.next /\ l.reservations = ledger.reservations
    BY <1>2, <2>2, WithChildren
  <2>7. Keep(l, ok)
    BY <1>4 DEF C
  <2> HIDE DEF l
  <2>8. Alike(ledger', l)
    <3>1. (l.unknown \/ ~ok) \in BOOLEAN /\ ledger' = [l EXCEPT !.unknown = l.unknown \/ ~ok]
      BY <2>7 DEF Keep
    <3> QED
      BY <2>6, <3>1, WithUnknown
  <2>9. HistoryGood
    BY <1>1, <2>2, <2>4, <2>5 DEF HistoryGood, BudgetInv, TypeOK, ChildrenBounded
  <2>10. ThreadsGood
    BY <1>1, <2>6, <2>8, <2>9, SameThreads DEF Alike
  <2>11. Good(l)
    BY <1>1, <2>1, <2>2, <2>3, <2>4, <2>6 DEF Good, threads
  <2>12. ok \/ StillRight
    BY <1>1 DEF StillRight
  <2> QED
    BY <1>1, <2>7, <2>10, <2>11, <2>12, KeepKeepsInv
<1> QED
  BY <1>3, <1>4 DEF AdmitChild

LEMMA DefaultLedger ==
    /\ Default \in LedgerType
    /\ ~Default.unknown
    /\ Default.spent = 0
    /\ DOMAIN Default.reservations = {}
    /\ Default.children = {}
<1> DEFINE r == [i \in {} |-> 0]
<1>1. r \in [{} -> Amount] /\ {} \in SUBSET Ids /\ DOMAIN r = {}
  OBVIOUS
<1>2. r \in UNION {[S -> Amount] : S \in SUBSET Ids}
  BY <1>1
<1>3. 0 \in Ids
  BY BudgetConstantsOK DEF Ids
<1> HIDE DEF r
<1>4. Default = [spent |-> 0, limit |-> NoLimit, unknown |-> FALSE,
                 reservations |-> r, next |-> 0, children |-> {}]
  BY DEF Default, r
<1> QED
  BY <1>1, <1>2, <1>3, <1>4 DEF LedgerType

\* A trusted ledger comes from a file that has nothing unsettled.
LEMMA LoadKeepsInv ==
    ASSUME BudgetInv, NEW n \in Limit \cup {NoLimit}, NEW readable \in BOOLEAN, Load(n, readable)
    PROVE  BudgetInv'
<1> DEFINE l == IF readable THEN Trusted(disk) ELSE [Default EXCEPT !.unknown = TRUE]
<1>1. /\ ~up /\ up' = TRUE /\ UNCHANGED <<files, threads, history>>
      /\ ledger' = IF n = NoLimit THEN l ELSE [l EXCEPT !.limit = n]
  BY DEF Load
<1>2. InFile(disk, exposed, billed, overrun, admitted)
  BY FilesInv
<1>3. /\ l \in LedgerType
      /\ l.unknown \/ (exposed = {} /\ billed <= l.spent /\ ~overrun
                       /\ admitted \subseteq l.children /\ l.children = disk.children)
      /\ IsFiniteSet(l.children) /\ Cardinality(l.children) <= MaxChildren
  <2>1. CASE readable
    BY <1>2, <2>1, TrustedUnknown DEF InFile, Alike
  <2>2. CASE ~readable
    <3>1. l \in LedgerType /\ l.unknown /\ l.children = {}
      BY <2>2, DefaultLedger, WithUnknown DEF Alike
    <3> QED
      BY <3>1, FS_EmptySet, BudgetConstantsOK
  <2> QED
    BY <2>1, <2>2
<1> HIDE DEF l
<1>4. /\ ledger' \in LedgerType /\ ledger'.unknown = l.unknown /\ ledger'.spent = l.spent
      /\ ledger'.children = l.children
  BY <1>1, <1>3, WithLimit DEF Alike
<1>5. Good(ledger')
  BY <1>1, <1>3, <1>4 DEF Good, history
<1>6. \A t \in Thread : pc[t] = "idle" /\ ticket[t] = NoTicket
  BY <1>1 DEF BudgetInv, ThreadInv
<1>7. ThreadInv' /\ OwnReservation'
  BY <1>1, <1>6 DEF ThreadInv, OwnReservation, threads, NoTicket
<1>8. ThreadsGood
  BY <1>1, <1>7, UnchangedHistoryGood DEF ThreadsGood, HistoryGood, BudgetInv, TypeOK, threads
<1>9. ledger'.unknown \/ disk.children = ledger'.children
  BY <1>3, <1>4
<1> QED
  BY <1>1, <1>5, <1>8, <1>9, MemoryKeepsInv, UnchangedHistoryRight

\* What is in the file is enough to start from.
LEMMA DieKeepsInv ==
    ASSUME BudgetInv, Die, disk' \in {disk, stable}, stable' = stable
    PROVE  BudgetInv'
<1>1. /\ up' = FALSE /\ ledger' = Default
      /\ exposed' = IF exposed = {} THEN {} ELSE {Lost}
      /\ UNCHANGED <<requests, billed, overrun, admitted>>
  BY DEF Die
<1>2. StillRight
  BY <1>1 DEF StillRight, BudgetInv, TypeOK
<1>3. \A l \in {disk', stable'} : InFile(l, exposed', billed', overrun', admitted')
  BY <1>2, FilesInv, StillInFile
<1>4. \A t \in Thread : pc'[t] = "idle" /\ ticket'[t] = NoTicket
  BY DEF Die
<1>5. TypeOK'
  <2>1. /\ pc' \in [Thread -> {"idle", "reserve", "ready", "sent"}]
        /\ amount' \in [Thread -> Amount \cup {0}]
        /\ ticket' \in [Thread -> Ids \cup {NoTicket}]
    BY DEF Die
  <2> QED
    BY <1>1, <1>3, <2>1, DefaultLedger DEF TypeOK, InFile, BudgetInv
<1>6. ThreadInv' /\ OwnReservation'
  BY <1>4 DEF ThreadInv, OwnReservation, NoTicket
<1>7. RestartIsConservative' /\ OverrunStops' /\ MemoryInv'
  BY <1>1, <1>3 DEF RestartIsConservative, OverrunStops, MemoryInv, InFile, Trusted
<1>8. ChildrenInv'
  BY <1>1, <1>3, DefaultLedger, FS_EmptySet, BudgetConstantsOK
  DEF ChildrenInv, ChildrenBounded, InFile, BudgetInv
<1> QED
  BY <1>5, <1>6, <1>7, <1>8 DEF BudgetInv

LEMMA InitInv == Init => BudgetInv
<1> SUFFICES ASSUME Init PROVE BudgetInv
  OBVIOUS
<1>1. TypeOK
  <2>1. {ledger, disk, stable} \subseteq LedgerType
    BY DefaultLedger DEF Init
  <2>2. /\ pc \in [Thread -> {"idle", "reserve", "ready", "sent"}]
        /\ amount \in [Thread -> Amount \cup {0}]
        /\ ticket \in [Thread -> Ids \cup {NoTicket}]
    BY DEF Init
  <2>3. requests \in 0..MaxRequests /\ billed \in Nat
    BY BudgetConstantsOK DEF Init
  <2> QED
    BY <2>1, <2>2, <2>3 DEF Init, TypeOK
<1>2. ThreadInv /\ OwnReservation /\ MemoryInv
  BY DEF Init, ThreadInv, OwnReservation, MemoryInv
<1>3. RestartIsConservative /\ OverrunStops
  BY DefaultLedger DEF Init, RestartIsConservative, OverrunStops
<1>4. ChildrenInv
  BY DefaultLedger, FS_EmptySet, BudgetConstantsOK DEF Init, ChildrenInv, ChildrenBounded
<1> QED
  BY <1>1, <1>2, <1>3, <1>4 DEF BudgetInv

LEMMA StutterInv == BudgetInv /\ UNCHANGED vars => BudgetInv'
BY DEF BudgetInv, TypeOK, ThreadInv, OwnReservation, MemoryInv, RestartIsConservative,
       OverrunStops, ChildrenInv, ChildrenBounded, Trusted,
       vars, files, threads, history

LEMMA NextInv == BudgetInv /\ [Next]_vars => BudgetInv'
<1> SUFFICES ASSUME BudgetInv, [Next]_vars PROVE BudgetInv'
  OBVIOUS
<1>1. CASE UNCHANGED vars
  BY <1>1, StutterInv
<1>2. ASSUME NEW n \in Limit \cup {NoLimit},
             \/ \E readable \in BOOLEAN : Load(n, readable)
             \/ \E ok \in BOOLEAN : SetLimit(n, ok)
             \/ Configure(n)
      PROVE  BudgetInv'
  BY <1>2, LoadKeepsInv, SetLimitKeepsInv, ConfigureKeepsInv
<1>3. CASE Crash \/ LosePower
  BY <1>3, DieKeepsInv DEF Crash, LosePower, files
<1>4. ASSUME NEW t \in Thread, NEW ok \in BOOLEAN,
             Reserve(t, ok) \/ Abandon(t, ok)
             \/ \E actual \in Costs(amount[t]) : Settle(t, actual, ok) \/ Charge(t, actual, ok)
      PROVE  BudgetInv'
  BY <1>4, ReserveKeepsInv, AbandonKeepsInv, SettleKeepsInv, ChargeKeepsInv
<1>5. ASSUME NEW t \in Thread,
             Exhaust(t) \/ \E ok \in BOOLEAN : GiveUp(t, ok)
      PROVE  BudgetInv'
  BY <1>5, GiveUpKeepsInv DEF Exhaust, GiveUp
<1>6. ASSUME NEW t \in Thread,
             (\E a \in Amount : Begin(t, a)) \/ Refuse(t) \/ Send(t) \/ Poison(t)
      PROVE  BudgetInv'
  BY <1>6, BeginKeepsInv, RefuseKeepsInv, SendKeepsInv, PoisonKeepsInv
<1> QED
  BY <1>1, <1>2, <1>3, <1>4, <1>5, <1>6, AdmitChildKeepsInv DEF Next

LEMMA SpecInv == Spec => []BudgetInv
BY InitInv, NextInv, PTL DEF Spec

-----------------------------------------------------------------------------
(* Sums.                                                                   *)

Pick(s) == CHOOSE x \in s : TRUE

\* g has the sums of v over the subsets of S.
Sums(v, S, g) ==
    g = [s \in SUBSET S |-> IF s = {} THEN 0 ELSE v[CHOOSE x \in s : TRUE] + g[s \ {CHOOSE x \in s : TRUE}]]

Total(v, S) == (CHOOSE g : Sums(v, S, g))[S]

LEMMA ReservedIs == \A l : Reserved(l) = Total(l.reservations, DOMAIN l.reservations)
BY Zenon DEF Reserved, MapThenSumSet, MapThenFoldSet, Total, Sums

LEMMA ExposureIs == Exposure = billed + Total(amount, exposed \ {Lost})
BY Zenon DEF Exposure, MapThenSumSet, MapThenFoldSet, Total, Sums

\* In a set of finite sets there is one with the fewest elements.
LEMMA Fewest ==
    ASSUME NEW T, T # {}, \A S \in T : IsFiniteSet(S)
    PROVE  \E S \in T : \A R \in T : Cardinality(S) <= Cardinality(R)
<1> DEFINE N == {Cardinality(S) : S \in T}
<1>1. N \subseteq Nat /\ N # {}
  BY FS_CardinalityType
<1>2. PICK n \in N : \A m \in N : ~(<<m, n>> \in OpToRel(<, Nat))
  BY <1>1, NatLessThanWellFounded, WFMin
<1>3. \A m \in N : ~(m < n)
  BY <1>1, <1>2 DEF OpToRel
<1>4. PICK S \in T : n = Cardinality(S)
  OBVIOUS
<1>5. ASSUME NEW R \in T PROVE Cardinality(S) <= Cardinality(R)
  <2>1. Cardinality(R) \in N /\ Cardinality(R) \in Nat /\ Cardinality(S) \in Nat
    BY FS_CardinalityType
  <2> QED
    BY <1>3, <1>4, <2>1
<1> QED
  BY <1>5

LEMMA PickLess ==
    ASSUME NEW S, IsFiniteSet(S), NEW x \in S
    PROVE  /\ S \ {x} \subseteq S /\ IsFiniteSet(S \ {x})
           /\ Cardinality(S) \in Nat /\ Cardinality(S \ {x}) = Cardinality(S) - 1
           /\ Cardinality(S \ {x}) < Cardinality(S)
<1>1. Cardinality(S) \in Nat /\ IsFiniteSet(S \ {x}) /\ Cardinality(S \ {x}) = Cardinality(S) - 1
  BY FS_CardinalityType, FS_RemoveElement
<1> QED
  BY <1>1

LEMMA SumsSteps ==
    ASSUME NEW v, NEW S, NEW g
    PROVE  Sums(v, S, g) <=>
             /\ g = [s \in SUBSET S |-> g[s]]
             /\ g[{}] = 0
             /\ \A s \in SUBSET S : s # {} => g[s] = v[Pick(s)] + g[s \ {Pick(s)}]
<1> DEFINE h(s) == IF s = {} THEN 0 ELSE v[Pick(s)] + g[s \ {Pick(s)}]
<1>1. Sums(v, S, g) <=> g = [s \in SUBSET S |-> h(s)]
  BY Zenon DEF Sums, Pick
<1>2. {} \in SUBSET S
  OBVIOUS
<1>3. ASSUME g = [s \in SUBSET S |-> h(s)]
      PROVE  /\ g = [s \in SUBSET S |-> g[s]]
             /\ g[{}] = 0
             /\ \A s \in SUBSET S : s # {} => g[s] = v[Pick(s)] + g[s \ {Pick(s)}]
  <2>1. \A s \in SUBSET S : g[s] = h(s)
    BY <1>3, Zenon
  <2>2. g = [s \in SUBSET S |-> g[s]]
    BY <1>3, Zenon
  <2> QED
    BY <1>2, <2>1, <2>2, Zenon
<1>4. ASSUME g = [s \in SUBSET S |-> g[s]], g[{}] = 0,
             \A s \in SUBSET S : s # {} => g[s] = v[Pick(s)] + g[s \ {Pick(s)}]
      PROVE  g = [s \in SUBSET S |-> h(s)]
  <2>1. \A s \in SUBSET S : g[s] = h(s)
    BY <1>4, Zenon
  <2> QED
    BY <1>4, <2>1, Zenon
<1> QED
  BY <1>1, <1>3, <1>4, Zenon

\* Where two such functions are defined, they agree.
LEMMA SumsAgree ==
    ASSUME NEW v, NEW S, NEW R, IsFiniteSet(S), R \subseteq S, NEW f, NEW g,
           Sums(v, S, f), Sums(v, R, g)
    PROVE  \A s \in SUBSET R : f[s] = g[s]
<1> DEFINE T == {s \in SUBSET R : f[s] # g[s]}
<1>1. f[{}] = 0 /\ \A s \in SUBSET S : s # {} => f[s] = v[Pick(s)] + f[s \ {Pick(s)}]
  BY SumsSteps
<1>2. g[{}] = 0 /\ \A s \in SUBSET R : s # {} => g[s] = v[Pick(s)] + g[s \ {Pick(s)}]
  BY SumsSteps
<1>3. \A s \in SUBSET R : IsFiniteSet(s) /\ s \in SUBSET S
  BY FS_Subset
<1> SUFFICES ASSUME T # {} PROVE FALSE
  OBVIOUS
<1>4. PICK s \in T : \A r \in T : Cardinality(s) <= Cardinality(r)
  BY <1>3, Fewest
<1>5. s \in SUBSET R /\ s \in SUBSET S /\ s # {} /\ IsFiniteSet(s)
  BY <1>1, <1>2, <1>3, <1>4
<1>6. Pick(s) \in s
  BY <1>5 DEF Pick
<1>7. s \ {Pick(s)} \in SUBSET R /\ Cardinality(s \ {Pick(s)}) < Cardinality(s)
      /\ Cardinality(s) \in Nat /\ Cardinality(s \ {Pick(s)}) \in Nat
  BY <1>5, <1>6, PickLess, FS_CardinalityType
<1>8. s \ {Pick(s)} \notin T
  <2>1. ~(Cardinality(s) <= Cardinality(s \ {Pick(s)}))
    BY <1>7
  <2> QED
    BY <1>4, <2>1
<1>9. f[s \ {Pick(s)}] = g[s \ {Pick(s)}]
  BY <1>7, <1>8
<1> QED
  BY <1>1, <1>2, <1>4, <1>5, <1>9

LEMMA TotalOf ==
    ASSUME NEW v, NEW S, IsFiniteSet(S), NEW g, Sums(v, S, g)
    PROVE  Total(v, S) = g[S]
<1> DEFINE f == CHOOSE h : Sums(v, S, h)
<1>1. Sums(v, S, f)
  BY Zenon
<1>2. Total(v, S) = f[S]
  BY DEF Total
<1> HIDE DEF f
<1>3. S \in SUBSET S /\ S \subseteq S
  OBVIOUS
<1>4. \A s \in SUBSET S : f[s] = g[s]
  BY <1>1, <1>3, SumsAgree
<1> QED
  BY <1>2, <1>3, <1>4

LEMMA SumsExist ==
    ASSUME NEW v, NEW U, IsFiniteSet(U)
    PROVE  \E g : Sums(v, U, g)
<1> DEFINE T == {S \in SUBSET U : ~\E g : Sums(v, S, g)}
<1>1. \A S \in SUBSET U : IsFiniteSet(S)
  BY FS_Subset
<1> SUFFICES ASSUME T # {} PROVE FALSE
  OBVIOUS
<1>2. PICK S \in T : \A R \in T : Cardinality(S) <= Cardinality(R)
  BY <1>1, Fewest
<1>3. S \in SUBSET U /\ IsFiniteSet(S) /\ ~\E g : Sums(v, S, g)
  BY <1>1, <1>2
<1>4. ASSUME NEW R \in SUBSET S, R # S PROVE \E g : Sums(v, R, g)
  <2>1. R \in SUBSET U /\ IsFiniteSet(R)
    BY <1>1, <1>3
  <2>2. Cardinality(R) < Cardinality(S) /\ Cardinality(R) \in Nat /\ Cardinality(S) \in Nat
    BY <1>3, <1>4, <2>1, FS_Subset, FS_CardinalityType
  <2>3. ~(Cardinality(S) <= Cardinality(R))
    BY <2>2
  <2> QED
    BY <1>2, <2>1, <2>3
<1>5. ASSUME NEW R \in SUBSET S, R # S, R # {}
      PROVE  Total(v, R) = v[Pick(R)] + Total(v, R \ {Pick(R)})
  <2>1. PICK g : Sums(v, R, g)
    BY <1>4, <1>5
  <2>2. Pick(R) \in R
    BY <1>5 DEF Pick
  <2> DEFINE Q == R \ {Pick(R)}
  <2>3. Q \in SUBSET S /\ Q # S /\ Q \subseteq R /\ IsFiniteSet(R) /\ IsFiniteSet(Q)
    BY <1>1, <1>3, <2>2
  <2> HIDE DEF Q
  <2>4. PICK h : Sums(v, Q, h)
    BY <1>4, <2>3
  <2>5. g[Q] = h[Q]
    BY <2>1, <2>3, <2>4, SumsAgree
  <2>6. Total(v, R) = g[R] /\ Total(v, Q) = h[Q]
    BY <2>1, <2>3, <2>4, TotalOf
  <2>7. g[R] = v[Pick(R)] + g[Q]
    BY <1>5, <2>1, SumsSteps DEF Q
  <2> QED
    BY <2>5, <2>6, <2>7 DEF Q
<1>6. S # {} => Total(v, {}) = 0
  <2> SUFFICES ASSUME S # {} PROVE Total(v, {}) = 0
    OBVIOUS
  <2>1. PICK E : E = {}
    OBVIOUS
  <2>2. E \in SUBSET S /\ E # S /\ IsFiniteSet(E)
    BY <1>1, <1>3, <2>1
  <2>3. PICK g : Sums(v, E, g)
    BY <1>4, <2>2
  <2>4. Total(v, E) = g[E] /\ g[{}] = 0
    <3>1. Total(v, E) = g[E]
      BY <2>2, <2>3, TotalOf
    <3>2. g[{}] = 0
      BY <2>3, SumsSteps
    <3> QED
      BY <3>1, <3>2
  <2> QED
    BY <2>1, <2>4
<1> DEFINE g == [s \in SUBSET S |-> IF s = {} THEN 0
                                    ELSE IF s = S THEN v[Pick(S)] + Total(v, S \ {Pick(S)})
                                    ELSE Total(v, s)]
<1>7. g = [s \in SUBSET S |-> g[s]] /\ g[{}] = 0
  OBVIOUS
<1>8. ASSUME NEW s \in SUBSET S, s # {} PROVE g[s] = v[Pick(s)] + g[s \ {Pick(s)}]
  <2>1. Pick(s) \in s
    BY <1>8 DEF Pick
  <2> DEFINE r == s \ {Pick(s)}
  <2>2. r \in SUBSET S /\ r # S
    BY <2>1
  <2>3. g[r] = Total(v, r)
    <3>1. CASE r = {}
      <4>1. S # {}
        BY <1>8
      <4> QED
        BY <1>6, <1>7, <3>1, <4>1
    <3>2. CASE r # {}
      BY <2>2, <3>2
    <3> QED
      BY <3>1, <3>2
  <2>4. CASE s = S
    BY <1>8, <2>3, <2>4
  <2>5. CASE s # S
    BY <1>5, <1>8, <2>3, <2>5
  <2> QED
    BY <2>4, <2>5
<1> HIDE DEF g
<1>9. Sums(v, S, g)
  BY <1>7, <1>8, SumsSteps
<1> QED
  BY <1>3, <1>9

LEMMA TotalStep ==
    ASSUME NEW v, NEW S, IsFiniteSet(S)
    PROVE  /\ S = {} => Total(v, S) = 0
           /\ S # {} => /\ Pick(S) \in S
                        /\ Total(v, S) = v[Pick(S)] + Total(v, S \ {Pick(S)})
<1>1. PICK g : Sums(v, S, g)
  BY SumsExist
<1>2. Total(v, S) = g[S]
  BY <1>1, TotalOf
<1>3. /\ g[{}] = 0
      /\ S # {} => g[S] = v[Pick(S)] + g[S \ {Pick(S)}]
  BY <1>1, SumsSteps
<1>4. ASSUME S # {} PROVE g[S \ {Pick(S)}] = Total(v, S \ {Pick(S)})
  <2> DEFINE R == S \ {Pick(S)}
  <2>1. R \subseteq S /\ R \in SUBSET R /\ IsFiniteSet(R)
    BY FS_Subset
  <2> HIDE DEF R
  <2>2. PICK h : Sums(v, R, h)
    BY <2>1, SumsExist
  <2>3. g[R] = h[R] /\ Total(v, R) = h[R]
    <3>1. g[R] = h[R]
      BY <1>1, <2>1, <2>2, SumsAgree
    <3>2. Total(v, R) = h[R]
      BY <2>1, <2>2, TotalOf
    <3> QED
      BY <2>1, <3>1, <3>2
  <2> QED
    BY <2>3 DEF R
<1> QED
  BY <1>2, <1>3, <1>4 DEF Pick

LEMMA TotalType ==
    ASSUME NEW v, NEW U, IsFiniteSet(U), \A x \in U : v[x] \in Nat
    PROVE  \A S \in SUBSET U : Total(v, S) \in Nat
<1> DEFINE T == {S \in SUBSET U : Total(v, S) \notin Nat}
<1>1. \A S \in SUBSET U : IsFiniteSet(S)
  BY FS_Subset
<1> SUFFICES ASSUME T # {} PROVE FALSE
  OBVIOUS
<1>2. PICK S \in T : \A R \in T : Cardinality(S) <= Cardinality(R)
  BY <1>1, Fewest
<1>3. S \in SUBSET U /\ IsFiniteSet(S) /\ S # {}
  <2>1. IsFiniteSet(S) /\ Total(v, S) \notin Nat
    BY <1>1, <1>2
  <2>2. S = {} => Total(v, S) = 0
    BY <2>1, TotalStep
  <2> QED
    BY <2>1, <2>2
<1>4. Pick(S) \in S /\ Total(v, S) = v[Pick(S)] + Total(v, S \ {Pick(S)})
  BY <1>3, TotalStep
<1>5. /\ S \ {Pick(S)} \in SUBSET U /\ Cardinality(S) \in Nat
      /\ Cardinality(S \ {Pick(S)}) = Cardinality(S) - 1
  BY <1>3, <1>4, PickLess
<1>6. S \ {Pick(S)} \notin T
  <2>1. ~(Cardinality(S) <= Cardinality(S \ {Pick(S)}))
    BY <1>5
  <2> QED
    BY <1>2, <2>1
<1>7. Total(v, S \ {Pick(S)}) \in Nat
  BY <1>5, <1>6
<1> QED
  BY <1>2, <1>3, <1>4, <1>7

\* It does not matter which element is taken out.
LEMMA TotalRemove ==
    ASSUME NEW v, NEW U, IsFiniteSet(U), \A x \in U : v[x] \in Nat
    PROVE  \A S \in SUBSET U : \A x \in S : Total(v, S) = v[x] + Total(v, S \ {x})
<1> DEFINE AnyOne(S) == \A x \in S : Total(v, S) = v[x] + Total(v, S \ {x})
           T == {S \in SUBSET U : ~AnyOne(S)}
<1>1. \A S \in SUBSET U : IsFiniteSet(S) /\ Total(v, S) \in Nat
  BY FS_Subset, TotalType
<1> SUFFICES ASSUME T # {} PROVE FALSE
  OBVIOUS
<1>2. PICK S \in T : \A R \in T : Cardinality(S) <= Cardinality(R)
  BY <1>1, Fewest
<1>3. S \in SUBSET U /\ IsFiniteSet(S) /\ ~AnyOne(S)
  BY <1>1, <1>2
<1>4. PICK x \in S : Total(v, S) # v[x] + Total(v, S \ {x})
  BY <1>3
<1> DEFINE c == Pick(S)
<1>5. c \in S /\ Total(v, S) = v[c] + Total(v, S \ {c})
  BY <1>3, <1>4, TotalStep
<1> HIDE DEF c
<1>6. c # x
  BY <1>4, <1>5
<1>7. ASSUME NEW y \in S PROVE S \ {y} \in SUBSET U /\ AnyOne(S \ {y})
  <2>1. /\ S \ {y} \in SUBSET U /\ Cardinality(S) \in Nat
        /\ Cardinality(S \ {y}) = Cardinality(S) - 1
    BY <1>3, PickLess
  <2>2. ~(Cardinality(S) <= Cardinality(S \ {y}))
    BY <2>1
  <2> QED
    BY <1>2, <2>1, <2>2
<1>8. Total(v, S \ {c}) = v[x] + Total(v, (S \ {c}) \ {x})
  BY <1>5, <1>6, <1>7
<1>9. Total(v, S \ {x}) = v[c] + Total(v, (S \ {x}) \ {c})
  BY <1>5, <1>6, <1>7
<1>10. (S \ {x}) \ {c} = (S \ {c}) \ {x} /\ (S \ {c}) \ {x} \in SUBSET U
  BY <1>3
<1>11. v[x] \in Nat /\ v[c] \in Nat /\ Total(v, (S \ {c}) \ {x}) \in Nat
  BY <1>1, <1>3, <1>5, <1>10
<1>12. PICK a, b, n : a = v[x] /\ b = v[c] /\ n = Total(v, (S \ {c}) \ {x})
  OBVIOUS
<1>13. Total(v, S) = b + (a + n) /\ Total(v, S \ {x}) = b + n
  BY <1>5, <1>8, <1>9, <1>10, <1>12
<1>14. b + (a + n) = a + (b + n)
  BY <1>11, <1>12
<1> QED
  BY <1>4, <1>12, <1>13, <1>14

LEMMA TotalMonotone ==
    ASSUME NEW v, NEW U, IsFiniteSet(U), \A x \in U : v[x] \in Nat, NEW R \in SUBSET U
    PROVE  Total(v, R) <= Total(v, U)
<1> DEFINE T == {S \in SUBSET U : R \subseteq S /\ ~(Total(v, R) <= Total(v, S))}
<1>1. \A S \in SUBSET U : IsFiniteSet(S) /\ Total(v, S) \in Nat
  BY FS_Subset, TotalType
<1> SUFFICES ASSUME T # {} PROVE FALSE
  OBVIOUS
<1>2. PICK S \in T : \A Q \in T : Cardinality(S) <= Cardinality(Q)
  BY <1>1, Fewest
<1>3. S \in SUBSET U /\ R \subseteq S /\ S # R /\ IsFiniteSet(S)
  BY <1>1, <1>2
<1>4. PICK x \in S : x \notin R
  BY <1>3
<1>5. /\ S \ {x} \in SUBSET U /\ R \subseteq S \ {x} /\ Cardinality(S) \in Nat
      /\ Cardinality(S \ {x}) = Cardinality(S) - 1
  BY <1>3, <1>4, PickLess
<1>6. ~(Cardinality(S) <= Cardinality(S \ {x}))
  BY <1>5
<1>7. Total(v, R) <= Total(v, S \ {x})
  BY <1>2, <1>5, <1>6
<1>8. Total(v, S) = v[x] + Total(v, S \ {x})
  BY <1>3, TotalRemove
<1> QED
  BY <1>1, <1>2, <1>3, <1>5, <1>7, <1>8

\* Values that are found at distinct places of another function add up to the
\* same there.
LEMMA TotalImage ==
    ASSUME NEW v, NEW w, NEW f, NEW U, IsFiniteSet(U), NEW D, IsFiniteSet(D),
           \A x \in D : w[x] \in Nat,
           \A x \in U : f[x] \in D /\ v[x] = w[f[x]],
           \A x, y \in U : f[x] = f[y] => x = y
    PROVE  Total(v, U) <= Total(w, D)
<1> DEFINE Im(S) == {f[x] : x \in S}
           T == {S \in SUBSET U : Total(v, S) # Total(w, Im(S))}
<1>1. \A S \in SUBSET U : IsFiniteSet(S) /\ Im(S) \in SUBSET D
  BY FS_Subset
<1>2. T = {}
  <2> SUFFICES ASSUME T # {} PROVE FALSE
    OBVIOUS
  <2>1. PICK S \in T : \A R \in T : Cardinality(S) <= Cardinality(R)
    BY <1>1, Fewest
  <2>2. S \in SUBSET U /\ IsFiniteSet(S) /\ IsFiniteSet({})
    BY <1>1, <2>1, FS_EmptySet
  <2>3. S # {}
    <3> SUFFICES ASSUME S = {} PROVE FALSE
      OBVIOUS
    <3>1. Im(S) = {}
      OBVIOUS
    <3>2. PICK E : E = {}
      OBVIOUS
    <3>3. Total(v, E) = 0 /\ Total(w, E) = 0
      BY <2>2, <3>2, TotalStep
    <3> QED
      BY <2>1, <3>1, <3>2, <3>3
  <2>4. PICK x \in S : TRUE
    BY <2>3
  <2>5. /\ S \ {x} \in SUBSET U /\ Cardinality(S) \in Nat
        /\ Cardinality(S \ {x}) = Cardinality(S) - 1
    BY <2>2, PickLess
  <2>6. ~(Cardinality(S) <= Cardinality(S \ {x}))
    BY <2>5
  <2>7. Total(v, S \ {x}) = Total(w, Im(S \ {x}))
    BY <2>1, <2>5, <2>6
  <2>8. Im(S \ {x}) = Im(S) \ {f[x]} /\ f[x] \in Im(S)
    BY <2>2
  <2>9. Total(v, S) = v[x] + Total(v, S \ {x})
    <3>1. \A y \in U : v[y] \in Nat
      OBVIOUS
    <3> QED
      BY <2>2, <3>1, TotalRemove
  <2> HIDE DEF Im
  <2>10. Total(w, Im(S)) = w[f[x]] + Total(w, Im(S) \ {f[x]})
    BY <1>1, <2>2, <2>8, TotalRemove
  <2> QED
    BY <2>1, <2>2, <2>7, <2>8, <2>9, <2>10
<1>3. Total(v, U) = Total(w, Im(U)) /\ Im(U) \in SUBSET D
  BY <1>1, <1>2
<1> HIDE DEF Im
<1> QED
  BY <1>3, TotalMonotone

-----------------------------------------------------------------------------
(* The limit.                                                              *)

\* What is exposed is reserved, as long as the ledger is trusted.
LEMMA ExposedReserved ==
    ASSUME BudgetInv, up, ~ledger.unknown
    PROVE  /\ exposed \subseteq Thread /\ Lost \notin exposed
           /\ IsFiniteSet(exposed)
           /\ \A t \in exposed : amount[t] \in Nat
           /\ Reserved(ledger) \in Nat
           /\ Total(amount, exposed) <= Reserved(ledger)
<1> DEFINE D == DOMAIN ledger.reservations
           w == ledger.reservations
<1>1. \A t \in exposed : t \in Thread /\ ticket[t] # NoTicket
  BY DEF BudgetInv, MemoryInv
<1>2. exposed \subseteq Thread /\ Lost \notin exposed
  BY <1>1, BudgetConstantsOK
<1>3. D \subseteq Ids /\ w \in [D -> Amount]
  BY ReservationsType DEF BudgetInv, TypeOK
<1>4. IsFiniteSet(D) /\ \A i \in D : w[i] \in Nat
  <2>1. IsFiniteSet(Ids)
    BY FS_Interval, BudgetConstantsOK DEF Ids
  <2> QED
    BY <1>3, <2>1, FS_Subset, BudgetConstantsOK
<1>5. \A t \in exposed : ticket[t] \in D /\ amount[t] = w[ticket[t]]
  BY <1>1 DEF BudgetInv, OwnReservation
<1>6. \A t, u \in exposed : ticket[t] = ticket[u] => t = u
  BY <1>1 DEF BudgetInv, OwnReservation
<1> HIDE DEF D, w
<1>7. IsFiniteSet(exposed)
  <2> DEFINE f == [t \in exposed |-> ticket[t]]
  <2>1. f \in [exposed -> D] /\ \A t, u \in exposed : f[t] = f[u] => t = u
    BY <1>5, <1>6
  <2>2. f \in Injection(exposed, D)
    BY <2>1 DEF Injection, IsInjective
  <2> QED
    BY <1>4, <2>2, FS_Injection
<1>8. Total(amount, exposed) <= Total(w, D)
  BY <1>4, <1>5, <1>6, <1>7, TotalImage
<1>9. Total(w, D) \in Nat
  <2>1. D \in SUBSET D
    OBVIOUS
  <2> QED
    BY <1>4, <2>1, TotalType
<1>10. Reserved(ledger) = Total(w, D)
  BY ReservedIs DEF w, D
<1>11. \A t \in exposed : amount[t] \in Nat
  BY <1>4, <1>5
<1> QED
  BY <1>2, <1>7, <1>8, <1>9, <1>10, <1>11

LEMMA ReserveWithinLimit ==
    ASSUME BudgetInv, NEW t \in Thread, NEW ok \in BOOLEAN, Reserve(t, ok),
           t \notin exposed, t \in exposed'
    PROVE  Lost \notin exposed /\ Exposure' <= ledger.limit
<1> DEFINE l == WithReservation(ledger, amount[t])
<1>1. /\ pc[t] = "reserve" /\ MayReserve(ledger, amount[t]) /\ billed' = billed
      /\ HasIds(ledger)
  BY DEF Reserve
<1>2. up /\ amount[t] \in Nat \ {0} /\ amount[t] \in Amount /\ ledger \in LedgerType
  BY <1>1, ThreadNow, LedgerNow
<1>3. Limited(l) /\ exposed' = exposed \cup {t} /\ amount' = amount
  BY DEF Reserve, WithReservation
<1>4. l.limit = ledger.limit
  BY <1>1, <1>2, ReservedLedger
<1> HIDE DEF l
<1>5. Limited(ledger) /\ ledger.limit \in Nat
  BY <1>2, <1>3, <1>4, BudgetConstantsOK DEF Limited, LedgerType
<1>6. ~ledger.unknown /\ amount[t] <= Remaining(ledger)
  BY <1>1, <1>5 DEF MayReserve, Fits
<1>7. billed \in Nat /\ ledger.spent \in Nat /\ billed <= ledger.spent
  BY <1>2, <1>6, LedgerNow DEF BudgetInv, TypeOK
<1>8. /\ exposed \subseteq Thread /\ Lost \notin exposed /\ IsFiniteSet(exposed)
      /\ \A u \in exposed : amount[u] \in Nat
      /\ Reserved(ledger) \in Nat /\ Total(amount, exposed) <= Reserved(ledger)
  BY <1>2, <1>6, ExposedReserved
<1>9. PICK U : U = exposed \cup {t}
  OBVIOUS
<1>10. /\ U \in SUBSET U /\ IsFiniteSet(U) /\ \A u \in U : amount[u] \in Nat
       /\ t \in U /\ U \ {t} = exposed /\ exposed \in SUBSET U
  <2>1. IsFiniteSet(U)
    BY <1>8, <1>9, FS_AddElement
  <2> QED
    BY <1>2, <1>8, <1>9, <2>1
<1>11. Total(amount, U) = amount[t] + Total(amount, exposed) /\ Total(amount, exposed) \in Nat
  BY <1>10, TotalRemove, TotalType
<1>12. Exposure' = billed + Total(amount, U)
  <2>1. (Exposure = billed + Total(amount, exposed \ {Lost}))'
    BY ExposureIs, PTL
  <2>2. U \ {Lost} = U
    BY <1>8, <1>9, BudgetConstantsOK
  <2> QED
    BY <1>1, <1>3, <1>9, <2>1, <2>2
<1>13. ledger.spent + Reserved(ledger) + amount[t] <= ledger.limit
  BY <1>2, <1>5, <1>6, <1>7, <1>8 DEF Remaining
<1> QED
  BY <1>2, <1>5, <1>7, <1>8, <1>11, <1>12, <1>13

\* No other step adds a thread to the exposed ones.
LEMMA OnlyReserveExposes ==
    ASSUME BudgetInv, [Next]_vars, NEW t \in Thread, t \in exposed', t \notin exposed
    PROVE  \E ok \in BOOLEAN : Reserve(t, ok)
<1>1. CASE UNCHANGED vars
  BY <1>1 DEF vars, history
<1>2. ASSUME NEW n \in Limit \cup {NoLimit},
             \/ \E readable \in BOOLEAN : Load(n, readable)
             \/ \E ok \in BOOLEAN : SetLimit(n, ok)
             \/ Configure(n)
      PROVE  FALSE
  BY <1>2 DEF Load, SetLimit, Configure, history
<1>3. CASE Crash \/ LosePower
  BY <1>3, BudgetConstantsOK DEF Crash, LosePower, Die
<1>4. ASSUME NEW u \in Thread, NEW ok \in BOOLEAN, Reserve(u, ok) PROVE u = t
  BY <1>4 DEF Reserve
<1>5. ASSUME NEW u \in Thread, NEW ok \in BOOLEAN,
             Abandon(u, ok) \/ GiveUp(u, ok)
             \/ \E actual \in Costs(amount[u]) : Settle(u, actual, ok) \/ Charge(u, actual, ok)
      PROVE  FALSE
  BY <1>5 DEF Abandon, GiveUp, Settle, Charge, history
<1>6. ASSUME NEW u \in Thread,
             (\E a \in Amount : Begin(u, a)) \/ Refuse(u) \/ Exhaust(u) \/ Send(u) \/ Poison(u)
      PROVE  FALSE
  BY <1>6 DEF Begin, Refuse, Exhaust, Send, Poison, history
<1>7. ASSUME NEW c \in Child, NEW ok \in BOOLEAN, AdmitChild(c, ok) PROVE FALSE
  BY <1>7 DEF AdmitChild
<1> QED
  BY <1>1, <1>2, <1>3, <1>4, <1>5, <1>6, <1>7 DEF Next

-----------------------------------------------------------------------------
(* The theorems.                                                           *)

\* The variables of the ledger keep their types.
THEOREM TypeCorrect == Spec => []TypeOK
<1>1. BudgetInv => TypeOK
  BY DEF BudgetInv
<1> QED
  BY <1>1, SpecInv, PTL

\* A request under way has a reservation of its own, for its own amount:
\* settle_request never releases what another thread has reserved.
THEOREM AlwaysOwnReservation == Spec => []OwnReservation
<1>1. BudgetInv => OwnReservation
  BY DEF BudgetInv
<1> QED
  BY <1>1, SpecInv, PTL

\* Wherever the process dies or the machine loses power, load finds a ledger
\* that it does not trust or that holds the cost of all that was admitted.
THEOREM RestartAlwaysConservative == Spec => []RestartIsConservative
<1>1. BudgetInv => RestartIsConservative
  BY DEF BudgetInv
<1> QED
  BY <1>1, SpecInv, PTL

\* After a cost beyond its bound neither this process nor a later one trusts
\* the ledger.
THEOREM OverrunAlwaysStops == Spec => []OverrunStops
<1>1. BudgetInv => OverrunStops
  BY DEF BudgetInv
<1> QED
  BY <1>1, SpecInv, PTL

\* reserve_child admits no more than MAX_ROOT_CHILDREN children over all
\* retries, failed saves and restarts.
THEOREM ChildrenAlwaysBounded == Spec => []ChildrenBounded
<1>1. BudgetInv => ChildrenBounded
  BY DEF BudgetInv, ChildrenInv
<1> QED
  BY <1>1, SpecInv, PTL

\* The limit is a hard one: whenever reserve_request admits a request under a
\* limit, what such requests have cost and may still cost is within it.
THEOREM LimitAlwaysHolds == Spec => LimitHolds
<1>1. BudgetInv /\ [Next]_vars =>
        [\A t \in Thread : t \in exposed' \ exposed =>
            Lost \notin exposed /\ Exposure' <= ledger.limit]_vars
  BY OnlyReserveExposes, ReserveWithinLimit
<1> QED
  BY <1>1, SpecInv, PTL DEF Spec, LimitHolds
=============================================================================
