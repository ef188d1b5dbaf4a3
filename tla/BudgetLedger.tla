---------------------------- MODULE BudgetLedger ----------------------------
(***************************************************************************)
(* The cost ledger of a glass-core session                                 *)
(* (crates/glass-core/src/budget.rs): the threads of one process (parent,  *)
(* children, side requests, cache warmer) reserve the largest possible     *)
(* cost of a request before they send it and settle it afterwards.  Every  *)
(* change is made under the ledger's lock, and written to a file before    *)
(* the lock is released.                                                   *)
(*                                                                         *)
(* Dollars are natural numbers.  A save may fail before the new file is in *)
(* place, or after it, when the directory cannot be synced; the process    *)
(* may die, and the machine may lose power, at any point.                  *)
(***************************************************************************)
EXTENDS Integers, FiniteSets, FiniteSetsExt

CONSTANTS
    Thread,          \* the threads that send requests
    Amount,          \* the cost bounds of requests
    Limit,           \* the limits a user may set
    NoLimit,         \* no limit is set
    Child,           \* the IDs of delegated tasks
    MaxChildren,     \* MAX_ROOT_CHILDREN
    MaxOutstanding,  \* MAX_OUTSTANDING_REQUESTS
    MaxId,           \* the largest reservation ID (u64::MAX)
    MaxRequests,     \* bound on the requests of a behaviour
    Lost             \* a request of a process that has died

ASSUME BudgetConstantsOK ==
    /\ Amount \subseteq Nat \ {0}
    /\ Limit \subseteq Nat \ {0}
    /\ NoLimit \notin Limit
    /\ MaxChildren \in Nat
    /\ MaxOutstanding \in Nat
    /\ MaxId \in Nat
    /\ MaxRequests \in Nat
    /\ Lost \notin Thread

VARIABLES
    up,        \* whether the process runs
    ledger,    \* the ledger in memory
    disk,      \* the ledger in the file
    stable,    \* what a loss of power may turn the file back into
    pc,        \* where each thread is in sending a request
    amount,    \* the cost bound of each thread's request
    ticket,    \* each thread's reservation, if it has one
    requests,  \* the number of requests begun
    exposed,   \* the threads whose request was reserved under a limit and is
               \* not settled; Lost, if one of them died with its process
    billed,    \* what the settled ones of these requests have cost
    overrun,   \* whether one of them cost more than was reserved
    admitted   \* the children admitted under a limit by a record that is synced

files == <<disk, stable>>
threads == <<pc, amount, ticket, requests>>
history == <<exposed, billed, overrun, admitted>>
vars == <<up, ledger, files, threads, history>>

Default == [spent |-> 0, limit |-> NoLimit, unknown |-> FALSE,
            reservations |-> [i \in {} |-> 0], next |-> 0, children |-> {}]
Ids == 0..MaxId
NoTicket == MaxId + 1

\* Ledger::reserved
Reserved(l) == MapThenSumSet(LAMBDA i : l.reservations[i], DOMAIN l.reservations)

Limited(l) == l.limit # NoLimit
Remaining(l) == IF l.spent + Reserved(l) < l.limit THEN l.limit - (l.spent + Reserved(l)) ELSE 0

Init ==
    /\ up = FALSE
    /\ ledger = Default
    /\ disk = Default
    /\ stable = Default
    /\ pc = [t \in Thread |-> "idle"]
    /\ amount = [t \in Thread |-> 0]
    /\ ticket = [t \in Thread |-> NoTicket]
    /\ requests = 0
    /\ exposed = {}
    /\ billed = 0
    /\ overrun = FALSE
    /\ admitted = {}

-----------------------------------------------------------------------------
(* The file.                                                               *)

\* save writes a temporary file, syncs it, renames it and syncs the
\* directory; when it fails the new file may be in place all the same.
Persist(l, ok) ==
    IF ok THEN disk' = l /\ stable' = l
          ELSE disk' \in {disk, l} /\ UNCHANGED stable

\* A ledger that could not be saved is not trusted by its own process either.
Keep(l, ok) ==
    /\ Persist(l, ok)
    /\ ledger' = [l EXCEPT !.unknown = @ \/ ~ok]

\* A reservation found in the file belongs to a request whose fate nobody
\* knows any more.
Trusted(l) == [l EXCEPT !.unknown = @ \/ DOMAIN l.reservations # {}]

\* load; a limit from the configuration replaces the saved one.
Load(configured, readable) ==
    LET l == IF readable THEN Trusted(disk) ELSE [Default EXCEPT !.unknown = TRUE]
    IN  /\ ~up
        /\ up' = TRUE
        /\ ledger' = IF configured = NoLimit THEN l ELSE [l EXCEPT !.limit = configured]
        /\ UNCHANGED <<files, threads, history>>

\* The process dies.
Die ==
    /\ up' = FALSE
    /\ ledger' = Default
    /\ pc' = [t \in Thread |-> "idle"]
    /\ amount' = [t \in Thread |-> 0]
    /\ ticket' = [t \in Thread |-> NoTicket]
    /\ exposed' = IF exposed = {} THEN {} ELSE {Lost}
    /\ UNCHANGED <<requests, billed, overrun, admitted>>

Crash == up /\ Die /\ UNCHANGED files

LosePower ==
    /\ Die
    /\ disk' = stable
    /\ UNCHANGED stable

-----------------------------------------------------------------------------
(* A request: Metered::stream and the drop of its Meter.                   *)

Done(t) ==
    /\ pc' = [pc EXCEPT ![t] = "idle"]
    /\ amount' = [amount EXCEPT ![t] = 0]
    /\ ticket' = [ticket EXCEPT ![t] = NoTicket]
    /\ UNCHANGED requests

\* Whether a reservation is needed is read under the lock, which is then
\* released.
Begin(t, a) ==
    /\ up
    /\ pc[t] = "idle"
    /\ requests < MaxRequests
    /\ requests' = requests + 1
    /\ pc' = [pc EXCEPT ![t] = IF Limited(ledger) THEN "reserve" ELSE "ready"]
    /\ amount' = [amount EXCEPT ![t] = a]
    /\ UNCHANGED <<up, ledger, files, ticket, history>>

\* Mutant of Fits: what is reserved is not counted.
FitsSpent(l, a) == ~l.unknown /\ l.spent + a <= l.limit

Fits(l, a) == ~l.unknown /\ a <= Remaining(l)

MayReserve(l, a) ==
    /\ Cardinality(DOMAIN l.reservations) < MaxOutstanding
    /\ Limited(l) => Fits(l, a)

\* reserve_request turns the request down.
Refuse(t) ==
    /\ pc[t] = "reserve"
    /\ ~MayReserve(ledger, amount[t])
    /\ Done(t)
    /\ UNCHANGED <<up, ledger, files, history>>

\* Mutant of HasIds: the check is made after the last ID is used.
HasIdsLate(l) == l.next <= MaxId

\* checked_add finds another ID.
HasIds(l) == l.next < MaxId

\* The reservation IDs are used up.
Exhaust(t) ==
    /\ pc[t] = "reserve"
    /\ MayReserve(ledger, amount[t])
    /\ ~HasIds(ledger)
    /\ ledger' = [ledger EXCEPT !.unknown = TRUE]
    /\ \E ok \in BOOLEAN : Persist(ledger', ok)
    /\ Done(t)
    /\ UNCHANGED <<up, history>>

\* Mutant of NextId: IDs are handed out again once they are free.
NextIdFree(l) == Cardinality(DOMAIN l.reservations)

NextId(l) == l.next + 1

\* Mutant of Admitted: a reservation that could not be saved is good enough.
AdmittedUnsaved(l, ok) == TRUE

\* Under a limit the request is sent only if its reservation is in the file.
Admitted(l, ok) == ok \/ ~Limited(l)

Reserve(t, ok) ==
    LET id == ledger.next
        l == [ledger EXCEPT !.next = NextId(ledger),
                            !.reservations = [i \in DOMAIN @ \cup {id} |->
                                                IF i = id THEN amount[t] ELSE @[i]]]
    IN  /\ pc[t] = "reserve"
        /\ MayReserve(ledger, amount[t])
        /\ HasIds(ledger)
        /\ Keep(l, ok)
        /\ IF Admitted(l, ok)
           THEN /\ pc' = [pc EXCEPT ![t] = "ready"]
                /\ ticket' = [ticket EXCEPT ![t] = id]
                /\ exposed' = IF Limited(l) THEN exposed \cup {t} ELSE exposed
                /\ UNCHANGED <<amount, requests>>
           ELSE Done(t) /\ UNCHANGED exposed
        /\ UNCHANGED <<up, billed, overrun, admitted>>

Without(l, id) == [l EXCEPT !.reservations = [i \in DOMAIN @ \ {id} |-> @[i]]]

\* The request is not sent after all (max_tokens = 0).
Abandon(t, ok) ==
    /\ pc[t] = "ready"
    /\ IF ticket[t] = NoTicket THEN UNCHANGED <<ledger, files>>
       ELSE Keep(Without(ledger, ticket[t]), ok)
    /\ exposed' = exposed \ {t}
    /\ Done(t)
    /\ UNCHANGED <<up, billed, overrun, admitted>>

\* The request goes to the provider.
Send(t) ==
    /\ pc[t] = "ready"
    /\ pc' = [pc EXCEPT ![t] = "sent"]
    /\ UNCHANGED <<up, ledger, files, amount, ticket, requests, history>>

\* The provider fails, or reports no usage or not all of it.
GiveUp(t, ok) ==
    /\ pc[t] = "sent"
    /\ ledger' = [ledger EXCEPT !.unknown = TRUE]
    /\ Persist(ledger', ok)
    /\ Done(t)
    /\ UNCHANGED <<up, history>>

\* Mutant of Settled: an overrun is noticed only after the ledger is saved.
SettledQuietly(l, id, actual) == [Without(l, id) EXCEPT !.spent = @ + actual]

Settled(l, id, actual) ==
    [Without(l, id) EXCEPT !.spent = @ + actual, !.unknown = @ \/ actual > l.reservations[id]]

\* The usage is known and the reservation is settled.
Settle(t, actual, ok) ==
    /\ pc[t] = "sent"
    /\ ticket[t] # NoTicket
    /\ IF ticket[t] \in DOMAIN ledger.reservations
       THEN Keep(Settled(ledger, ticket[t], actual), ok)
       ELSE UNCHANGED <<ledger, files>>
    /\ exposed' = exposed \ {t}
    /\ billed' = IF t \in exposed THEN billed + actual ELSE billed
    /\ overrun' = (overrun \/ (t \in exposed /\ actual > amount[t]))
    /\ Done(t)
    /\ UNCHANGED <<up, admitted>>

\* The usage of a request without a reservation is known.
Charge(t, actual, ok) ==
    /\ pc[t] = "sent"
    /\ ticket[t] = NoTicket
    /\ Keep([ledger EXCEPT !.spent = @ + actual], ok)
    /\ Done(t)
    /\ UNCHANGED <<up, history>>

\* A thread panics while it settles: whoever takes the lock next finds it
\* poisoned and does not trust what is left.
Poison(t) ==
    /\ pc[t] = "sent"
    /\ ledger' = [(IF ticket[t] = NoTicket THEN ledger ELSE Without(ledger, ticket[t]))
                     EXCEPT !.unknown = TRUE]
    /\ Done(t)
    /\ UNCHANGED <<up, files, history>>

-----------------------------------------------------------------------------
(* The rest of the process.                                                *)

\* /budget
SetLimit(n, ok) ==
    /\ up
    /\ ledger.limit # n
    /\ Keep([ledger EXCEPT !.limit = n], ok)
    /\ UNCHANGED <<up, threads, history>>

\* Context::set_limit, when a conversation is configured: only in memory.
Configure(n) ==
    /\ up
    /\ n # NoLimit
    /\ ledger.limit # n
    /\ ledger' = [ledger EXCEPT !.limit = n]
    /\ UNCHANGED <<up, files, threads, history>>

\* Mutant of MayAdmit: the ceiling is off by one.
MayAdmitMore(l) ==
    ~l.unknown /\ Cardinality(l.children) <= MaxChildren /\ Remaining(l) > 0

MayAdmit(l) ==
    ~l.unknown /\ Cardinality(l.children) < MaxChildren /\ Remaining(l) > 0

\* reserve_child; a known child, and every child without a limit, passes.
AdmitChild(c, ok) ==
    /\ up
    /\ Limited(ledger)
    /\ IF c \in ledger.children
       THEN ~ledger.unknown /\ UNCHANGED <<ledger, files>>
       ELSE MayAdmit(ledger) /\ Keep([ledger EXCEPT !.children = @ \cup {c}], ok)
    /\ admitted' = IF ok /\ c \in stable'.children THEN admitted \cup {c} ELSE admitted
    /\ UNCHANGED <<up, threads, exposed, billed, overrun>>

\* The costs of a request that are told apart: one within its bound, and one
\* above it, which the provider may charge all the same.
Costs(a) == {a - 1, a + 1}

Next ==
    \/ \E n \in Limit \cup {NoLimit} :
        \/ \E readable \in BOOLEAN : Load(n, readable)
        \/ \E ok \in BOOLEAN : SetLimit(n, ok)
        \/ Configure(n)
    \/ Crash
    \/ LosePower
    \/ \E t \in Thread :
        \/ \E a \in Amount : Begin(t, a)
        \/ Refuse(t)
        \/ Exhaust(t)
        \/ Send(t)
        \/ Poison(t)
        \/ \E ok \in BOOLEAN :
            \/ Reserve(t, ok)
            \/ Abandon(t, ok)
            \/ GiveUp(t, ok)
            \/ \E actual \in Costs(amount[t]) : Settle(t, actual, ok) \/ Charge(t, actual, ok)
    \/ \E c \in Child, ok \in BOOLEAN : AdmitChild(c, ok)

Spec == Init /\ [][Next]_vars
-----------------------------------------------------------------------------
(* Properties.                                                             *)

LedgerType ==
    [spent : Nat, limit : Limit \cup {NoLimit}, unknown : BOOLEAN,
     reservations : UNION {[S -> Amount] : S \in SUBSET Ids},
     next : Ids, children : SUBSET Child]

\* Every variable has its type.
TypeOK ==
    /\ up \in BOOLEAN
    /\ {ledger, disk, stable} \subseteq LedgerType
    /\ pc \in [Thread -> {"idle", "reserve", "ready", "sent"}]
    /\ amount \in [Thread -> Amount \cup {0}]
    /\ ticket \in [Thread -> Ids \cup {NoTicket}]
    /\ requests \in 0..MaxRequests
    /\ exposed \subseteq Thread \cup {Lost}
    /\ billed \in Nat
    /\ overrun \in BOOLEAN
    /\ admitted \subseteq Child

\* Each request that is being sent is covered by a reservation of its own,
\* for its own amount, so that a settlement (settle_request) never releases
\* what another thread has reserved.
OwnReservation ==
    \A t \in Thread : ticket[t] # NoTicket =>
        /\ ticket[t] \in DOMAIN ledger.reservations
        /\ ledger.reservations[ticket[t]] = amount[t]
        /\ \A u \in Thread \ {t} : ticket[u] # ticket[t]

\* What the requests of this limit can have cost at most, if all that are
\* under way cost as much as was reserved.
Exposure == billed + MapThenSumSet(LAMBDA t : amount[t], exposed \ {Lost})

\* The limit is a hard one: when a request is admitted under a limit, what the
\* requests admitted under limits have cost and may still cost is within it,
\* for every interleaving of the threads and across restarts; no request of a
\* dead process is forgotten (reserve_request, load).
LimitHolds ==
    [][\A t \in Thread : t \in exposed' \ exposed =>
          Lost \notin exposed /\ Exposure' <= ledger.limit]_vars

\* Whenever the process dies or the machine loses power, the ledger that the
\* next process loads is either not trusted, or holds the cost of every
\* request admitted under a limit, none of which is unsettled: "a restart
\* remains conservative".
RestartIsConservative ==
    \A l \in {disk, stable} :
        Trusted(l).unknown \/ (exposed = {} /\ billed <= l.spent)

\* A provider that charged more than the bound is not sent another request
\* under a limit, by this process or a later one: "refuse further calls because
\* the assumptions that made the configured hard limit safe failed".
OverrunStops ==
    overrun => (up => ledger.unknown) /\ \A l \in {disk, stable} : Trusted(l).unknown

\* "hard lifetime ceiling for child sessions": counted over retries, failed
\* saves and restarts (reserve_child).  A child whose record was never
\* synced does not count: a loss of power can take it back.
ChildrenBounded == Cardinality(admitted) <= MaxChildren
=============================================================================
