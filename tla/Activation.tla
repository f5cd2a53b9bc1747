----------------------------- MODULE Activation -----------------------------
(***************************************************************************)
(* Ordered, atomic, idempotent activation of price occurrences:            *)
(* smartcart/db_spike/activation.py, activate_occurrence, run by several   *)
(* PostgreSQL connections at once.                                         *)
(*                                                                         *)
(* One activation is one READ COMMITTED transaction.  Every statement of   *)
(* it that another connection can tell apart is an action: a statement     *)
(* sees what is committed plus the writes of its own transaction, which    *)
(* are kept in rows[w] and events[w] until COMMIT.  WriteLine alone takes  *)
(* a line's three statements at once (SELECT, upsert, history INSERT): the *)
(* store's rows and log are touched only under its lock, and a failure     *)
(* between two of them undoes the whole transaction either way.            *)
(* The Store row, taken FOR UPDATE, is the only thing that serialises two  *)
(* activations of one store; inserting an occurrence takes FOR KEY SHARE   *)
(* on that row for its foreign key and so waits for the same lock.         *)
(***************************************************************************)
EXTENDS Integers, Sequences

CONSTANTS
    Stores,        \* SmartCart's surrogate store identities
    Items,         \* raw item codes of the chain
    Prices,        \* typed prices
    Descriptions,  \* the five normalized facts of an item, as one value
    Times,         \* collected_at instants
    Occurrences,   \* occurrence_id values, in sequence order
    Workers,       \* database connections running activations
    Observations,  \* the facts a collector may insert: a subset of Facts
    Batches,       \* the inputs a caller may pass: a subset of Batch
    None           \* SQL NULL, an absent row, an idle worker's fields

Statuses == {"valid", "parse_failed", "validation_failed"}

\* A pricefull occurrence is the one that has a store (migration 0001's
\* artifact_occurrence_store_id_matches_kind), so the kind is not kept.
Facts == [store : Stores \cup {None}, validation : Statuses,
          collectedAt : Times]

Line == [item : Items, price : Prices, description : Descriptions \cup {None}]

\* What one call is given: legacy prices, or normalized items which all name
\* the store and the instant they were built for.
Batch == [mode : {"legacy", "normalized"}, store : Stores,
          collectedAt : Times, lines : Seq(Line)]

\* normalization_contract_version is 1 exactly when description is not NULL.
Row == [price : Prices, source : Occurrences,
        description : Descriptions \cup {None}]

Event == [item : Items, price : Prices, source : Occurrences]

Keys == Stores \X Items

NoRows == [k \in Keys |-> None]

ASSUME ActivationAssumption ==
    /\ Occurrences \subseteq Nat
    /\ Times \subseteq Nat
    /\ Observations \subseteq Facts
    /\ \A b \in Batches :
         /\ b \in Batch
         /\ \A n \in 1..Len(b.lines) :
              (b.mode = "legacy") <=> (b.lines[n].description = None)

ASSUME NoneAssumption ==
    /\ None \notin Stores
    /\ None \notin Workers
    /\ None \notin Occurrences
    /\ None \notin Descriptions
    /\ None \notin Facts
    /\ None \notin Batches
    /\ None \notin Row

-----------------------------------------------------------------------------
VARIABLES
    occurrence,    \* artifact_occurrence's immutable facts, or None
    resolution,    \* activation_outcome: "unresolved" is NULL
    currentState,  \* store_product_current_state
    priceHistory,  \* price_history, in price_history_id order per store
    lockOwner,     \* who holds a store row FOR UPDATE
    pc, target, batch, next,  \* a worker's statement, arguments, loop index
    rows, events   \* a worker's uncommitted writes

database == <<occurrence, resolution, currentState, priceHistory>>
arguments == <<target, batch>>
buffers == <<next, rows, events>>
vars == <<occurrence, resolution, currentState, priceHistory, lockOwner,
          pc, target, batch, next, rows, events>>

Resolved(o) == resolution[o] # "unresolved"

\* The rows both ordering queries range over: valid and store-scoped.
Eligible(o) ==
    /\ occurrence[o] # None
    /\ occurrence[o].store # None
    /\ occurrence[o].validation = "valid"

SameStore(a, b) == Eligible(a) /\ Eligible(b)
                   /\ occurrence[a].store = occurrence[b].store

\* (collected_at, occurrence_id) < (collected_at, occurrence_id)
Before(a, b) ==
    \/ occurrence[a].collectedAt < occurrence[b].collectedAt
    \/ occurrence[a].collectedAt = occurrence[b].collectedAt /\ a < b

\* Fault: the ordering query forgets the order.
AnyOtherUnresolved(o) ==
    {a \in Occurrences : SameStore(a, o) /\ a # o /\ ~Resolved(a)}

EarlierUnresolved(o) ==
    {a \in Occurrences : SameStore(a, o) /\ Before(a, o) /\ ~Resolved(a)}

LaterResolved(o) ==
    {a \in Occurrences : SameStore(a, o) /\ Before(o, a) /\ Resolved(a)}

StoreOf(w) == occurrence[target[w]].store

\* Fault: the store's agreement guard is missing.
AgreesOnInstantOnly(o, b) ==
    b.mode = "normalized" => b.collectedAt = occurrence[o].collectedAt

\* The three pre-mutation guards of ADR 0011 section 5 (a store determines
\* its chain, so the chain guard is part of the store guard).
Agrees(o, b) ==
    b.mode = "normalized" =>
        /\ b.store = occurrence[o].store
        /\ b.collectedAt = occurrence[o].collectedAt

-----------------------------------------------------------------------------
Init ==
    /\ occurrence = [o \in Occurrences |-> None]
    /\ resolution = [o \in Occurrences |-> "unresolved"]
    /\ currentState = NoRows
    /\ priceHistory = [s \in Stores |-> <<>>]
    /\ lockOwner = [s \in Stores |-> None]
    /\ pc = [w \in Workers |-> "idle"]
    /\ target = [w \in Workers |-> None]
    /\ batch = [w \in Workers |-> None]
    /\ next = [w \in Workers |-> 1]
    /\ rows = [w \in Workers |-> NoRows]
    /\ events = [w \in Workers |-> <<>>]

\* Fault: an insert does not wait for the store row.
InsertAnyTime(o, f) ==
    /\ occurrence[o] = None
    /\ occurrence' = [occurrence EXCEPT ![o] = f]
    /\ UNCHANGED <<resolution, currentState, priceHistory, lockOwner,
                   pc, arguments, buffers>>

\* insert_occurrence, one autocommitted INSERT.  Sequence values are handed
\* out before commit, so occurrences become visible in any order of ids.
Insert(o, f) ==
    /\ occurrence[o] = None
    /\ f.store # None => lockOwner[f.store] = None
    /\ occurrence' = [occurrence EXCEPT ![o] = f]
    /\ UNCHANGED <<resolution, currentState, priceHistory, lockOwner,
                   pc, arguments, buffers>>

Call(w, o, b) ==
    /\ pc[w] = "idle"
    /\ pc' = [pc EXCEPT ![w] = "reading"]
    /\ target' = [target EXCEPT ![w] = o]
    /\ batch' = [batch EXCEPT ![w] = b]
    /\ UNCHANGED <<database, lockOwner, buffers>>

\* Fault: a return path leaves the transaction open, its lock held.
ReturnInTransaction(w) ==
    /\ pc' = [pc EXCEPT ![w] = "idle"]
    /\ target' = [target EXCEPT ![w] = None]
    /\ batch' = [batch EXCEPT ![w] = None]
    /\ UNCHANGED <<buffers, lockOwner>>

\* The transaction ends: its buffers are gone and its lock, if any, is free.
EndTransaction(w) ==
    /\ pc' = [pc EXCEPT ![w] = "idle"]
    /\ target' = [target EXCEPT ![w] = None]
    /\ batch' = [batch EXCEPT ![w] = None]
    /\ next' = [next EXCEPT ![w] = 1]
    /\ rows' = [rows EXCEPT ![w] = NoRows]
    /\ events' = [events EXCEPT ![w] = <<>>]
    /\ lockOwner' = [s \in Stores |->
                       IF lockOwner[s] = w THEN None ELSE lockOwner[s]]

Accepted(w) == Eligible(target[w]) /\ Agrees(target[w], batch[w])

ReadFacts(w) ==
    /\ pc[w] = "reading"
    /\ Accepted(w)
    /\ pc' = [pc EXCEPT ![w] = "locking"]
    /\ UNCHANGED <<database, lockOwner, arguments, buffers>>

RaiseValueError(w) ==
    /\ pc[w] = "reading"
    /\ ~Accepted(w)
    /\ EndTransaction(w)
    /\ UNCHANGED database

\* Fault: the store row is read without FOR UPDATE.
ReadStore(w) ==
    /\ pc[w] = "locking"
    /\ lockOwner' = [lockOwner EXCEPT ![StoreOf(w)] = w]
    /\ pc' = [pc EXCEPT ![w] = "check_resolved"]
    /\ UNCHANGED <<database, arguments, buffers>>

LockStore(w) ==
    /\ pc[w] = "locking"
    /\ lockOwner[StoreOf(w)] = None
    /\ lockOwner' = [lockOwner EXCEPT ![StoreOf(w)] = w]
    /\ pc' = [pc EXCEPT ![w] = "check_resolved"]
    /\ UNCHANGED <<database, arguments, buffers>>

\* ALREADY_APPLIED: commits without a write.
ReturnAlreadyApplied(w) ==
    /\ pc[w] = "check_resolved"
    /\ Resolved(target[w])
    /\ EndTransaction(w)
    /\ UNCHANGED database

\* Fault: the resolution is not read again under the lock.
SkipResolvedCheck(w) ==
    /\ pc[w] = "check_resolved"
    /\ pc' = [pc EXCEPT ![w] = "check_earlier"]
    /\ UNCHANGED <<database, lockOwner, arguments, buffers>>

FindUnresolved(w) ==
    /\ pc[w] = "check_resolved"
    /\ ~Resolved(target[w])
    /\ pc' = [pc EXCEPT ![w] = "check_earlier"]
    /\ UNCHANGED <<database, lockOwner, arguments, buffers>>

\* DEFERRED: _DeferredError rolls back.
Defer(w) ==
    /\ pc[w] = "check_earlier"
    /\ EarlierUnresolved(target[w]) # {}
    /\ EndTransaction(w)
    /\ UNCHANGED database

FindNoneEarlier(w) ==
    /\ pc[w] = "check_earlier"
    /\ EarlierUnresolved(target[w]) = {}
    /\ pc' = [pc EXCEPT ![w] = "check_later"]
    /\ UNCHANGED <<database, lockOwner, arguments, buffers>>

\* Faults: staleness is never, or too easily, concluded.
NeverStale(w) ==
    /\ pc[w] = "check_later"
    /\ pc' = [pc EXCEPT ![w] = "writing"]
    /\ UNCHANGED <<database, lockOwner, arguments, buffers>>

StaleAfterAny(w) ==
    /\ pc[w] = "check_later"
    /\ pc' = [pc EXCEPT ![w] =
                IF \E a \in Occurrences : SameStore(a, target[w]) /\ Resolved(a)
                THEN "stale" ELSE "writing"]
    /\ UNCHANGED <<database, lockOwner, arguments, buffers>>

ChooseBranch(w) ==
    /\ pc[w] = "check_later"
    /\ pc' = [pc EXCEPT ![w] = IF LaterResolved(target[w]) # {}
                               THEN "stale" ELSE "writing"]
    /\ UNCHANGED <<database, lockOwner, arguments, buffers>>

\* Fault: the enum's name is stored, which migration 0003 does not know.
CommitStaleName(w) ==
    /\ pc[w] = "stale"
    /\ resolution' = [resolution EXCEPT ![target[w]] = "STALE_PRESERVED"]
    /\ EndTransaction(w)
    /\ UNCHANGED <<occurrence, currentState, priceHistory>>

CommitStale(w) ==
    /\ pc[w] = "stale"
    /\ resolution' = [resolution EXCEPT ![target[w]] = "stale_preserved"]
    /\ EndTransaction(w)
    /\ UNCHANGED <<occurrence, currentState, priceHistory>>

CurrentLine(w) == batch[w].lines[next[w]]

\* _current_price reads the row of the occurrence's own store; a statement
\* sees its transaction's writes over the committed ones.
VisibleRow(w) ==
    LET k == <<StoreOf(w), CurrentLine(w).item>>
    IN  IF rows[w][k] # None THEN rows[w][k] ELSE currentState[k]

\* The upsert's key: the legacy statement names the occurrence's store, the
\* normalized one the store the item was resolved to.
WrittenKey(w) ==
    <<IF batch[w].mode = "normalized" THEN batch[w].store ELSE StoreOf(w),
      CurrentLine(w).item>>

\* The legacy upsert leaves the five normalized facts and the contract
\* version of an existing row as they are.
WrittenRow(w) ==
    [price |-> CurrentLine(w).price,
     source |-> target[w],
     description |->
        IF batch[w].mode = "normalized" THEN CurrentLine(w).description
        ELSE IF VisibleRow(w) = None THEN None ELSE VisibleRow(w).description]

\* Fault: the existing price is read after the upsert.
PriceChangesAfterUpsert(w) == WrittenRow(w).price # CurrentLine(w).price

PriceChanges(w) ==
    VisibleRow(w) = None \/ VisibleRow(w).price # CurrentLine(w).price

\* UNIQUE (source_occurrence_id, chain_id, item_code_raw), migration 0002.
HasEvent(log, o, i) ==
    \E n \in 1..Len(log) : log[n].source = o /\ log[n].item = i

AlreadyRecorded(w) ==
    \/ HasEvent(priceHistory[StoreOf(w)], target[w], CurrentLine(w).item)
    \/ HasEvent(events[w], target[w], CurrentLine(w).item)

\* Fault: the upsert autocommits.
WriteLineAutocommit(w) ==
    /\ pc[w] = "writing"
    /\ next[w] <= Len(batch[w].lines)
    /\ currentState' = [currentState EXCEPT ![WrittenKey(w)] = WrittenRow(w)]
    /\ next' = [next EXCEPT ![w] = @ + 1]
    /\ UNCHANGED <<occurrence, resolution, priceHistory, lockOwner, pc,
                   arguments, rows, events>>

WriteLine(w) ==
    /\ pc[w] = "writing"
    /\ next[w] <= Len(batch[w].lines)
    /\ rows' = [rows EXCEPT ![w] = [@ EXCEPT ![WrittenKey(w)] = WrittenRow(w)]]
    /\ events' = IF PriceChanges(w) /\ ~AlreadyRecorded(w)
                 THEN [events EXCEPT ![w] =
                         Append(@, [item |-> CurrentLine(w).item,
                                    price |-> CurrentLine(w).price,
                                    source |-> target[w]])]
                 ELSE events
    /\ next' = [next EXCEPT ![w] = @ + 1]
    /\ UNCHANGED <<database, lockOwner, pc, arguments>>

CommitApplied(w) ==
    /\ pc[w] = "writing"
    /\ next[w] > Len(batch[w].lines)
    /\ resolution' = [resolution EXCEPT ![target[w]] = "applied"]
    /\ currentState' = [k \in Keys |-> IF rows[w][k] # None THEN rows[w][k]
                                       ELSE currentState[k]]
    /\ priceHistory' = [priceHistory EXCEPT ![StoreOf(w)] = @ \o events[w]]
    /\ EndTransaction(w)
    /\ UNCHANGED occurrence

\* Any statement may raise (a missing chain_product, a lost connection, a
\* killed client): transaction() rolls everything back.
Fail(w) ==
    /\ pc[w] # "idle"
    /\ EndTransaction(w)
    /\ UNCHANGED database

Advance(w) ==
    \/ ReadFacts(w) \/ RaiseValueError(w)
    \/ ReturnAlreadyApplied(w) \/ FindUnresolved(w)
    \/ Defer(w) \/ FindNoneEarlier(w)
    \/ ChooseBranch(w) \/ CommitStale(w)
    \/ WriteLine(w) \/ CommitApplied(w)

Next ==
    \/ \E o \in Occurrences, f \in Observations : Insert(o, f)
    \/ \E w \in Workers, o \in Occurrences, b \in Batches : Call(w, o, b)
    \/ \E w \in Workers : LockStore(w) \/ Advance(w) \/ Fail(w)

Spec == Init /\ [][Next]_vars

-----------------------------------------------------------------------------
(* Fairness.  A connection's statements return (PostgreSQL executes them),  *)
(* and a lock that is released again and again is granted in the end: row  *)
(* lock waiters queue.  Retrying is the caller's duty, by the docstring of *)
(* ActivationOutcome.DEFERRED; it is assumed only in RetrySpec.             *)
FairWorkers ==
    \A w \in Workers : WF_vars(Advance(w)) /\ SF_vars(LockStore(w))

FairSpec == Spec /\ FairWorkers

CallAgain(o) ==
    \E w \in Workers, b \in Batches :
        Eligible(o) /\ ~Resolved(o) /\ Agrees(o, b) /\ Call(w, o, b)

RetrySpec == FairSpec /\ \A o \in Occurrences : SF_vars(CallAgain(o))

-----------------------------------------------------------------------------
TypeOK ==
    /\ occurrence \in [Occurrences -> Facts \cup {None}]
    /\ resolution \in
         [Occurrences -> {"unresolved", "applied", "stale_preserved"}]
    /\ currentState \in [Keys -> Row \cup {None}]
    /\ priceHistory \in [Stores -> Seq(Event)]
    /\ lockOwner \in [Stores -> Workers \cup {None}]
    /\ pc \in [Workers -> {"idle", "reading", "locking", "check_resolved",
                           "check_earlier", "check_later", "stale",
                           "writing"}]
    /\ target \in [Workers -> Occurrences \cup {None}]
    /\ batch \in [Workers -> Batches \cup {None}]
    /\ next \in [Workers -> Nat \ {0}]
    /\ rows \in [Workers -> [Keys -> Row \cup {None}]]
    /\ events \in [Workers -> Seq(Event)]

\* An occurrence is applied only when every earlier valid occurrence of its
\* store is resolved and no later one is, whatever other connections insert
\* or activate meanwhile (steps 4 and 5 of activate_occurrence's algorithm
\* hold at COMMIT, not just when they were checked).
AppliesInOrder ==
    [][\A o \in Occurrences :
         resolution[o] = "unresolved" /\ resolution'[o] = "applied" =>
           EarlierUnresolved(o) = {} /\ LaterResolved(o) = {}]_vars

\* A valid occurrence is written off as stale only when a later one of its
\* store really was resolved before it, and then derived state stays put.
StaleOnlyWhenOvertaken ==
    [][\A o \in Occurrences :
         resolution[o] = "unresolved" /\ resolution'[o] = "stale_preserved" =>
           /\ LaterResolved(o) # {}
           /\ UNCHANGED <<currentState, priceHistory>>]_vars

\* An outcome, once recorded, is final (migration 0003: "permanent").
OutcomeIsFinal ==
    [][\A o \in Occurrences : Resolved(o) => resolution'[o] = resolution[o]]_vars

\* CurrentState and PriceHistory only ever reference applied occurrences of
\* their own store: nothing of a stale, deferred, failed or foreign
\* occurrence is visible.
DerivedFromApplied ==
    /\ \A k \in Keys : currentState[k] # None =>
         LET o == currentState[k].source
         IN  resolution[o] = "applied" /\ occurrence[o].store = k[1]
    /\ \A s \in Stores : \A n \in 1..Len(priceHistory[s]) :
         LET o == priceHistory[s][n].source
         IN  resolution[o] = "applied" /\ occurrence[o].store = s

\* A product's current price never goes back to an earlier observation.
CurrentStateNeverRegresses ==
    [][\A k \in Keys : currentState[k] # None =>
         /\ currentState'[k] # None
         /\ ~Before(currentState'[k].source, currentState[k].source)]_vars

\* price_history_id order is observation order within a store.
HistoryInOrder ==
    \A s \in Stores : \A m, n \in 1..Len(priceHistory[s]) :
        m < n => ~Before(priceHistory[s][n].source, priceHistory[s][m].source)

\* Event n is the next one of its product after event m.
NextEvent(log, m, n) ==
    /\ m < n
    /\ log[m].item = log[n].item
    /\ \A k \in (m + 1)..(n - 1) : log[k].item # log[n].item

IsLastEvent(log, n) == \A k \in (n + 1)..Len(log) : log[k].item # log[n].item

\* An occurrence whose event of item i has price p may leave i at price q: a
\* batch that names i twice leaves the row of the last line, while UNIQUE
\* (source_occurrence_id, ...) lets in the event of the first change only.
EndsAt(i, p, q) ==
    \/ p = q
    \/ \E b \in Batches : \E m, n \in 1..Len(b.lines) :
         /\ m < n
         /\ b.lines[m].item = i /\ b.lines[m].price = p
         /\ b.lines[n].item = i /\ b.lines[n].price = q

\* The history of a product ends at its current price, and no event repeats
\* the price before it: an event for every typed change and for no other.  Of
\* a product that some batch names at two prices (the validators only warn of
\* it), an occurrence's event tells the price up to EndsAt.
HistoryExplainsCurrentPrice ==
    \A s \in Stores :
        LET log == priceHistory[s]
        IN  /\ \A i \in Items : currentState[<<s, i>>] # None =>
                 \E n \in 1..Len(log) : log[n].item = i /\ IsLastEvent(log, n)
            /\ \A n \in 1..Len(log) : IsLastEvent(log, n) =>
                 /\ currentState[<<s, log[n].item>>] # None
                 /\ EndsAt(log[n].item, log[n].price,
                           currentState[<<s, log[n].item>>].price)
            /\ \A m, n \in 1..Len(log) : NextEvent(log, m, n) =>
                 \E q \in Prices :
                   EndsAt(log[m].item, log[m].price, q) /\ q # log[n].price

\* Every started call returns: no activation waits for ever for a store.
CallsReturn == \A w \in Workers : pc[w] # "idle" ~> pc[w] = "idle"

\* Every end of a transaction is one that the code comes to by itself.
FailureFree ==
    [][\A w \in Workers :
         Fail(w) => Defer(w) \/ ReturnAlreadyApplied(w) \/ RaiseValueError(w)]_vars

\* If failures stop and the caller keeps retrying, a valid occurrence is
\* resolved in the end: deferral and staleness never starve one.
EventuallyResolved ==
    <>FailureFree =>
        \A o \in Occurrences : Eligible(o) ~> Resolved(o)

=============================================================================
