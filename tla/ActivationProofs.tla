-------------------------- MODULE ActivationProofs --------------------------
(***************************************************************************)
(* Theorems about Activation, for every number of stores, occurrences,     *)
(* items and connections.                                                  *)
(***************************************************************************)
EXTENDS ActivationRefinement, TLAPS

\* A connection that has begun a call has its arguments.
ArgumentsInv ==
    \A w \in Workers :
        pc[w] # "idle" => target[w] \in Occurrences /\ batch[w] \in Batches

\* Between FOR UPDATE and the end of the transaction.
Holding(w) == pc[w] \in {"check_resolved", "check_earlier", "check_later",
                         "stale", "writing"}

\* A connection past its unlocked read works on a valid occurrence of a
\* store, and it holds that store's row exactly from FOR UPDATE to the end.
HolderInv ==
    \A w \in Workers :
        /\ pc[w] = "locking" \/ Holding(w) => Accepted(w)
        /\ \A s \in Stores :
             lockOwner[s] = w <=> Holding(w) /\ StoreOf(w) = s

\* What a connection found under the lock is still true.
DecisionInv ==
    \A w \in Workers :
        /\ pc[w] \in {"check_earlier", "check_later", "stale", "writing"}
             => ~Resolved(target[w])
        /\ pc[w] \in {"check_later", "stale", "writing"}
             => EarlierUnresolved(target[w]) = {}
        /\ pc[w] = "stale" => LaterResolved(target[w]) # {}
        /\ pc[w] = "writing" => LaterResolved(target[w]) = {}

\* Uncommitted writes are of the occurrence being applied and of its store.
BufferInv ==
    \A w \in Workers :
        /\ \A k \in Keys : rows[w][k] # None =>
             /\ pc[w] = "writing"
             /\ rows[w][k].source = target[w]
             /\ k[1] = StoreOf(w)
        /\ \A n \in 1..Len(events[w]) :
             pc[w] = "writing" /\ events[w][n].source = target[w]

\* Only valid store-scoped occurrences are ever resolved.
ResolvedInv == \A o \in Occurrences : Resolved(o) => Eligible(o)

IInv == /\ TypeOK /\ ArgumentsInv /\ HolderInv /\ DecisionInv
        /\ BufferInv /\ ResolvedInv /\ DerivedFromApplied /\ HistoryInOrder

-----------------------------------------------------------------------------
\* The initial database and idle connections satisfy the invariant.
LEMMA InitIInv == Init => IInv
<1> SUFFICES ASSUME Init PROVE IInv
  OBVIOUS
<1> USE NoneAssumption DEF Init
<1>1. TypeOK
  BY DEF TypeOK, NoRows
<1>2. ArgumentsInv /\ HolderInv /\ DecisionInv
  BY DEF ArgumentsInv, HolderInv, DecisionInv, Holding
<1>3. BufferInv
  BY DEF BufferInv, NoRows
<1>4. ResolvedInv
  BY DEF ResolvedInv, Resolved
<1>5. DerivedFromApplied /\ HistoryInOrder
  BY DEF DerivedFromApplied, HistoryInOrder, NoRows
<1> QED
  BY <1>1, <1>2, <1>3, <1>4, <1>5 DEF IInv

\* The fields of a call's batch and of the line its loop is at.
LEMMA LineType ==
    ASSUME TypeOK, ArgumentsInv, NEW w \in Workers, pc[w] = "writing",
           next[w] <= Len(batch[w].lines)
    PROVE  /\ CurrentLine(w) \in Line
           /\ batch[w].mode \in {"legacy", "normalized"}
<1>1. batch[w] \in Batch
  BY ActivationAssumption DEF ArgumentsInv
<1>2. next[w] \in 1..Len(batch[w].lines)
  BY <1>1 DEF TypeOK, Batch
<1> QED
  BY <1>1, <1>2 DEF Batch, CurrentLine

\* A connection past its unlocked read works for a store.
LEMMA StoreType ==
    ASSUME TypeOK, ArgumentsInv, HolderInv, NEW w \in Workers,
           pc[w] = "locking" \/ Holding(w)
    PROVE  /\ target[w] \in Occurrences
           /\ Eligible(target[w])
           /\ occurrence[target[w]] \in Facts
           /\ StoreOf(w) \in Stores
<1>1. Accepted(w) /\ target[w] \in Occurrences
  BY DEF HolderInv, ArgumentsInv, Holding
<1>2. Eligible(target[w])
  BY <1>1 DEF Accepted
<1> QED
  BY <1>1, <1>2 DEF TypeOK, Eligible, Facts, StoreOf

\* A row written by the loop is a row, whatever row it replaces.
LEMMA WrittenRowType ==
    ASSUME TypeOK, ArgumentsInv, HolderInv, NEW w \in Workers,
           pc[w] = "writing", next[w] <= Len(batch[w].lines)
    PROVE  /\ WrittenRow(w) \in Row
           /\ WrittenRow(w).source = target[w]
           /\ WrittenKey(w) \in Keys
           /\ WrittenKey(w)[1] = StoreOf(w)
<1>1. CurrentLine(w) \in Line
  BY LineType
<1>2. target[w] \in Occurrences /\ StoreOf(w) \in Stores /\ Accepted(w)
  BY StoreType DEF Holding, HolderInv
<1>3. batch[w] \in Batch
  BY ActivationAssumption DEF ArgumentsInv
<1>4. <<StoreOf(w), CurrentLine(w).item>> \in Keys
  BY <1>1, <1>2 DEF Line, Keys
<1>5. VisibleRow(w) \in Row \cup {None}
  BY <1>4 DEF VisibleRow, TypeOK
<1>6. WrittenKey(w) = <<StoreOf(w), CurrentLine(w).item>>
  BY <1>2 DEF WrittenKey, Accepted, Agrees, StoreOf
<1>7. WrittenRow(w) \in Row /\ WrittenRow(w).source = target[w]
  BY <1>1, <1>2, <1>5 DEF WrittenRow, Row, Line
<1> QED
  BY <1>4, <1>6, <1>7

-----------------------------------------------------------------------------
\* Ending a transaction leaves well-typed connections and locks.
LEMMA EndTransactionType ==
    ASSUME TypeOK, NEW w \in Workers, EndTransaction(w)
    PROVE  /\ lockOwner' \in [Stores -> Workers \cup {None}]
           /\ pc' = [pc EXCEPT ![w] = "idle"]
           /\ target' \in [Workers -> Occurrences \cup {None}]
           /\ batch' \in [Workers -> Batches \cup {None}]
           /\ next' \in [Workers -> Nat \ {0}]
           /\ rows' \in [Workers -> [Keys -> Row \cup {None}]]
           /\ events' \in [Workers -> Seq(Event)]
  BY DEF TypeOK, EndTransaction, NoRows

\* Every step keeps the types.
LEMMA StepTypeOK ==
    ASSUME TypeOK, ArgumentsInv, HolderInv, [Next]_vars
    PROVE  TypeOK'
<1>1. ASSUME NEW o \in Occurrences, NEW f \in Observations, Insert(o, f)
      PROVE  TypeOK'
  BY <1>1, ActivationAssumption
     DEF TypeOK, Insert, arguments, buffers
<1>2. ASSUME NEW w \in Workers, NEW o \in Occurrences, NEW b \in Batches,
             Call(w, o, b)
      PROVE  TypeOK'
  BY <1>2 DEF TypeOK, Call, database, buffers
<1>3. ASSUME NEW w \in Workers, EndTransaction(w), UNCHANGED database
      PROVE  TypeOK'
  BY <1>3 DEF TypeOK, EndTransaction, database, NoRows
<1>4. ASSUME NEW w \in Workers, LockStore(w)
      PROVE  TypeOK'
  BY <1>4 DEF TypeOK, LockStore, database, arguments, buffers
<1>5. ASSUME NEW w \in Workers,
             ReadFacts(w) \/ FindUnresolved(w) \/ FindNoneEarlier(w)
               \/ ChooseBranch(w)
      PROVE  TypeOK'
  BY <1>5 DEF TypeOK, ReadFacts, FindUnresolved, FindNoneEarlier,
              ChooseBranch, database, arguments, buffers
<1>6. ASSUME NEW w \in Workers, CommitStale(w)
      PROVE  TypeOK'
  <2>1. resolution' \in
          [Occurrences -> {"unresolved", "applied", "stale_preserved"}]
    BY <1>6 DEF CommitStale, TypeOK
  <2> QED
    BY <1>6, <2>1, EndTransactionType DEF TypeOK, CommitStale
<1>7. ASSUME NEW w \in Workers, WriteLine(w)
      PROVE  TypeOK'
  <2>1. WrittenRow(w) \in Row /\ WrittenKey(w) \in Keys
    BY <1>7, WrittenRowType DEF WriteLine
  <2>2. rows' \in [Workers -> [Keys -> Row \cup {None}]]
    BY <1>7, <2>1 DEF WriteLine, TypeOK
  <2>3. [item |-> CurrentLine(w).item, price |-> CurrentLine(w).price,
         source |-> target[w]] \in Event
    BY <1>7, LineType, StoreType DEF WriteLine, Holding, Line, Event
  <2>4. events' \in [Workers -> Seq(Event)]
    BY <1>7, <2>3 DEF WriteLine, TypeOK
  <2>5. next' \in [Workers -> Nat \ {0}]
    BY <1>7 DEF WriteLine, TypeOK
  <2> QED
    BY <1>7, <2>2, <2>4, <2>5 DEF TypeOK, WriteLine, database, arguments
<1>8. ASSUME NEW w \in Workers, CommitApplied(w)
      PROVE  TypeOK'
  <2>1. currentState' \in [Keys -> Row \cup {None}]
    BY <1>8 DEF CommitApplied, TypeOK
  <2>2. priceHistory' \in [Stores -> Seq(Event)]
    <3>1. StoreOf(w) \in Stores
      BY <1>8, StoreType DEF CommitApplied, Holding
    <3>2. priceHistory[StoreOf(w)] \o events[w] \in Seq(Event)
      BY <3>1 DEF TypeOK
    <3> QED
      BY <1>8, <3>1, <3>2 DEF CommitApplied, TypeOK
  <2>3. resolution' \in
          [Occurrences -> {"unresolved", "applied", "stale_preserved"}]
    BY <1>8 DEF CommitApplied, TypeOK
  <2> QED
    BY <1>8, <2>1, <2>2, <2>3, EndTransactionType DEF TypeOK, CommitApplied
<1>9. CASE UNCHANGED vars
  BY <1>9 DEF TypeOK, vars
<1> QED
  BY <1>1, <1>2, <1>3, <1>4, <1>5, <1>6, <1>7, <1>8, <1>9
     DEF Next, Advance, Fail, RaiseValueError, ReturnAlreadyApplied, Defer

\* Every step keeps the arguments of the calls under way.
LEMMA StepArguments ==
    ASSUME TypeOK, ArgumentsInv, [Next]_vars
    PROVE  ArgumentsInv'
<1>1. ASSUME NEW w \in Workers, EndTransaction(w)
      PROVE  ArgumentsInv'
  BY <1>1 DEF ArgumentsInv, EndTransaction, TypeOK
<1>2. ASSUME NEW w \in Workers, NEW o \in Occurrences, NEW b \in Batches,
             Call(w, o, b)
      PROVE  ArgumentsInv'
  BY <1>2 DEF ArgumentsInv, Call, TypeOK
<1>3. ASSUME NEW w \in Workers,
             \/ ReadFacts(w) \/ LockStore(w) \/ FindUnresolved(w)
             \/ FindNoneEarlier(w) \/ ChooseBranch(w) \/ WriteLine(w)
      PROVE  ArgumentsInv'
  BY <1>3 DEF ArgumentsInv, ReadFacts, LockStore, FindUnresolved,
              FindNoneEarlier, ChooseBranch, WriteLine, arguments, TypeOK
<1>4. ASSUME UNCHANGED <<pc, target, batch>>
      PROVE  ArgumentsInv'
  BY <1>4 DEF ArgumentsInv
<1> QED
  BY <1>1, <1>2, <1>3, <1>4
     DEF Next, Advance, Fail, Insert, RaiseValueError, ReturnAlreadyApplied,
         Defer, CommitStale, CommitApplied, arguments, vars

\* Every step keeps the facts read, and ties each lock to the connection
\* between FOR UPDATE and the end of its transaction.
LEMMA StepHolder ==
    ASSUME TypeOK, ArgumentsInv, HolderInv, [Next]_vars
    PROVE  HolderInv'
<1> USE NoneAssumption
<1>1. ASSUME NEW o \in Occurrences, NEW f \in Observations, Insert(o, f)
      PROVE  HolderInv'
  <2> SUFFICES ASSUME NEW w \in Workers
               PROVE  /\ pc[w] = "locking" \/ Holding(w) => Accepted(w)'
                      /\ \A s \in Stores :
                           lockOwner[s] = w <=> Holding(w) /\ StoreOf(w)' = s
    BY <1>1 DEF HolderInv, Insert, Holding
  <2>1. CASE pc[w] = "locking" \/ Holding(w)
    <3>1. Eligible(target[w]) /\ target[w] \in Occurrences /\ Accepted(w)
      BY <2>1, StoreType DEF HolderInv
    <3>2. occurrence'[target[w]] = occurrence[target[w]]
      BY <1>1, <3>1 DEF Insert, Eligible, TypeOK
    <3> QED
      BY <1>1, <3>1, <3>2
         DEF Insert, Accepted, Agrees, Eligible, StoreOf, HolderInv, arguments
  <2>2. CASE ~(pc[w] = "locking" \/ Holding(w))
    BY <2>2 DEF HolderInv
  <2> QED
    BY <2>1, <2>2
<1>2. ASSUME NEW w \in Workers, EndTransaction(w), UNCHANGED occurrence
      PROVE  HolderInv'
  <2> SUFFICES ASSUME NEW v \in Workers
               PROVE  /\ pc'[v] = "locking" \/ Holding(v)' => Accepted(v)'
                      /\ \A s \in Stores :
                           lockOwner'[s] = v
                             <=> Holding(v)' /\ StoreOf(v)' = s
    BY DEF HolderInv
  <2>1. CASE v = w
    BY <1>2, <2>1 DEF EndTransaction, TypeOK, Holding
  <2>2. CASE v # w
    BY <1>2, <2>2
       DEF EndTransaction, TypeOK, Holding, HolderInv, StoreOf, Accepted,
           Agrees, Eligible
  <2> QED
    BY <2>1, <2>2
<1>3. ASSUME NEW w \in Workers, NEW o \in Occurrences, NEW b \in Batches,
             Call(w, o, b)
      PROVE  HolderInv'
  <2> SUFFICES ASSUME NEW v \in Workers
               PROVE  /\ pc'[v] = "locking" \/ Holding(v)' => Accepted(v)'
                      /\ \A s \in Stores :
                           lockOwner'[s] = v
                             <=> Holding(v)' /\ StoreOf(v)' = s
    BY DEF HolderInv
  <2> QED
    BY <1>3 DEF Call, database, TypeOK, Holding, HolderInv, StoreOf,
                Accepted, Agrees, Eligible
<1>4. ASSUME NEW w \in Workers, LockStore(w)
      PROVE  HolderInv'
  <2> SUFFICES ASSUME NEW v \in Workers
               PROVE  /\ pc'[v] = "locking" \/ Holding(v)' => Accepted(v)'
                      /\ \A s \in Stores :
                           lockOwner'[s] = v
                             <=> Holding(v)' /\ StoreOf(v)' = s
    BY DEF HolderInv
  <2>1. StoreOf(w) \in Stores
    BY <1>4, StoreType DEF LockStore
  <2> QED
    BY <1>4, <2>1
       DEF LockStore, database, arguments, TypeOK, Holding, HolderInv,
           StoreOf, Accepted, Agrees, Eligible
<1>5. ASSUME NEW w \in Workers,
             \/ ReadFacts(w) \/ FindUnresolved(w)
             \/ FindNoneEarlier(w) \/ ChooseBranch(w)
      PROVE  HolderInv'
  <2> SUFFICES ASSUME NEW v \in Workers
               PROVE  /\ pc'[v] = "locking" \/ Holding(v)' => Accepted(v)'
                      /\ \A s \in Stores :
                           lockOwner'[s] = v
                             <=> Holding(v)' /\ StoreOf(v)' = s
    BY DEF HolderInv
  <2>1. UNCHANGED <<occurrence, lockOwner, target, batch>>
    BY <1>5 DEF ReadFacts, FindUnresolved, FindNoneEarlier, ChooseBranch,
                database, arguments
  <2>2. Accepted(v)' = Accepted(v) /\ StoreOf(v)' = StoreOf(v)
    BY <2>1 DEF Accepted, Agrees, Eligible, StoreOf
  <2>3. Holding(v)' = Holding(v)
    BY <1>5 DEF ReadFacts, FindUnresolved, FindNoneEarlier, ChooseBranch,
                Holding, TypeOK
  <2>4. pc'[v] = "locking" => pc[v] = "locking" \/ Accepted(v)
    BY <1>5 DEF ReadFacts, FindUnresolved, FindNoneEarlier, ChooseBranch,
                TypeOK
  <2> QED
    BY <2>1, <2>2, <2>3, <2>4 DEF HolderInv
<1>6. ASSUME UNCHANGED <<occurrence, lockOwner, pc, target, batch>>
      PROVE  HolderInv'
  BY <1>6 DEF HolderInv, Holding, Accepted, Agrees, Eligible, StoreOf
<1> QED
  BY <1>1, <1>2, <1>3, <1>4, <1>5, <1>6
     DEF Next, Advance, Fail, RaiseValueError, ReturnAlreadyApplied, Defer,
         CommitStale, CommitApplied, WriteLine, database, arguments, vars

-----------------------------------------------------------------------------
\* An insert while a connection holds the store's row changes none of the
\* facts that connection's decision rests on: an insert for the same store
\* would have waited for the row.
LEMMA InsertLeavesDecision ==
    ASSUME TypeOK, ArgumentsInv, HolderInv, ResolvedInv,
           NEW o \in Occurrences, NEW f \in Observations, Insert(o, f),
           NEW w \in Workers, Holding(w)
    PROVE  /\ EarlierUnresolved(target[w])' = EarlierUnresolved(target[w])
           /\ LaterResolved(target[w])' = LaterResolved(target[w])
<1> DEFINE t == target[w]
<1>1. t \in Occurrences /\ Eligible(t) /\ StoreOf(w) \in Stores
  BY StoreType
<1>2. lockOwner[StoreOf(w)] = w
  BY <1>1 DEF HolderInv
<1>3. f.store # StoreOf(w)
  BY <1>1, <1>2, NoneAssumption DEF Insert
<1>4. target'[w] = t /\ resolution' = resolution
  BY DEF Insert, arguments
<1>5. ASSUME NEW a \in Occurrences, a # o
      PROVE  occurrence'[a] = occurrence[a]
  BY <1>5 DEF Insert, TypeOK
<1>6. occurrence'[o] = f /\ occurrence[o] = None
  BY DEF Insert, TypeOK
<1>7. t # o
  BY <1>1, <1>6 DEF Eligible
<1>8. ASSUME NEW a \in Occurrences
      PROVE  /\ SameStore(a, t)' <=> SameStore(a, t)
             /\ SameStore(a, t) => a # o
  BY <1>1, <1>3, <1>4, <1>5, <1>6, <1>7 DEF SameStore, Eligible, StoreOf
<1>9. ASSUME NEW a \in Occurrences, SameStore(a, t)
      PROVE  /\ Before(a, t)' <=> Before(a, t)
             /\ Before(t, a)' <=> Before(t, a)
             /\ Resolved(a)' <=> Resolved(a)
  <2>1. occurrence'[a] = occurrence[a] /\ occurrence'[t] = occurrence[t]
    BY <1>1, <1>5, <1>7, <1>8, <1>9
  <2>2. (Before(a, t)' <=> Before(a, t)) /\ (Before(t, a)' <=> Before(t, a))
    BY <1>4, <2>1 DEF Before
  <2> QED
    BY <1>4, <2>2 DEF Resolved
<1> QED
  BY <1>4, <1>8, <1>9 DEF EarlierUnresolved, LaterResolved

\* Resolving an occurrence of another store changes none of them either.
LEMMA CommitLeavesDecision ==
    ASSUME TypeOK, ArgumentsInv, HolderInv,
           NEW w \in Workers, CommitStale(w) \/ CommitApplied(w),
           NEW v \in Workers, Holding(v), v # w
    PROVE  /\ EarlierUnresolved(target[v])' = EarlierUnresolved(target[v])
           /\ LaterResolved(target[v])' = LaterResolved(target[v])
           /\ Resolved(target[v])' <=> Resolved(target[v])
<1> DEFINE t == target[v]
<1>1. /\ t \in Occurrences /\ StoreOf(v) \in Stores
      /\ target[w] \in Occurrences /\ StoreOf(w) \in Stores
      /\ Holding(w)
  BY StoreType DEF CommitStale, CommitApplied, Holding
<1>2. StoreOf(v) # StoreOf(w)
  BY <1>1 DEF HolderInv
<1>3. target'[v] = t /\ occurrence' = occurrence
  BY DEF CommitStale, CommitApplied, EndTransaction, TypeOK
<1>4. ASSUME NEW a \in Occurrences, a # target[w]
      PROVE  resolution'[a] = resolution[a]
  BY <1>4 DEF CommitStale, CommitApplied, TypeOK
<1>5. ASSUME NEW a \in Occurrences, SameStore(a, t)
      PROVE  a # target[w]
  BY <1>2, <1>5 DEF SameStore, StoreOf
<1>6. t # target[w]
  BY <1>2 DEF StoreOf
<1>7. ASSUME NEW a \in Occurrences
      PROVE  /\ SameStore(a, t)' <=> SameStore(a, t)
             /\ Before(a, t)' <=> Before(a, t)
             /\ Before(t, a)' <=> Before(t, a)
             /\ SameStore(a, t) => (Resolved(a)' <=> Resolved(a))
  BY <1>3, <1>4, <1>5 DEF SameStore, Eligible, Before, Resolved
<1>8. Resolved(t)' <=> Resolved(t)
  BY <1>1, <1>3, <1>4, <1>6 DEF Resolved
<1> QED
  BY <1>3, <1>7, <1>8 DEF EarlierUnresolved, LaterResolved

\* Every step keeps true what the connections found under their locks.
LEMMA StepDecision ==
    ASSUME TypeOK, ArgumentsInv, HolderInv, DecisionInv, ResolvedInv,
           [Next]_vars
    PROVE  DecisionInv'
<1> DEFINE Deciding(v) == pc[v] \in {"check_earlier", "check_later",
                                     "stale", "writing"}
<1>1. ASSUME NEW o \in Occurrences, NEW f \in Observations, Insert(o, f)
      PROVE  DecisionInv'
  <2> SUFFICES ASSUME NEW v \in Workers, Deciding(v)
               PROVE  /\ Resolved(target[v])' <=> Resolved(target[v])
                      /\ EarlierUnresolved(target[v])'
                           = EarlierUnresolved(target[v])
                      /\ LaterResolved(target[v])' = LaterResolved(target[v])
    BY <1>1 DEF DecisionInv, Insert
  <2>1. Holding(v)
    BY DEF Holding
  <2>2. Resolved(target[v])' <=> Resolved(target[v])
    BY <1>1 DEF Insert, arguments, Resolved
  <2> QED
    BY <1>1, <2>1, <2>2, InsertLeavesDecision
<1>2. ASSUME NEW w \in Workers, CommitStale(w) \/ CommitApplied(w)
      PROVE  DecisionInv'
  <2> SUFFICES ASSUME NEW v \in Workers, Deciding(v)'
               PROVE  /\ Deciding(v) /\ pc'[v] = pc[v]
                      /\ Resolved(target[v])' <=> Resolved(target[v])
                      /\ EarlierUnresolved(target[v])'
                           = EarlierUnresolved(target[v])
                      /\ LaterResolved(target[v])' = LaterResolved(target[v])
    BY <1>2 DEF DecisionInv
  <2>1. v # w /\ pc'[v] = pc[v]
    BY <1>2 DEF CommitStale, CommitApplied, EndTransaction, TypeOK
  <2>2. Holding(v)
    BY <2>1 DEF Holding
  <2> QED
    BY <1>2, <2>1, <2>2, CommitLeavesDecision
<1>3. ASSUME UNCHANGED <<occurrence, resolution>>,
             NEW w \in Workers,
             \A v \in Workers \ {w} :
               pc'[v] = pc[v] /\ target'[v] = target[v],
             \/ ~Deciding(w)'
             \/ FindUnresolved(w) \/ FindNoneEarlier(w) \/ ChooseBranch(w)
             \/ pc'[w] = pc[w] /\ target'[w] = target[w]
      PROVE  DecisionInv'
  <2>1. ASSUME NEW v \in Workers, target'[v] = target[v]
        PROVE  /\ Resolved(target[v])' <=> Resolved(target[v])
               /\ EarlierUnresolved(target[v])' = EarlierUnresolved(target[v])
               /\ LaterResolved(target[v])' = LaterResolved(target[v])
    BY <1>3, <2>1 DEF Resolved, EarlierUnresolved, LaterResolved, SameStore,
                      Eligible, Before
  <2>2. ASSUME NEW v \in Workers, v # w
        PROVE  /\ pc'[v] = pc[v]
               /\ Resolved(target[v])' <=> Resolved(target[v])
               /\ EarlierUnresolved(target[v])' = EarlierUnresolved(target[v])
               /\ LaterResolved(target[v])' = LaterResolved(target[v])
    BY <1>3, <2>1, <2>2
  <2>3. CASE FindUnresolved(w) \/ FindNoneEarlier(w) \/ ChooseBranch(w)
    <3>1. target'[w] = target[w]
      BY <2>3 DEF FindUnresolved, FindNoneEarlier, ChooseBranch, arguments
    <3>2. /\ Resolved(target[w])' <=> Resolved(target[w])
          /\ EarlierUnresolved(target[w])' = EarlierUnresolved(target[w])
          /\ LaterResolved(target[w])' = LaterResolved(target[w])
      BY <2>1, <3>1
    <3> QED
      BY <2>2, <2>3, <3>2
         DEF DecisionInv, FindUnresolved, FindNoneEarlier, ChooseBranch,
             TypeOK
  <2>4. CASE ~Deciding(w)'
    BY <2>2, <2>4 DEF DecisionInv
  <2>5. CASE pc'[w] = pc[w] /\ target'[w] = target[w]
    BY <2>1, <2>2, <2>5 DEF DecisionInv
  <2> QED
    BY <1>3, <2>3, <2>4, <2>5
<1>4. ASSUME NEW w \in Workers, EndTransaction(w), UNCHANGED database
      PROVE  DecisionInv'
  <2>1. ~Deciding(w)' /\ UNCHANGED <<occurrence, resolution>>
    BY <1>4 DEF EndTransaction, TypeOK, database
  <2>2. \A v \in Workers \ {w} : pc'[v] = pc[v] /\ target'[v] = target[v]
    BY <1>4 DEF EndTransaction, TypeOK
  <2> QED
    BY <1>3, <2>1, <2>2
<1>5. ASSUME NEW w \in Workers, NEW o \in Occurrences, NEW b \in Batches,
             Call(w, o, b)
      PROVE  DecisionInv'
  <2>1. ~Deciding(w)' /\ UNCHANGED <<occurrence, resolution>>
    BY <1>5 DEF Call, TypeOK, database
  <2>2. \A v \in Workers \ {w} : pc'[v] = pc[v] /\ target'[v] = target[v]
    BY <1>5 DEF Call, TypeOK
  <2> QED
    BY <1>3, <2>1, <2>2
<1>6. ASSUME NEW w \in Workers,
             \/ ReadFacts(w) \/ LockStore(w) \/ FindUnresolved(w)
             \/ FindNoneEarlier(w) \/ ChooseBranch(w) \/ WriteLine(w)
      PROVE  DecisionInv'
  <2>1. UNCHANGED <<occurrence, resolution, target>>
    BY <1>6 DEF ReadFacts, LockStore, FindUnresolved, FindNoneEarlier,
                ChooseBranch, WriteLine, database, arguments
  <2>2. \A v \in Workers \ {w} : pc'[v] = pc[v]
    BY <1>6 DEF ReadFacts, LockStore, FindUnresolved, FindNoneEarlier,
                ChooseBranch, WriteLine, TypeOK
  <2>3. \/ ~Deciding(w)'
        \/ FindUnresolved(w) \/ FindNoneEarlier(w) \/ ChooseBranch(w)
        \/ pc'[w] = pc[w]
    BY <1>6 DEF ReadFacts, LockStore, WriteLine, TypeOK
  <2> QED
    BY <1>3, <2>1, <2>2, <2>3
<1>7. CASE UNCHANGED vars
  BY <1>7 DEF vars, DecisionInv, Resolved, EarlierUnresolved, LaterResolved,
              SameStore, Eligible, Before
<1> QED
  BY <1>1, <1>2, <1>4, <1>5, <1>6, <1>7
     DEF Next, Advance, Fail, RaiseValueError, ReturnAlreadyApplied, Defer

\* Every step keeps the uncommitted writes with the occurrence and the
\* store they are made for.
LEMMA StepBuffer ==
    ASSUME TypeOK, ArgumentsInv, HolderInv, BufferInv, [Next]_vars
    PROVE  BufferInv'
<1>1. ASSUME NEW o \in Occurrences, NEW f \in Observations, Insert(o, f)
      PROVE  BufferInv'
  <2> SUFFICES ASSUME NEW v \in Workers, pc[v] = "writing"
               PROVE  StoreOf(v)' = StoreOf(v)
    BY <1>1 DEF Insert, arguments, buffers, BufferInv
  <2>1. target[v] \in Occurrences /\ Eligible(target[v])
    BY StoreType DEF Holding
  <2>2. occurrence'[target[v]] = occurrence[target[v]]
    BY <1>1, <2>1 DEF Insert, Eligible, TypeOK
  <2> QED
    BY <1>1, <2>2 DEF Insert, arguments, StoreOf
<1>2. ASSUME NEW w \in Workers, EndTransaction(w), UNCHANGED occurrence
      PROVE  BufferInv'
  BY <1>2 DEF EndTransaction, BufferInv, TypeOK, NoRows, StoreOf
<1>3. ASSUME NEW w \in Workers, pc[w] # "writing",
             UNCHANGED <<occurrence, rows, events>>,
             \A v \in Workers \ {w} :
               pc'[v] = pc[v] /\ target'[v] = target[v]
      PROVE  BufferInv'
  BY <1>3 DEF BufferInv, StoreOf
<1>4. ASSUME NEW w \in Workers, NEW o \in Occurrences, NEW b \in Batches,
             Call(w, o, b)
      PROVE  BufferInv'
  BY <1>3, <1>4 DEF Call, database, buffers, TypeOK
<1>5. ASSUME NEW w \in Workers,
             \/ ReadFacts(w) \/ LockStore(w) \/ FindUnresolved(w)
             \/ FindNoneEarlier(w) \/ ChooseBranch(w)
      PROVE  BufferInv'
  BY <1>3, <1>5 DEF ReadFacts, LockStore, FindUnresolved, FindNoneEarlier,
                    ChooseBranch, database, arguments, buffers, TypeOK
<1>6. ASSUME NEW w \in Workers, WriteLine(w)
      PROVE  BufferInv'
  <2>1. UNCHANGED <<pc, target, occurrence>>
    BY <1>6 DEF WriteLine, database, arguments
  <2>2. /\ WrittenRow(w).source = target[w]
        /\ WrittenKey(w) \in Keys
        /\ WrittenKey(w)[1] = StoreOf(w)
    BY <1>6, WrittenRowType DEF WriteLine
  <2>3. ASSUME NEW v \in Workers, NEW k \in Keys, rows'[v][k] # None
        PROVE  /\ pc[v] = "writing"
               /\ rows'[v][k].source = target[v]
               /\ k[1] = StoreOf(v)
    <3>1. CASE v = w /\ k = WrittenKey(w)
      BY <1>6, <2>2, <3>1 DEF WriteLine, TypeOK
    <3>2. CASE ~(v = w /\ k = WrittenKey(w))
      <4>1. rows'[v][k] = rows[v][k]
        BY <1>6, <2>2, <3>2 DEF WriteLine, TypeOK
      <4> QED
        BY <2>3, <4>1 DEF BufferInv
    <3> QED
      BY <3>1, <3>2
  <2>4. ASSUME NEW v \in Workers, NEW n \in 1..Len(events'[v])
        PROVE  pc[v] = "writing" /\ events'[v][n].source = target[v]
    <3>1. CASE events'[v] = events[v]
      BY <3>1 DEF BufferInv
    <3>2. CASE events'[v] # events[v]
      <4>1. v = w /\ events'[w] =
              Append(events[w], [item |-> CurrentLine(w).item,
                                 price |-> CurrentLine(w).price,
                                 source |-> target[w]])
        BY <1>6, <3>2 DEF WriteLine, TypeOK
      <4>2. events[w] \in Seq(Event)
        BY DEF TypeOK
      <4>3. n \in 1..(Len(events[w]) + 1)
        BY <4>1, <4>2
      <4> QED
        BY <1>6, <4>1, <4>2, <4>3 DEF BufferInv, WriteLine
    <3> QED
      BY <3>1, <3>2
  <2> QED
    BY <2>1, <2>3, <2>4 DEF BufferInv, StoreOf
<1>7. CASE UNCHANGED vars
  BY <1>7 DEF vars, BufferInv, StoreOf
<1> QED
  BY <1>1, <1>2, <1>4, <1>5, <1>6, <1>7
     DEF Next, Advance, Fail, RaiseValueError, ReturnAlreadyApplied, Defer,
         CommitStale, CommitApplied, database

\* Every step resolves valid, store-scoped occurrences only.
LEMMA StepResolved ==
    ASSUME TypeOK, ArgumentsInv, HolderInv, ResolvedInv, [Next]_vars
    PROVE  ResolvedInv'
<1>1. ASSUME NEW o \in Occurrences, NEW f \in Observations, Insert(o, f)
      PROVE  ResolvedInv'
  BY <1>1 DEF Insert, ResolvedInv, Resolved, Eligible, TypeOK
<1>2. ASSUME NEW w \in Workers, CommitStale(w) \/ CommitApplied(w)
      PROVE  ResolvedInv'
  <2>1. Eligible(target[w]) /\ UNCHANGED occurrence
    BY <1>2, StoreType DEF CommitStale, CommitApplied, Holding
  <2> QED
    BY <1>2, <2>1
       DEF CommitStale, CommitApplied, ResolvedInv, Resolved, Eligible, TypeOK
<1>3. ASSUME UNCHANGED <<occurrence, resolution>>
      PROVE  ResolvedInv'
  BY <1>3 DEF ResolvedInv, Resolved, Eligible
<1> QED
  BY <1>1, <1>2, <1>3
     DEF Next, Advance, Fail, RaiseValueError, ReturnAlreadyApplied, Defer,
         Call, ReadFacts, LockStore, FindUnresolved, FindNoneEarlier,
         ChooseBranch, WriteLine, database, vars

-----------------------------------------------------------------------------
\* An event of a store's log names an occurrence.
LEMMA EventSource ==
    ASSUME TypeOK, NEW s \in Stores, NEW n \in 1..Len(priceHistory[s])
    PROVE  priceHistory[s][n].source \in Occurrences
<1>1. priceHistory[s] \in Seq(Event)
  BY DEF TypeOK
<1>2. priceHistory[s][n] \in Event
  BY <1>1
<1> QED
  BY <1>2 DEF Event

\* What applying an occurrence makes of its store's log: the old events,
\* then events of the occurrence itself.
LEMMA CommittedLog ==
    ASSUME TypeOK, ArgumentsInv, HolderInv, BufferInv,
           NEW w \in Workers, CommitApplied(w)
    PROVE  /\ target[w] \in Occurrences /\ Eligible(target[w])
           /\ StoreOf(w) \in Stores
           /\ \A s \in Stores : s # StoreOf(w) =>
                priceHistory'[s] = priceHistory[s]
           /\ \A n \in 1..Len(priceHistory'[StoreOf(w)]) :
                IF n <= Len(priceHistory[StoreOf(w)])
                THEN priceHistory'[StoreOf(w)][n] = priceHistory[StoreOf(w)][n]
                ELSE priceHistory'[StoreOf(w)][n].source = target[w]
<1> DEFINE s == StoreOf(w)
           old == priceHistory[s]
<1>1. /\ target[w] \in Occurrences /\ Eligible(target[w]) /\ s \in Stores
  BY StoreType DEF CommitApplied, Holding
<1>2. old \in Seq(Event) /\ events[w] \in Seq(Event)
  BY <1>1 DEF TypeOK
<1>3. /\ priceHistory'[s] = old \o events[w]
      /\ \A r \in Stores : r # s => priceHistory'[r] = priceHistory[r]
  BY <1>1 DEF CommitApplied, TypeOK
<1>4. ASSUME NEW n \in 1..Len(priceHistory'[s])
      PROVE  IF n <= Len(old) THEN priceHistory'[s][n] = old[n]
             ELSE priceHistory'[s][n].source = target[w]
  <2>1. CASE n <= Len(old)
    BY <1>2, <1>3, <2>1
  <2>2. CASE n > Len(old)
    <3>1. n - Len(old) \in 1..Len(events[w])
      <4> HIDE DEF s, old
      <4>1. Len(old) \in Nat /\ Len(events[w]) \in Nat
        BY <1>2
      <4>2. Len(old \o events[w]) = Len(old) + Len(events[w])
        BY <1>2
      <4>3. n \in 1..(Len(old) + Len(events[w]))
        BY <1>3, <4>2
      <4> QED
        BY <2>2, <4>1, <4>3
    <3>2. priceHistory'[s][n] = events[w][n - Len(old)]
      BY <1>2, <1>3, <2>2
    <3>3. events[w][n - Len(old)].source = target[w]
      BY <3>1 DEF BufferInv
    <3> QED
      BY <1>2, <2>2, <3>2, <3>3
  <2> QED
    BY <1>2, <2>1, <2>2
<1> QED
  BY <1>1, <1>3, <1>4

\* Steps that write no derived state, and resolve nothing derived state
\* refers to, keep derived state where it was.
LEMMA StepDerived ==
    ASSUME TypeOK, ArgumentsInv, HolderInv, DecisionInv, BufferInv,
           ResolvedInv, DerivedFromApplied, [Next]_vars
    PROVE  DerivedFromApplied'
<1>1. ASSUME NEW o \in Occurrences, NEW f \in Observations, Insert(o, f)
      PROVE  DerivedFromApplied'
  <2>1. UNCHANGED <<resolution, currentState, priceHistory>>
    BY <1>1 DEF Insert
  <2>2. ASSUME NEW a \in Occurrences, resolution[a] = "applied"
        PROVE  occurrence'[a] = occurrence[a]
    BY <1>1, <2>2 DEF Insert, ResolvedInv, Resolved, Eligible, TypeOK
  <2>3. ASSUME NEW k \in Keys, currentState[k] # None
        PROVE  currentState[k].source \in Occurrences
    BY <2>3 DEF TypeOK, Row
  <2>4. ASSUME NEW s \in Stores, NEW n \in 1..Len(priceHistory[s])
        PROVE  priceHistory[s][n].source \in Occurrences
    BY EventSource
  <2> QED
    BY <2>1, <2>2, <2>3, <2>4 DEF DerivedFromApplied
<1>2. ASSUME NEW w \in Workers, CommitStale(w)
      PROVE  DerivedFromApplied'
  <2>1. UNCHANGED <<occurrence, currentState, priceHistory>>
    BY <1>2 DEF CommitStale
  <2>2. ASSUME NEW a, resolution[a] = "applied"
        PROVE  resolution'[a] = "applied"
    BY <1>2, <2>2 DEF CommitStale, DecisionInv, Resolved, TypeOK
  <2> QED
    BY <2>1, <2>2 DEF DerivedFromApplied
<1>3. ASSUME NEW w \in Workers, CommitApplied(w)
      PROVE  DerivedFromApplied'
  <2>1. /\ target[w] \in Occurrences /\ StoreOf(w) \in Stores
        /\ UNCHANGED occurrence
    BY <1>3, CommittedLog DEF CommitApplied
  <2>2. ASSUME NEW a \in Occurrences, resolution[a] = "applied" \/ a = target[w]
        PROVE  resolution'[a] = "applied"
    BY <1>3, <2>2 DEF CommitApplied, TypeOK
  <2>3. ASSUME NEW k \in Keys, currentState'[k] # None
        PROVE  /\ resolution'[currentState'[k].source] = "applied"
               /\ occurrence'[currentState'[k].source].store = k[1]
    <3>1. CASE rows[w][k] # None
      <4>1. currentState'[k].source = target[w] /\ k[1] = StoreOf(w)
        BY <1>3, <3>1 DEF CommitApplied, BufferInv
      <4> QED
        BY <2>1, <2>2, <4>1 DEF StoreOf
    <3>2. CASE rows[w][k] = None
      <4>1. currentState'[k] = currentState[k]
        BY <1>3, <3>2 DEF CommitApplied
      <4>2. currentState[k].source \in Occurrences
        BY <2>3, <4>1 DEF TypeOK, Row
      <4> QED
        BY <2>1, <2>2, <2>3, <4>1, <4>2 DEF DerivedFromApplied
    <3> QED
      BY <3>1, <3>2
  <2>4. ASSUME NEW s \in Stores, NEW n \in 1..Len(priceHistory'[s])
        PROVE  /\ resolution'[priceHistory'[s][n].source] = "applied"
               /\ occurrence'[priceHistory'[s][n].source].store = s
    <3>1. CASE s = StoreOf(w) /\ n > Len(priceHistory[s])
      <4>1. priceHistory'[s][n].source = target[w]
        BY <1>3, <2>1, <3>1, CommittedLog DEF TypeOK
      <4> QED
        BY <2>1, <2>2, <3>1, <4>1 DEF StoreOf
    <3>2. CASE ~(s = StoreOf(w) /\ n > Len(priceHistory[s]))
      <4>1. /\ n \in 1..Len(priceHistory[s])
            /\ priceHistory'[s][n] = priceHistory[s][n]
        BY <1>3, <3>2, CommittedLog DEF TypeOK
      <4>2. priceHistory[s][n].source \in Occurrences
        BY <4>1, EventSource
      <4> QED
        BY <2>1, <2>2, <4>1, <4>2 DEF DerivedFromApplied
    <3> QED
      BY <3>1, <3>2
  <2> QED
    BY <2>3, <2>4 DEF DerivedFromApplied
<1>4. ASSUME UNCHANGED database
      PROVE  DerivedFromApplied'
  BY <1>4 DEF DerivedFromApplied, database
<1> QED
  BY <1>1, <1>2, <1>3, <1>4
     DEF Next, Advance, Fail, RaiseValueError, ReturnAlreadyApplied, Defer,
         Call, ReadFacts, LockStore, FindUnresolved, FindNoneEarlier,
         ChooseBranch, WriteLine, vars, database

\* An applied occurrence of a store does not come after the one being
\* applied to it, nor does an occurrence come before itself.
LEMMA AppliedNotLater ==
    ASSUME TypeOK, ArgumentsInv, HolderInv, DecisionInv, ResolvedInv,
           NEW w \in Workers, pc[w] = "writing",
           NEW a \in Occurrences, resolution[a] = "applied",
           occurrence[a].store = StoreOf(w)
    PROVE  ~Before(target[w], a)
<1>1. Eligible(a) /\ Resolved(a)
  BY DEF ResolvedInv, Resolved
<1>2. Eligible(target[w])
  BY StoreType DEF Holding
<1>3. SameStore(a, target[w])
  BY <1>1, <1>2 DEF SameStore, StoreOf
<1> QED
  BY <1>1, <1>3 DEF DecisionInv, LaterResolved

\* The order of observation is irreflexive.
LEMMA NotBeforeItself ==
    ASSUME TypeOK, NEW a \in Occurrences, Eligible(a)
    PROVE  ~Before(a, a)
<1>1. occurrence[a].collectedAt \in Nat /\ a \in Nat
  BY ActivationAssumption DEF TypeOK, Eligible, Facts
<1> QED
  BY <1>1 DEF Before

\* Every step keeps each store's events in observation order.
LEMMA StepHistory ==
    ASSUME TypeOK, ArgumentsInv, HolderInv, DecisionInv, BufferInv,
           ResolvedInv, DerivedFromApplied, HistoryInOrder, [Next]_vars
    PROVE  HistoryInOrder'
<1>1. ASSUME NEW o \in Occurrences, NEW f \in Observations, Insert(o, f)
      PROVE  HistoryInOrder'
  <2>1. UNCHANGED priceHistory
    BY <1>1 DEF Insert
  <2>2. ASSUME NEW a \in Occurrences, resolution[a] = "applied"
        PROVE  occurrence'[a] = occurrence[a]
    BY <1>1, <2>2 DEF Insert, ResolvedInv, Resolved, Eligible, TypeOK
  <2>3. ASSUME NEW s \in Stores, NEW n \in 1..Len(priceHistory[s])
        PROVE  LET a == priceHistory[s][n].source
               IN  occurrence'[a] = occurrence[a]
    BY <2>2, EventSource DEF DerivedFromApplied
  <2> QED
    BY <2>1, <2>3 DEF HistoryInOrder, Before
<1>2. ASSUME NEW w \in Workers, CommitApplied(w)
      PROVE  HistoryInOrder'
  <2> SUFFICES ASSUME NEW s \in Stores,
                      NEW m \in 1..Len(priceHistory'[s]),
                      NEW n \in 1..Len(priceHistory'[s]), m < n
               PROVE  ~Before(priceHistory'[s][n].source,
                              priceHistory'[s][m].source)
    BY <1>2 DEF CommitApplied, HistoryInOrder, Before
  <2>1. /\ target[w] \in Occurrences /\ Eligible(target[w])
        /\ pc[w] = "writing" /\ StoreOf(w) \in Stores
    BY <1>2, CommittedLog DEF CommitApplied
  <2>2. Len(priceHistory[s]) \in Nat
    BY DEF TypeOK
  <2>3. CASE s # StoreOf(w) \/ n <= Len(priceHistory[s])
    BY <1>2, <2>2, <2>3, CommittedLog DEF HistoryInOrder
  <2>4. CASE s = StoreOf(w) /\ n > Len(priceHistory[s])
    <3>1. priceHistory'[s][n].source = target[w]
      BY <1>2, <2>1, <2>2, <2>4, CommittedLog
    <3>2. CASE m <= Len(priceHistory[s])
      <4>1. /\ m \in 1..Len(priceHistory[s])
            /\ priceHistory'[s][m] = priceHistory[s][m]
        BY <1>2, <2>1, <2>2, <2>4, <3>2, CommittedLog
      <4>2. priceHistory[s][m].source \in Occurrences
        BY <4>1, EventSource
      <4> QED
        BY <2>1, <2>4, <3>1, <4>1, <4>2, AppliedNotLater
           DEF DerivedFromApplied
    <3>3. CASE m > Len(priceHistory[s])
      <4>1. priceHistory'[s][m].source = target[w]
        BY <1>2, <2>1, <2>2, <2>4, <3>3, CommittedLog
      <4> QED
        BY <2>1, <3>1, <4>1, NotBeforeItself
    <3> QED
      BY <2>2, <3>2, <3>3
  <2> QED
    BY <2>2, <2>3, <2>4
<1>3. ASSUME UNCHANGED <<occurrence, priceHistory>>
      PROVE  HistoryInOrder'
  BY <1>3 DEF HistoryInOrder, Before
<1> QED
  BY <1>1, <1>2, <1>3
     DEF Next, Advance, Fail, RaiseValueError, ReturnAlreadyApplied, Defer,
         Call, ReadFacts, LockStore, FindUnresolved, FindNoneEarlier,
         ChooseBranch, WriteLine, CommitStale, vars, database

-----------------------------------------------------------------------------
\* The strengthened invariant holds in every reachable state.
THEOREM Invariant == Spec => []IInv
<1>1. IInv /\ [Next]_vars => IInv'
  BY StepTypeOK, StepArguments, StepHolder, StepDecision, StepBuffer,
     StepResolved, StepDerived, StepHistory DEF IInv
<1> QED
  BY InitIInv, <1>1, PTL DEF Spec

\* Every variable keeps its type.
THEOREM TypeCorrect == Spec => []TypeOK
<1>1. IInv => TypeOK
  BY DEF IInv
<1> QED
  BY Invariant, <1>1, PTL

\* Derived state never shows anything of an occurrence that is stale,
\* deferred, failed or of another store.
THEOREM DerivedStateIsApplied == Spec => []DerivedFromApplied
<1>1. IInv => DerivedFromApplied
  BY DEF IInv
<1> QED
  BY Invariant, <1>1, PTL

\* Each store's price events are recorded in observation order.
THEOREM HistoryOrdered == Spec => []HistoryInOrder
<1>1. IInv => HistoryInOrder
  BY DEF IInv
<1> QED
  BY Invariant, <1>1, PTL

\* Only the two commits resolve an occurrence, each its own target.
LEMMA ResolvingStep ==
    ASSUME IInv, [Next]_vars, NEW o \in Occurrences,
           resolution'[o] # resolution[o]
    PROVE  \E w \in Workers :
             /\ o = target[w]
             /\ \/ CommitStale(w) /\ resolution'[o] = "stale_preserved"
                \/ CommitApplied(w) /\ resolution'[o] = "applied"
<1>1. PICK w \in Workers : CommitStale(w) \/ CommitApplied(w)
  BY DEF Next, Advance, Fail, RaiseValueError, ReturnAlreadyApplied, Defer,
         Call, Insert, ReadFacts, LockStore, FindUnresolved,
         FindNoneEarlier, ChooseBranch, WriteLine, vars, database
<1>2. CASE CommitStale(w)
  BY <1>2 DEF CommitStale, IInv, TypeOK
<1>3. CASE CommitApplied(w)
  BY <1>3 DEF CommitApplied, IInv, TypeOK
<1> QED
  BY <1>1, <1>2, <1>3

\* At the commit that applies an occurrence, every earlier one of its store
\* is resolved and no later one is.
THEOREM ActivationOrder == Spec => AppliesInOrder
<1>1. ASSUME IInv, [Next]_vars
      PROVE  [\A o \in Occurrences :
                resolution[o] = "unresolved" /\ resolution'[o] = "applied" =>
                  EarlierUnresolved(o) = {} /\ LaterResolved(o) = {}]_vars
  <2> SUFFICES ASSUME NEW o \in Occurrences, resolution[o] = "unresolved",
                      resolution'[o] = "applied"
               PROVE  EarlierUnresolved(o) = {} /\ LaterResolved(o) = {}
    OBVIOUS
  <2>1. PICK w \in Workers : o = target[w] /\ CommitApplied(w)
    BY <1>1, ResolvingStep
  <2> QED
    BY <1>1, <2>1 DEF CommitApplied, IInv, DecisionInv
<1> QED
  BY Invariant, <1>1, PTL DEF Spec, AppliesInOrder

\* An occurrence is written off only when really overtaken, and derived
\* state does not move then.
THEOREM StaleJustified == Spec => StaleOnlyWhenOvertaken
<1>1. ASSUME IInv, [Next]_vars
      PROVE  [\A o \in Occurrences :
                resolution[o] = "unresolved"
                  /\ resolution'[o] = "stale_preserved" =>
                  /\ LaterResolved(o) # {}
                  /\ UNCHANGED <<currentState, priceHistory>>]_vars
  <2> SUFFICES ASSUME NEW o \in Occurrences, resolution[o] = "unresolved",
                      resolution'[o] = "stale_preserved"
               PROVE  /\ LaterResolved(o) # {}
                      /\ UNCHANGED <<currentState, priceHistory>>
    OBVIOUS
  <2>1. PICK w \in Workers : o = target[w] /\ CommitStale(w)
    BY <1>1, ResolvingStep
  <2> QED
    BY <1>1, <2>1 DEF CommitStale, IInv, DecisionInv
<1> QED
  BY Invariant, <1>1, PTL DEF Spec, StaleOnlyWhenOvertaken

\* A recorded outcome is final.
THEOREM OutcomesAreFinal == Spec => OutcomeIsFinal
<1>1. ASSUME IInv, [Next]_vars
      PROVE  [\A o \in Occurrences :
                Resolved(o) => resolution'[o] = resolution[o]]_vars
  <2> SUFFICES ASSUME NEW o \in Occurrences, resolution'[o] # resolution[o]
               PROVE  ~Resolved(o)
    OBVIOUS
  <2>1. PICK w \in Workers :
          o = target[w] /\ (CommitStale(w) \/ CommitApplied(w))
    BY <1>1, ResolvingStep
  <2> QED
    BY <1>1, <2>1 DEF CommitStale, CommitApplied, IInv, DecisionInv
<1> QED
  BY Invariant, <1>1, PTL DEF Spec, OutcomeIsFinal

\* A product's current price is never replaced by an earlier observation.
THEOREM CurrentStateMonotone == Spec => CurrentStateNeverRegresses
<1>1. ASSUME IInv, [Next]_vars
      PROVE  [\A k \in Keys : currentState[k] # None =>
                /\ currentState'[k] # None
                /\ ~Before(currentState'[k].source,
                           currentState[k].source)]_vars
  <2> SUFFICES ASSUME NEW k \in Keys, currentState[k] # None
               PROVE  /\ currentState'[k] # None
                      /\ ~Before(currentState'[k].source,
                                 currentState[k].source)
    OBVIOUS
  <2>1. /\ currentState[k].source \in Occurrences
        /\ resolution[currentState[k].source] = "applied"
        /\ occurrence[currentState[k].source].store = k[1]
    BY <1>1 DEF IInv, TypeOK, Row, DerivedFromApplied
  <2>2. CASE currentState'[k] = currentState[k]
    BY <1>1, <2>1, <2>2, NotBeforeItself DEF IInv, ResolvedInv, Resolved
  <2>3. CASE currentState'[k] # currentState[k]
    <3>1. PICK w \in Workers : CommitApplied(w)
      BY <1>1, <2>3
         DEF Next, Advance, Fail, RaiseValueError, ReturnAlreadyApplied,
             Defer, Call, Insert, ReadFacts, LockStore, FindUnresolved,
             FindNoneEarlier, ChooseBranch, WriteLine, CommitStale, vars,
             database
    <3>2. rows[w][k] # None /\ currentState'[k] = rows[w][k]
      BY <2>3, <3>1 DEF CommitApplied
    <3>3. rows[w][k].source = target[w] /\ k[1] = StoreOf(w)
      BY <1>1, <3>2 DEF IInv, BufferInv
    <3>4. pc[w] = "writing"
      BY <3>1 DEF CommitApplied
    <3> QED
      BY <1>1, <2>1, <3>2, <3>3, <3>4, AppliedNotLater DEF IInv
  <2> QED
    BY <2>2, <2>3
<1> QED
  BY Invariant, <1>1, PTL DEF Spec, CurrentStateNeverRegresses

-----------------------------------------------------------------------------
(* What one call writes, line by line.  A product has the row of its last  *)
(* line, and the event of its first one that changes the committed price.  *)

\* The lines of the call of w, and those already written.
Lines(w) == batch[w].lines

Done(w) == {m \in 1..Len(Lines(w)) : m < next[w]}

\* The row that line m is about.
KeyOf(w, m) == <<StoreOf(w), Lines(w)[m].item>>

\* The row that line m leaves: one without normalized facts keeps those of
\* the committed row.
SeenRow(w, m) ==
    [price |-> Lines(w)[m].price,
     source |-> target[w],
     description |->
        IF batch[w].mode = "normalized" THEN Lines(w)[m].description
        ELSE IF currentState[KeyOf(w, m)] = None THEN None
        ELSE currentState[KeyOf(w, m)].description]

\* Line m is at another price than the committed row, and is the first one of
\* its product that is: it is recorded as EventOf.
Differs(w, m) ==
    \/ currentState[KeyOf(w, m)] = None
    \/ currentState[KeyOf(w, m)].price # Lines(w)[m].price

FirstDiffers(w, m) ==
    /\ Differs(w, m)
    /\ \A j \in 1..(m - 1) :
         Lines(w)[j].item = Lines(w)[m].item => ~Differs(w, j)

EventOf(w, m) == [item |-> Lines(w)[m].item, price |-> Lines(w)[m].price,
                  source |-> target[w]]

\* No later line so far names the product of line m.
Latest(w, m) ==
    \A n \in Done(w) : m < n => Lines(w)[n].item # Lines(w)[m].item

\* The uncommitted rows are those of each product's latest line.
RowsTell(w) ==
    /\ \A k \in Keys : rows[w][k] # None =>
         \E m \in Done(w) :
           Latest(w, m) /\ k = KeyOf(w, m) /\ rows[w][k] = SeenRow(w, m)
    /\ \A m \in Done(w) : rows[w][KeyOf(w, m)] # None

\* The uncommitted events are one of each product with a line that differs,
\* and of its first such line.
EventsTell(w) ==
    /\ \A n \in 1..Len(events[w]) :
         \E m \in Done(w) : FirstDiffers(w, m) /\ events[w][n] = EventOf(w, m)
    /\ \A m \in Done(w) : Differs(w, m) =>
         \E n \in 1..Len(events[w]) : events[w][n].item = Lines(w)[m].item
    /\ \A n, k \in 1..Len(events[w]) :
         events[w][n].item = events[w][k].item => n = k

\* The buffers of a call hold what its lines so far say of the committed
\* rows, which nobody else replaces while it holds the store.
LoopOf(w) ==
    IF pc[w] = "writing"
    THEN next[w] <= Len(Lines(w)) + 1 /\ RowsTell(w) /\ EventsTell(w)
    ELSE next[w] = 1

LoopInv == \A w \in Workers : LoopOf(w)

\* The lines of a call in its loop.
LEMMA LinesType ==
    ASSUME TypeOK, ArgumentsInv, HolderInv, NEW w \in Workers, pc[w] = "writing"
    PROVE  /\ Lines(w) \in Seq(Line) /\ Len(Lines(w)) \in Nat
           /\ next[w] \in Nat \ {0}
           /\ \A m \in 1..Len(Lines(w)) :
                Lines(w)[m] \in Line /\ KeyOf(w, m) \in Keys
           /\ StoreOf(w) \in Stores
           /\ batch[w].mode = "normalized" => batch[w].store = StoreOf(w)
<1>1. batch[w] \in Batches /\ batch[w] \in Batch
  BY ActivationAssumption DEF ArgumentsInv
<1>2. Lines(w) \in Seq(Line) /\ Len(Lines(w)) \in Nat
  BY <1>1 DEF Lines, Batch
<1>3. next[w] \in Nat \ {0}
  BY DEF TypeOK
<1>4. StoreOf(w) \in Stores
  BY StoreType DEF Holding
<1>5. ASSUME NEW m \in 1..Len(Lines(w))
      PROVE  Lines(w)[m] \in Line /\ KeyOf(w, m) \in Keys
  <2>1. Lines(w)[m] \in Line
    BY <1>2
  <2> QED BY <1>4, <2>1 DEF KeyOf, Keys, Line
<1>6. batch[w].mode = "normalized" => batch[w].store = StoreOf(w)
  BY DEF HolderInv, Holding, Accepted, Agrees, StoreOf
<1> QED BY <1>2, <1>3, <1>4, <1>5, <1>6

\* The row that a line leaves is one.
LEMMA SeenRowType ==
    ASSUME NoneAssumption, TypeOK, ArgumentsInv, HolderInv,
           NEW w \in Workers, pc[w] = "writing", NEW m \in 1..Len(Lines(w))
    PROVE  SeenRow(w, m) \in Row /\ SeenRow(w, m) # None
<1>1. Lines(w)[m] \in Line /\ target[w] \in Occurrences
  BY LinesType, StoreType DEF Holding
<1>2. currentState[KeyOf(w, m)] \in Row \cup {None}
  BY LinesType DEF TypeOK
<1>3. SeenRow(w, m) \in Row
  BY <1>1, <1>2 DEF SeenRow, Row, Line
<1> QED BY <1>3, NoneAssumption

\* What the lines of a call mean while its store and the store's rows stay.
LEMMA LinesSame ==
    ASSUME NEW v \in Workers,
           target'[v] = target[v], batch'[v] = batch[v],
           StoreOf(v)' = StoreOf(v),
           \A m \in 1..Len(Lines(v)) :
             currentState'[KeyOf(v, m)] = currentState[KeyOf(v, m)]
    PROVE  \A m \in 1..Len(Lines(v)) :
             /\ KeyOf(v, m)' = KeyOf(v, m) /\ EventOf(v, m)' = EventOf(v, m)
             /\ Differs(v, m)' <=> Differs(v, m)
             /\ FirstDiffers(v, m)' <=> FirstDiffers(v, m)
             /\ SeenRow(v, m)' = SeenRow(v, m)
             /\ Done(v)' = Done(v) => (Latest(v, m)' <=> Latest(v, m))
<1>1. Lines(v)' = Lines(v)
  BY DEF Lines
<1>2. \A m \in 1..Len(Lines(v)) :
        /\ KeyOf(v, m)' = KeyOf(v, m) /\ EventOf(v, m)' = EventOf(v, m)
        /\ Differs(v, m)' <=> Differs(v, m)
        /\ SeenRow(v, m)' = SeenRow(v, m)
  BY <1>1 DEF KeyOf, EventOf, Differs, SeenRow
<1>3. ASSUME NEW m \in 1..Len(Lines(v))
      PROVE  FirstDiffers(v, m)' <=> FirstDiffers(v, m)
  <2>1. \A j \in 1..(m - 1) : j \in 1..Len(Lines(v))
    OBVIOUS
  <2> QED BY <1>1, <1>2, <2>1 DEF FirstDiffers
<1>4. ASSUME NEW m \in 1..Len(Lines(v)), Done(v)' = Done(v)
      PROVE  Latest(v, m)' <=> Latest(v, m)
  BY <1>1, <1>4 DEF Latest
<1> QED BY <1>2, <1>3, <1>4

\* A call keeps its loop while its store and the store's rows stay.
LEMMA LoopKept ==
    ASSUME NEW v \in Workers, LoopOf(v),
           pc'[v] = pc[v], target'[v] = target[v], batch'[v] = batch[v],
           next'[v] = next[v], rows'[v] = rows[v], events'[v] = events[v],
           pc[v] = "writing" =>
             /\ StoreOf(v)' = StoreOf(v)
             /\ \A m \in 1..Len(Lines(v)) :
                  currentState'[KeyOf(v, m)] = currentState[KeyOf(v, m)]
    PROVE  LoopOf(v)'
<1>1. CASE pc[v] # "writing"
  BY <1>1 DEF LoopOf
<1>2. CASE pc[v] = "writing"
  <2>1. Lines(v)' = Lines(v) /\ Done(v)' = Done(v)
    BY DEF Lines, Done
  <2>2. \A m \in 1..Len(Lines(v)) :
          /\ KeyOf(v, m)' = KeyOf(v, m) /\ EventOf(v, m)' = EventOf(v, m)
          /\ Differs(v, m)' <=> Differs(v, m)
          /\ FirstDiffers(v, m)' <=> FirstDiffers(v, m)
          /\ SeenRow(v, m)' = SeenRow(v, m)
          /\ Latest(v, m)' <=> Latest(v, m)
    BY <1>2, <2>1, LinesSame
  <2>3. \A m \in Done(v) : m \in 1..Len(Lines(v))
    BY DEF Done
  <2>4. RowsTell(v)'
    BY <1>2, <2>1, <2>2, <2>3 DEF LoopOf, RowsTell
  <2>5. EventsTell(v)'
    <3> DEFINE E == events[v]
               D == Done(v)
    <3>1. D' = D /\ E' = E /\ EventsTell(v)
      BY <1>2, <2>1 DEF LoopOf
    <3> HIDE DEF D, E
    <3>2. \A n \in 1..Len(E) :
             \E m \in D : FirstDiffers(v, m) /\ E[n] = EventOf(v, m)
      BY <3>1 DEF EventsTell, D, E
    <3>3. \A m \in D : Differs(v, m) =>
            \E n \in 1..Len(E) : E[n].item = Lines(v)[m].item
      BY <3>1 DEF EventsTell, D, E
    <3>4. \A m \in D : m \in 1..Len(Lines(v))
      BY <2>3 DEF D
    <3>5. \A n \in 1..Len(E') :
             \E m \in D' : FirstDiffers(v, m)' /\ E'[n] = EventOf(v, m)'
      BY <2>2, <3>1, <3>2, <3>4
    <3>6. \A m \in D' : Differs(v, m)' =>
            \E n \in 1..Len(E') : E'[n].item = Lines(v)'[m].item
      BY <2>1, <2>2, <3>1, <3>3, <3>4
    <3>7. \A n, k \in 1..Len(E') : E'[n].item = E'[k].item => n = k
      BY <3>1 DEF EventsTell, E
    <3> QED BY <3>5, <3>6, <3>7 DEF EventsTell, D, E
  <2> QED BY <1>2, <2>1, <2>4, <2>5 DEF LoopOf
<1> QED BY <1>1, <1>2

\* A connection outside its loop has empty buffers, and begins at line one.
LEMMA LoopBegins ==
    ASSUME NoneAssumption, TypeOK, BufferInv, NEW w \in Workers, LoopOf(w), pc[w] # "writing"
    PROVE  /\ next[w] = 1 /\ Done(w) = {} /\ Len(events[w]) = 0
           /\ \A k \in Keys : rows[w][k] = None
<1>1. next[w] = 1 /\ Done(w) = {}
  BY DEF LoopOf, Done
<1>2. events[w] \in Seq(Event)
  BY DEF TypeOK
<1>3. Len(events[w]) = 0
  <2>1. Len(events[w]) \in Nat /\ \A n \in 1..Len(events[w]) : FALSE
    BY <1>2 DEF BufferInv
  <2> QED BY <2>1
<1>4. \A k \in Keys : rows[w][k] = None
  BY DEF BufferInv
<1> QED BY <1>1, <1>3, <1>4

\* One more line is written over the row of its product's latest line so far,
\* or over the committed one, and leaves its event when it is the first line
\* of its product that differs: a later one finds the occurrence's event there.
LEMMA LineWritten ==
    ASSUME NoneAssumption, TypeOK, ArgumentsInv, HolderInv, DecisionInv,
           DerivedFromApplied,
           NEW w \in Workers, WriteLine(w), LoopOf(w)
    PROVE  /\ next[w] \in 1..Len(Lines(w))
           /\ Done(w) = 1..(next[w] - 1)
           /\ Done(w)' = Done(w) \cup {next[w]}
           /\ rows'[w] = [rows[w] EXCEPT ![KeyOf(w, next[w])] = SeenRow(w, next[w])]
           /\ FirstDiffers(w, next[w]) =>
                events'[w] = Append(events[w], EventOf(w, next[w]))
           /\ ~FirstDiffers(w, next[w]) => events'[w] = events[w]
           /\ FirstDiffers(w, next[w]) => \A n \in 1..Len(events[w]) :
                events[w][n].item # Lines(w)[next[w]].item
           /\ next'[w] = next[w] + 1
<1> DEFINE l == next[w]
           k == KeyOf(w, l)
           item == Lines(w)[l].item
<1>1. pc[w] = "writing" /\ l \in 1..Len(Lines(w)) /\ l \in Nat
      /\ Len(Lines(w)) \in Nat
  BY LinesType DEF WriteLine, Lines
<1>2. Lines(w)' = Lines(w) /\ next'[w] = l + 1
  BY DEF WriteLine, arguments, Lines, TypeOK
<1>3. Done(w)' = Done(w) \cup {l} /\ Done(w) = 1..(l - 1)
  BY <1>1, <1>2 DEF Done
<1>4. \A m \in Done(w) : KeyOf(w, m) = k <=> Lines(w)[m].item = item
  BY DEF KeyOf
<1>5. CurrentLine(w) = Lines(w)[l]
  BY DEF CurrentLine, Lines
<1>6. WrittenKey(w) = k /\ k \in Keys
      /\ <<StoreOf(w), CurrentLine(w).item>> = k
  BY <1>1, <1>5, LinesType DEF WrittenKey, KeyOf
<1>7. RowsTell(w) /\ EventsTell(w)
  BY <1>1 DEF LoopOf
<1>8. \A n \in 1..Len(priceHistory[StoreOf(w)]) :
        priceHistory[StoreOf(w)][n].source # target[w]
  <2> SUFFICES ASSUME NEW n \in 1..Len(priceHistory[StoreOf(w)])
               PROVE  priceHistory[StoreOf(w)][n].source # target[w]
    OBVIOUS
  <2>1. resolution[priceHistory[StoreOf(w)][n].source] = "applied"
    BY <1>1, LinesType DEF DerivedFromApplied
  <2>2. ~Resolved(target[w])
    BY <1>1 DEF DecisionInv
  <2> QED BY <2>1, <2>2 DEF Resolved
<1>9. ASSUME NEW n \in 1..Len(events[w]) PROVE events[w][n].source = target[w]
  <2>1. PICK m \in Done(w) : events[w][n] = EventOf(w, m)
    BY <1>7 DEF EventsTell
  <2> QED BY <2>1 DEF EventOf
<1>10. AlreadyRecorded(w) <=> \E n \in 1..Len(events[w]) : events[w][n].item = item
  BY <1>5, <1>8, <1>9 DEF AlreadyRecorded, HasEvent
\* The first line of its product, and the one after a latest line.
<1>11. ASSUME \A m \in Done(w) : Lines(w)[m].item # item
       PROVE  /\ WrittenRow(w) = SeenRow(w, l)
              /\ PriceChanges(w) /\ ~AlreadyRecorded(w) <=> FirstDiffers(w, l)
  <2>1. rows[w][k] = None
    BY <1>4, <1>6, <1>7, <1>11 DEF RowsTell
  <2>2. VisibleRow(w) = currentState[k]
    BY <1>6, <2>1 DEF VisibleRow
  <2>3. WrittenRow(w) = SeenRow(w, l)
    BY <1>5, <2>2 DEF WrittenRow, SeenRow
  <2>4. PriceChanges(w) <=> Differs(w, l)
    BY <1>5, <2>2 DEF PriceChanges, Differs
  <2>5. ASSUME NEW n \in 1..Len(events[w]) PROVE events[w][n].item # item
    <3>1. PICK m \in Done(w) : events[w][n] = EventOf(w, m)
      BY <1>7 DEF EventsTell
    <3> QED BY <1>11, <3>1 DEF EventOf
  <2>6. FirstDiffers(w, l) <=> Differs(w, l)
    BY <1>3, <1>11 DEF FirstDiffers
  <2> QED BY <1>10, <2>3, <2>4, <2>5, <2>6
<1>12. ASSUME NEW j \in Done(w), Lines(w)[j].item = item
       PROVE  /\ WrittenRow(w) = SeenRow(w, l)
              /\ PriceChanges(w) /\ ~AlreadyRecorded(w) <=> FirstDiffers(w, l)
  <2>1. rows[w][k] # None
    BY <1>4, <1>7, <1>12 DEF RowsTell
  <2>2. PICK m \in Done(w) : k = KeyOf(w, m) /\ rows[w][k] = SeenRow(w, m)
    BY <1>6, <1>7, <2>1 DEF RowsTell
  <2>3. Lines(w)[m].item = item
    BY <1>4, <2>2
  <2>4. VisibleRow(w) = SeenRow(w, m) /\ VisibleRow(w) # None
    BY <1>6, <2>1, <2>2 DEF VisibleRow
  <2>5. WrittenRow(w) = SeenRow(w, l)
    <3>1. batch[w].mode # "normalized" =>
            VisibleRow(w).description =
              IF currentState[k] = None THEN None ELSE currentState[k].description
      BY <2>2, <2>4 DEF SeenRow
    <3> QED BY <1>5, <2>4, <3>1 DEF WrittenRow, SeenRow
  <2>6. PriceChanges(w) <=> Lines(w)[m].price # Lines(w)[l].price
    BY <1>5, <2>4 DEF PriceChanges, SeenRow
  <2>7. CASE \E n \in 1..Len(events[w]) : events[w][n].item = item
    <3>1. PICK n \in 1..Len(events[w]) : events[w][n].item = item
      BY <2>7
    <3>2. PICK f \in Done(w) : FirstDiffers(w, f) /\ events[w][n] = EventOf(w, f)
      BY <1>7 DEF EventsTell
    <3>3. Lines(w)[f].item = item /\ Differs(w, f) /\ f \in 1..(l - 1)
      BY <1>3, <3>1, <3>2 DEF EventOf, FirstDiffers
    <3> QED BY <1>10, <2>5, <3>1, <3>3 DEF FirstDiffers
  <2>8. CASE \A n \in 1..Len(events[w]) : events[w][n].item # item
    <3>1. \A f \in Done(w) : Lines(w)[f].item = item => ~Differs(w, f)
      BY <1>7, <2>8 DEF EventsTell
    <3>2. currentState[k] # None /\ currentState[k].price = Lines(w)[m].price
      BY <2>2, <2>3, <3>1 DEF Differs
    <3>3. PriceChanges(w) <=> Differs(w, l)
      BY <2>6, <3>2 DEF Differs
    <3>4. FirstDiffers(w, l) <=> Differs(w, l)
      BY <1>3, <3>1 DEF FirstDiffers
    <3> QED BY <1>10, <2>5, <2>8, <3>3, <3>4
  <2> QED BY <2>7, <2>8
<1>13. /\ WrittenRow(w) = SeenRow(w, l)
       /\ PriceChanges(w) /\ ~AlreadyRecorded(w) <=> FirstDiffers(w, l)
  BY <1>11, <1>12
<1>14. rows'[w] = [rows[w] EXCEPT ![k] = SeenRow(w, l)]
  BY <1>6, <1>13 DEF WriteLine, TypeOK
<1>15. /\ FirstDiffers(w, l) => events'[w] = Append(events[w], EventOf(w, l))
       /\ ~FirstDiffers(w, l) => events'[w] = events[w]
  BY <1>5, <1>13 DEF WriteLine, TypeOK, EventOf
<1> QED BY <1>1, <1>2, <1>3, <1>10, <1>13, <1>14, <1>15

\* Writing one more line keeps what the buffers say, now of that line too.
LEMMA WritePreservesLoop ==
    ASSUME NoneAssumption, TypeOK, ArgumentsInv, HolderInv, DecisionInv,
           DerivedFromApplied,
           NEW w \in Workers, WriteLine(w), LoopOf(w)
    PROVE  LoopOf(w)'
<1> DEFINE l == next[w]
           D == Done(w)
<1>1. /\ pc[w] = "writing" /\ RowsTell(w) /\ EventsTell(w)
      /\ UNCHANGED <<pc, target, batch, occurrence, currentState>>
  BY DEF WriteLine, LoopOf, database, arguments
<1>2. /\ l \in 1..Len(Lines(w)) /\ Len(Lines(w)) \in Nat
      /\ \A m \in 1..Len(Lines(w)) : KeyOf(w, m) \in Keys
  BY <1>1, LinesType, LineWritten
<1>3. Lines(w)' = Lines(w) /\ StoreOf(w)' = StoreOf(w)
  BY <1>1 DEF Lines, StoreOf
<1>4. \A m \in 1..Len(Lines(w)) :
        /\ KeyOf(w, m)' = KeyOf(w, m) /\ EventOf(w, m)' = EventOf(w, m)
        /\ Differs(w, m)' <=> Differs(w, m)
        /\ FirstDiffers(w, m)' <=> FirstDiffers(w, m)
        /\ SeenRow(w, m)' = SeenRow(w, m)
  BY <1>1, <1>3, LinesSame
<1>5. D = 1..(l - 1) /\ D' = D \cup {l}
  BY LineWritten
<1>6. /\ \A m \in D : m \in 1..Len(Lines(w)) /\ m < l
      /\ \A m \in D' : m \in 1..Len(Lines(w))
  BY <1>2, <1>5
<1>7. RowsTell(w)'
  <2>1. rows[w] \in [Keys -> Row \cup {None}]
    BY DEF TypeOK
  <2>2. /\ rows'[w][KeyOf(w, l)] = SeenRow(w, l)
        /\ \A k \in Keys : k # KeyOf(w, l) => rows'[w][k] = rows[w][k]
    <3>1. rows'[w] = [rows[w] EXCEPT ![KeyOf(w, l)] = SeenRow(w, l)]
      BY LineWritten
    <3> QED BY <1>2, <2>1, <3>1
  <2>3. SeenRow(w, l) # None
    BY <1>1, <1>2, SeenRowType
  <2>4. ASSUME NEW k \in Keys, rows'[w][k] # None
        PROVE  \E m \in Done(w)' :
                 Latest(w, m)' /\ k = KeyOf(w, m)' /\ rows'[w][k] = SeenRow(w, m)'
    <3>1. CASE k = KeyOf(w, l)
      <4>1. PICK m \in 1..Len(Lines(w)) : m = l
        BY <1>2
      <4>2. Latest(w, m)'
        BY <1>5, <1>6, <4>1 DEF Latest
      <4> QED BY <1>4, <1>5, <2>2, <3>1, <4>1, <4>2
    <3>2. CASE k # KeyOf(w, l)
      <4>1. PICK m \in D : Latest(w, m) /\ k = KeyOf(w, m) /\ rows[w][k] = SeenRow(w, m)
        BY <1>1, <2>2, <2>4, <3>2 DEF RowsTell
      <4>2. Lines(w)[l].item # Lines(w)[m].item
        BY <3>2, <4>1 DEF KeyOf
      <4>3. Latest(w, m)'
        BY <1>3, <1>5, <4>1, <4>2 DEF Latest
      <4> QED BY <1>4, <1>5, <1>6, <2>2, <3>2, <4>1, <4>3
    <3> QED BY <3>1, <3>2
  <2>5. ASSUME NEW m \in Done(w)' PROVE rows'[w][KeyOf(w, m)'] # None
    <3>1. KeyOf(w, m)' = KeyOf(w, m) /\ KeyOf(w, m) \in Keys
      BY <1>2, <1>4, <1>6
    <3>2. CASE KeyOf(w, m) = KeyOf(w, l)
      BY <2>2, <2>3, <3>1, <3>2
    <3>3. CASE KeyOf(w, m) # KeyOf(w, l)
      BY <1>1, <1>5, <2>2, <3>1, <3>3 DEF RowsTell
    <3> QED BY <3>2, <3>3
  <2> QED BY <2>4, <2>5 DEF RowsTell
<1>8. EventsTell(w)'
  <2> DEFINE E == events[w]
  <2>1. E \in Seq(Event) /\ Len(E) \in Nat
    BY DEF TypeOK
  <2>2. /\ \A n \in 1..Len(E) :
             \E m \in D : FirstDiffers(w, m) /\ E[n] = EventOf(w, m)
        /\ \A m \in D : Differs(w, m) =>
             \E n \in 1..Len(E) : E[n].item = Lines(w)[m].item
        /\ \A n, k \in 1..Len(E) : E[n].item = E[k].item => n = k
    BY <1>1 DEF EventsTell
  <2>3. \/ /\ FirstDiffers(w, l) /\ E' = Append(E, EventOf(w, l))
           /\ \A n \in 1..Len(E) : E[n].item # Lines(w)[l].item
        \/ ~FirstDiffers(w, l) /\ E' = E
    BY LineWritten
  <2>4. \A m \in D \cup {l} : /\ Differs(w, m)' <=> Differs(w, m)
                              /\ FirstDiffers(w, m)' <=> FirstDiffers(w, m)
                              /\ EventOf(w, m)' = EventOf(w, m)
                              /\ EventOf(w, m).item = Lines(w)[m].item
    BY <1>4, <1>5, <1>6 DEF EventOf
  \* A line that differs and is not the first one follows one with an event.
  <2>5. ASSUME ~FirstDiffers(w, l), Differs(w, l)
        PROVE  \E n \in 1..Len(E) : E[n].item = Lines(w)[l].item
    <3>1. PICK j \in D : Lines(w)[j].item = Lines(w)[l].item /\ Differs(w, j)
      BY <1>5, <2>5 DEF FirstDiffers
    <3> QED BY <2>2, <3>1
  <2> HIDE DEF D, E
  <2>6. ASSUME ~FirstDiffers(w, l), E' = E PROVE EventsTell(w)'
    <3>1. \A n \in 1..Len(E') : \E m \in D' : FirstDiffers(w, m)' /\ E'[n] = EventOf(w, m)'
      BY <1>5, <2>2, <2>4, <2>6
    <3>2. ASSUME NEW m \in D', Differs(w, m)'
          PROVE  \E n \in 1..Len(E') : E'[n].item = Lines(w)'[m].item
      <4>1. Differs(w, m)
        BY <1>5, <2>4, <3>2
      <4>2. CASE m = l
        BY <1>3, <2>5, <2>6, <4>1, <4>2
      <4>3. CASE m \in D
        BY <1>3, <2>2, <2>6, <4>1, <4>3
      <4> QED BY <1>5, <4>2, <4>3
    <3>3. \A n, k \in 1..Len(E') : E'[n].item = E'[k].item => n = k
      BY <2>2, <2>6
    <3> QED BY <3>1, <3>2, <3>3 DEF EventsTell, D, E
  <2>7. ASSUME FirstDiffers(w, l), E' = Append(E, EventOf(w, l)),
               \A n \in 1..Len(E) : E[n].item # Lines(w)[l].item
        PROVE  EventsTell(w)'
    <3>1. /\ Len(E') = Len(E) + 1 /\ E'[Len(E) + 1] = EventOf(w, l)
          /\ \A n \in 1..Len(E) : E'[n] = E[n] /\ n \in 1..Len(E')
          /\ \A n \in 1..Len(E') : n \in 1..Len(E) \/ n = Len(E) + 1
          /\ Len(E) + 1 \in 1..Len(E')
      BY <2>1, <2>7
    <3>2. ASSUME NEW n \in 1..Len(E')
          PROVE  \E m \in D' : FirstDiffers(w, m)' /\ E'[n] = EventOf(w, m)'
      <4>1. CASE n \in 1..Len(E)
        <5>1. PICK m \in D : FirstDiffers(w, m) /\ E[n] = EventOf(w, m)
          BY <2>2, <4>1
        <5> QED BY <1>5, <2>4, <3>1, <4>1, <5>1
      <4>2. CASE n = Len(E) + 1
        BY <1>5, <2>4, <2>7, <3>1, <4>2
      <4> QED BY <3>1, <4>1, <4>2
    <3>3. ASSUME NEW m \in D', Differs(w, m)'
          PROVE  \E n \in 1..Len(E') : E'[n].item = Lines(w)'[m].item
      <4>1. CASE m = l
        BY <1>3, <2>4, <3>1, <4>1
      <4>2. CASE m \in D
        <5>1. Differs(w, m)
          BY <2>4, <3>3, <4>2
        <5>2. PICK n \in 1..Len(E) : E[n].item = Lines(w)[m].item
          BY <2>2, <4>2, <5>1
        <5> QED BY <1>3, <3>1, <5>2
      <4> QED BY <1>5, <4>1, <4>2
    <3>4. \A n \in 1..Len(E) : E'[n].item # EventOf(w, l).item
      BY <2>4, <2>7, <3>1
    <3>5. \A n, k \in 1..Len(E') : E'[n].item = E'[k].item => n = k
      BY <2>2, <3>1, <3>4
    <3> QED BY <3>2, <3>3, <3>5 DEF EventsTell, D, E
  <2> QED BY <2>3, <2>6, <2>7
<1>9. next'[w] <= Len(Lines(w)') + 1
  <2>1. next'[w] = l + 1
    BY LineWritten
  <2>2. l + 1 <= Len(Lines(w)) + 1
    BY <1>2
  <2> QED BY <1>3, <2>1, <2>2
<1> QED BY <1>1, <1>7, <1>8, <1>9 DEF LoopOf

\* An insert leaves a running call's store, and an applied occurrence writes
\* no row of a store that another call holds.
LEMMA StepLoop ==
    ASSUME IInv, LoopInv, [Next]_vars
    PROVE  LoopInv'
<1> USE DEF IInv
<1>1. ASSUME NEW o \in Occurrences, NEW f \in Observations, Insert(o, f)
      PROVE  LoopInv'
  <2> SUFFICES ASSUME NEW v \in Workers PROVE LoopOf(v)'
    BY DEF LoopInv
  <2>1. UNCHANGED <<pc, target, batch, next, rows, events, currentState>>
    BY <1>1 DEF Insert, arguments, buffers
  <2>2. pc[v] = "writing" => StoreOf(v)' = StoreOf(v)
    <3> SUFFICES ASSUME pc[v] = "writing" PROVE StoreOf(v)' = StoreOf(v)
      OBVIOUS
    <3>1. target[v] \in Occurrences /\ Eligible(target[v])
      BY StoreType DEF Holding
    <3>2. occurrence'[target[v]] = occurrence[target[v]]
      BY <1>1, <3>1 DEF Insert, Eligible, TypeOK
    <3> QED BY <2>1, <3>2 DEF StoreOf
  <2> QED BY <2>1, <2>2, LoopKept DEF LoopInv
<1>2. ASSUME NEW w \in Workers, EndTransaction(w), UNCHANGED occurrence,
             \A v \in Workers : v # w /\ pc[v] = "writing" =>
               \A m \in 1..Len(Lines(v)) :
                 currentState'[KeyOf(v, m)] = currentState[KeyOf(v, m)]
      PROVE  LoopInv'
  <2> SUFFICES ASSUME NEW v \in Workers PROVE LoopOf(v)'
    BY DEF LoopInv
  <2>1. CASE v = w
    BY <1>2, <2>1 DEF EndTransaction, TypeOK, LoopOf
  <2>2. CASE v # w
    <3>1. /\ pc'[v] = pc[v] /\ target'[v] = target[v] /\ batch'[v] = batch[v]
          /\ next'[v] = next[v] /\ rows'[v] = rows[v] /\ events'[v] = events[v]
      BY <1>2, <2>2 DEF EndTransaction, TypeOK
    <3>2. StoreOf(v)' = StoreOf(v)
      BY <1>2, <3>1 DEF StoreOf
    <3> QED BY <1>2, <2>2, <3>1, <3>2, LoopKept DEF LoopInv
  <2> QED BY <2>1, <2>2
<1>3. ASSUME NEW w \in Workers, CommitApplied(w)
      PROVE  LoopInv'
  <2> SUFFICES ASSUME NEW v \in Workers, v # w, pc[v] = "writing",
                      NEW m \in 1..Len(Lines(v))
               PROVE  currentState'[KeyOf(v, m)] = currentState[KeyOf(v, m)]
    BY <1>2, <1>3 DEF CommitApplied
  <2>1. KeyOf(v, m) \in Keys /\ StoreOf(v) \in Stores
    BY LinesType
  <2>2. StoreOf(v) # StoreOf(w)
    BY <1>3, <2>1 DEF HolderInv, Holding, CommitApplied
  <2>3. rows[w][KeyOf(v, m)] = None
    BY <2>1, <2>2 DEF BufferInv, KeyOf
  <2> QED BY <1>3, <2>1, <2>3 DEF CommitApplied
<1>4. ASSUME NEW w \in Workers, EndTransaction(w), UNCHANGED <<occurrence, currentState>>
      PROVE  LoopInv'
  BY <1>2, <1>4
<1>5. ASSUME NEW w \in Workers, WriteLine(w)
      PROVE  LoopInv'
  <2> SUFFICES ASSUME NEW v \in Workers PROVE LoopOf(v)'
    BY DEF LoopInv
  <2>1. CASE v = w
    BY <1>5, <2>1, NoneAssumption, WritePreservesLoop DEF LoopInv
  <2>2. CASE v # w
    <3>1. /\ pc'[v] = pc[v] /\ target'[v] = target[v] /\ batch'[v] = batch[v]
          /\ next'[v] = next[v] /\ rows'[v] = rows[v] /\ events'[v] = events[v]
          /\ UNCHANGED <<occurrence, currentState>>
      BY <1>5, <2>2 DEF WriteLine, TypeOK, database, arguments
    <3>2. StoreOf(v)' = StoreOf(v)
      BY <3>1 DEF StoreOf
    <3> QED BY <3>1, <3>2, LoopKept DEF LoopInv
  <2> QED BY <2>1, <2>2
<1>6. ASSUME NEW w \in Workers, pc[w] # "writing",
             UNCHANGED <<next, rows, events, occurrence, currentState>>,
             \A v \in Workers \ {w} :
               pc'[v] = pc[v] /\ target'[v] = target[v] /\ batch'[v] = batch[v]
      PROVE  LoopInv'
  <2> SUFFICES ASSUME NEW v \in Workers PROVE LoopOf(v)'
    BY DEF LoopInv
  <2>1. CASE v = w
    <3>1. /\ next[w] = 1 /\ Len(events[w]) = 0
          /\ \A k \in Keys : rows[w][k] = None
      BY <1>6, NoneAssumption, LoopBegins DEF LoopInv
    <3>2. next'[w] = 1 /\ rows'[w] = rows[w] /\ Len(events'[w]) = 0
      BY <1>6, <3>1
    <3>3. Done(w)' = {}
      BY <3>2 DEF Done
    <3>4. RowsTell(w)'
      BY <3>1, <3>2, <3>3 DEF RowsTell
    <3>5. EventsTell(w)'
      BY <3>2, <3>3 DEF EventsTell
    <3>6. CASE pc'[w] = "writing"
      <4>1. batch'[w] \in Batch
        <5>1. ArgumentsInv'
          BY StepArguments
        <5> QED BY <3>6, <5>1, ActivationAssumption DEF ArgumentsInv
      <4>2. Len(Lines(w)') \in Nat
        BY <4>1 DEF Lines, Batch
      <4> QED BY <2>1, <3>2, <3>4, <3>5, <3>6, <4>2 DEF LoopOf
    <3>7. CASE pc'[w] # "writing"
      BY <2>1, <3>2, <3>7 DEF LoopOf
    <3> QED BY <3>6, <3>7
  <2>2. CASE v # w
    <3>1. StoreOf(v)' = StoreOf(v)
      BY <1>6, <2>2 DEF StoreOf
    <3> QED BY <1>6, <2>2, <3>1, LoopKept DEF LoopInv
  <2> QED BY <2>1, <2>2
<1>7. ASSUME NEW w \in Workers,
             \/ ReadFacts(w) \/ LockStore(w) \/ FindUnresolved(w)
             \/ FindNoneEarlier(w) \/ ChooseBranch(w)
      PROVE  LoopInv'
  <2>1. /\ pc[w] # "writing"
        /\ UNCHANGED <<next, rows, events, occurrence, currentState, target, batch>>
        /\ \A v \in Workers \ {w} : pc'[v] = pc[v]
    BY <1>7 DEF ReadFacts, LockStore, FindUnresolved, FindNoneEarlier,
                ChooseBranch, database, arguments, buffers, TypeOK
  <2> QED BY <1>6, <2>1
<1>8. ASSUME NEW w \in Workers, NEW o \in Occurrences, NEW b \in Batches,
             Call(w, o, b)
      PROVE  LoopInv'
  <2>1. /\ pc[w] # "writing"
        /\ UNCHANGED <<next, rows, events, occurrence, currentState>>
        /\ \A v \in Workers \ {w} :
             pc'[v] = pc[v] /\ target'[v] = target[v] /\ batch'[v] = batch[v]
    BY <1>8 DEF Call, database, buffers, TypeOK
  <2> QED BY <1>6, <2>1
<1>9. CASE UNCHANGED vars
  <2>1. UNCHANGED <<pc, target, batch, next, rows, events, occurrence, currentState>>
    BY <1>9 DEF vars
  <2>2. ASSUME NEW v \in Workers PROVE LoopOf(v)'
    <3>1. StoreOf(v)' = StoreOf(v)
      BY <2>1 DEF StoreOf
    <3> QED BY <2>1, <3>1, LoopKept DEF LoopInv
  <2> QED BY <2>2 DEF LoopInv
<1> QED
  BY <1>1, <1>3, <1>4, <1>5, <1>7, <1>8, <1>9
     DEF Next, Advance, Fail, RaiseValueError, ReturnAlreadyApplied, Defer,
         CommitStale, database

-----------------------------------------------------------------------------
(* What a COMMIT makes of prices and their history.                        *)

\* Applying an occurrence replaces the rows of its products, each by that of
\* its last line, and no others.
LEMMA CommittedRows ==
    ASSUME IInv, LoopInv, NEW w \in Workers, CommitApplied(w)
    PROVE  /\ pc[w] = "writing" /\ StoreOf(w) \in Stores
           /\ Done(w) = 1..Len(Lines(w))
           /\ \A m \in Done(w) :
                /\ KeyOf(w, m) \in Keys
                /\ currentState'[KeyOf(w, m)] # None
                /\ \E l \in Done(w) :
                     /\ Latest(w, l) /\ KeyOf(w, l) = KeyOf(w, m)
                     /\ currentState'[KeyOf(w, m)] = SeenRow(w, l)
           /\ \A k \in Keys : (\A m \in Done(w) : k # KeyOf(w, m)) =>
                currentState'[k] = currentState[k]
<1>1. pc[w] = "writing" /\ RowsTell(w) /\ StoreOf(w) \in Stores
  BY LinesType DEF CommitApplied, LoopInv, LoopOf, IInv
<1>2. Done(w) = 1..Len(Lines(w))
  BY <1>1, LinesType DEF CommitApplied, Done, Lines, IInv
<1>3. ASSUME NEW m \in Done(w)
      PROVE  /\ KeyOf(w, m) \in Keys
             /\ currentState'[KeyOf(w, m)] # None
             /\ \E l \in Done(w) :
                  /\ Latest(w, l) /\ KeyOf(w, l) = KeyOf(w, m)
                  /\ currentState'[KeyOf(w, m)] = SeenRow(w, l)
  <2>1. KeyOf(w, m) \in Keys
    BY <1>1, <1>2, LinesType DEF IInv
  <2>2. rows[w][KeyOf(w, m)] # None
    BY <1>1 DEF RowsTell
  <2>3. currentState'[KeyOf(w, m)] = rows[w][KeyOf(w, m)]
    BY <2>1, <2>2 DEF CommitApplied
  <2> QED BY <1>1, <2>1, <2>2, <2>3 DEF RowsTell
<1>4. ASSUME NEW k \in Keys, \A m \in Done(w) : k # KeyOf(w, m)
      PROVE  currentState'[k] = currentState[k]
  BY <1>1, <1>4 DEF RowsTell, CommitApplied
<1> QED BY <1>1, <1>2, <1>3, <1>4

\* A product has an event of the occurrence exactly when one of its lines
\* changed its price, at which it is or from which it went to that of a later
\* line.
LEMMA CommittedPrices ==
    ASSUME IInv, LoopInv, NEW w \in Workers, CommitApplied(w), NEW i \in Items
    PROVE  LET k == <<StoreOf(w), i>>
           IN  /\ \A n \in 1..Len(events[w]) : events[w][n].item = i =>
                    /\ currentState'[k] # None
                    /\ EndsAt(i, events[w][n].price, currentState'[k].price)
                    /\ currentState[k] # None =>
                         currentState[k].price # events[w][n].price
               /\ (\A n \in 1..Len(events[w]) : events[w][n].item # i) =>
                    /\ currentState'[k] # None <=> currentState[k] # None
                    /\ currentState[k] # None =>
                         currentState'[k].price = currentState[k].price
<1> DEFINE k == <<StoreOf(w), i>>
<1>1. k \in Keys /\ EventsTell(w)
  BY CommittedRows DEF Keys, LoopInv, LoopOf
<1>2. ASSUME NEW n \in 1..Len(events[w]), events[w][n].item = i
      PROVE  /\ currentState'[k] # None
             /\ EndsAt(i, events[w][n].price, currentState'[k].price)
             /\ currentState[k] # None => currentState[k].price # events[w][n].price
  <2>1. PICK m \in Done(w) : FirstDiffers(w, m) /\ events[w][n] = EventOf(w, m)
    BY <1>1 DEF EventsTell
  <2>2. /\ KeyOf(w, m) = k /\ Lines(w)[m].item = i
        /\ events[w][n].price = Lines(w)[m].price
    BY <1>2, <2>1 DEF KeyOf, EventOf
  <2>3. PICK l \in Done(w) : /\ Latest(w, l) /\ KeyOf(w, l) = k
                             /\ currentState'[k] = SeenRow(w, l)
    BY <2>2, CommittedRows
  <2>4. Lines(w)[l].item = i /\ currentState'[k].price = Lines(w)[l].price
    BY <2>3 DEF KeyOf, SeenRow
  <2>5. EndsAt(i, Lines(w)[m].price, Lines(w)[l].price)
    <3>1. m = l \/ m < l
      <4>1. ~(l < m)
        BY <2>2, <2>3, <2>4 DEF Latest
      <4>2. m \in 1..Len(Lines(w)) /\ l \in 1..Len(Lines(w))
        BY CommittedRows
      <4> QED BY <4>1, <4>2
    <3>2. CASE m = l
      BY <3>2 DEF EndsAt
    <3>3. CASE m < l
      <4>1. batch[w] \in Batches
        BY CommittedRows DEF IInv, ArgumentsInv
      <4>2. m \in 1..Len(batch[w].lines) /\ l \in 1..Len(batch[w].lines)
        BY CommittedRows DEF Lines
      <4> QED BY <2>2, <2>4, <3>3, <4>1, <4>2 DEF EndsAt, Lines
    <3> QED BY <3>1, <3>2, <3>3
  <2> QED BY <2>1, <2>2, <2>4, <2>5, CommittedRows DEF FirstDiffers, Differs
<1>3. ASSUME \A n \in 1..Len(events[w]) : events[w][n].item # i
      PROVE  /\ currentState'[k] # None <=> currentState[k] # None
             /\ currentState[k] # None =>
                  currentState'[k].price = currentState[k].price
  <2>1. CASE \E m \in Done(w) : k = KeyOf(w, m)
    <3>1. PICK m \in Done(w) : k = KeyOf(w, m)
      BY <2>1
    <3>2. PICK l \in Done(w) : KeyOf(w, l) = k /\ currentState'[k] = SeenRow(w, l)
      BY <3>1, CommittedRows
    <3>3. ~Differs(w, l)
      <4>1. i = Lines(w)[l].item
        BY <3>2 DEF KeyOf
      <4> QED BY <1>1, <1>3, <4>1 DEF EventsTell
    <3>4. currentState[k] # None /\ currentState[k].price = Lines(w)[l].price
      BY <3>2, <3>3 DEF Differs
    <3>5. SeenRow(w, l).price = Lines(w)[l].price
      BY DEF SeenRow
    <3> QED BY <3>1, <3>2, <3>4, <3>5, CommittedRows
  <2>2. CASE \A m \in Done(w) : k # KeyOf(w, m)
    BY <1>1, <2>2, CommittedRows
  <2> QED BY <2>1, <2>2
<1> QED BY <1>2, <1>3

\* What the history of one store says of the store's rows.
Explains(s) ==
    /\ \A i \in Items : currentState[<<s, i>>] # None =>
         \E n \in 1..Len(priceHistory[s]) :
           priceHistory[s][n].item = i /\ IsLastEvent(priceHistory[s], n)
    /\ \A n \in 1..Len(priceHistory[s]) : IsLastEvent(priceHistory[s], n) =>
         /\ currentState[<<s, priceHistory[s][n].item>>] # None
         /\ EndsAt(priceHistory[s][n].item, priceHistory[s][n].price,
                   currentState[<<s, priceHistory[s][n].item>>].price)
    /\ \A m, n \in 1..Len(priceHistory[s]) :
         NextEvent(priceHistory[s], m, n) =>
           \E q \in Prices :
             /\ EndsAt(priceHistory[s][m].item, priceHistory[s][m].price, q)
             /\ q # priceHistory[s][n].price

\* The property is Explains of every store.
LEMMA ExplainsStores ==
    HistoryExplainsCurrentPrice <=> \A s \in Stores : Explains(s)
BY DEF HistoryExplainsCurrentPrice, Explains

\* The history of the occurrence's store still explains its prices.
LEMMA CommitExplains ==
    ASSUME IInv, LoopInv, NEW w \in Workers, CommitApplied(w),
           NEW s \in Stores, s = StoreOf(w), Explains(s)
    PROVE  Explains(s)'
<1> DEFINE old == priceHistory[s]
           new == events[w]
           log == priceHistory'[s]
           l == Len(old)
<1>1. old \in Seq(Event) /\ new \in Seq(Event)
      /\ log = old \o new /\ l \in Nat /\ Len(new) \in Nat
  BY CommittedRows DEF CommitApplied, IInv, TypeOK
<1>2. Explains(s)
  OBVIOUS
<1>3. \A i \in Items :
        /\ \A n \in 1..Len(new) : new[n].item = i =>
             /\ currentState'[<<s, i>>] # None
             /\ EndsAt(i, new[n].price, currentState'[<<s, i>>].price)
             /\ currentState[<<s, i>>] # None => currentState[<<s, i>>].price # new[n].price
        /\ (\A n \in 1..Len(new) : new[n].item # i) =>
             /\ currentState'[<<s, i>>] # None <=> currentState[<<s, i>>] # None
             /\ currentState[<<s, i>>] # None =>
                  currentState'[<<s, i>>].price = currentState[<<s, i>>].price
  BY CommittedPrices
<1>4. \A n, k \in 1..Len(new) : new[n].item = new[k].item => n = k
  BY CommittedRows DEF LoopInv, LoopOf, EventsTell
<1>5. /\ \A n \in 1..l : old[n].item \in Items
      /\ \A n \in 1..Len(new) : new[n].item \in Items
  <2>1. \A e \in Event : e.item \in Items
    BY DEF Event
  <2>2. \A n \in 1..l : old[n] \in Event
    BY <1>1
  <2>3. \A n \in 1..Len(new) : new[n] \in Event
    BY <1>1
  <2> QED BY <2>1, <2>2, <2>3
<1> HIDE DEF old, new, log, l
<1>6. /\ Len(log) = l + Len(new)
      /\ \A n \in 1..l : log[n] = old[n] /\ n \in 1..Len(log)
      /\ \A n \in 1..Len(new) : log[l + n] = new[n] /\ l + n \in 1..Len(log)
  BY <1>1 DEF l
<1>7. ASSUME NEW n \in 1..Len(log), ~(n \in 1..l)
      PROVE  n - l \in 1..Len(new) /\ log[n] = new[n - l] /\ n = l + (n - l)
  <2>1. n - l \in 1..Len(new) /\ n = l + (n - l)
    BY <1>1, <1>6, <1>7
  <2>2. log[l + (n - l)] = new[n - l]
    BY <1>6, <2>1
  <2> QED BY <2>1, <2>2
\* An event of the occurrence is the last one of its product, and an old one
\* stays the last if the occurrence has none of its product.
<1>8. ASSUME NEW n \in 1..Len(new) PROVE IsLastEvent(log, l + n)
  <2> SUFFICES ASSUME NEW k \in (l + n + 1)..Len(log) PROVE log[k].item # log[l + n].item
    BY DEF IsLastEvent
  <2>1. k \in 1..Len(log) /\ k \notin 1..l
    BY <1>1, <1>6
  <2>2. k - l \in 1..Len(new) /\ log[k] = new[k - l] /\ k - l # n
    BY <1>1, <1>7, <2>1
  <2> QED BY <1>4, <1>6, <2>2
<1>9. ASSUME NEW n \in 1..l,
             \A k \in 1..Len(new) : new[k].item # old[n].item
      PROVE  IsLastEvent(log, n) <=> IsLastEvent(old, n)
  <2>1. ASSUME IsLastEvent(old, n) PROVE IsLastEvent(log, n)
    <3> SUFFICES ASSUME NEW k \in (n + 1)..Len(log) PROVE log[k].item # log[n].item
      BY DEF IsLastEvent
    <3>1. CASE k \in 1..l
      <4>1. k \in (n + 1)..Len(old)
        BY <1>1, <3>1 DEF l
      <4> QED BY <1>6, <2>1, <3>1, <4>1 DEF IsLastEvent
    <3>2. CASE ~(k \in 1..l)
      <4>1. k \in 1..Len(log)
        BY <1>1, <1>6
      <4> QED BY <1>6, <1>7, <1>9, <3>2, <4>1
    <3> QED BY <3>1, <3>2
  <2>2. ASSUME IsLastEvent(log, n) PROVE IsLastEvent(old, n)
    <3> SUFFICES ASSUME NEW k \in (n + 1)..Len(old) PROVE old[k].item # old[n].item
      BY DEF IsLastEvent
    <3>1. k \in 1..l /\ k \in (n + 1)..Len(log)
      BY <1>1, <1>6 DEF l
    <3> QED BY <1>6, <2>2, <3>1 DEF IsLastEvent
  <2> QED BY <2>1, <2>2
<1>10. ASSUME NEW n \in 1..l, IsLastEvent(log, n)
       PROVE  \A k \in 1..Len(new) : new[k].item # old[n].item
  <2> SUFFICES ASSUME NEW k \in 1..Len(new) PROVE new[k].item # old[n].item
    OBVIOUS
  <2>1. l + k \in (n + 1)..Len(log) /\ log[l + k] = new[k]
    BY <1>1, <1>6
  <2> QED BY <1>6, <1>10, <2>1 DEF IsLastEvent
<1>11. ASSUME NEW i \in Items, currentState'[<<s, i>>] # None
       PROVE  \E n \in 1..Len(log) : log[n].item = i /\ IsLastEvent(log, n)
  <2>1. CASE \E n \in 1..Len(new) : new[n].item = i
    <3>1. PICK n \in 1..Len(new) : new[n].item = i
      BY <2>1
    <3> QED BY <1>6, <1>8, <3>1
  <2>2. CASE \A n \in 1..Len(new) : new[n].item # i
    <3>1. currentState[<<s, i>>] # None
      BY <1>3, <1>11, <2>2
    <3>2. PICK n \in 1..Len(old) : old[n].item = i /\ IsLastEvent(old, n)
      BY <1>2, <3>1 DEF Explains, old
    <3>3. n \in 1..l
      BY DEF l
    <3> QED BY <1>6, <1>9, <2>2, <3>2, <3>3
  <2> QED BY <2>1, <2>2
<1>12. ASSUME NEW n \in 1..Len(log), IsLastEvent(log, n)
       PROVE  /\ currentState'[<<s, log[n].item>>] # None
              /\ EndsAt(log[n].item, log[n].price,
                        currentState'[<<s, log[n].item>>].price)
  <2>1. CASE n \in 1..l
    <3>1. (\A k \in 1..Len(new) : new[k].item # old[n].item) /\ log[n] = old[n]
      BY <1>6, <1>10, <1>12, <2>1
    <3>2. IsLastEvent(old, n) /\ n \in 1..Len(old)
      BY <1>9, <1>12, <2>1, <3>1 DEF l
    <3>3. /\ currentState[<<s, old[n].item>>] # None
          /\ EndsAt(old[n].item, old[n].price,
                    currentState[<<s, old[n].item>>].price)
      BY <1>2, <3>2 DEF Explains, old
    <3> QED BY <1>3, <1>5, <2>1, <3>1, <3>3
  <2>2. CASE ~(n \in 1..l)
    <3>1. n - l \in 1..Len(new) /\ log[n] = new[n - l]
      BY <1>7, <2>2
    <3> QED BY <1>3, <1>5, <3>1
  <2> QED BY <2>1, <2>2
<1>13. ASSUME NEW m \in 1..Len(log), NEW n \in 1..Len(log), NextEvent(log, m, n)
       PROVE  \E q \in Prices :
                EndsAt(log[m].item, log[m].price, q) /\ q # log[n].price
  <2>1. m < n /\ log[m].item = log[n].item
        /\ \A k \in (m + 1)..(n - 1) : log[k].item # log[n].item
    BY <1>13 DEF NextEvent
  <2>2. CASE n \in 1..l
    <3>1. m \in 1..l /\ log[m] = old[m] /\ log[n] = old[n]
      BY <1>1, <1>6, <2>1, <2>2
    <3>2. \A k \in (m + 1)..(n - 1) : k \in 1..l
      BY <1>1, <2>2, <3>1
    <3>3. NextEvent(old, m, n)
      BY <1>6, <2>1, <3>1, <3>2 DEF NextEvent
    <3>4. m \in 1..Len(old) /\ n \in 1..Len(old)
      BY <2>2, <3>1 DEF l
    <3> QED BY <1>2, <3>1, <3>3, <3>4 DEF Explains, old
  <2>3. CASE ~(n \in 1..l)
    <3>1. n - l \in 1..Len(new) /\ log[n] = new[n - l]
      BY <1>7, <2>3
    <3>2. CASE m \in 1..l
      <4>1. log[m] = old[m] /\ m \in 1..Len(old)
        BY <1>6, <3>2 DEF l
      <4>2. IsLastEvent(old, m)
        <5> SUFFICES ASSUME NEW k \in (m + 1)..Len(old) PROVE old[k].item # old[m].item
          BY DEF IsLastEvent
        <5>1. k \in 1..l /\ k \in (m + 1)..(n - 1)
          BY <1>1, <2>3, <3>2 DEF l
        <5> QED BY <1>6, <2>1, <4>1, <5>1
      <4> DEFINE row == currentState[<<s, old[m].item>>]
      <4>3. row # None /\ EndsAt(old[m].item, old[m].price, row.price)
        BY <1>2, <4>1, <4>2 DEF Explains, old
      <4>4. row.price \in Prices
        <5>1. old[m].item \in Items /\ s \in Stores
          BY <1>5, <3>2
        <5>2. row \in Row \cup {None}
          BY <5>1 DEF IInv, TypeOK, Keys
        <5> QED BY <4>3, <5>2 DEF Row
      <4>5. row.price # new[n - l].price
        BY <1>3, <1>5, <2>1, <3>1, <4>1, <4>3
      <4> QED BY <3>1, <4>1, <4>3, <4>4, <4>5
    <3>3. CASE ~(m \in 1..l)
      <4>1. m - l \in 1..Len(new) /\ log[m] = new[m - l]
        BY <1>7, <3>3
      <4>2. m - l = n - l
        BY <1>4, <2>1, <3>1, <4>1
      <4> QED BY <1>1, <2>1, <4>2
    <3> QED BY <3>2, <3>3
  <2> QED BY <2>2, <2>3
<1> QED BY <1>11, <1>12, <1>13 DEF Explains, log

\* Only a COMMIT that applies an occurrence changes derived state, and only
\* that of its store.
LEMMA StepExplains ==
    ASSUME IInv, LoopInv, HistoryExplainsCurrentPrice, [Next]_vars
    PROVE  HistoryExplainsCurrentPrice'
<1>1. ASSUME NEW w \in Workers, CommitApplied(w)
      PROVE  HistoryExplainsCurrentPrice'
  <2> SUFFICES ASSUME NEW s \in Stores PROVE Explains(s)'
    BY DEF HistoryExplainsCurrentPrice, Explains
  <2>1. Explains(s)
    BY ExplainsStores
  <2>2. CASE s = StoreOf(w)
    BY <1>1, <2>1, <2>2, CommitExplains
  <2>3. CASE s # StoreOf(w)
    <3>1. priceHistory'[s] = priceHistory[s]
      BY <1>1, <2>3, CommittedLog DEF IInv
    <3>2. \A i \in Items : currentState'[<<s, i>>] = currentState[<<s, i>>]
      BY <1>1, <2>3, CommittedRows DEF KeyOf, Keys
    <3>3. \A n \in 1..Len(priceHistory[s]) : priceHistory[s][n].item \in Items
      <4>1. priceHistory[s] \in Seq(Event)
        BY DEF IInv, TypeOK
      <4>2. \A e \in Event : e.item \in Items
        BY DEF Event
      <4> QED BY <4>1, <4>2
    <3> QED BY <2>1, <3>1, <3>2, <3>3 DEF Explains
  <2> QED BY <2>2, <2>3
<1>2. ASSUME UNCHANGED <<currentState, priceHistory>>
      PROVE  HistoryExplainsCurrentPrice'
  BY <1>2 DEF HistoryExplainsCurrentPrice
<1> QED
  BY <1>1, <1>2
     DEF Next, Advance, Fail, Insert, RaiseValueError, ReturnAlreadyApplied, Defer,
         Call, ReadFacts, LockStore, FindUnresolved, FindNoneEarlier,
         ChooseBranch, WriteLine, CommitStale, vars, database

\* At the start no call is in its loop, and there is nothing to explain.
LEMMA InitLoop == Init => LoopInv /\ HistoryExplainsCurrentPrice
<1> SUFFICES ASSUME Init PROVE LoopInv /\ HistoryExplainsCurrentPrice
  OBVIOUS
<1>1. LoopInv
  BY DEF Init, LoopInv, LoopOf
<1>2. HistoryExplainsCurrentPrice
  <2>1. ASSUME NEW s \in Stores PROVE Explains(s)
    <3>1. priceHistory[s] = <<>> /\ Len(priceHistory[s]) = 0
      BY DEF Init
    <3>2. \A i \in Items : currentState[<<s, i>>] = None
      BY DEF Init, NoRows, Keys
    <3> QED BY <3>1, <3>2 DEF Explains
  <2> QED BY <2>1, ExplainsStores
<1> QED BY <1>1, <1>2

\* Both the invariant of the ordering and that of what is written.
LEMMA ContentInvariant == Spec => [](IInv /\ LoopInv /\ HistoryExplainsCurrentPrice)
<1>1. /\ IInv /\ LoopInv /\ HistoryExplainsCurrentPrice
      /\ [Next]_vars /\ IInv'
      => (IInv /\ LoopInv /\ HistoryExplainsCurrentPrice)'
  BY StepLoop, StepExplains
<1> QED BY <1>1, InitLoop, Invariant, PTL DEF Spec

\* Every product with a row has a price event, the last one is at its current
\* price, and none repeats the price before it, exactly so for a product that
\* no batch names at two prices (HistoryExplainsCurrentPrice).
THEOREM HistoryExplained == Spec => []HistoryExplainsCurrentPrice
<1>1. IInv /\ LoopInv /\ HistoryExplainsCurrentPrice => HistoryExplainsCurrentPrice
  OBVIOUS
<1> QED BY <1>1, ContentInvariant, PTL

-----------------------------------------------------------------------------
(* Activation implements OrderedActivation.                                *)

\* The peers and the order of both specifications are the same.
LEMMA SamePeers ==
    ASSUME NEW o \in Occurrences, Eligible(o)
    PROVE  /\ o \in Ordered!Peers(o)
           /\ \A a \in Occurrences :
                /\ a \in Ordered!Peers(o) <=> SameStore(a, o)
                /\ Ordered!Precedes(a, o) <=> Before(a, o)
                /\ Ordered!Precedes(o, a) <=> Before(o, a)
           /\ \A a \in Ordered!Peers(o) : a \in Occurrences
BY DEF Ordered!Peers, Ordered!Precedes, SameStore, Before, Eligible

\* A call that has checked the order under its lock finds the abstract
\* activation's turn, and whether it was overtaken.
LEMMA TurnOfTarget ==
    ASSUME IInv, NEW w \in Workers, pc[w] \in {"stale", "writing"}
    PROVE  /\ target[w] \in Occurrences
           /\ Ordered!Unresolved(target[w])
           /\ pc[w] = "stale" => Ordered!Overtaken(target[w])
           /\ pc[w] = "writing" => ~Ordered!Overtaken(target[w])
<1> DEFINE t == target[w]
<1>1. t \in Occurrences /\ Eligible(t)
  BY StoreType DEF IInv, Holding
<1>2. ~Resolved(t) /\ EarlierUnresolved(t) = {}
      /\ (pc[w] = "stale" => LaterResolved(t) # {})
      /\ (pc[w] = "writing" => LaterResolved(t) = {})
  BY DEF IInv, DecisionInv
<1>3. Ordered!Unresolved(t)
  BY <1>1, <1>2, SamePeers
     DEF Ordered!Unresolved, EarlierUnresolved, Resolved, Eligible
<1>4. (pc[w] = "stale" => Ordered!Overtaken(t))
      /\ (pc[w] = "writing" => ~Ordered!Overtaken(t))
  BY <1>1, <1>2, SamePeers DEF Ordered!Overtaken, LaterResolved, Resolved
<1> QED BY <1>1, <1>3, <1>4

\* What the abstract activation makes of a call's input.
LEMMA InputMeans ==
    ASSUME IInv, LoopInv, NEW w \in Workers, CommitApplied(w),
           NEW input, input = InputOf(batch[w])
    PROVE  /\ input.lines = Lines(w) /\ input.mode = batch[w].mode
           /\ Done(w) = 1..Len(Lines(w)) /\ Len(Lines(w)) \in Nat
           /\ \A i : Ordered!Mentions(input, i) = {m \in Done(w) : Lines(w)[m].item = i}
           /\ \A m \in Done(w) :
                Ordered!Changes(target[w], Lines(w)[m]) <=> Differs(w, m)
<1>1. input.lines = Lines(w) /\ input.mode = batch[w].mode
  BY DEF InputOf, Lines
<1>2. Done(w) = 1..Len(Lines(w)) /\ Len(Lines(w)) \in Nat
  BY CommittedRows, LinesType DEF IInv
<1>3. \A i : Ordered!Mentions(input, i) = {m \in Done(w) : Lines(w)[m].item = i}
  BY <1>1, <1>2 DEF Ordered!Mentions
<1>4. ASSUME NEW m \in Done(w)
      PROVE  Ordered!Changes(target[w], Lines(w)[m]) <=> Differs(w, m)
  BY DEF Ordered!Changes, Differs, KeyOf, StoreOf
<1> QED BY <1>1, <1>2, <1>3, <1>4

\* A COMMIT that applies an occurrence replaces exactly the rows that the
\* abstract activation does.
LEMMA CommitObserves ==
    ASSUME IInv, LoopInv, NEW w \in Workers, CommitApplied(w)
    PROVE  LET input == InputOf(batch[w])
           IN  currentState' =
                 [k \in Stores \X Items |->
                    IF k[1] = StoreOf(w) /\ Ordered!Mentions(input, k[2]) # {}
                    THEN Ordered!Observed(target[w], input, k[2])
                    ELSE currentState[k]]
<1> DEFINE input == InputOf(batch[w])
           s == StoreOf(w)
<1>1. ASSUME NEW k \in Keys, k[1] = s, Ordered!Mentions(input, k[2]) # {}
      PROVE  currentState'[k] = Ordered!Observed(target[w], input, k[2])
  <2> DEFINE mentions == Ordered!Mentions(input, k[2])
             last == CHOOSE n \in mentions : \A m \in mentions : m <= n
  <2>1. mentions = {m \in Done(w) : Lines(w)[m].item = k[2]} /\ mentions # {}
    BY <1>1, InputMeans
  <2>2. PICK m \in Done(w) : Lines(w)[m].item = k[2]
    BY <2>1
  <2>3. k = KeyOf(w, m) /\ KeyOf(w, m) = <<s, k[2]>>
    BY <1>1, <2>2 DEF KeyOf, Keys
  <2>4. PICK l \in Done(w) : /\ Latest(w, l) /\ KeyOf(w, l) = k
                             /\ currentState'[k] = SeenRow(w, l)
    BY <2>3, CommittedRows
  <2>5. Lines(w)[l].item = k[2]
    BY <2>3, <2>4 DEF KeyOf
  <2>6. mentions \subseteq Nat
    BY <2>1, InputMeans
  <2>7. l \in mentions /\ \A n \in mentions : n <= l
    <3>1. l \in mentions
      BY <2>1, <2>5
    <3>2. ASSUME NEW n \in mentions PROVE ~(l < n)
      BY <2>1, <2>4, <2>5 DEF Latest
    <3> QED BY <2>6, <3>1, <3>2
  <2> HIDE DEF mentions
  <2>8. last = l
    <3>1. last \in mentions /\ \A n \in mentions : n <= last
      BY <2>7
    <3>2. last <= l /\ l <= last
      BY <2>7, <3>1
    <3>3. last \in Nat /\ l \in Nat
      BY <2>6, <2>7, <3>1
    <3> HIDE DEF last
    <3> QED BY <3>2, <3>3
  <2>9. Ordered!LastLine(input, k[2]) = Lines(w)[l]
    BY <2>8, InputMeans DEF Ordered!LastLine, mentions
  <2>10. s = occurrence[target[w]].store /\ input.mode = batch[w].mode
    BY InputMeans DEF StoreOf
  <2>11. Ordered!Observed(target[w], input, k[2]) = SeenRow(w, l)
    BY <2>3, <2>4, <2>9, <2>10 DEF Ordered!Observed, SeenRow
  <2> QED BY <2>4, <2>11
<1>2. ASSUME NEW k \in Keys, ~(k[1] = s /\ Ordered!Mentions(input, k[2]) # {})
      PROVE  currentState'[k] = currentState[k]
  <2>1. \A m \in Done(w) : k # KeyOf(w, m)
    BY <1>2, InputMeans DEF KeyOf
  <2> QED BY <2>1, CommittedRows
<1>3. currentState' = [k \in Keys |-> currentState'[k]]
  BY DEF CommitApplied
<1> QED BY <1>1, <1>2, <1>3 DEF Keys

\* The events of a call at its loop's end are those of the abstract activation.
LEMMA CommitRecords ==
    ASSUME IInv, LoopInv, NEW w \in Workers, CommitApplied(w),
           NEW input, input = InputOf(batch[w])
    PROVE  {events[w][n] : n \in 1..Len(events[w])} =
             {[item |-> input.lines[n].item, price |-> input.lines[n].price,
               source |-> target[w]] : n \in Ordered!EventLines(target[w], input)}
<1> DEFINE chosen == Ordered!EventLines(target[w], input)
<1>1. EventsTell(w)
  BY DEF CommitApplied, LoopInv, LoopOf
<1>2. input.lines = Lines(w) /\ Done(w) = 1..Len(Lines(w)) /\ Len(Lines(w)) \in Nat
  BY InputMeans
<1>3. chosen = {m \in Done(w) : FirstDiffers(w, m)}
  <2>1. ASSUME NEW m \in Done(w) PROVE m \in chosen <=> FirstDiffers(w, m)
    <3>1. Ordered!Changes(target[w], Lines(w)[m]) <=> Differs(w, m)
      BY InputMeans
    <3>2. Ordered!Mentions(input, Lines(w)[m].item)
            = {j \in Done(w) : Lines(w)[j].item = Lines(w)[m].item}
      BY InputMeans
    <3>3. \A j \in Done(w) : Ordered!Changes(target[w], Lines(w)[j]) <=> Differs(w, j)
      BY InputMeans
    <3>4. m \in Nat /\ \A j \in Done(w) : j < m <=> j \in 1..(m - 1)
      BY <1>2
    <3>5. \A j \in 1..(m - 1) : j \in Done(w)
      BY <1>2
    <3>6. m \in chosen <=>
            /\ Ordered!Changes(target[w], Lines(w)[m])
            /\ \A j \in Ordered!Mentions(input, Lines(w)[m].item) :
                 j < m => ~Ordered!Changes(target[w], Lines(w)[j])
      BY <1>2 DEF Ordered!EventLines
    <3> QED BY <3>1, <3>2, <3>3, <3>4, <3>5, <3>6 DEF FirstDiffers
  <2>2. chosen \subseteq Done(w)
    BY <1>2 DEF Ordered!EventLines
  <2> QED BY <2>1, <2>2
<1>4. ASSUME NEW m \in Done(w)
      PROVE  EventOf(w, m) = [item |-> input.lines[m].item,
                              price |-> input.lines[m].price, source |-> target[w]]
  BY <1>2 DEF EventOf
\* The event that a product has is that of its first line that differs.
<1>5. ASSUME NEW m \in Done(w), FirstDiffers(w, m)
      PROVE  \E n \in 1..Len(events[w]) : events[w][n] = EventOf(w, m)
  <2>1. PICK n \in 1..Len(events[w]) : events[w][n].item = Lines(w)[m].item
    BY <1>1, <1>5 DEF EventsTell, FirstDiffers
  <2>2. PICK f \in Done(w) : FirstDiffers(w, f) /\ events[w][n] = EventOf(w, f)
    BY <1>1 DEF EventsTell
  <2>3. Lines(w)[f].item = Lines(w)[m].item
    BY <2>1, <2>2 DEF EventOf
  <2>4. f \in Nat /\ m \in Nat /\ f >= 1 /\ m >= 1
    BY <1>2
  <2>5. ~(f < m)
    <3> SUFFICES ASSUME f < m PROVE FALSE
      OBVIOUS
    <3>1. f \in 1..(m - 1)
      BY <2>4
    <3> QED BY <1>5, <2>2, <2>3, <3>1 DEF FirstDiffers
  <2>6. ~(m < f)
    <3> SUFFICES ASSUME m < f PROVE FALSE
      OBVIOUS
    <3>1. m \in 1..(f - 1)
      BY <2>4
    <3> QED BY <1>5, <2>2, <2>3, <3>1 DEF FirstDiffers
  <2>7. f = m
    BY <2>4, <2>5, <2>6
  <2> QED BY <2>2, <2>7
<1> HIDE DEF chosen
<1>6. {events[w][n] : n \in 1..Len(events[w])} = {EventOf(w, m) : m \in chosen}
  BY <1>1, <1>3, <1>5 DEF EventsTell
<1>7. {EventOf(w, m) : m \in chosen} =
        {[item |-> input.lines[n].item, price |-> input.lines[n].price,
          source |-> target[w]] : n \in chosen}
  BY <1>3, <1>4
<1> QED BY <1>6, <1>7 DEF chosen

\* Each store's set of events grows by those of the COMMIT.
LEMMA CommitAddsEvents ==
    ASSUME IInv, LoopInv, NEW w \in Workers, CommitApplied(w),
           NEW s \in Stores, s = StoreOf(w)
    PROVE  RecordedEvents' =
             [RecordedEvents EXCEPT
                ![s] = @ \cup {events[w][n] : n \in 1..Len(events[w])}]
<1> DEFINE old == priceHistory[s]
           new == events[w]
           log == priceHistory'[s]
<1>1. old \in Seq(Event) /\ new \in Seq(Event) /\ log = old \o new
  BY DEF CommitApplied, IInv, TypeOK
<1>2. {log[n] : n \in 1..Len(log)}
        = {old[n] : n \in 1..Len(old)} \cup {new[n] : n \in 1..Len(new)}
  <2> HIDE DEF old, new, log
  <2>1. Len(old) \in Nat /\ Len(new) \in Nat /\ Len(log) = Len(old) + Len(new)
    BY <1>1
  <2>2. /\ \A n \in 1..Len(old) : log[n] = old[n] /\ n \in 1..Len(log)
        /\ \A n \in 1..Len(new) :
             log[Len(old) + n] = new[n] /\ Len(old) + n \in 1..Len(log)
    BY <1>1
  <2>3. ASSUME NEW n \in 1..Len(log)
        PROVE  \/ \E m \in 1..Len(old) : log[n] = old[m]
               \/ \E m \in 1..Len(new) : log[n] = new[m]
    <3>1. CASE n \in 1..Len(old)
      BY <2>2, <3>1
    <3>2. CASE ~(n \in 1..Len(old))
      <4>1. n - Len(old) \in 1..Len(new) /\ n = Len(old) + (n - Len(old))
        BY <2>1, <3>2
      <4>2. log[Len(old) + (n - Len(old))] = new[n - Len(old)]
        BY <2>2, <4>1
      <4> QED BY <4>1, <4>2
    <3> QED BY <3>1, <3>2
  <2>4. \A n \in 1..Len(log) : log[n] \in {old[m] : m \in 1..Len(old)}
                                       \cup {new[m] : m \in 1..Len(new)}
    BY <2>3
  <2>5. \A n \in 1..Len(old) : old[n] \in {log[m] : m \in 1..Len(log)}
    BY <2>2
  <2>6. \A n \in 1..Len(new) : new[n] \in {log[m] : m \in 1..Len(log)}
    BY <2>2
  <2> QED BY <2>4, <2>5, <2>6
<1>3. \A r \in Stores : r # s => priceHistory'[r] = priceHistory[r]
  BY CommittedLog DEF IInv
<1>4. RecordedEvents'[s] = RecordedEvents[s] \cup {new[n] : n \in 1..Len(new)}
  BY <1>2 DEF RecordedEvents
<1>5. \A r \in Stores : r # s => RecordedEvents'[r] = RecordedEvents[r]
  BY <1>3 DEF RecordedEvents
<1>6. /\ RecordedEvents' = [r \in Stores |-> RecordedEvents'[r]]
      /\ RecordedEvents = [r \in Stores |-> RecordedEvents[r]]
  BY DEF RecordedEvents
<1> QED BY <1>4, <1>5, <1>6

\* Every step is one of whole occurrences, or changes nothing visible.
LEMMA StepImplements ==
    ASSUME IInv, LoopInv, [Next]_vars
    PROVE  [Ordered!Next]_(Ordered!vars)
<1>1. ASSUME NEW o \in Occurrences, NEW f \in Observations, Insert(o, f)
      PROVE  Ordered!Next
  <2>1. Ordered!Observe(o, f)
    BY <1>1 DEF Insert, Ordered!Observe, RecordedEvents
  <2> QED BY <2>1 DEF Ordered!Next
<1>2. ASSUME NEW w \in Workers, CommitStale(w)
      PROVE  Ordered!Next
  <2>1. target[w] \in Occurrences /\ Ordered!Unresolved(target[w])
        /\ Ordered!Overtaken(target[w])
    BY <1>2, TurnOfTarget DEF CommitStale
  <2>2. Ordered!Preserve(target[w])
    BY <1>2, <2>1 DEF CommitStale, Ordered!Preserve, RecordedEvents
  <2> QED BY <2>1, <2>2 DEF Ordered!Next
<1>3. ASSUME NEW w \in Workers, CommitApplied(w)
      PROVE  Ordered!Next
  <2> DEFINE t == target[w]
             s == StoreOf(w)
             input == InputOf(batch[w])
  <2>1. t \in Occurrences /\ Ordered!Unresolved(t) /\ ~Ordered!Overtaken(t)
    BY <1>3, TurnOfTarget DEF CommitApplied
  <2>2. input \in {InputOf(b) : b \in Batches}
    BY <1>3 DEF CommitApplied, IInv, ArgumentsInv
  <2>3. s = occurrence[t].store /\ s \in Stores
    BY <1>3, CommittedRows DEF StoreOf
  <2>4. /\ resolution' = [resolution EXCEPT ![t] = "applied"]
        /\ UNCHANGED occurrence
    BY <1>3 DEF CommitApplied
  <2>5. currentState' =
          [k \in Stores \X Items |->
             IF k[1] = s /\ Ordered!Mentions(input, k[2]) # {}
             THEN Ordered!Observed(t, input, k[2]) ELSE currentState[k]]
    BY <1>3, CommitObserves
  <2>6. RecordedEvents' =
          [RecordedEvents EXCEPT ![s] = @ \cup
             {[item |-> input.lines[n].item, price |-> input.lines[n].price,
               source |-> t] : n \in Ordered!EventLines(t, input)}]
    BY <1>3, <2>3, CommitAddsEvents, CommitRecords
  <2> HIDE DEF t, s, input
  <2>7. Ordered!Apply(t, input)
    BY <2>1, <2>3, <2>4, <2>5, <2>6 DEF Ordered!Apply
  <2> QED BY <2>1, <2>2, <2>7 DEF Ordered!Next
<1>4. ASSUME UNCHANGED database
      PROVE  UNCHANGED Ordered!vars
  BY <1>4 DEF database, Ordered!vars, RecordedEvents
<1> QED
  BY <1>1, <1>2, <1>3, <1>4
     DEF Next, Advance, Fail, RaiseValueError, ReturnAlreadyApplied, Defer,
         Call, ReadFacts, LockStore, FindUnresolved, FindNoneEarlier,
         ChooseBranch, WriteLine, vars, database

\* Whatever statements interleave, fail or wait, what is committed is one of
\* the histories of OrderedActivation: whole occurrences, one at a time, in
\* the order of their store.
THEOREM Refinement == Spec => ImplementsOrdered
<1>1. Init => Ordered!Init
  BY DEF Init, Ordered!Init, NoRows, Keys, RecordedEvents
<1>2. IInv /\ LoopInv /\ HistoryExplainsCurrentPrice /\ [Next]_vars
        => [Ordered!Next]_(Ordered!vars)
  BY StepImplements
<1> QED
  BY <1>1, <1>2, ContentInvariant, PTL DEF Spec, ImplementsOrdered, Ordered!Spec

=============================================================================
