---------------------------- MODULE IdentityProofs ----------------------------
(***************************************************************************)
(* Proofs about ProductIdentity, for any identities, products and          *)
(* connections: what the primary key of the current assignment alone       *)
(* guarantees to calls that read it without a lock.                        *)
(***************************************************************************)
EXTENDS ProductIdentity, TLAPS

\* A connection that is correcting, past its read of the assignment.
Correcting(w) ==
    pc[w] \in {"append", "update", "commit"} /\ call[w].op = "correct"

\* A call in progress knows its arguments and runs its own statements only.
CallInv ==
    \A w \in Workers :
        /\ pc[w] # "idle" => call[w] \in Calls
        /\ pc[w] = "insert" => call[w].op = "assign"
        /\ pc[w] \in {"append", "update"} => call[w].op = "correct"

\* What a correction found is another product than the requested one, and it
\* is what the identity is still assigned to until its first history row.
FoundIsPrevious(w) ==
    /\ call[w].found \in Products
    /\ call[w].found # call[w].product
    /\ assignment[call[w].identity] # None
    /\ \/ HasHistory(call[w].identity)
       \/ call[w].found = assignment[call[w].identity]

CorrectionInv == \A w \in Workers : Correcting(w) => FoundIsPrevious(w)

\* Whoever is about to commit holds the row; a first assignment is then still
\* the first.
CommitInv ==
    \A w \in Workers :
        pc[w] = "commit" =>
          /\ writer[call[w].identity] = w
          /\ call[w].op = "assign" => assignment[call[w].identity] = None

IInv == TypeOK /\ CallInv /\ CorrectionInv /\ CommitInv

-----------------------------------------------------------------------------
\* The end of a transaction types its connection and takes nothing from
\* another one.
LEMMA EndKeeps ==
    ASSUME NoneAssumption, TypeOK, CallInv, CommitInv,
           NEW w \in Workers, EndTransaction(w)
    PROVE  /\ pc' \in [Workers -> {"idle", "read", "insert", "append",
                                   "update", "commit"}]
           /\ call' \in [Workers -> Calls \cup {None}]
           /\ writer' \in [Identities -> Workers \cup {None}]
           /\ CallInv'
           /\ \A v \in Workers :
                pc'[v] # "idle" =>
                  v # w /\ pc'[v] = pc[v] /\ call'[v] = call[v]
           /\ \A v \in Workers :
                pc'[v] = "commit" => writer'[call'[v].identity] = v
<1>1. /\ pc' \in [Workers -> {"idle", "read", "insert", "append", "update",
                              "commit"}]
      /\ call' \in [Workers -> Calls \cup {None}]
      /\ writer' \in [Identities -> Workers \cup {None}]
  BY DEF TypeOK, EndTransaction
<1>2. \A v \in Workers :
        pc'[v] # "idle" => v # w /\ pc'[v] = pc[v] /\ call'[v] = call[v]
  BY DEF TypeOK, EndTransaction
<1>3. CallInv'
  BY <1>2 DEF CallInv
<1>4. ASSUME NEW v \in Workers, pc'[v] = "commit"
      PROVE  writer'[call'[v].identity] = v
  <2>1. v # w /\ pc[v] = "commit" /\ call'[v] = call[v]
    BY <1>2, <1>4
  <2>2. call[v].identity \in Identities /\ writer[call[v].identity] = v
    BY <2>1 DEF CallInv, CommitInv, Calls
  <2> QED BY <2>1, <2>2 DEF EndTransaction
<1> QED BY <1>1, <1>2, <1>3, <1>4

\* A transaction that ends and writes no table preserves the invariant.
LEMMA EndPreserves ==
    ASSUME NoneAssumption, IInv, NEW w \in Workers, EndTransaction(w),
           UNCHANGED tables
    PROVE  IInv'
<1> USE DEF IInv
<1>1. TypeOK'
  BY EndKeeps DEF TypeOK, tables
<1>2. CorrectionInv'
  BY EndKeeps
  DEF CorrectionInv, Correcting, FoundIsPrevious, HasHistory, tables
<1>3. CommitInv'
  BY EndKeeps DEF CommitInv, tables
<1> QED BY <1>1, <1>2, <1>3, EndKeeps

\* The arguments of a call in progress are in their sets.
LEMMA CallOfWorker ==
    ASSUME IInv, NEW w \in Workers, pc[w] # "idle"
    PROVE  /\ call[w] \in Calls
           /\ Identity(w) \in Identities /\ Requested(w) \in Products
           /\ call[w].op \in {"assign", "correct"}
BY DEF IInv, CallInv, Calls, Identity, Requested

-----------------------------------------------------------------------------
\* COMMIT of a first assignment or of a correction: what it does to the
\* tables.
LEMMA CommitWrites ==
    ASSUME NoneAssumption, IInv, NEW w \in Workers, Commit(w)
    PROVE  /\ call[w] \in Calls /\ Identity(w) \in Identities
           /\ assignment' = [assignment EXCEPT ![Identity(w)] = Requested(w)]
           /\ \/ /\ assignment[Identity(w)] = None
                 /\ history' = history
              \/ /\ Correcting(w)
                 /\ assignment[Identity(w)] # None
                 /\ call[w].found \in Products
                 /\ call[w].found # Requested(w)
                 /\ HasHistory(Identity(w))
                      \/ call[w].found = assignment[Identity(w)]
                 /\ history' = Append(history, [identity |-> Identity(w),
                                                product |-> call[w].found])
<1>1. pc[w] = "commit"
  BY DEF Commit
<1>2. call[w] \in Calls /\ Identity(w) \in Identities
      /\ call[w].op \in {"assign", "correct"}
  BY <1>1, CallOfWorker
<1>3. CASE call[w].op = "assign"
  BY <1>1, <1>2, <1>3 DEF Commit, IInv, CommitInv, Identity
<1>4. CASE call[w].op = "correct"
  <2>1. Correcting(w)
    BY <1>1, <1>4 DEF Correcting
  <2> QED
    BY <1>2, <1>4, <2>1
    DEF Commit, IInv, CorrectionInv, FoundIsPrevious, Identity, Requested
<1> QED BY <1>2, <1>3, <1>4

\* An appended row is the new last one, and the others stay.
LEMMA Appended ==
    ASSUME history \in Seq(Superseded), NEW r \in Superseded,
           history' = Append(history, r)
    PROVE  /\ history' \in Seq(Superseded)
           /\ Len(history') = Len(history) + 1
           /\ history'[Len(history')] = r
           /\ \A k \in Identities : HasHistory(k) => HasHistory(k)'
           /\ HasHistory(r.identity)'
<1>1. /\ history' \in Seq(Superseded)
      /\ Len(history) \in Nat /\ Len(history') = Len(history) + 1
      /\ history'[Len(history')] = r
      /\ \A n \in 1..Len(history) : history'[n] = history[n]
  OBVIOUS
<1>2. ASSUME NEW k \in Identities, HasHistory(k) PROVE HasHistory(k)'
  <2>1. PICK n \in 1..Len(history) : history[n].identity = k
    BY <1>2 DEF HasHistory
  <2>2. n \in 1..Len(history') /\ history'[n].identity = k
    BY <1>1, <2>1
  <2> QED BY <2>2 DEF HasHistory
<1>3. Len(history') \in 1..Len(history')
  BY <1>1
<1>4. HasHistory(r.identity)'
  BY <1>1, <1>3 DEF HasHistory
<1> QED BY <1>1, <1>2, <1>4

\* COMMIT preserves the invariant: no correction is in progress of an identity
\* that gets its first assignment, and a correction gives its identity a
\* history.
LEMMA CommitPreserves ==
    ASSUME NoneAssumption, IInv, NEW w \in Workers, Commit(w)
    PROVE  IInv'
<1>0. PICK k \in Identities : k = Identity(w)
  BY CommitWrites
<1>1. EndTransaction(w) /\ product' = product /\ pc[w] = "commit"
      /\ Requested(w) \in Products /\ k = call[w].identity
  BY <1>0, CallOfWorker DEF Commit, Identity
<1>2. /\ assignment' \in [Identities -> Products \cup {None}]
      /\ assignment'[k] = Requested(w)
      /\ Requested(w) # None
      /\ \A i \in Identities \ {k} : assignment'[i] = assignment[i]
  BY <1>0, <1>1, CommitWrites DEF IInv, TypeOK, NoneAssumption
<1>3. /\ TypeOK' /\ CallInv'
      /\ \A v \in Workers :
           pc'[v] # "idle" => v # w /\ pc'[v] = pc[v] /\ call'[v] = call[v]
      /\ \A v \in Workers : pc'[v] = "commit" => writer'[call'[v].identity] = v
  <2>1. history' \in Seq(Superseded)
    <3>1. CASE history' = history
      BY <3>1 DEF IInv, TypeOK
    <3>2. CASE \E r \in Superseded : history' = Append(history, r)
      BY <3>2 DEF IInv, TypeOK
    <3> QED BY <1>1, <3>1, <3>2, CommitWrites DEF Superseded
  <2> QED BY <1>1, <1>2, <2>1, EndKeeps DEF IInv, TypeOK
<1>4. \A i \in Identities : HasHistory(i) => HasHistory(i)'
  <2>1. CASE history' = history
    BY <2>1 DEF HasHistory
  <2>2. CASE \E r \in Superseded : history' = Append(history, r)
    BY <2>2, Appended DEF IInv, TypeOK
  <2> QED BY <1>1, <2>1, <2>2, CommitWrites DEF Superseded
<1>5. assignment[k] = None \/ HasHistory(k)'
  <2>1. CASE assignment[k] # None
    <3>1. PICK r \in Superseded : r.identity = k /\ history' = Append(history, r)
      BY <1>0, <2>1, CommitWrites DEF Superseded
    <3> QED BY <3>1, Appended DEF IInv, TypeOK
  <2> QED BY <2>1
<1>6. CorrectionInv'
  <2> SUFFICES ASSUME NEW v \in Workers, Correcting(v)'
               PROVE  FoundIsPrevious(v)'
    BY DEF CorrectionInv
  <2>1. /\ Correcting(v) /\ call'[v] = call[v] /\ pc[v] # "idle"
    BY <1>3 DEF Correcting
  <2>2. FoundIsPrevious(v) /\ call[v].identity \in Identities
    BY <2>1, CallOfWorker DEF IInv, CorrectionInv, Identity
  <2>3. CASE call[v].identity = k
    BY <1>2, <1>5, <2>1, <2>2, <2>3 DEF FoundIsPrevious, HasHistory
  <2>4. CASE call[v].identity # k
    BY <1>2, <1>4, <2>1, <2>2, <2>4 DEF FoundIsPrevious, HasHistory
  <2> QED BY <2>3, <2>4
<1>7. CommitInv'
  <2> SUFFICES ASSUME NEW v \in Workers, pc'[v] = "commit",
                      call'[v].op = "assign"
               PROVE  assignment'[call'[v].identity] = None
    BY <1>3 DEF CommitInv
  <2>1. v # w /\ pc[v] = "commit" /\ call'[v] = call[v]
    BY <1>3
  <2>2. /\ call[v].identity \in Identities /\ call[v].identity # k
        /\ assignment[call[v].identity] = None
    BY <1>1, <2>1, CallOfWorker DEF IInv, CommitInv, Identity
  <2> QED BY <1>2, <2>1, <2>2
<1> QED BY <1>3, <1>6, <1>7 DEF IInv

-----------------------------------------------------------------------------
\* The invariant holds of empty tables.
LEMMA InitInvariant == ASSUME NoneAssumption PROVE Init => IInv
BY DEF NoneAssumption, Init, IInv, TypeOK, CallInv, CorrectionInv, Correcting,
       CommitInv, Superseded

\* Every step of a connection, and of a product's owner, preserves it.
LEMMA StepInvariant ==
    ASSUME NoneAssumption
    PROVE  IInv /\ [Next]_vars => IInv'
<1> SUFFICES ASSUME IInv, [Next]_vars PROVE IInv'
  OBVIOUS
<1> USE DEF IInv
<1>1. ASSUME NEW p \in Products,
             CreateProduct(p) \/ \E n \in Names : SetDisplayName(p, n)
      PROVE  IInv'
  <2>1. TypeOK'
    BY <1>1 DEF TypeOK, CreateProduct, SetDisplayName
  <2>2. UNCHANGED <<assignment, history, writer, pc, call>>
    BY <1>1 DEF CreateProduct, SetDisplayName
  <2> QED
    BY <2>1, <2>2 DEF CallInv, CorrectionInv, Correcting, FoundIsPrevious,
                      HasHistory, CommitInv
<1>2. ASSUME NEW w \in Workers, NEW op \in {"assign", "correct"},
             NEW k \in Identities, NEW p \in Products, Begin(w, op, k, p)
      PROVE  IInv'
  <2>1. [op |-> op, identity |-> k, product |-> p, found |-> None] \in Calls
    BY DEF Calls
  <2>2. TypeOK'
    BY <1>2, <2>1 DEF TypeOK, Begin, tables
  <2>3. CallInv' /\ CommitInv'
    BY <1>2, <2>1 DEF TypeOK, Begin, tables, CallInv, CommitInv
  <2>4. CorrectionInv'
    BY <1>2 DEF TypeOK, Begin, tables, CorrectionInv, Correcting,
                FoundIsPrevious, HasHistory
  <2> QED BY <2>2, <2>3, <2>4
<1>3. ASSUME NEW w \in Workers,
             \/ ReturnUnchanged(w) \/ RaiseValueError(w)
             \/ RaiseDuplicate(w) \/ Fail(w)
      PROVE  IInv'
  BY <1>3, EndPreserves
  DEF ReturnUnchanged, RaiseValueError, RaiseDuplicate, Fail
<1>4. ASSUME NEW w \in Workers, FindUnassigned(w) \/ AppendHistory(w)
      PROVE  IInv'
  <2>1. TypeOK'
    BY <1>4 DEF TypeOK, FindUnassigned, AppendHistory, tables
  <2>2. CallInv' /\ CommitInv'
    BY <1>4 DEF TypeOK, FindUnassigned, AppendHistory, tables, CallInv,
                CommitInv
  <2>3. CorrectionInv'
    BY <1>4 DEF TypeOK, FindUnassigned, AppendHistory, tables, CallInv,
                CorrectionInv, Correcting, FoundIsPrevious, HasHistory
  <2> QED BY <2>1, <2>2, <2>3
<1>5. ASSUME NEW w \in Workers, FindSuperseded(w) PROVE IInv'
  <2> DEFINE c == [call[w] EXCEPT !.found = assignment[Identity(w)]]
  <2>1. /\ pc[w] = "read" /\ call[w].op = "correct"
        /\ pc' = [pc EXCEPT ![w] = "append"] /\ call' = [call EXCEPT ![w] = c]
        /\ UNCHANGED <<product, assignment, history, writer>>
    BY <1>5 DEF FindSuperseded, tables
  <2>2. call[w] \in Calls /\ Identity(w) \in Identities
        /\ assignment[Identity(w)] \in Products
        /\ assignment[Identity(w)] # Requested(w)
        /\ assignment[Identity(w)] # None
    BY <1>5, CallOfWorker DEF FindSuperseded, TypeOK
  <2>3. /\ c \in Calls /\ c.op = "correct" /\ c.identity = Identity(w)
        /\ c.product = Requested(w) /\ c.found = assignment[Identity(w)]
    BY <2>1, <2>2 DEF Calls, Identity, Requested
  <2>4. TypeOK'
    BY <2>1, <2>3 DEF TypeOK
  <2>5. CallInv' /\ CommitInv'
    BY <2>1, <2>3 DEF TypeOK, CallInv, CommitInv
  <2>6. CorrectionInv'
    <3> SUFFICES ASSUME NEW v \in Workers, Correcting(v)'
                 PROVE  FoundIsPrevious(v)'
      BY DEF CorrectionInv
    <3>1. CASE v = w
      BY <2>1, <2>2, <2>3, <3>1 DEF TypeOK, FoundIsPrevious
    <3>2. CASE v # w
      BY <2>1, <3>2 DEF TypeOK, CorrectionInv, Correcting, FoundIsPrevious,
                        HasHistory
    <3> QED BY <3>1, <3>2
  <2> QED BY <2>4, <2>5, <2>6
<1>6. ASSUME NEW w \in Workers, Insert(w) \/ Update(w) PROVE IInv'
  <2>1. /\ pc[w] \in {"insert", "update"} /\ writer[Identity(w)] = None
        /\ pc[w] = "insert" => assignment[Identity(w)] = None
        /\ writer' = [writer EXCEPT ![Identity(w)] = w]
        /\ pc' = [pc EXCEPT ![w] = "commit"]
        /\ UNCHANGED <<product, assignment, history, call>>
    BY <1>6 DEF Insert, Update, tables
  <2>2. call[w] \in Calls /\ Identity(w) \in Identities
    BY <2>1, CallOfWorker
  <2>3. TypeOK' /\ CallInv'
    BY <2>1, <2>2 DEF TypeOK, CallInv
  <2>4. CorrectionInv'
    BY <2>1, <2>2 DEF TypeOK, CallInv, CorrectionInv, Correcting,
                      FoundIsPrevious, HasHistory
  <2>5. CommitInv'
    <3> SUFFICES ASSUME NEW v \in Workers, pc'[v] = "commit"
                 PROVE  /\ writer'[call[v].identity] = v
                        /\ call[v].op = "assign" =>
                             assignment[call[v].identity] = None
      BY <2>1 DEF CommitInv
    <3>1. CASE v = w
      BY <2>1, <2>2, <3>1 DEF TypeOK, CallInv, Identity
    <3>2. CASE v # w
      <4>1. pc[v] = "commit" /\ call[v].identity \in Identities
        BY <2>1, <3>2, CallOfWorker DEF TypeOK, Identity
      <4>2. writer[call[v].identity] = v /\ call[v].identity # Identity(w)
        BY <2>1, <4>1 DEF CommitInv, NoneAssumption
      <4> QED BY <2>1, <4>1, <4>2 DEF TypeOK, CommitInv
    <3> QED BY <3>1, <3>2
  <2> QED BY <2>3, <2>4, <2>5
<1>7. ASSUME NEW w \in Workers, Commit(w) PROVE IInv'
  BY <1>7, CommitPreserves
<1>8. CASE UNCHANGED vars
  BY <1>8 DEF vars, TypeOK, CallInv, CorrectionInv, Correcting,
              FoundIsPrevious, HasHistory, CommitInv
<1> QED
  BY <1>1, <1>2, <1>3, <1>4, <1>5, <1>6, <1>7, <1>8 DEF Next, Advance, TakeRow

LEMMA Invariant == ASSUME NoneAssumption PROVE Spec => []IInv
BY InitInvariant, StepInvariant, PTL DEF Spec

-----------------------------------------------------------------------------
\* Only COMMIT writes an assignment or the history.
LEMMA OnlyCommitWrites ==
    ASSUME [Next]_vars
    PROVE  UNCHANGED <<assignment, history>> \/ \E w \in Workers : Commit(w)
BY DEF Next, vars, tables, CreateProduct, SetDisplayName, Begin, Advance,
       TakeRow, ReturnUnchanged, RaiseValueError, FindUnassigned,
       FindSuperseded, AppendHistory, Insert, RaiseDuplicate, Update, Fail

\* A step that moves an assigned identity to another product is the COMMIT of
\* a correction of that identity.
LEMMA MoveIsCorrection ==
    ASSUME NoneAssumption, IInv, [Next]_vars, NEW k \in Identities,
           assignment[k] # None, assignment'[k] # assignment[k]
    PROVE  \E w \in Workers :
             /\ k = Identity(w) /\ assignment'[k] \in Products
             /\ call[w].found \in Products
             /\ HasHistory(k) \/ call[w].found = assignment[k]
             /\ history' = Append(history, [identity |-> k,
                                            product |-> call[w].found])
<1>1. PICK w \in Workers : Commit(w)
  BY OnlyCommitWrites
<1>2. k = Identity(w) /\ assignment'[k] = Requested(w)
  BY <1>1, CommitWrites DEF IInv, TypeOK
<1>3. Requested(w) \in Products
  BY <1>1, CallOfWorker DEF Commit
<1> QED BY <1>1, <1>2, <1>3, CommitWrites

\* The types of the tables and of the connections (TypeOK), for any number of
\* identities, products and connections.
THEOREM TypeCorrect == ASSUME NoneAssumption PROVE Spec => []TypeOK
<1>1. IInv => TypeOK
  BY DEF IInv
<1> QED BY <1>1, Invariant, PTL

\* assign_chain_product never reassigns, and a correction is one step with its
\* history row, whatever calls race (ReassignmentLeavesHistory).
THEOREM NoSilentReassignment ==
    ASSUME NoneAssumption PROVE Spec => ReassignmentLeavesHistory
<1>1. IInv /\ [Next]_vars =>
        [\A k \in Identities :
           assignment[k] # None /\ assignment'[k] # assignment[k] =>
             /\ assignment'[k] # None
             /\ \E r \in Superseded :
                  history' = Append(history, r) /\ r.identity = k]_vars
  <2> SUFFICES ASSUME IInv, [Next]_vars, NEW k \in Identities,
                      assignment[k] # None, assignment'[k] # assignment[k]
               PROVE  /\ assignment'[k] # None
                      /\ \E r \in Superseded :
                           history' = Append(history, r) /\ r.identity = k
    OBVIOUS
  <2>1. PICK w \in Workers :
             /\ assignment'[k] \in Products /\ call[w].found \in Products
             /\ history' = Append(history, [identity |-> k,
                                            product |-> call[w].found])
    BY MoveIsCorrection
  <2>2. [identity |-> k, product |-> call[w].found] \in Superseded
    BY <2>1 DEF Superseded
  <2> QED BY <2>1, <2>2 DEF NoneAssumption
<1> QED BY <1>1, Invariant, PTL DEF Spec, ReassignmentLeavesHistory

\* The first product of an identity is never lost: the first correction that
\* commits records it, also among racing ones (FirstCorrectionExact).
THEOREM FirstProductRecorded ==
    ASSUME NoneAssumption PROVE Spec => FirstCorrectionExact
<1>1. IInv /\ [Next]_vars =>
        [\A k \in Identities :
           assignment[k] # None /\ assignment'[k] # assignment[k]
             /\ ~HasHistory(k) =>
               history' = Append(history, [identity |-> k,
                                           product |-> assignment[k]])]_vars
  BY MoveIsCorrection
<1> QED BY <1>1, Invariant, PTL DEF Spec, FirstCorrectionExact

\* No history row says that a product was superseded by itself
\* (NeverSupersededByItself).
THEOREM SupersededByAnother ==
    ASSUME NoneAssumption PROVE Spec => NeverSupersededByItself
<1>1. IInv /\ [Next]_vars =>
        [Len(history') > Len(history) =>
           LET row == history'[Len(history')]
           IN  assignment'[row.identity] # row.product]_vars
  <2> SUFFICES ASSUME IInv, [Next]_vars, Len(history') > Len(history)
               PROVE  assignment'[history'[Len(history')].identity]
                        # history'[Len(history')].product
    OBVIOUS
  <2>1. history' # history
    BY DEF IInv, TypeOK
  <2>2. PICK w \in Workers : Commit(w)
    BY <2>1, OnlyCommitWrites
  <2> DEFINE r == [identity |-> Identity(w), product |-> call[w].found]
  <2>3. /\ r \in Superseded /\ history' = Append(history, r)
        /\ call[w].found # Requested(w)
        /\ assignment'[Identity(w)] = Requested(w)
    BY <2>1, <2>2, CommitWrites DEF IInv, TypeOK, Superseded
  <2>4. history'[Len(history')] = r
    BY <2>3, Appended DEF IInv, TypeOK
  <2> QED BY <2>3, <2>4
<1> QED BY <1>1, Invariant, PTL DEF Spec, NeverSupersededByItself

=============================================================================
