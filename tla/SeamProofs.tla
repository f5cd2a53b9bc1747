----------------------------- MODULE SeamProofs -----------------------------
(***************************************************************************)
(* Proofs about NormalizedSeam and the catalog in it, for any identifiers, *)
(* stores, occurrences, inputs and connections.                            *)
(***************************************************************************)
EXTENDS NormalizedSeam, ActivationProofs

-----------------------------------------------------------------------------
(* The catalog alone: the unique key of store_source_alias alone orders    *)
(* the callers that resolve one identifier.                                *)

\* What is assumed of the catalog's constants.
LEMMA CatalogGiven ==
    /\ MaxStores \in Nat /\ Catalog!StoreIds = Stores
    /\ None \notin Catalog!StoreIds /\ None \notin Aliases
    /\ None \notin Workers
BY SeamAssumption DEF Catalog!CatalogAssumption, Catalog!StoreIds

\* A resolution knows its identifier, and after its first INSERT its store.
ResolutionInv ==
    \A w \in Workers :
        /\ step[w] # "idle" => sought[w] \in Aliases
        /\ step[w] \in {"insert_alias", "commit"} =>
             created[w] \in Catalog!StoreIds

\* Whoever is about to commit an alias holds its key, and the alias is still
\* unknown to everybody else.
CommitInv ==
    \A w \in Workers :
        step[w] = "commit" =>
          /\ aliasWriter[sought[w]] = w
          /\ alias[sought[w]] = None

\* A key is held only by a connection at its COMMIT, which waits for nobody.
WriterInv ==
    \A a \in Aliases, w \in Workers : aliasWriter[a] = w => step[w] = "commit"

\* The inductive invariant of the catalog.
CatalogInv ==
    /\ Catalog!TypeOK
    /\ ResolutionInv
    /\ CommitInv
    /\ WriterInv
    /\ Catalog!AnswersAgree
    /\ Catalog!EveryStoreHasAlias

-----------------------------------------------------------------------------
\* A step that keeps every alias, keeps the stores, and answers nothing keeps
\* what is said of aliases and answers.
LEMMA AliasesKept ==
    ASSUME Catalog!AnswersAgree, Catalog!EveryStoreHasAlias,
           UNCHANGED <<store, alias, answered>>
    PROVE  Catalog!AnswersAgree' /\ Catalog!EveryStoreHasAlias'
BY DEF Catalog!AnswersAgree, Catalog!EveryStoreHasAlias

\* The end of a transaction types its connection, lets go of its key, and
\* takes nothing from another connection.
LEMMA EndKeeps ==
    ASSUME Catalog!TypeOK, ResolutionInv, CommitInv,
           NEW w \in Workers, Catalog!EndTransaction(w)
    PROVE  /\ step' \in [Workers ->
                          {"idle", "lookup", "insert_alias", "commit"}]
           /\ sought' \in [Workers -> Aliases \cup {None}]
           /\ created' \in [Workers -> Catalog!StoreIds \cup {None}]
           /\ aliasWriter' \in [Aliases -> Workers \cup {None}]
           /\ ResolutionInv'
           /\ \A v \in Workers :
                step'[v] = "commit" =>
                  /\ v # w /\ step[v] = "commit" /\ sought'[v] = sought[v]
                  /\ aliasWriter'[sought'[v]] = v
<1>1. /\ step' \in [Workers -> {"idle", "lookup", "insert_alias", "commit"}]
      /\ sought' \in [Workers -> Aliases \cup {None}]
      /\ created' \in [Workers -> Catalog!StoreIds \cup {None}]
      /\ aliasWriter' \in [Aliases -> Workers \cup {None}]
  BY DEF Catalog!TypeOK, Catalog!EndTransaction
<1>2. ResolutionInv'
  BY DEF Catalog!TypeOK, Catalog!EndTransaction, ResolutionInv
<1>3. ASSUME NEW v \in Workers, step'[v] = "commit"
      PROVE  /\ v # w /\ step[v] = "commit" /\ sought'[v] = sought[v]
             /\ aliasWriter'[sought'[v]] = v
  <2>1. v # w /\ step[v] = "commit" /\ sought'[v] = sought[v]
    BY <1>3 DEF Catalog!TypeOK, Catalog!EndTransaction
  <2>2. sought[v] \in Aliases /\ aliasWriter[sought[v]] = v
    BY <2>1 DEF ResolutionInv, CommitInv
  <2> QED BY <2>1, <2>2 DEF Catalog!EndTransaction
<1> QED BY <1>1, <1>2, <1>3

-----------------------------------------------------------------------------
\* The invariant holds of empty tables.
LEMMA CatalogInit == Catalog!Init => CatalogInv
BY CatalogGiven DEF Catalog!Init, CatalogInv, Catalog!TypeOK, ResolutionInv,
                    CommitInv, WriterInv, Catalog!AnswersAgree,
                    Catalog!EveryStoreHasAlias, Catalog!StoreIds

\* A key is taken on the way to a COMMIT, and given up at its end.
LEMMA WriterStep ==
    ASSUME Catalog!TypeOK, WriterInv, [Catalog!Next]_(Catalog!catalogVars)
    PROVE  WriterInv'
<1>1. ASSUME NEW w \in Workers,
             Catalog!EndTransaction(w)
      PROVE  WriterInv'
  BY <1>1, CatalogGiven DEF Catalog!EndTransaction, Catalog!TypeOK, WriterInv
<1>2. ASSUME NEW w \in Workers,
             \/ \E a \in Aliases : Catalog!Resolve(w, a)
             \/ Catalog!CreateStore(w) \/ Catalog!InsertAlias(w)
      PROVE  WriterInv'
  BY <1>2, CatalogGiven
     DEF Catalog!Resolve, Catalog!CreateStore, Catalog!InsertAlias,
         Catalog!TypeOK, WriterInv
<1>3. ASSUME UNCHANGED <<step, aliasWriter>> PROVE WriterInv'
  BY <1>3 DEF WriterInv
<1>4. ASSUME NEW w \in Workers,
             \/ Catalog!ReturnExisting(w) \/ Catalog!CommitStore(w)
             \/ Catalog!RaiseDuplicate(w) \/ Catalog!Fail(w)
      PROVE  Catalog!EndTransaction(w)
  BY <1>4 DEF Catalog!ReturnExisting, Catalog!CommitStore,
              Catalog!RaiseDuplicate, Catalog!Fail
<1> QED
  BY <1>1, <1>2, <1>3, <1>4
     DEF Catalog!Next, Catalog!Advance, Catalog!TakeAlias,
         Catalog!AddStoreSourceAlias, Catalog!catalogVars

\* Every step of a connection, and of add_store_source_alias, preserves it.
LEMMA CatalogStep ==
    CatalogInv /\ [Catalog!Next]_(Catalog!catalogVars) => CatalogInv'
<1> SUFFICES ASSUME CatalogInv, [Catalog!Next]_(Catalog!catalogVars)
             PROVE  CatalogInv'
  OBVIOUS
<1> USE DEF CatalogInv
<1>0. WriterInv'
  BY WriterStep
<1>1. ASSUME NEW w \in Workers, NEW a \in Aliases,
             Catalog!Resolve(w, a)
      PROVE  CatalogInv'
  <2>1. Catalog!TypeOK'
    BY <1>1 DEF Catalog!TypeOK, Catalog!Resolve
  <2>2. ResolutionInv' /\ CommitInv'
    BY <1>1 DEF Catalog!TypeOK, Catalog!Resolve, ResolutionInv, CommitInv
  <2> QED BY <1>0, <1>1, <2>1, <2>2, AliasesKept DEF Catalog!Resolve
<1>2. ASSUME NEW w \in Workers, Catalog!ReturnExisting(w) PROVE CatalogInv'
  <2>1. Catalog!EndTransaction(w) /\ sought[w] \in Aliases
        /\ alias[sought[w]] \in Catalog!StoreIds
    BY <1>2 DEF Catalog!ReturnExisting, ResolutionInv, Catalog!TypeOK
  <2>2. Catalog!TypeOK'
    BY <1>2, <2>1, EndKeeps DEF Catalog!TypeOK, Catalog!ReturnExisting
  <2>3. ResolutionInv' /\ CommitInv'
    BY <1>2, <2>1, EndKeeps DEF Catalog!ReturnExisting, CommitInv
  <2>4. Catalog!AnswersAgree' /\ Catalog!EveryStoreHasAlias'
    BY <1>2 DEF Catalog!ReturnExisting, Catalog!AnswersAgree,
                Catalog!EveryStoreHasAlias
  <2> QED BY <1>0, <2>2, <2>3, <2>4
<1>3. ASSUME NEW w \in Workers, Catalog!CreateStore(w) PROVE CatalogInv'
  <2>1. handedOut' \in 0..MaxStores /\ handedOut' \in Catalog!StoreIds
    BY <1>3, CatalogGiven DEF Catalog!CreateStore, Catalog!TypeOK,
                              Catalog!StoreIds
  <2>2. Catalog!TypeOK'
    BY <1>3, <2>1 DEF Catalog!TypeOK, Catalog!CreateStore
  <2>3. ResolutionInv' /\ CommitInv'
    BY <1>3, <2>1 DEF Catalog!TypeOK, Catalog!CreateStore, ResolutionInv,
                      CommitInv
  <2> QED BY <1>0, <1>3, <2>2, <2>3, AliasesKept DEF Catalog!CreateStore
<1>4. ASSUME NEW w \in Workers, Catalog!InsertAlias(w) PROVE CatalogInv'
  <2>1. sought[w] \in Aliases
    BY <1>4 DEF Catalog!InsertAlias, ResolutionInv
  <2>2. Catalog!TypeOK'
    BY <1>4, <2>1 DEF Catalog!TypeOK, Catalog!InsertAlias
  <2>3. ResolutionInv'
    BY <1>4 DEF Catalog!TypeOK, Catalog!InsertAlias, ResolutionInv
  <2>4. CommitInv'
    BY <1>4, <2>1, CatalogGiven DEF Catalog!TypeOK, Catalog!InsertAlias,
                                    ResolutionInv, CommitInv
  <2> QED BY <1>0, <1>4, <2>2, <2>3, <2>4, AliasesKept DEF Catalog!InsertAlias
<1>5. ASSUME NEW w \in Workers,
             Catalog!RaiseDuplicate(w) \/ Catalog!Fail(w)
      PROVE  CatalogInv'
  <2>1. Catalog!EndTransaction(w)
        /\ UNCHANGED <<store, handedOut, alias, answered>>
    BY <1>5 DEF Catalog!RaiseDuplicate, Catalog!Fail
  <2>2. Catalog!TypeOK'
    BY <2>1, EndKeeps DEF Catalog!TypeOK
  <2>3. ResolutionInv' /\ CommitInv'
    BY <2>1, EndKeeps DEF CommitInv
  <2> QED BY <1>0, <2>1, <2>2, <2>3, AliasesKept
<1>6. ASSUME NEW w \in Workers, Catalog!CommitStore(w) PROVE CatalogInv'
  <2>1. /\ Catalog!EndTransaction(w) /\ sought[w] \in Aliases
        /\ created[w] \in Catalog!StoreIds
        /\ aliasWriter[sought[w]] = w /\ alias[sought[w]] = None
    BY <1>6 DEF Catalog!CommitStore, ResolutionInv, CommitInv
  <2>2. Catalog!TypeOK'
    BY <1>6, <2>1, EndKeeps DEF Catalog!TypeOK, Catalog!CommitStore
  <2>3. ResolutionInv'
    BY <2>1, EndKeeps
  <2>4. ASSUME NEW v \in Workers, step'[v] = "commit"
        PROVE  aliasWriter'[sought'[v]] = v /\ alias'[sought'[v]] = None
    <3>1. v # w /\ step[v] = "commit" /\ sought'[v] = sought[v]
          /\ aliasWriter'[sought'[v]] = v
      BY <2>1, <2>4, EndKeeps
    <3>2. sought[v] # sought[w] /\ sought[v] \in Aliases
          /\ alias[sought[v]] = None
      BY <2>1, <3>1 DEF CommitInv, ResolutionInv
    <3> QED BY <1>6, <3>1, <3>2 DEF Catalog!CommitStore, Catalog!TypeOK
  <2>5. CommitInv'
    BY <2>4 DEF CommitInv
  <2>6. \A a \in Aliases : alias[a] # None => alias'[a] = alias[a]
    BY <1>6, <2>1 DEF Catalog!CommitStore, Catalog!TypeOK
  <2>7. alias'[sought[w]] = created[w]
    BY <1>6, <2>1 DEF Catalog!CommitStore, Catalog!TypeOK
  <2>8. Catalog!AnswersAgree'
    <3> SUFFICES ASSUME NEW r \in answered' PROVE alias'[r[1]] = r[2]
      BY DEF Catalog!AnswersAgree
    <3>1. CASE r \in answered
      BY <2>6, <3>1, CatalogGiven DEF Catalog!AnswersAgree, Catalog!TypeOK
    <3>2. CASE r = <<sought[w], created[w]>>
      BY <2>7, <3>2
    <3> QED BY <1>6, <3>1, <3>2 DEF Catalog!CommitStore
  <2>9. Catalog!EveryStoreHasAlias'
    <3> SUFFICES ASSUME NEW s \in store' PROVE \E a \in Aliases : alias'[a] = s
      BY DEF Catalog!EveryStoreHasAlias
    <3>1. CASE s \in store
      BY <2>6, <3>1, CatalogGiven DEF Catalog!EveryStoreHasAlias,
                                      Catalog!TypeOK
    <3>2. CASE s = created[w]
      BY <2>1, <2>7, <3>2
    <3> QED BY <1>6, <3>1, <3>2 DEF Catalog!CommitStore
  <2> QED BY <1>0, <2>2, <2>3, <2>5, <2>8, <2>9
<1>7. ASSUME NEW s \in store, NEW a \in Aliases,
             Catalog!AddStoreSourceAlias(s, a)
      PROVE  CatalogInv'
  <2>1. \A b \in Aliases : alias[b] # None => alias'[b] = alias[b]
    BY <1>7 DEF Catalog!AddStoreSourceAlias, Catalog!TypeOK
  <2>2. Catalog!TypeOK' /\ ResolutionInv'
    BY <1>7 DEF Catalog!AddStoreSourceAlias, Catalog!TypeOK, ResolutionInv
  <2>3. CommitInv'
    <3> SUFFICES ASSUME NEW w \in Workers, step[w] = "commit"
                 PROVE  aliasWriter[sought[w]] = w /\ alias'[sought[w]] = None
      BY <1>7 DEF Catalog!AddStoreSourceAlias, CommitInv
    <3>1. sought[w] \in Aliases /\ aliasWriter[sought[w]] = w
          /\ alias[sought[w]] = None
      BY DEF ResolutionInv, CommitInv
    <3>2. sought[w] # a
      BY <1>7, <3>1, CatalogGiven DEF Catalog!AddStoreSourceAlias
    <3> QED BY <1>7, <3>1, <3>2 DEF Catalog!AddStoreSourceAlias, Catalog!TypeOK
  <2>4. Catalog!AnswersAgree'
    BY <1>7, <2>1, CatalogGiven DEF Catalog!AddStoreSourceAlias,
                                    Catalog!AnswersAgree, Catalog!TypeOK
  <2>5. Catalog!EveryStoreHasAlias'
    BY <1>7, <2>1, CatalogGiven DEF Catalog!AddStoreSourceAlias,
                                    Catalog!EveryStoreHasAlias, Catalog!TypeOK
  <2> QED BY <1>0, <2>2, <2>3, <2>4, <2>5
<1>8. CASE UNCHANGED Catalog!catalogVars
  BY <1>0, <1>8
     DEF Catalog!catalogVars, Catalog!TypeOK, ResolutionInv, CommitInv,
         Catalog!AnswersAgree, Catalog!EveryStoreHasAlias
<1> QED
  BY <1>1, <1>2, <1>3, <1>4, <1>5, <1>6, <1>7, <1>8
  DEF Catalog!Next, Catalog!Advance, Catalog!TakeAlias

\* The inductive invariant holds of every behaviour of the catalog.
LEMMA CatalogInvariant == Catalog!Spec => []CatalogInv
BY CatalogInit, CatalogStep, PTL DEF Catalog!Spec

-----------------------------------------------------------------------------
\* The types of the tables and of the connections (TypeOK), for any number of
\* identifiers and connections.
THEOREM CatalogTypeCorrect == Catalog!Spec => []Catalog!TypeOK
<1>1. CatalogInv => Catalog!TypeOK
  BY DEF CatalogInv
<1> QED BY <1>1, CatalogInvariant, PTL

\* What get_or_create_store_by_alias has returned for an identifier is what
\* the alias table says for good, whoever raced to be first (AnswersAgree).
THEOREM AnswersStay == Catalog!Spec => []Catalog!AnswersAgree
<1>1. CatalogInv => Catalog!AnswersAgree
  BY DEF CatalogInv
<1> QED BY <1>1, CatalogInvariant, PTL

\* No lost race and no failure leaves a store that no identifier means
\* (EveryStoreHasAlias).
THEOREM NoOrphanStore == Catalog!Spec => []Catalog!EveryStoreHasAlias
<1>1. CatalogInv => Catalog!EveryStoreHasAlias
  BY DEF CatalogInv
<1> QED BY <1>1, CatalogInvariant, PTL

-----------------------------------------------------------------------------
(* The seam's transactions are the catalog's and the activation's, at most *)
(* held up by each other's locks.                                          *)

\* A step of the seam is one of the catalog, or does not touch it.
LEMMA CatalogSteps ==
    [SeamNext]_allVars => [Catalog!Next]_(Catalog!catalogVars)
<1> SUFFICES ASSUME [SeamNext]_allVars
             PROVE  Catalog!Next \/ UNCHANGED Catalog!catalogVars
  OBVIOUS
<1> USE DEF catalogVars, Catalog!catalogVars
<1>1. ASSUME NEW s \in store, NEW a \in Aliases, AddAlias(s, a)
      PROVE  Catalog!Next
  BY <1>1 DEF AddAlias, Catalog!Next
<1>2. ASSUME NEW w \in Workers, NEW x \in Inputs,
             ActivateNormalizedOccurrence(w, x)
      PROVE  Catalog!Next
  <2>1. x.alias \in Aliases
    BY SeamAssumption DEF Input
  <2> QED BY <1>2, <2>1 DEF ActivateNormalizedOccurrence, Catalog!Next
<1>3. ASSUME NEW w \in Workers,
             Resolving(w) \/ StoreResolved(w) \/ ResolutionFails(w)
      PROVE  Catalog!Next
  BY <1>3 DEF Resolving, StoreResolved, ResolutionFails, Catalog!Next,
              Catalog!Advance, Catalog!TakeAlias
<1>4. ASSUME NEW w \in Workers,
             \/ RaiseNoOccurrence(w) \/ FindOccurrence(w) \/ ShareStore(w)
             \/ LockOccurrence(w) \/ RaiseDisagreement(w) \/ RaiseConflict(w)
             \/ InsertEvidence(w) \/ ReplayIdentical(w) \/ PersistenceFails(w)
      PROVE  UNCHANGED Catalog!catalogVars
  BY <1>4 DEF RaiseNoOccurrence, FindOccurrence, ShareStore, LockOccurrence,
              RaiseDisagreement, RaiseConflict, InsertEvidence,
              ReplayIdentical, PersistenceFails, BeginActivation
<1>5. ASSUME NEW w \in Workers,
             \/ ActivationStatement(w) \/ LockStoreRow(w)
             \/ UpdateOccurrence(w) \/ ActivationFails(w)
      PROVE  UNCHANGED Catalog!catalogVars
  BY <1>5 DEF ActivationStatement, LockStoreRow, UpdateOccurrence,
              ActivationFails, InActivation
<1>6. ASSUME NEW o \in Occurrences, NEW f \in Observations,
             InsertOccurrence(o, f)
      PROVE  UNCHANGED Catalog!catalogVars
  BY <1>6 DEF InsertOccurrence
<1>7. CASE UNCHANGED allVars
  BY <1>7 DEF allVars
<1> QED
  BY <1>1, <1>2, <1>3, <1>4, <1>5, <1>6, <1>7 DEF SeamNext, Proceed

\* Inside the seam the catalog behaves as on its own.
THEOREM SeamImplementsCatalog == SeamSpec => Catalog!Spec
<1>1. SeamInit => Catalog!Init
  BY DEF SeamInit
<1> QED BY <1>1, CatalogSteps, PTL DEF SeamSpec, Catalog!Spec

\* Where a connection can be in the seam.
Stages == {"idle", "resolving", "find", "lock_store", "lock_occurrence",
           "insert", "classify", "activating"}

\* From its call on a connection has its arguments, and from the end of the
\* resolution the normalized items with a store of the catalog.
SeamArgumentsInv ==
    /\ stage \in [Workers -> Stages]
    /\ input \in [Workers -> Inputs \cup {None}]
    /\ items \in [Workers -> Batches \cup {None}]
    /\ \A w \in Workers :
         /\ stage[w] # "idle" => input[w] \in Inputs
         /\ stage[w] \notin {"idle", "resolving"} =>
              items[w] \in Batches /\ items[w].mode = "normalized"

\* A return keeps them.
LEMMA ReturnKeepsArguments ==
    ASSUME SeamArgumentsInv, NEW w \in Workers, SeamReturn(w)
    PROVE  SeamArgumentsInv'
BY DEF SeamArgumentsInv, SeamReturn, Goto, Stages

\* So does a step to a stage past the resolution from another such stage.
LEMMA GotoKeepsArguments ==
    ASSUME SeamArgumentsInv, NEW w \in Workers,
           NEW s \in Stages \ {"idle", "resolving"},
           stage[w] \notin {"idle", "resolving"},
           Goto(w, s), UNCHANGED <<input, items>>
    PROVE  SeamArgumentsInv'
BY DEF SeamArgumentsInv, Goto

\* The store of a finished resolution is one of the catalog's.
LEMMA ResolvedStore ==
    ASSUME CatalogInv, NEW w \in Workers,
           Catalog!ReturnExisting(w) \/ Catalog!CommitStore(w)
    PROVE  alias'[sought[w]] \in Stores
<1>1. CASE Catalog!ReturnExisting(w)
  <2>1. sought[w] \in Aliases /\ alias[sought[w]] # None /\ alias' = alias
    BY <1>1 DEF Catalog!ReturnExisting, CatalogInv, ResolutionInv
  <2> QED BY <2>1, CatalogGiven DEF CatalogInv, Catalog!TypeOK
<1>2. CASE Catalog!CommitStore(w)
  <2>1. sought[w] \in Aliases /\ created[w] \in Stores
    BY <1>2, CatalogGiven DEF Catalog!CommitStore, CatalogInv, ResolutionInv
  <2>2. alias' = [alias EXCEPT ![sought[w]] = created[w]]
    BY <1>2 DEF Catalog!CommitStore
  <2> QED BY <2>1, <2>2 DEF CatalogInv, Catalog!TypeOK
<1> QED BY <1>1, <1>2

\* Every step of the seam keeps its arguments typed.
LEMMA ArgumentsStep ==
    SeamArgumentsInv /\ CatalogInv /\ [SeamNext]_allVars => SeamArgumentsInv'
<1> SUFFICES ASSUME SeamArgumentsInv, CatalogInv, [SeamNext]_allVars
             PROVE  SeamArgumentsInv'
  OBVIOUS
<1>1. ASSUME NEW w \in Workers, NEW x \in Inputs,
             ActivateNormalizedOccurrence(w, x)
      PROVE  SeamArgumentsInv'
  BY <1>1 DEF ActivateNormalizedOccurrence, Goto, SeamArgumentsInv, Stages
<1>2. ASSUME NEW w \in Workers, StoreResolved(w) PROVE SeamArgumentsInv'
  <2> DEFINE b == [mode |-> "normalized", store |-> alias'[sought[w]],
                   collectedAt |-> input[w].collectedAt,
                   lines |-> input[w].lines]
  <2>1. input[w] \in Inputs /\ alias'[sought[w]] \in Stores
    BY <1>2, ResolvedStore DEF StoreResolved, SeamArgumentsInv
  <2>2. b \in Batches /\ b.mode = "normalized"
    BY <2>1, SeamAssumption
  <2>3. /\ stage' = [stage EXCEPT ![w] = "find"]
        /\ items' = [items EXCEPT ![w] = b] /\ input' = input
    BY <1>2 DEF StoreResolved, Goto
  <2> HIDE DEF b
  <2> QED BY <2>1, <2>2, <2>3 DEF SeamArgumentsInv, Stages
<1>3. ASSUME NEW w \in Workers,
             \/ ResolutionFails(w) \/ RaiseNoOccurrence(w)
             \/ RaiseDisagreement(w) \/ RaiseConflict(w) \/ PersistenceFails(w)
      PROVE  SeamArgumentsInv'
  BY <1>3, ReturnKeepsArguments
     DEF ResolutionFails, RaiseNoOccurrence, RaiseDisagreement, RaiseConflict,
         PersistenceFails
<1>4. ASSUME NEW w \in Workers,
             \/ FindOccurrence(w) \/ ShareStore(w) \/ LockOccurrence(w)
             \/ InsertEvidence(w) \/ ReplayIdentical(w)
      PROVE  SeamArgumentsInv'
  <2>1. /\ stage[w] \notin {"idle", "resolving"} /\ UNCHANGED <<input, items>>
        /\ \E s \in Stages \ {"idle", "resolving"} : Goto(w, s)
    BY <1>4 DEF FindOccurrence, ShareStore, LockOccurrence, InsertEvidence,
                ReplayIdentical, BeginActivation, Stages
  <2> QED BY <2>1, GotoKeepsArguments
<1>5. ASSUME NEW w \in Workers, InActivation(w) PROVE SeamArgumentsInv'
  <2>1. CASE SeamReturn(w)
    BY <2>1, ReturnKeepsArguments
  <2>2. CASE UNCHANGED seamVars
    BY <2>2 DEF SeamArgumentsInv, seamVars
  <2> QED BY <1>5, <2>1, <2>2 DEF InActivation
<1>6. ASSUME UNCHANGED seamVars PROVE SeamArgumentsInv'
  BY <1>6 DEF SeamArgumentsInv, seamVars
<1>7. ASSUME NEW w \in Workers, Resolving(w) PROVE UNCHANGED seamVars
  BY <1>7 DEF Resolving
<1>8. ASSUME NEW o \in Occurrences, NEW f \in Observations,
             InsertOccurrence(o, f)
      PROVE  UNCHANGED seamVars
  BY <1>8 DEF InsertOccurrence
<1>9. ASSUME NEW s \in store, NEW a \in Aliases, AddAlias(s, a)
      PROVE  UNCHANGED seamVars
  BY <1>9 DEF AddAlias
<1>10. CASE UNCHANGED allVars
  BY <1>6, <1>10 DEF allVars
<1> QED
  BY <1>1, <1>2, <1>3, <1>4, <1>5, <1>6, <1>7, <1>8, <1>9, <1>10
     DEF SeamNext, Proceed, ActivationStatement, LockStoreRow,
         UpdateOccurrence, ActivationFails

\* The calls of the seam have their arguments, over a catalog in order.
LEMMA ArgumentsInvariant == SeamSpec => [](SeamArgumentsInv /\ CatalogInv)
<1>1. SeamInit => SeamArgumentsInv
  BY DEF SeamInit, SeamArgumentsInv, Stages
<1> QED
  BY <1>1, ArgumentsStep, SeamImplementsCatalog, CatalogInvariant, PTL
     DEF SeamSpec

\* A step of the seam is one of the activations, or does not touch them.
LEMMA ActivationSteps ==
    SeamArgumentsInv /\ [SeamNext]_allVars => [Next]_vars
<1> SUFFICES ASSUME SeamArgumentsInv, [SeamNext]_allVars
             PROVE  Next \/ UNCHANGED vars
  OBVIOUS
<1>1. ASSUME NEW o \in Occurrences, NEW f \in Observations,
             InsertOccurrence(o, f)
      PROVE  Next
  BY <1>1 DEF InsertOccurrence, Next
<1>2. ASSUME NEW w \in Workers, InsertEvidence(w) \/ ReplayIdentical(w)
      PROVE  Next
  <2>1. Call(w, OccurrenceOf(w), items[w])
        /\ stage[w] \in {"insert", "classify"}
    BY <1>2 DEF InsertEvidence, ReplayIdentical, BeginActivation
  <2>2. OccurrenceOf(w) \in Occurrences /\ items[w] \in Batches
    BY <2>1, SeamAssumption DEF SeamArgumentsInv, OccurrenceOf, Input
  <2> QED BY <2>1, <2>2 DEF Next
<1>3. ASSUME NEW w \in Workers,
             \/ ActivationStatement(w) \/ LockStoreRow(w)
             \/ UpdateOccurrence(w) \/ ActivationFails(w)
      PROVE  Next
  BY <1>3 DEF ActivationStatement, LockStoreRow, UpdateOccurrence,
              ActivationFails, Next, Advance
<1>4. ASSUME NEW w \in Workers,
             \/ Resolving(w) \/ StoreResolved(w) \/ ResolutionFails(w)
             \/ RaiseNoOccurrence(w) \/ FindOccurrence(w) \/ ShareStore(w)
             \/ LockOccurrence(w) \/ RaiseDisagreement(w) \/ RaiseConflict(w)
             \/ PersistenceFails(w)
      PROVE  UNCHANGED vars
  BY <1>4 DEF Resolving, StoreResolved, ResolutionFails, RaiseNoOccurrence,
              FindOccurrence, ShareStore, LockOccurrence, RaiseDisagreement,
              RaiseConflict, PersistenceFails
<1>5. ASSUME NEW w \in Workers, NEW x \in Inputs,
             ActivateNormalizedOccurrence(w, x)
      PROVE  UNCHANGED vars
  BY <1>5 DEF ActivateNormalizedOccurrence
<1>6. ASSUME NEW s \in store, NEW a \in Aliases, AddAlias(s, a)
      PROVE  UNCHANGED vars
  BY <1>6 DEF AddAlias
<1>7. CASE UNCHANGED allVars
  BY <1>7 DEF allVars
<1> QED
  BY <1>1, <1>2, <1>3, <1>4, <1>5, <1>6, <1>7 DEF SeamNext, Proceed

\* Inside the seam activation behaves as on its own: whatever ActivationProofs
\* says of Spec holds of the seam.
THEOREM SeamImplementsActivation == SeamSpec => Spec
<1>1. SeamInit => Init
  BY DEF SeamInit
<1> QED
  BY <1>1, ActivationSteps, ArgumentsInvariant, PTL DEF SeamSpec, Spec

-----------------------------------------------------------------------------
(* One connection is in one transaction at a time.                         *)

\* Connection w is in the catalog or in an activation exactly when the seam
\* is there, and activates the occurrence it was called for with its items.
CallAt(w) ==
    /\ step[w] # "idle" <=> stage[w] = "resolving"
    /\ pc[w] # "idle" <=> stage[w] = "activating"
    /\ stage[w] = "activating" =>
         target[w] = OccurrenceOf(w) /\ batch[w] = items[w]

\* Every connection's call is where its activation is.
CallInv == \A w \in Workers : CallAt(w)

\* What a step of w leaves to another connection.
Undisturbed(v) ==
    /\ stage'[v] = stage[v] /\ input'[v] = input[v] /\ items'[v] = items[v]
    /\ step'[v] = step[v]
    /\ pc'[v] = pc[v] /\ target'[v] = target[v] /\ batch'[v] = batch[v]

\* It is enough to look at the connection that moves.
LEMMA CallOfMover ==
    ASSUME CallInv, NEW w \in Workers, CallAt(w)',
           \A v \in Workers \ {w} : Undisturbed(v)
    PROVE  CallInv'
<1> SUFFICES ASSUME NEW v \in Workers, v # w PROVE CallAt(v)'
  BY DEF CallInv
<1> QED BY DEF CallInv, CallAt, Undisturbed, OccurrenceOf

\* What a step of a connection in the catalog does to it.
LEMMA CatalogMoves ==
    ASSUME Catalog!TypeOK, NEW w \in Workers
    PROVE  /\ \A a \in Aliases : Catalog!Resolve(w, a) =>
                /\ step[w] = "idle" /\ step'[w] # "idle"
                /\ \A v \in Workers \ {w} : step'[v] = step[v]
           /\ Catalog!CreateStore(w) \/ Catalog!InsertAlias(w) =>
                /\ step[w] # "idle" /\ step'[w] # "idle"
                /\ \A v \in Workers \ {w} : step'[v] = step[v]
           /\ (\/ Catalog!ReturnExisting(w) \/ Catalog!CommitStore(w)
               \/ Catalog!RaiseDuplicate(w) \/ Catalog!Fail(w)) =>
                /\ step[w] # "idle" /\ step'[w] = "idle"
                /\ \A v \in Workers \ {w} : step'[v] = step[v]
BY DEF Catalog!TypeOK, Catalog!Resolve, Catalog!CreateStore,
       Catalog!InsertAlias, Catalog!ReturnExisting, Catalog!CommitStore,
       Catalog!RaiseDuplicate, Catalog!Fail, Catalog!EndTransaction

\* What a step of a connection in an activation does to it.
LEMMA ActivationMoves ==
    ASSUME TypeOK, NEW w \in Workers,
           LockStore(w) \/ Advance(w) \/ Fail(w)
    PROVE  /\ pc[w] # "idle"
           /\ pc'[w] # "idle" => target'[w] = target[w] /\ batch'[w] = batch[w]
           /\ \A v \in Workers \ {w} :
                pc'[v] = pc[v] /\ target'[v] = target[v] /\ batch'[v] = batch[v]
           /\ UNCHANGED occurrence
<1>1. CASE EndTransaction(w) /\ pc[w] # "idle" /\ UNCHANGED occurrence
  BY <1>1 DEF EndTransaction, TypeOK
<1>2. CASE \/ LockStore(w) \/ ReadFacts(w) \/ FindUnresolved(w)
           \/ FindNoneEarlier(w) \/ ChooseBranch(w) \/ WriteLine(w)
  BY <1>2 DEF LockStore, ReadFacts, FindUnresolved, FindNoneEarlier,
              ChooseBranch, WriteLine, TypeOK, arguments, database
<1>3. ASSUME RaiseValueError(w) \/ ReturnAlreadyApplied(w) \/ Defer(w)
             \/ CommitStale(w) \/ CommitApplied(w) \/ Fail(w)
      PROVE  EndTransaction(w) /\ pc[w] # "idle" /\ UNCHANGED occurrence
  BY <1>3 DEF RaiseValueError, ReturnAlreadyApplied, Defer, CommitStale,
              CommitApplied, Fail, database
<1> QED BY <1>1, <1>2, <1>3 DEF Advance

\* A step that the seam takes inside the activation.
LEMMA InActivationMoves ==
    ASSUME TypeOK, SeamArgumentsInv, NEW w \in Workers,
           \/ ActivationStatement(w) \/ LockStoreRow(w)
           \/ UpdateOccurrence(w) \/ ActivationFails(w)
    PROVE  /\ InActivation(w)
           /\ LockStore(w) \/ Advance(w) \/ Fail(w)
           /\ stage[w] = "activating"
           /\ \/ pc'[w] = "idle" /\ stage'[w] = "idle"
              \/ /\ pc'[w] # "idle" /\ UNCHANGED <<stage, input, items>>
                 /\ target'[w] = target[w] /\ batch'[w] = batch[w]
           /\ \A v \in Workers \ {w} : Undisturbed(v)
           /\ UNCHANGED <<catalogVars, evidenceVars, occurrence>>
<1>1. InActivation(w) /\ (LockStore(w) \/ Advance(w) \/ Fail(w))
  BY DEF ActivationStatement, LockStoreRow, UpdateOccurrence,
         ActivationFails, Advance
<1>2. /\ stage[w] = "activating" /\ UNCHANGED <<catalogVars, evidenceVars>>
      /\ IF pc'[w] = "idle" THEN SeamReturn(w) ELSE UNCHANGED seamVars
  BY <1>1 DEF InActivation
<1>3. \A v \in Workers \ {w} :
        /\ stage'[v] = stage[v] /\ input'[v] = input[v] /\ items'[v] = items[v]
        /\ step'[v] = step[v]
  BY <1>2 DEF SeamReturn, Goto, seamVars, catalogVars, SeamArgumentsInv
<1>4. \A v \in Workers \ {w} : Undisturbed(v)
  BY <1>1, <1>3, ActivationMoves DEF Undisturbed
<1>5. \/ pc'[w] = "idle" /\ stage'[w] = "idle"
      \/ /\ pc'[w] # "idle" /\ UNCHANGED <<stage, input, items>>
         /\ target'[w] = target[w] /\ batch'[w] = batch[w]
  BY <1>1, <1>2, ActivationMoves
     DEF SeamReturn, Goto, seamVars, SeamArgumentsInv
<1> QED BY <1>1, <1>2, <1>4, <1>5, ActivationMoves

\* A step that takes a connection from one stage of its evidence transaction,
\* or from its start, to the next or back to the caller.
EvidenceStep(w) ==
    \/ RaiseNoOccurrence(w) \/ FindOccurrence(w) \/ ShareStore(w)
    \/ LockOccurrence(w) \/ RaiseDisagreement(w) \/ RaiseConflict(w)
    \/ PersistenceFails(w)

\* Such a step changes its own call only, and nothing that others read but
\* the evidence locks.
LEMMA EvidenceMoves ==
    ASSUME SeamArgumentsInv, NEW w \in Workers, EvidenceStep(w)
    PROVE  /\ stage[w] \notin {"idle", "resolving", "activating"}
           /\ stage'[w] \notin {"resolving", "activating"}
           /\ UNCHANGED <<vars, catalogVars, evidence>>
           /\ stage'[w] # "idle" => UNCHANGED <<input, items>>
           /\ \A v \in Workers \ {w} :
                /\ stage'[v] = stage[v] /\ input'[v] = input[v]
                /\ items'[v] = items[v]
BY DEF EvidenceStep, RaiseNoOccurrence, FindOccurrence, ShareStore,
       LockOccurrence, RaiseDisagreement, RaiseConflict, PersistenceFails,
       SeamReturn, Goto, evidenceVars, SeamArgumentsInv, Stages

\* The stages and the transactions of a connection go together.
LEMMA CallStep ==
    TypeOK /\ CatalogInv /\ SeamArgumentsInv /\ CallInv /\ [SeamNext]_allVars
      => CallInv'
<1> SUFFICES ASSUME TypeOK, CatalogInv, SeamArgumentsInv, CallInv,
                    [SeamNext]_allVars
             PROVE  CallInv'
  OBVIOUS
<1>1. ASSUME UNCHANGED <<seamVars, step, pc, target, batch>> PROVE CallInv'
  BY <1>1 DEF CallInv, CallAt, OccurrenceOf, seamVars
<1>2. ASSUME NEW o \in Occurrences, NEW f \in Observations,
             InsertOccurrence(o, f)
      PROVE  UNCHANGED <<seamVars, step, pc, target, batch>>
  BY <1>2 DEF InsertOccurrence, Insert, catalogVars, arguments
<1>3. ASSUME NEW s \in store, NEW a \in Aliases, AddAlias(s, a)
      PROVE  UNCHANGED <<seamVars, step, pc, target, batch>>
  BY <1>3 DEF AddAlias, Catalog!AddStoreSourceAlias, vars
<1>4. CASE UNCHANGED allVars
  BY <1>1, <1>4 DEF allVars, vars, catalogVars
<1>5. ASSUME NEW w \in Workers, NEW x \in Inputs,
             ActivateNormalizedOccurrence(w, x)
      PROVE  CallInv'
  <2>1. x.alias \in Aliases /\ Catalog!Resolve(w, x.alias) /\ UNCHANGED vars
        /\ stage[w] = "idle"
    BY <1>5, SeamAssumption DEF ActivateNormalizedOccurrence, Input
  <2>2. CallAt(w)'
    BY <1>5, <2>1, CatalogMoves
       DEF ActivateNormalizedOccurrence, CatalogInv, Goto, SeamArgumentsInv,
           CallInv, CallAt, vars
  <2>3. \A v \in Workers \ {w} : Undisturbed(v)
    BY <1>5, <2>1, CatalogMoves
       DEF ActivateNormalizedOccurrence, CatalogInv, Goto, SeamArgumentsInv,
           Undisturbed, vars
  <2> QED BY <2>2, <2>3, CallOfMover
<1>6. ASSUME NEW w \in Workers, Resolving(w) PROVE CallInv'
  <2>1. /\ UNCHANGED <<vars, seamVars>> /\ stage[w] = "resolving"
        /\ step'[w] # "idle" /\ \A v \in Workers \ {w} : step'[v] = step[v]
    BY <1>6, CatalogMoves DEF Resolving, CatalogInv
  <2>2. CallAt(w)' /\ \A v \in Workers \ {w} : Undisturbed(v)
    BY <2>1 DEF CallInv, CallAt, Undisturbed, vars, seamVars, OccurrenceOf
  <2> QED BY <2>2, CallOfMover
<1>7. ASSUME NEW w \in Workers, StoreResolved(w) \/ ResolutionFails(w)
      PROVE  CallInv'
  <2>1. /\ UNCHANGED vars /\ stage[w] = "resolving"
        /\ step'[w] = "idle" /\ \A v \in Workers \ {w} : step'[v] = step[v]
    BY <1>7, CatalogMoves DEF StoreResolved, ResolutionFails, CatalogInv
  <2>2. stage'[w] \in {"find", "idle"}
        /\ \A v \in Workers \ {w} :
             /\ stage'[v] = stage[v] /\ input'[v] = input[v]
             /\ items'[v] = items[v]
    BY <1>7 DEF StoreResolved, ResolutionFails, SeamReturn, Goto,
                SeamArgumentsInv
  <2>3. CallAt(w)' /\ \A v \in Workers \ {w} : Undisturbed(v)
    BY <2>1, <2>2 DEF CallInv, CallAt, Undisturbed, vars
  <2> QED BY <2>3, CallOfMover
<1>8. ASSUME NEW w \in Workers, EvidenceStep(w) PROVE CallInv'
  <2>1. CallAt(w)' /\ \A v \in Workers \ {w} : Undisturbed(v)
    BY <1>8, EvidenceMoves
       DEF CallInv, CallAt, Undisturbed, vars, catalogVars
  <2> QED BY <2>1, CallOfMover
<1>9. ASSUME NEW w \in Workers, InsertEvidence(w) \/ ReplayIdentical(w)
      PROVE  CallInv'
  <2>1. /\ stage[w] \in {"insert", "classify"} /\ Goto(w, "activating")
        /\ Call(w, OccurrenceOf(w), items[w])
        /\ UNCHANGED <<catalogVars, input, items>>
    BY <1>9 DEF InsertEvidence, ReplayIdentical, BeginActivation
  <2>2. CallAt(w)' /\ \A v \in Workers \ {w} : Undisturbed(v)
    BY <2>1 DEF CallInv, CallAt, Undisturbed, Call, Goto, catalogVars, TypeOK,
                SeamArgumentsInv, OccurrenceOf
  <2> QED BY <2>2, CallOfMover
<1>10. ASSUME NEW w \in Workers,
              \/ ActivationStatement(w) \/ LockStoreRow(w)
              \/ UpdateOccurrence(w) \/ ActivationFails(w)
       PROVE  CallInv'
  <2>1. CallAt(w)'
    BY <1>10, InActivationMoves DEF CallInv, CallAt, OccurrenceOf, catalogVars
  <2> QED BY <1>10, <2>1, InActivationMoves, CallOfMover
<1> QED
  BY <1>1, <1>2, <1>3, <1>4, <1>5, <1>6, <1>7, <1>8, <1>9, <1>10
     DEF SeamNext, Proceed, EvidenceStep

-----------------------------------------------------------------------------
(* What the locks of the evidence transaction keep.                        *)

\* Connection w holds what its stage has locked; what it has found there is
\* still so, and an activation is of durable evidence.
EvidenceAt(w) ==
    /\ stage[w] \in {"lock_store", "lock_occurrence", "insert", "classify"}
         => occurrence[OccurrenceOf(w)] # None
    /\ sharing[w] # None =>
         stage[w] \in {"lock_occurrence", "insert", "classify"}
    /\ \A o \in Occurrences :
         occurrenceLock[o] = w <=>
           stage[w] \in {"insert", "classify"} /\ o = OccurrenceOf(w)
    /\ stage[w] = "insert" => evidence[OccurrenceOf(w)] = None
    /\ stage[w] = "classify" => evidence[OccurrenceOf(w)] # None
    /\ stage[w] = "activating" => evidence[OccurrenceOf(w)] = items[w]

\* Evidence is of an occurrence that exists, and agrees with it.
EvidenceOf(o) ==
    evidence[o] # None => occurrence[o] # None /\ Agrees(o, evidence[o])

\* The types of what the evidence transactions share.
EvidenceType ==
    /\ evidence \in [Occurrences -> Batches \cup {None}]
    /\ sharing \in [Workers -> Stores \cup {None}]
    /\ occurrenceLock \in [Occurrences -> Workers \cup {None}]

\* The inductive invariant of the evidence.
EvidenceInv ==
    /\ EvidenceType
    /\ \A w \in Workers : EvidenceAt(w)
    /\ \A o \in Occurrences : EvidenceOf(o)

\* The occurrence of a call.
LEMMA CalledOccurrence ==
    ASSUME SeamArgumentsInv, NEW w \in Workers, stage[w] # "idle"
    PROVE  OccurrenceOf(w) \in Occurrences
BY SeamAssumption DEF SeamArgumentsInv, OccurrenceOf, Input

\* What a step of w may do to the evidence: write that of the occurrence it
\* has locked, if there is none.
Writes(w) ==
    \/ UNCHANGED evidence
    \/ /\ stage[w] = "insert"
       /\ evidence' = [evidence EXCEPT ![OccurrenceOf(w)] = items[w]]

\* What a step of w leaves to another connection v in the seam.
Unmoved(v) ==
    /\ stage'[v] = stage[v] /\ input'[v] = input[v] /\ items'[v] = items[v]
    /\ sharing'[v] = sharing[v]
    /\ \A o \in Occurrences : occurrenceLock'[o] = v <=> occurrenceLock[o] = v

\* Facts of an occurrence are never changed (they are inserted once).
KeepsFacts ==
    \A o \in Occurrences : occurrence[o] # None => occurrence'[o] = occurrence[o]

\* Evidence is only ever added, by whoever holds its occurrence.
LEMMA WritesOnce ==
    ASSUME SeamArgumentsInv, EvidenceInv, NEW w \in Workers, Writes(w)
    PROVE  \A o \in Occurrences :
             /\ evidence[o] # None => evidence'[o] = evidence[o]
             /\ evidence'[o] # evidence[o] => occurrenceLock[o] = w
<1>1. CASE stage[w] = "insert"
  <2>1. OccurrenceOf(w) \in Occurrences /\ evidence[OccurrenceOf(w)] = None
        /\ occurrenceLock[OccurrenceOf(w)] = w
    BY <1>1, CalledOccurrence DEF EvidenceInv, EvidenceAt
  <2> QED BY <2>1 DEF Writes, EvidenceInv, EvidenceType
<1> QED BY <1>1 DEF Writes

\* A step of w takes nothing that another connection relies on.
LEMMA EvidenceOfOthers ==
    ASSUME SeamArgumentsInv, EvidenceInv, KeepsFacts,
           NEW w \in Workers, Writes(w),
           NEW v \in Workers, v # w, Unmoved(v)
    PROVE  EvidenceAt(v)'
<1> DEFINE o == OccurrenceOf(v)
<1>1. OccurrenceOf(v)' = o
  BY DEF OccurrenceOf, Unmoved
<1>2. stage[v] # "idle" => o \in Occurrences
  BY CalledOccurrence
<1>3. EvidenceAt(v)
  BY DEF EvidenceInv
<1>4. stage[v] \in {"insert", "classify"} => evidence'[o] = evidence[o]
  BY <1>2, <1>3, WritesOnce DEF EvidenceAt
<1>5. stage[v] = "activating" => evidence'[o] = items[v]
  BY <1>2, <1>3, WritesOnce, NoneAssumption DEF EvidenceAt, SeamArgumentsInv
<1>6. stage[v] \in {"lock_store", "lock_occurrence", "insert", "classify"}
        => occurrence'[o] # None
  BY <1>2, <1>3 DEF EvidenceAt, KeepsFacts
<1> QED BY <1>1, <1>3, <1>4, <1>5, <1>6 DEF EvidenceAt, Unmoved

\* It is enough to look at the connection that moves, and at its occurrence.
LEMMA EvidenceOfMover ==
    ASSUME SeamArgumentsInv, EvidenceInv, KeepsFacts,
           NEW w \in Workers, Writes(w), EvidenceType', EvidenceAt(w)',
           \A v \in Workers \ {w} : Unmoved(v),
           \A o \in Occurrences :
             stage[w] = "insert" /\ o = OccurrenceOf(w) => EvidenceOf(o)'
    PROVE  EvidenceInv'
<1>1. \A v \in Workers : EvidenceAt(v)'
  BY EvidenceOfOthers
<1>2. ASSUME NEW o \in Occurrences PROVE EvidenceOf(o)'
  <2>1. CASE evidence'[o] = evidence[o]
    BY <2>1 DEF EvidenceInv, EvidenceOf, KeepsFacts, Agrees
  <2>2. CASE evidence'[o] # evidence[o]
    BY <2>2 DEF Writes, EvidenceInv, EvidenceType
  <2> QED BY <2>1, <2>2
<1> QED BY <1>1, <1>2 DEF EvidenceInv

\* The end of the evidence transaction gives up w's locks and no others.
LEMMA ReleasesOwn ==
    ASSUME EvidenceInv, NEW w \in Workers, ReleaseEvidenceLocks(w)
    PROVE  /\ sharing' \in [Workers -> Stores \cup {None}]
           /\ occurrenceLock' \in [Occurrences -> Workers \cup {None}]
           /\ sharing'[w] = None
           /\ \A o \in Occurrences : occurrenceLock'[o] # w
           /\ \A v \in Workers \ {w} :
                /\ sharing'[v] = sharing[v]
                /\ \A o \in Occurrences :
                     occurrenceLock'[o] = v <=> occurrenceLock[o] = v
BY NoneAssumption DEF ReleaseEvidenceLocks, EvidenceInv, EvidenceType

\* A connection outside its evidence transaction needs nothing of it.
LEMMA NothingHeld ==
    ASSUME NEW w \in Workers, stage'[w] \in {"idle", "find"},
           sharing'[w] = None, \A o \in Occurrences : occurrenceLock'[o] # w
    PROVE  EvidenceAt(w)'
BY DEF EvidenceAt

\* The transaction's locks follow its stages, whatever others write.
LEMMA EvidenceInvStep ==
    TypeOK /\ SeamArgumentsInv /\ CallInv /\ EvidenceInv /\ [SeamNext]_allVars
      => EvidenceInv'
<1> SUFFICES ASSUME TypeOK, SeamArgumentsInv, CallInv, EvidenceInv,
                    [SeamNext]_allVars
             PROVE  EvidenceInv'
  OBVIOUS
<1>1. ASSUME UNCHANGED <<seamVars, evidenceVars>>, KeepsFacts
      PROVE  EvidenceInv'
  <2>1. EvidenceType'
    BY <1>1 DEF EvidenceInv, EvidenceType, evidenceVars
  <2>2. ASSUME NEW w \in Workers PROVE EvidenceAt(w)'
    <3>1. stage[w] # "idle" => OccurrenceOf(w) \in Occurrences
      BY CalledOccurrence
    <3> QED
      BY <1>1, <3>1
         DEF EvidenceInv, EvidenceAt, OccurrenceOf, KeepsFacts, seamVars,
             evidenceVars
  <2>3. \A o \in Occurrences : EvidenceOf(o)'
    BY <1>1 DEF EvidenceInv, EvidenceOf, KeepsFacts, Agrees, evidenceVars
  <2> QED BY <2>1, <2>2, <2>3 DEF EvidenceInv
<1>2. ASSUME NEW o \in Occurrences, NEW f \in Observations,
             InsertOccurrence(o, f)
      PROVE  EvidenceInv'
  <2>1. KeepsFacts
    BY <1>2 DEF InsertOccurrence, Insert, KeepsFacts, TypeOK
  <2> QED BY <1>1, <1>2, <2>1 DEF InsertOccurrence
<1>3. ASSUME NEW s \in store, NEW a \in Aliases, AddAlias(s, a)
      PROVE  EvidenceInv'
  BY <1>1, <1>3 DEF AddAlias, KeepsFacts, vars
<1>4. CASE UNCHANGED allVars
  BY <1>1, <1>4 DEF allVars, KeepsFacts, vars
<1>5. ASSUME NEW w \in Workers, Resolving(w) PROVE EvidenceInv'
  BY <1>1, <1>5 DEF Resolving, KeepsFacts, vars
<1>6. ASSUME NEW w \in Workers,
             \/ \E x \in Inputs : ActivateNormalizedOccurrence(w, x)
             \/ StoreResolved(w) \/ ResolutionFails(w)
      PROVE  EvidenceInv'
  <2>1. /\ stage[w] \in {"idle", "resolving"} /\ UNCHANGED <<vars, evidenceVars>>
        /\ stage'[w] \in {"idle", "resolving", "find"}
        /\ \A v \in Workers \ {w} : Unmoved(v)
    BY <1>6 DEF ActivateNormalizedOccurrence, StoreResolved, ResolutionFails,
                SeamReturn, Goto, SeamArgumentsInv, Unmoved, evidenceVars
  <2>2. KeepsFacts /\ Writes(w) /\ EvidenceType'
    BY <2>1 DEF KeepsFacts, Writes, EvidenceInv, EvidenceType, evidenceVars, vars
  <2>3. EvidenceAt(w)'
    BY <2>1 DEF EvidenceAt, EvidenceInv, evidenceVars
  <2> QED BY <2>1, <2>2, <2>3, EvidenceOfMover
<1>7. ASSUME NEW w \in Workers, FindOccurrence(w) PROVE EvidenceInv'
  <2>1. /\ stage[w] = "find" /\ occurrence[OccurrenceOf(w)] # None
        /\ stage' = [stage EXCEPT ![w] = "lock_store"]
        /\ UNCHANGED <<vars, evidenceVars, input, items>>
    BY <1>7 DEF FindOccurrence, Goto
  <2>2. KeepsFacts /\ Writes(w) /\ EvidenceType'
        /\ \A v \in Workers \ {w} : Unmoved(v)
    BY <2>1 DEF KeepsFacts, Writes, EvidenceInv, EvidenceType, evidenceVars,
                vars, Unmoved, SeamArgumentsInv
  <2>3. EvidenceAt(w)'
    BY <2>1 DEF EvidenceAt, EvidenceInv, evidenceVars, SeamArgumentsInv, vars,
                OccurrenceOf
  <2> QED BY <2>1, <2>2, <2>3, EvidenceOfMover
<1>8. ASSUME NEW w \in Workers, ShareStore(w) PROVE EvidenceInv'
  <2>1. /\ stage[w] = "lock_store"
        /\ stage' = [stage EXCEPT ![w] = "lock_occurrence"]
        /\ sharing' = [sharing EXCEPT ![w] = OwnStore(w)]
        /\ UNCHANGED <<vars, evidence, occurrenceLock, input, items>>
    BY <1>8 DEF ShareStore, Goto
  <2>2. OwnStore(w) \in Stores \cup {None}
    <3>1. occurrence[OccurrenceOf(w)] \in Facts
      BY <2>1, CalledOccurrence DEF EvidenceInv, EvidenceAt, TypeOK
    <3> QED BY <3>1 DEF OwnStore, Facts
  <2>3. KeepsFacts /\ Writes(w) /\ EvidenceType'
        /\ \A v \in Workers \ {w} : Unmoved(v)
    BY <2>1, <2>2 DEF KeepsFacts, Writes, EvidenceInv, EvidenceType, vars,
                      Unmoved, SeamArgumentsInv
  <2>4. EvidenceAt(w)'
    BY <2>1 DEF EvidenceAt, EvidenceInv, SeamArgumentsInv, vars, OccurrenceOf
  <2> QED BY <2>1, <2>3, <2>4, EvidenceOfMover
<1>9. ASSUME NEW w \in Workers, LockOccurrence(w) PROVE EvidenceInv'
  <2> DEFINE o == OccurrenceOf(w)
             s == IF evidence[o] = None THEN "insert" ELSE "classify"
  <2>1. /\ stage[w] = "lock_occurrence" /\ occurrenceLock[o] \in {None, w}
        /\ stage' = [stage EXCEPT ![w] = s]
        /\ occurrenceLock' = [occurrenceLock EXCEPT ![o] = w]
        /\ UNCHANGED <<vars, evidence, sharing, input, items>>
    BY <1>9 DEF LockOccurrence, Goto
  <2>2. o \in Occurrences /\ EvidenceAt(w) /\ o' = o
    BY <2>1, CalledOccurrence DEF EvidenceInv, OccurrenceOf
  <2>3. KeepsFacts /\ Writes(w)
    BY <2>1 DEF KeepsFacts, Writes, vars
  <2>4. EvidenceType' /\ \A v \in Workers \ {w} : Unmoved(v)
    BY <2>1, <2>2, NoneAssumption
       DEF EvidenceInv, EvidenceType, Unmoved, SeamArgumentsInv
  <2>5. EvidenceAt(w)'
    <3>1. stage'[w] = s /\ s \in {"insert", "classify"}
      BY <2>1 DEF SeamArgumentsInv
    <3>2. \A a \in Occurrences : occurrenceLock'[a] = w <=> a = o
      BY <2>1, <2>2 DEF EvidenceInv, EvidenceType, EvidenceAt
    <3>3. occurrence'[o] # None /\ evidence' = evidence
      BY <2>1, <2>2 DEF EvidenceAt, vars
    <3> QED BY <2>2, <3>1, <3>2, <3>3 DEF EvidenceAt
  <2> QED BY <2>1, <2>3, <2>4, <2>5, EvidenceOfMover
<1>10. ASSUME NEW w \in Workers,
              \/ RaiseDisagreement(w) \/ RaiseConflict(w) \/ PersistenceFails(w)
       PROVE  EvidenceInv'
  <2>1. /\ ReleaseEvidenceLocks(w) /\ SeamReturn(w)
        /\ UNCHANGED <<vars, evidence>>
        /\ stage[w] # "idle"
    BY <1>10 DEF RaiseDisagreement, RaiseConflict, PersistenceFails
  <2>2. /\ stage'[w] = "idle"
        /\ \A v \in Workers \ {w} :
             /\ stage'[v] = stage[v] /\ input'[v] = input[v]
             /\ items'[v] = items[v]
    BY <2>1 DEF SeamReturn, Goto, SeamArgumentsInv
  <2>3. \A v \in Workers \ {w} : Unmoved(v)
    BY <2>1, <2>2, ReleasesOwn DEF Unmoved
  <2>4. EvidenceType' /\ EvidenceAt(w)'
    BY <2>1, <2>2, ReleasesOwn, NothingHeld DEF EvidenceInv, EvidenceType
  <2>5. KeepsFacts /\ Writes(w)
    BY <2>1 DEF KeepsFacts, Writes, vars
  <2>6. \A o \in Occurrences : EvidenceOf(o)'
    BY <2>1 DEF EvidenceInv, EvidenceOf, Agrees, vars
  <2> QED BY <2>3, <2>4, <2>5, <2>6, EvidenceOfMover
<1>11. ASSUME NEW w \in Workers, RaiseNoOccurrence(w) PROVE EvidenceInv'
  <2>1. /\ stage[w] = "find" /\ stage'[w] = "idle"
        /\ UNCHANGED <<vars, evidenceVars>>
        /\ \A v \in Workers \ {w} : Unmoved(v)
    BY <1>11 DEF RaiseNoOccurrence, SeamReturn, Goto, SeamArgumentsInv,
                 Unmoved, evidenceVars
  <2>2. KeepsFacts /\ Writes(w) /\ EvidenceType' /\ EvidenceAt(w)'
    BY <2>1 DEF KeepsFacts, Writes, EvidenceInv, EvidenceType, EvidenceAt,
                evidenceVars, vars
  <2> QED BY <2>1, <2>2, EvidenceOfMover
<1>12. ASSUME NEW w \in Workers, InsertEvidence(w) \/ ReplayIdentical(w)
       PROVE  EvidenceInv'
  <2> DEFINE o == OccurrenceOf(w)
  <2>1. /\ ReleaseEvidenceLocks(w) /\ UNCHANGED <<input, items, occurrence>>
        /\ stage[w] \in {"insert", "classify"}
        /\ stage' = [stage EXCEPT ![w] = "activating"]
        /\ Agrees(o, items[w])
        /\ \/ /\ stage[w] = "insert"
              /\ evidence' = [evidence EXCEPT ![o] = items[w]]
           \/ /\ stage[w] = "classify" /\ evidence[o] = items[w]
              /\ UNCHANGED evidence
    BY <1>12 DEF InsertEvidence, ReplayIdentical, BeginActivation, Goto, Call,
                 database
  <2>2. /\ o \in Occurrences /\ items[w] \in Batches /\ occurrence[o] # None
        /\ o' = o
    BY <2>1, CalledOccurrence
       DEF SeamArgumentsInv, EvidenceInv, EvidenceAt, OccurrenceOf
  <2>3. evidence'[o] = items[w] /\ evidence' \in [Occurrences -> Batches \cup {None}]
    BY <2>1, <2>2 DEF EvidenceInv, EvidenceType
  <2>4. KeepsFacts /\ Writes(w)
    BY <2>1 DEF KeepsFacts, Writes
  <2>5. EvidenceType' /\ \A v \in Workers \ {w} : Unmoved(v)
    BY <2>1, <2>3, ReleasesOwn DEF EvidenceType, Unmoved, SeamArgumentsInv
  <2>6. EvidenceAt(w)'
    <3>1. stage'[w] = "activating" /\ items' = items
      BY <2>1 DEF SeamArgumentsInv
    <3> QED BY <2>1, <2>2, <2>3, <3>1, ReleasesOwn DEF EvidenceAt
  <2>7. \A a \in Occurrences :
          stage[w] = "insert" /\ a = o => EvidenceOf(a)'
    BY <2>1, <2>2, <2>3 DEF EvidenceOf, Agrees
  <2> QED BY <2>4, <2>5, <2>6, <2>7, EvidenceOfMover
<1>13. ASSUME NEW w \in Workers,
              \/ ActivationStatement(w) \/ LockStoreRow(w)
              \/ UpdateOccurrence(w) \/ ActivationFails(w)
       PROVE  EvidenceInv'
  <2>1. /\ stage[w] = "activating" /\ UNCHANGED <<evidenceVars, occurrence>>
        /\ \/ stage'[w] = "idle"
           \/ UNCHANGED <<stage, input, items>>
        /\ \A v \in Workers \ {w} : Undisturbed(v)
    BY <1>13, InActivationMoves
  <2>2. KeepsFacts /\ Writes(w) /\ EvidenceType'
        /\ \A v \in Workers \ {w} : Unmoved(v)
    BY <2>1 DEF KeepsFacts, Writes, EvidenceInv, EvidenceType, evidenceVars,
                Unmoved, Undisturbed
  <2>3. EvidenceAt(w)'
    BY <2>1 DEF EvidenceAt, EvidenceInv, evidenceVars, OccurrenceOf
  <2> QED BY <2>1, <2>2, <2>3, EvidenceOfMover
<1> QED
  BY <1>2, <1>3, <1>4, <1>5, <1>6, <1>7, <1>8, <1>9, <1>10, <1>11, <1>12, <1>13
     DEF SeamNext, Proceed

\* Every step of the seam writes evidence as Writes says.
LEMMA EvidenceSteps ==
    [SeamNext]_allVars => UNCHANGED evidence \/ \E w \in Workers : Writes(w)
<1> SUFFICES ASSUME [SeamNext]_allVars
             PROVE  UNCHANGED evidence \/ \E w \in Workers : Writes(w)
  OBVIOUS
<1>1. ASSUME NEW w \in Workers, InsertEvidence(w) PROVE Writes(w)
  BY <1>1 DEF InsertEvidence, Writes
<1>2. ASSUME NEW w \in Workers,
             \/ \E x \in Inputs : ActivateNormalizedOccurrence(w, x)
             \/ Resolving(w) \/ StoreResolved(w) \/ ResolutionFails(w)
             \/ EvidenceStep(w) \/ ReplayIdentical(w) \/ InActivation(w)
      PROVE  UNCHANGED evidence
  BY <1>2 DEF ActivateNormalizedOccurrence, Resolving, StoreResolved,
              ResolutionFails, EvidenceStep, RaiseNoOccurrence,
              FindOccurrence, ShareStore, LockOccurrence, RaiseDisagreement,
              RaiseConflict, PersistenceFails, ReplayIdentical, InActivation,
              evidenceVars
<1>3. ASSUME NEW o \in Occurrences, NEW f \in Observations,
             InsertOccurrence(o, f)
      PROVE  UNCHANGED evidence
  BY <1>3 DEF InsertOccurrence, evidenceVars
<1>4. ASSUME NEW s \in store, NEW a \in Aliases, AddAlias(s, a)
      PROVE  UNCHANGED evidence
  BY <1>4 DEF AddAlias, evidenceVars
<1>5. CASE UNCHANGED allVars
  BY <1>5 DEF allVars, evidenceVars
<1> QED
  BY <1>1, <1>2, <1>3, <1>4, <1>5
     DEF SeamNext, Proceed, EvidenceStep, ActivationStatement, LockStoreRow,
         UpdateOccurrence, ActivationFails

\* What is written stays.
LEMMA EvidenceKept ==
    ASSUME SeamArgumentsInv, EvidenceInv, [SeamNext]_allVars
    PROVE  \A o \in Occurrences : evidence[o] # None => evidence'[o] = evidence[o]
BY EvidenceSteps, WritesOnce

-----------------------------------------------------------------------------
(* Derived state says what evidence says.                                  *)

\* A line of batch b says of the product of key k what the row does.
Says(b, k, row) ==
    \E n \in 1..Len(b.lines) :
        /\ b.lines[n].item = k[2]
        /\ b.lines[n].price = row.price
        /\ b.lines[n].description = row.description

\* The uncommitted rows of a call say what its batch says.
BufferedInv ==
    \A w \in Workers, k \in Keys :
        rows[w][k] # None => Says(batch[w], k, rows[w][k])

\* A written line says what it says.
LEMMA LineSaysIt ==
    ASSUME TypeOK, ArgumentsInv, NEW w \in Workers, WriteLine(w),
           batch[w].mode = "normalized", BufferedInv
    PROVE  \A k \in Keys :
             rows'[w][k] # None => Says(batch[w], k, rows'[w][k])
<1> SUFFICES ASSUME NEW k \in Keys, rows'[w][k] # None
             PROVE  Says(batch[w], k, rows'[w][k])
  OBVIOUS
<1>1. /\ next[w] \in 1..Len(batch[w].lines)
      /\ rows'[w] = [rows[w] EXCEPT ![WrittenKey(w)] = WrittenRow(w)]
  <2>1. batch[w] \in Batch
    BY ActivationAssumption DEF ArgumentsInv, WriteLine
  <2> QED BY <2>1 DEF WriteLine, TypeOK, Batch
<1>2. CASE k = WrittenKey(w)
  <2>1. rows'[w][k] = WrittenRow(w)
    BY <1>1, <1>2 DEF TypeOK
  <2>2. /\ WrittenRow(w).price = CurrentLine(w).price
        /\ WrittenRow(w).description = CurrentLine(w).description
        /\ k[2] = CurrentLine(w).item
    BY <1>2 DEF WrittenRow, WrittenKey
  <2> QED BY <1>1, <2>1, <2>2 DEF Says, CurrentLine
<1>3. CASE k # WrittenKey(w)
  <2>1. rows'[w][k] = rows[w][k]
    BY <1>1, <1>3 DEF TypeOK
  <2> QED BY <2>1 DEF BufferedInv
<1> QED BY <1>2, <1>3

\* The rows of a call that does not write a line are its old ones or none.
LEMMA RowsMove ==
    ASSUME TypeOK, NEW w \in Workers,
           LockStore(w) \/ Advance(w) \/ Fail(w), ~WriteLine(w)
    PROVE  /\ rows'[w] = NoRows \/ (rows'[w] = rows[w] /\ batch'[w] = batch[w])
           /\ \A v \in Workers \ {w} : rows'[v] = rows[v]
<1>1. CASE EndTransaction(w)
  BY <1>1 DEF EndTransaction, TypeOK
<1>2. CASE \/ LockStore(w) \/ ReadFacts(w) \/ FindUnresolved(w)
           \/ FindNoneEarlier(w) \/ ChooseBranch(w)
  BY <1>2 DEF LockStore, ReadFacts, FindUnresolved, FindNoneEarlier,
              ChooseBranch, arguments, buffers
<1>3. ASSUME RaiseValueError(w) \/ ReturnAlreadyApplied(w) \/ Defer(w)
             \/ CommitStale(w) \/ CommitApplied(w) \/ Fail(w)
      PROVE  EndTransaction(w)
  BY <1>3 DEF RaiseValueError, ReturnAlreadyApplied, Defer, CommitStale,
              CommitApplied, Fail
<1> QED BY <1>1, <1>2, <1>3 DEF Advance

\* Steps outside activations, and the calls themselves, leave the rows alone.
LEMMA RowsElsewhere ==
    ASSUME [SeamNext]_allVars
    PROVE  \/ \E w \in Workers :
                \/ ActivationStatement(w) \/ LockStoreRow(w)
                \/ UpdateOccurrence(w) \/ ActivationFails(w)
           \/ /\ UNCHANGED <<rows, currentState>>
              /\ \/ UNCHANGED batch
                 \/ \E w \in Workers :
                      pc[w] = "idle" /\ batch' = [batch EXCEPT ![w] = items[w]]
<1>1. ASSUME NEW w \in Workers, InsertEvidence(w) \/ ReplayIdentical(w)
      PROVE  /\ UNCHANGED <<rows, currentState>> /\ pc[w] = "idle"
             /\ batch' = [batch EXCEPT ![w] = items[w]]
  BY <1>1 DEF InsertEvidence, ReplayIdentical, BeginActivation, Call,
              database, buffers
<1>2. ASSUME NEW w \in Workers,
             \/ \E x \in Inputs : ActivateNormalizedOccurrence(w, x)
             \/ Resolving(w) \/ StoreResolved(w) \/ ResolutionFails(w)
             \/ EvidenceStep(w)
      PROVE  UNCHANGED vars
  BY <1>2 DEF ActivateNormalizedOccurrence, Resolving, StoreResolved,
              ResolutionFails, EvidenceStep, RaiseNoOccurrence,
              FindOccurrence, ShareStore, LockOccurrence, RaiseDisagreement,
              RaiseConflict, PersistenceFails
<1>3. ASSUME NEW o \in Occurrences, NEW f \in Observations,
             InsertOccurrence(o, f)
      PROVE  UNCHANGED <<rows, currentState, batch>>
  BY <1>3 DEF InsertOccurrence, Insert, buffers, arguments
<1>4. ASSUME NEW s \in store, NEW a \in Aliases, AddAlias(s, a)
      PROVE  UNCHANGED vars
  BY <1>4 DEF AddAlias
<1>5. CASE UNCHANGED allVars
  BY <1>5 DEF allVars, vars
<1> QED
  BY <1>1, <1>2, <1>3, <1>4, <1>5 DEF SeamNext, Proceed, EvidenceStep, vars

\* A call's buffer says what its batch says, after every step.
LEMMA BufferedStep ==
    /\ IInv /\ SeamArgumentsInv /\ CallInv /\ BufferedInv /\ [SeamNext]_allVars
    => BufferedInv'
<1> SUFFICES ASSUME IInv, SeamArgumentsInv, CallInv, BufferedInv,
                    [SeamNext]_allVars, NEW w \in Workers, NEW k \in Keys,
                    rows'[w][k] # None
             PROVE  Says(batch'[w], k, rows'[w][k])
  BY DEF BufferedInv, Says
<1>1. CASE rows'[w] = rows[w] /\ batch'[w] = batch[w]
  BY <1>1 DEF BufferedInv
<1>2. CASE rows'[w] = NoRows
  BY <1>2 DEF NoRows
<1>3. CASE /\ UNCHANGED rows
           /\ \E v \in Workers :
                pc[v] = "idle" /\ batch' = [batch EXCEPT ![v] = items[v]]
  <2>1. pc[w] = "writing" /\ batch'[w] = batch[w]
    BY <1>3 DEF IInv, BufferInv, TypeOK
  <2> QED BY <1>1, <1>3, <2>1
<1>4. ASSUME NEW v \in Workers,
             \/ ActivationStatement(v) \/ LockStoreRow(v)
             \/ UpdateOccurrence(v) \/ ActivationFails(v)
      PROVE  Says(batch'[w], k, rows'[w][k])
  <2>1. /\ LockStore(v) \/ Advance(v) \/ Fail(v)
        /\ stage[v] = "activating"
        /\ \A u \in Workers \ {v} : Undisturbed(u)
    BY <1>4, InActivationMoves DEF IInv
  <2>2. CASE WriteLine(v)
    <3>1. batch[v].mode = "normalized"
      BY <2>1 DEF CallInv, CallAt, SeamArgumentsInv
    <3>2. UNCHANGED batch /\ \A u \in Workers \ {v} : rows'[u] = rows[u]
      BY <2>2 DEF WriteLine, arguments, IInv, TypeOK
    <3>3. CASE w = v
      BY <2>2, <3>1, <3>2, <3>3, LineSaysIt DEF IInv
    <3>4. CASE w # v
      BY <1>1, <3>2, <3>4
    <3> QED BY <3>3, <3>4
  <2>3. CASE ~WriteLine(v)
    <3>1. /\ rows'[v] = NoRows \/ (rows'[v] = rows[v] /\ batch'[v] = batch[v])
          /\ \A u \in Workers \ {v} : rows'[u] = rows[u]
      BY <2>1, <2>3, RowsMove DEF IInv
    <3> QED BY <1>1, <1>2, <2>1, <3>1 DEF Undisturbed
  <2> QED BY <2>2, <2>3
<1> QED BY <1>1, <1>3, <1>4, RowsElsewhere

\* A row's batch is the durable evidence of its source, also after the step
\* that commits it.
LEMMA DerivedStep ==
    /\ IInv /\ SeamArgumentsInv /\ CallInv /\ EvidenceInv /\ BufferedInv
    /\ DerivedFromEvidence /\ [SeamNext]_allVars
    => DerivedFromEvidence'
<1> SUFFICES ASSUME IInv, SeamArgumentsInv, CallInv, EvidenceInv, BufferedInv,
                    DerivedFromEvidence, [SeamNext]_allVars,
                    NEW k \in Keys, currentState'[k] # None
             PROVE  LET b == evidence'[currentState'[k].source]
                    IN  b # None /\ Says(b, k, currentState'[k])
  BY DEF DerivedFromEvidence, Says
<1>1. CASE currentState'[k] = currentState[k]
  <2>1. currentState[k].source \in Occurrences
    BY <1>1 DEF IInv, TypeOK, Row
  <2>2. evidence[currentState[k].source] # None
        /\ Says(evidence[currentState[k].source], k, currentState[k])
    BY <1>1 DEF DerivedFromEvidence, Says
  <2> QED BY <1>1, <2>1, <2>2, EvidenceKept
<1>2. ASSUME NEW w \in Workers, CommitApplied(w), stage[w] = "activating",
             rows[w][k] # None, currentState'[k] = rows[w][k]
      PROVE  LET b == evidence'[currentState'[k].source]
             IN  b # None /\ Says(b, k, currentState'[k])
  <2>1. currentState'[k].source = target[w]
    BY <1>2 DEF IInv, BufferInv
  <2>2. target[w] = OccurrenceOf(w) /\ batch[w] = items[w] /\ items[w] \in Batches
    BY <1>2 DEF CallInv, CallAt, SeamArgumentsInv
  <2>3. evidence[target[w]] = batch[w] /\ batch[w] # None
    BY <1>2, <2>2, NoneAssumption DEF EvidenceInv, EvidenceAt
  <2>4. target[w] \in Occurrences /\ evidence'[target[w]] = batch[w]
    BY <1>2, <2>2, <2>3, CalledOccurrence, EvidenceKept
  <2> QED BY <1>2, <2>1, <2>3, <2>4 DEF BufferedInv
<1>3. ASSUME NEW w \in Workers,
             \/ ActivationStatement(w) \/ LockStoreRow(w)
             \/ UpdateOccurrence(w) \/ ActivationFails(w)
      PROVE  \/ currentState'[k] = currentState[k]
             \/ /\ CommitApplied(w) /\ stage[w] = "activating"
                /\ rows[w][k] # None /\ currentState'[k] = rows[w][k]
  <2>1. stage[w] = "activating" /\ (LockStore(w) \/ Advance(w) \/ Fail(w))
    BY <1>3, InActivationMoves DEF IInv
  <2>2. CASE CommitApplied(w)
    BY <2>1, <2>2 DEF CommitApplied
  <2>3. CASE ~CommitApplied(w)
    BY <2>1, <2>3
       DEF LockStore, Advance, Fail, ReadFacts, RaiseValueError,
           ReturnAlreadyApplied, FindUnresolved, Defer, FindNoneEarlier,
           ChooseBranch, CommitStale, WriteLine, database
  <2> QED BY <2>2, <2>3
<1> QED BY <1>1, <1>2, <1>3, RowsElsewhere

-----------------------------------------------------------------------------
(* The theorems.                                                           *)

\* The inductive invariant of the seam.
SeamInv ==
    /\ IInv /\ CatalogInv /\ SeamArgumentsInv /\ CallInv
    /\ EvidenceInv /\ BufferedInv /\ DerivedFromEvidence

\* Every part of the invariant that the seam adds holds at the start.
LEMMA SeamInitInv ==
    SeamInit =>
        CallInv /\ EvidenceInv /\ BufferedInv /\ DerivedFromEvidence
<1> SUFFICES ASSUME SeamInit
             PROVE  CallInv /\ EvidenceInv /\ BufferedInv /\ DerivedFromEvidence
  OBVIOUS
<1>1. CallInv
  BY DEF SeamInit, Init, Catalog!Init, CallInv, CallAt
<1>2. EvidenceInv
  BY NoneAssumption DEF SeamInit, Init, EvidenceInv, EvidenceType, EvidenceAt,
                        EvidenceOf
<1>3. BufferedInv /\ DerivedFromEvidence
  BY DEF SeamInit, Init, BufferedInv, DerivedFromEvidence, NoRows
<1> QED BY <1>1, <1>2, <1>3

\* The invariants of the parts come from their refinement, the others hold
\* one after the other.
LEMMA SeamInvariant == SeamSpec => []SeamInv
<1>1. SeamSpec => []IInv
  BY SeamImplementsActivation, Invariant, PTL
<1>2. SeamSpec => [](SeamArgumentsInv /\ CatalogInv)
  BY ArgumentsInvariant
<1>3. IInv /\ CatalogInv /\ SeamArgumentsInv /\ CallInv /\ EvidenceInv
      /\ BufferedInv /\ DerivedFromEvidence /\ [SeamNext]_allVars
      => (CallInv /\ EvidenceInv /\ BufferedInv /\ DerivedFromEvidence)'
  BY CallStep, EvidenceInvStep, BufferedStep, DerivedStep DEF IInv
<1> QED
  BY <1>1, <1>2, <1>3, SeamInitInv, PTL DEF SeamSpec, SeamInv

\* The types of the seam's tables, locks and connections (SeamTypeOK).
THEOREM SeamTypeCorrect == SeamSpec => []SeamTypeOK
<1>1. SeamInv => SeamTypeOK
  BY DEF SeamInv, IInv, CatalogInv, SeamArgumentsInv, EvidenceInv,
         EvidenceType, SeamTypeOK, Stages
<1> QED BY <1>1, SeamInvariant, PTL

\* Inside the seam too, what a resolution has returned stays the answer
\* (AnswersAgree).
THEOREM SeamAnswersStay == SeamSpec => []AnswersAgree
BY SeamImplementsCatalog, AnswersStay, PTL DEF AnswersAgree

\* Inside the seam too, no store is left without an identifier
\* (EveryStoreHasAlias).
THEOREM SeamNoOrphanStore == SeamSpec => []EveryStoreHasAlias
BY SeamImplementsCatalog, NoOrphanStore, PTL DEF EveryStoreHasAlias

\* Durable evidence is about its occurrence's own store and instant
\* (EvidenceAgrees).
THEOREM EvidenceIsOfItsOccurrence == SeamSpec => []EvidenceAgrees
<1>1. SeamInv => EvidenceAgrees
  BY DEF SeamInv, EvidenceInv, EvidenceOf, EvidenceAgrees
<1> QED BY <1>1, SeamInvariant, PTL

\* Evidence is written exactly once: no concurrent or later replay replaces
\* it (EvidenceIsImmutable).
THEOREM EvidenceWrittenOnce == SeamSpec => EvidenceIsImmutable
<1>1. SeamInv /\ [SeamNext]_allVars =>
        [\A o \in Occurrences :
           evidence[o] # None => evidence'[o] = evidence[o]]_allVars
  BY EvidenceKept DEF SeamInv
<1> QED BY <1>1, SeamInvariant, PTL DEF SeamSpec, EvidenceIsImmutable

\* Every current row says what the durable evidence of its source says of its
\* product (DerivedFromEvidence).
THEOREM DerivedStateHasEvidence == SeamSpec => []DerivedFromEvidence
<1>1. SeamInv => DerivedFromEvidence
  BY DEF SeamInv
<1> QED BY <1>1, SeamInvariant, PTL

\* How much a connection may still have to wait for, from the most: the store
\* row (0), the occurrence's row (1), that row once more at the end of an
\* activation (2), nothing (3).
Rank(w) ==
    IF stage[w] \in {"insert", "classify"} \/ step[w] = "commit" THEN 3
    ELSE IF Holding(w) THEN 2
    ELSE IF stage[w] = "lock_occurrence" THEN 1
    ELSE 0

\* Whoever holds a row that another waits for is further in this order.
LEMMA WaitsUpwards ==
    ASSUME SeamInv, NEW w \in Workers, NEW v \in Workers, v # w, WaitsFor(w, v)
    PROVE  Rank(w) < Rank(v)
<1>1. \A u \in Workers : Holding(u) => stage[u] = "activating"
  BY DEF SeamInv, CallInv, CallAt, Holding
<1>2. Holding(v) => Rank(v) = 2
  <2>1. Holding(v) => step[v] # "commit"
    BY <1>1 DEF SeamInv, CallInv, CallAt
  <2> QED BY <1>1, <2>1 DEF Rank
<1>3. CASE step[w] = "insert_alias" /\ aliasWriter[sought[w]] = v
  <2>1. sought[w] \in Aliases /\ stage[w] = "resolving"
    BY <1>3 DEF SeamInv, CatalogInv, ResolutionInv, CallInv, CallAt
  <2>2. step[v] = "commit"
    BY <1>3, <2>1 DEF SeamInv, CatalogInv, WriterInv
  <2> QED BY <1>1, <1>3, <2>1, <2>2 DEF Rank
<1>4. CASE stage[w] = "lock_store" /\ OwnStore(w) # None
           /\ lockOwner[OwnStore(w)] = v
  <2>1. Rank(w) = 0
    BY <1>1, <1>4 DEF Rank, SeamInv, CallInv, CallAt
  <2>2. occurrence[OccurrenceOf(w)] \in Facts
    BY <1>4, CalledOccurrence
       DEF SeamInv, EvidenceInv, EvidenceAt, IInv, TypeOK
  <2>3. OwnStore(w) \in Stores
    BY <1>4, <2>2 DEF OwnStore, Facts
  <2>4. Holding(v)
    BY <1>4, <2>3 DEF SeamInv, IInv, HolderInv
  <2> QED BY <1>2, <2>1, <2>4
<1>5. CASE stage[w] = "lock_occurrence" /\ occurrenceLock[OccurrenceOf(w)] = v
  <2>1. Rank(w) = 1
    BY <1>1, <1>5 DEF Rank, SeamInv, CallInv, CallAt
  <2>2. stage[v] \in {"insert", "classify"}
    BY <1>5, CalledOccurrence DEF SeamInv, EvidenceInv, EvidenceAt
  <2> QED BY <2>1, <2>2 DEF Rank
<1>6. CASE pc[w] = "locking"
           /\ (sharing[v] = StoreOf(w) \/ lockOwner[StoreOf(w)] = v)
  <2>1. StoreOf(w) \in Stores
    BY <1>6, StoreType DEF SeamInv, IInv
  <2>2. Rank(w) = 0
    BY <1>6 DEF Rank, Holding, SeamInv, CallInv, CallAt
  <2>3. CASE sharing[v] = StoreOf(w)
    <3>1. stage[v] \in {"lock_occurrence", "insert", "classify"}
      BY <2>1, <2>3, NoneAssumption DEF SeamInv, EvidenceInv, EvidenceAt
    <3> QED BY <1>1, <2>2, <3>1 DEF Rank
  <2>4. CASE lockOwner[StoreOf(w)] = v
    <3>1. Holding(v)
      BY <2>1, <2>4 DEF SeamInv, IInv, HolderInv
    <3> QED BY <1>2, <2>2, <3>1
  <2> QED BY <1>6, <2>3, <2>4
<1>7. CASE pc[w] \in {"stale", "writing"} /\ occurrenceLock[target[w]] = v
  <2>1. Holding(w) /\ target[w] \in Occurrences
    BY <1>7 DEF Holding, SeamInv, IInv, ArgumentsInv
  <2>2. Rank(w) = 2
    <3>1. step[w] # "commit"
      BY <1>1, <2>1 DEF SeamInv, CallInv, CallAt
    <3> QED BY <1>1, <2>1, <3>1 DEF Rank
  <2>3. stage[v] \in {"insert", "classify"}
    BY <1>7, <2>1 DEF SeamInv, EvidenceInv, EvidenceAt
  <2> QED BY <2>2, <2>3 DEF Rank
<1> QED BY <1>3, <1>4, <1>5, <1>6, <1>7 DEF WaitsFor

\* No connections wait for each other in a circle, however many there are
\* (NoDeadlock): one that is furthest waits for none of its group.
THEOREM DeadlockFree == SeamSpec => []NoDeadlock
<1>1. SeamInv => NoDeadlock
  <2> SUFFICES ASSUME SeamInv, NEW group \in (SUBSET Workers) \ {{}}
               PROVE  \E w \in group : \A v \in group \ {w} : ~WaitsFor(w, v)
    BY DEF NoDeadlock
  <2>1. \A w \in group : Rank(w) \in {0, 1, 2, 3}
    BY DEF Rank
  <2>2. PICK w \in group : \A v \in group : ~(Rank(w) < Rank(v))
    <3>1. PICK u \in group : TRUE
      OBVIOUS
    <3>2. CASE \E w \in group : Rank(w) = 3
      BY <2>1, <3>2
    <3>3. CASE (\A w \in group : Rank(w) # 3) /\ \E w \in group : Rank(w) = 2
      BY <2>1, <3>3
    <3>4. CASE (\A w \in group : Rank(w) \notin {2, 3})
               /\ \E w \in group : Rank(w) = 1
      BY <2>1, <3>4
    <3>5. CASE \A w \in group : Rank(w) \notin {1, 2, 3}
      BY <2>1, <3>1, <3>5
    <3> QED BY <3>2, <3>3, <3>4, <3>5
  <2> QED BY <2>2, WaitsUpwards
<1> QED BY <1>1, SeamInvariant, PTL

\* The whole seam, interleaved with the catalog and the evidence and held up
\* by their locks, applies whole occurrences in observation order
\* (ImplementsOrdered).
THEOREM SeamImplementsOrdered == SeamSpec => ImplementsOrdered
BY SeamImplementsActivation, Refinement, PTL

=============================================================================
