--------------------------- MODULE NormalizedSeam ---------------------------
(***************************************************************************)
(* From normalized items to derived state:                                 *)
(* smartcart/integration/occurrence_activation.py over StoreCatalog,       *)
(* persist_normalized_occurrence_evidence (db_spike/normalized_evidence.py)*)
(* and Activation, in three transactions of one connection.                *)
(*                                                                         *)
(* Added to the row locks of Activation: the evidence transaction holds    *)
(* its store FOR KEY SHARE and then its occurrence FOR NO KEY UPDATE, and  *)
(* activation's final UPDATE of the occurrence waits for the latter.  Here *)
(* every activation is called by the seam.                                 *)
(***************************************************************************)
EXTENDS Activation

CONSTANTS Aliases, MaxStores,
          Inputs   \* what a caller may pass, a subset of Input

Input == [occurrence : Occurrences, alias : Aliases, collectedAt : Times,
          lines : Seq(Line)]

VARIABLES
    store, handedOut, alias, aliasWriter, step, sought, created, answered,
    evidence,        \* normalized_occurrence_evidence: one batch, or None
    sharing,         \* the store a connection holds FOR KEY SHARE
    occurrenceLock,  \* who holds an occurrence FOR NO KEY UPDATE
    stage, input,    \* where a connection is in the seam, and its arguments
    items            \* the batch with its resolved store

catalogVars == <<store, handedOut, alias, aliasWriter, step, sought, created,
                 answered>>
evidenceVars == <<evidence, sharing, occurrenceLock>>
seamVars == <<stage, input, items>>
allVars == <<vars, catalogVars, evidenceVars, seamVars>>

Catalog == INSTANCE StoreCatalog

\* The batch's own agreement has been checked, and it is not empty.
ASSUME SeamAssumption ==
    /\ Stores = 1..MaxStores
    /\ \A x \in Inputs :
         /\ x \in Input /\ Len(x.lines) > 0
         /\ \A s \in Stores :
              [mode |-> "normalized", store |-> s,
               collectedAt |-> x.collectedAt, lines |-> x.lines] \in Batches
    /\ None \notin Inputs
    /\ Catalog!CatalogAssumption

SeamInit ==
    /\ Init
    /\ Catalog!Init
    /\ evidence = [o \in Occurrences |-> None]
    /\ sharing = [w \in Workers |-> None]
    /\ occurrenceLock = [o \in Occurrences |-> None]
    /\ stage = [w \in Workers |-> "idle"]
    /\ input = [w \in Workers |-> None]
    /\ items = [w \in Workers |-> None]

Goto(w, s) == stage' = [stage EXCEPT ![w] = s]

\* COMMIT or ROLLBACK of the evidence transaction.
ReleaseEvidenceLocks(w) ==
    /\ sharing' = [sharing EXCEPT ![w] = None]
    /\ occurrenceLock' = [o \in Occurrences |->
                            IF occurrenceLock[o] = w THEN None
                            ELSE occurrenceLock[o]]

\* The call returns or raises; nothing of it is left in the connection.
SeamReturn(w) ==
    /\ Goto(w, "idle")
    /\ input' = [input EXCEPT ![w] = None]
    /\ items' = [items EXCEPT ![w] = None]

OccurrenceOf(w) == input[w].occurrence
OwnStore(w) == occurrence[OccurrenceOf(w)].store

-----------------------------------------------------------------------------
\* Resolving the store, in a transaction that commits on its own.
ActivateNormalizedOccurrence(w, x) ==
    /\ stage[w] = "idle"
    /\ Catalog!Resolve(w, x.alias)
    /\ Goto(w, "resolving")
    /\ input' = [input EXCEPT ![w] = x]
    /\ UNCHANGED <<vars, evidenceVars, items>>

Resolving(w) ==
    /\ stage[w] = "resolving"
    /\ Catalog!CreateStore(w) \/ Catalog!InsertAlias(w)
    /\ UNCHANGED <<vars, evidenceVars, seamVars>>

\* Fault: the raw store identifier goes into the items.
ItemsWithRawStore(w) ==
    /\ stage[w] = "resolving"
    /\ Catalog!ReturnExisting(w) \/ Catalog!CommitStore(w)
    /\ items' = [items EXCEPT ![w] =
                   [mode |-> "normalized",
                    store |-> input[w].alias,
                    collectedAt |-> input[w].collectedAt,
                    lines |-> input[w].lines]]
    /\ Goto(w, "find")
    /\ UNCHANGED <<vars, evidenceVars, input>>

\* The normalized items are built with the resolved store.
StoreResolved(w) ==
    /\ stage[w] = "resolving"
    /\ Catalog!ReturnExisting(w) \/ Catalog!CommitStore(w)
    /\ items' = [items EXCEPT ![w] =
                   [mode |-> "normalized",
                    store |-> alias'[sought[w]],
                    collectedAt |-> input[w].collectedAt,
                    lines |-> input[w].lines]]
    /\ Goto(w, "find")
    /\ UNCHANGED <<vars, evidenceVars, input>>

ResolutionFails(w) ==
    /\ stage[w] = "resolving"
    /\ Catalog!RaiseDuplicate(w) \/ Catalog!Fail(w)
    /\ SeamReturn(w)
    /\ UNCHANGED <<vars, evidenceVars>>

-----------------------------------------------------------------------------
RaiseNoOccurrence(w) ==
    /\ stage[w] = "find"
    /\ occurrence[OccurrenceOf(w)] = None
    /\ SeamReturn(w)
    /\ UNCHANGED <<vars, catalogVars, evidenceVars>>

\* Fault: the occurrence is locked before the store.
LockOccurrenceFirst(w) ==
    /\ stage[w] = "find"
    /\ occurrence[OccurrenceOf(w)] # None
    /\ occurrenceLock[OccurrenceOf(w)] = None
    /\ occurrenceLock' = [occurrenceLock EXCEPT ![OccurrenceOf(w)] = w]
    /\ Goto(w, "lock_store")
    /\ UNCHANGED <<vars, catalogVars, evidence, sharing, input, items>>

\* The unlocked read that tells which store to lock.
FindOccurrence(w) ==
    /\ stage[w] = "find"
    /\ occurrence[OccurrenceOf(w)] # None
    /\ Goto(w, "lock_store")
    /\ UNCHANGED <<vars, catalogVars, evidenceVars, input, items>>

\* FOR KEY SHARE conflicts with FOR UPDATE only; a stores-kind occurrence
\* has no store row to lock.
ShareStore(w) ==
    /\ stage[w] = "lock_store"
    /\ OwnStore(w) # None => lockOwner[OwnStore(w)] = None
    /\ sharing' = [sharing EXCEPT ![w] = OwnStore(w)]
    /\ Goto(w, "lock_occurrence")
    /\ UNCHANGED <<vars, catalogVars, evidence, occurrenceLock, input, items>>

\* Fault: the occurrence is read without FOR NO KEY UPDATE.
ReadOccurrence(w) ==
    /\ stage[w] = "lock_occurrence"
    /\ Goto(w, IF evidence[OccurrenceOf(w)] = None THEN "insert" ELSE "classify")
    /\ UNCHANGED <<vars, catalogVars, evidenceVars, input, items>>

LockOccurrence(w) ==
    /\ stage[w] = "lock_occurrence"
    /\ occurrenceLock[OccurrenceOf(w)] \in {None, w}
    /\ occurrenceLock' = [occurrenceLock EXCEPT ![OccurrenceOf(w)] = w]
    /\ Goto(w, IF evidence[OccurrenceOf(w)] = None THEN "insert" ELSE "classify")
    /\ UNCHANGED <<vars, catalogVars, evidence, sharing, input, items>>

RaiseDisagreement(w) ==
    /\ stage[w] \in {"insert", "classify"}
    /\ ~Agrees(OccurrenceOf(w), items[w])
    /\ ReleaseEvidenceLocks(w)
    /\ SeamReturn(w)
    /\ UNCHANGED <<vars, catalogVars, evidence>>

\* COMMIT of the evidence, and activate_occurrence is called with the items.
BeginActivation(w) ==
    /\ ReleaseEvidenceLocks(w)
    /\ Call(w, OccurrenceOf(w), items[w])
    /\ Goto(w, "activating")
    /\ UNCHANGED <<catalogVars, input, items>>

\* Fault: evidence is inserted before it is compared with the occurrence.
InsertUnchecked(w) ==
    /\ stage[w] = "insert"
    /\ evidence' = [evidence EXCEPT ![OccurrenceOf(w)] = items[w]]
    /\ BeginActivation(w)

InsertEvidence(w) ==
    /\ stage[w] = "insert"
    /\ Agrees(OccurrenceOf(w), items[w])
    /\ evidence' = [evidence EXCEPT ![OccurrenceOf(w)] = items[w]]
    /\ BeginActivation(w)

ReplayIdentical(w) ==
    /\ stage[w] = "classify"
    /\ Agrees(OccurrenceOf(w), items[w])
    /\ evidence[OccurrenceOf(w)] = items[w]
    /\ BeginActivation(w)
    /\ UNCHANGED evidence

\* Fault: a conflicting replay is taken for an identical one.
AcceptConflict(w) ==
    /\ stage[w] = "classify"
    /\ Agrees(OccurrenceOf(w), items[w])
    /\ evidence[OccurrenceOf(w)] # items[w]
    /\ BeginActivation(w)
    /\ UNCHANGED evidence

RaiseConflict(w) ==
    /\ stage[w] = "classify"
    /\ Agrees(OccurrenceOf(w), items[w])
    /\ evidence[OccurrenceOf(w)] # items[w]
    /\ ReleaseEvidenceLocks(w)
    /\ SeamReturn(w)
    /\ UNCHANGED <<vars, catalogVars, evidence>>

\* A crash or an error between two statements, or between two transactions.
PersistenceFails(w) ==
    /\ stage[w] \in {"find", "lock_store", "lock_occurrence", "insert", "classify"}
    /\ ReleaseEvidenceLocks(w)
    /\ SeamReturn(w)
    /\ UNCHANGED <<vars, catalogVars, evidence>>

-----------------------------------------------------------------------------
\* A step of activate_occurrence, and the seam's return with it.
InActivation(w) ==
    /\ stage[w] = "activating"
    /\ IF pc'[w] = "idle" THEN SeamReturn(w) ELSE UNCHANGED seamVars
    /\ UNCHANGED <<catalogVars, evidenceVars>>

\* FOR UPDATE waits for every FOR KEY SHARE.
LockStoreRow(w) ==
    /\ LockStore(w)
    /\ \A v \in Workers : sharing[v] # StoreOf(w)
    /\ InActivation(w)

\* The UPDATE of the occurrence waits for its FOR NO KEY UPDATE.
UpdateOccurrence(w) ==
    /\ CommitStale(w) \/ CommitApplied(w)
    /\ occurrenceLock[target[w]] \in {None, w}
    /\ InActivation(w)

ActivationStatement(w) ==
    /\ \/ ReadFacts(w) \/ RaiseValueError(w)
       \/ ReturnAlreadyApplied(w) \/ FindUnresolved(w)
       \/ Defer(w) \/ FindNoneEarlier(w)
       \/ ChooseBranch(w) \/ WriteLine(w)
    /\ InActivation(w)

ActivationFails(w) == Fail(w) /\ InActivation(w)

\* A collector's occurrence names a store that was resolved before.
InsertOccurrence(o, f) ==
    /\ f.store \in store \cup {None}
    /\ Insert(o, f)
    /\ UNCHANGED <<catalogVars, evidenceVars, seamVars>>

\* The alias's foreign key takes FOR KEY SHARE on the store.
AddAlias(s, a) ==
    /\ lockOwner[s] = None
    /\ Catalog!AddStoreSourceAlias(s, a)
    /\ UNCHANGED <<vars, evidenceVars, seamVars>>

Proceed(w) ==
    \/ Resolving(w) \/ StoreResolved(w) \/ ResolutionFails(w)
    \/ RaiseNoOccurrence(w) \/ FindOccurrence(w) \/ RaiseDisagreement(w)
    \/ InsertEvidence(w) \/ ReplayIdentical(w) \/ RaiseConflict(w)
    \/ ActivationStatement(w)

SeamNext ==
    \/ \E o \in Occurrences, f \in Observations : InsertOccurrence(o, f)
    \/ \E s \in store, a \in Aliases : AddAlias(s, a)
    \/ \E w \in Workers, x \in Inputs : ActivateNormalizedOccurrence(w, x)
    \/ \E w \in Workers :
         \/ Proceed(w)
         \/ ShareStore(w) \/ LockOccurrence(w)
         \/ LockStoreRow(w) \/ UpdateOccurrence(w)
         \/ PersistenceFails(w) \/ ActivationFails(w)

SeamSpec == SeamInit /\ [][SeamNext]_allVars

-----------------------------------------------------------------------------
SeamTypeOK ==
    /\ TypeOK
    /\ Catalog!TypeOK
    /\ evidence \in [Occurrences -> Batches \cup {None}]
    /\ sharing \in [Workers -> Stores \cup {None}]
    /\ occurrenceLock \in [Occurrences -> Workers \cup {None}]
    /\ stage \in [Workers -> {"idle", "resolving", "find", "lock_store",
                              "lock_occurrence", "insert", "classify",
                              "activating"}]
    /\ input \in [Workers -> Inputs \cup {None}]
    /\ items \in [Workers -> Batches \cup {None}]

\* Evidence is written once: a replay, concurrent or after a crash, neither
\* appends to nor replaces what is there (persist_normalized_occurrence_
\* evidence: "exactly once").
EvidenceIsImmutable ==
    [][\A o \in Occurrences :
         evidence[o] # None => evidence'[o] = evidence[o]]_allVars

\* Evidence is about the occurrence's own store and instant, although the
\* store was resolved in an earlier transaction from an alias.
EvidenceAgrees ==
    \A o \in Occurrences : evidence[o] # None => Agrees(o, evidence[o])

\* What a resolution has returned for an identifier stays the answer:
\* "Returns the existing store_id unchanged on every subsequent call with
\* the same tuple", for callers that race to be the first as well.
AnswersAgree == Catalog!AnswersAgree

\* No store is left behind by a lost race or a failure: each committed one
\* is what some identifier means ("two concurrent callers resolving the same
\* raw identifier for the first time cannot create two Store rows").
EveryStoreHasAlias == Catalog!EveryStoreHasAlias

\* Derived state can be replayed from evidence: every current row says what
\* the durable evidence of its source occurrence says of that product, even
\* when replays with different items raced to be applied.
DerivedFromEvidence ==
    \A k \in Keys : currentState[k] # None =>
        LET b == evidence[currentState[k].source]
        IN  /\ b # None
            /\ \E n \in 1..Len(b.lines) :
                 /\ b.lines[n].item = k[2]
                 /\ b.lines[n].price = currentState[k].price
                 /\ b.lines[n].description = currentState[k].description

\* w's next statement waits for a row, or a key, that v holds.
WaitsFor(w, v) ==
    \/ step[w] = "insert_alias" /\ aliasWriter[sought[w]] = v
    \/ /\ stage[w] = "lock_store"
       /\ OwnStore(w) # None /\ lockOwner[OwnStore(w)] = v
    \/ stage[w] = "lock_occurrence" /\ occurrenceLock[OccurrenceOf(w)] = v
    \/ pc[w] = "locking" /\ (sharing[v] = StoreOf(w) \/ lockOwner[StoreOf(w)] = v)
    \/ /\ \/ pc[w] = "stale"
          \/ pc[w] = "writing" /\ next[w] > Len(batch[w].lines)
       /\ occurrenceLock[target[w]] = v

\* The transactions of the seam never deadlock: no set of connections is such
\* that each waits for another of them.  The evidence transaction takes the
\* store's row first, like the activation: "locking in the opposite order here
\* would create a lock-ordering deadlock" (its docstring).
NoDeadlock ==
    \A group \in (SUBSET Workers) \ {{}} :
        \E w \in group : \A v \in group \ {w} : ~WaitsFor(w, v)

=============================================================================
