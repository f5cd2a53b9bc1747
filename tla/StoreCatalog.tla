---------------------------- MODULE StoreCatalog ----------------------------
(***************************************************************************)
(* Which SmartCart store a retailer's raw identifier means: the store and  *)
(* store_source_alias tables and their two writers in                      *)
(* smartcart/db_spike/catalog.py, called by several connections.           *)
(*                                                                         *)
(* get_or_create_store_by_alias is one READ COMMITTED transaction of three *)
(* statements; the alias's unique key is all that orders two of them.      *)
(***************************************************************************)
EXTENDS Naturals

CONSTANTS
    Aliases,    \* (chain_id, source, alias_context, raw_value) tuples
    MaxStores,  \* a bound on the values store_id's sequence hands out
    Workers,    \* database connections
    None        \* an absent row, or an idle connection

StoreIds == 1..MaxStores

\* A module with this component assumes it of its constants.
CatalogAssumption ==
    /\ MaxStores \in Nat
    /\ None \notin StoreIds
    /\ None \notin Aliases
    /\ None \notin Workers

VARIABLES
    store,        \* the committed stores
    handedOut,    \* how many values store_id's sequence has handed out
    alias,        \* store_source_alias
    aliasWriter,  \* who holds an uncommitted insert of an alias
    step,         \* a connection's next statement
    sought,       \* the alias it resolves
    created,      \* the store its transaction has inserted
    answered      \* <<alias, store>> of every resolution that returned

catalogVars == <<store, handedOut, alias, aliasWriter, step, sought, created,
                 answered>>

Init ==
    /\ store = {}
    /\ handedOut = 0
    /\ alias = [a \in Aliases |-> None]
    /\ aliasWriter = [a \in Aliases |-> None]
    /\ step = [w \in Workers |-> "idle"]
    /\ sought = [w \in Workers |-> None]
    /\ created = [w \in Workers |-> None]
    /\ answered = {}

Resolve(w, a) ==
    /\ step[w] = "idle"
    /\ step' = [step EXCEPT ![w] = "lookup"]
    /\ sought' = [sought EXCEPT ![w] = a]
    /\ UNCHANGED <<store, handedOut, alias, aliasWriter, created, answered>>

EndTransaction(w) ==
    /\ step' = [step EXCEPT ![w] = "idle"]
    /\ sought' = [sought EXCEPT ![w] = None]
    /\ created' = [created EXCEPT ![w] = None]
    /\ aliasWriter' = [a \in Aliases |->
                         IF aliasWriter[a] = w THEN None ELSE aliasWriter[a]]

\* The SELECT finds the alias: its store is returned.
ReturnExisting(w) ==
    /\ step[w] = "lookup"
    /\ alias[sought[w]] # None
    /\ answered' = answered \cup {<<sought[w], alias[sought[w]]>>}
    /\ EndTransaction(w)
    /\ UNCHANGED <<store, handedOut, alias>>

\* Fault: the store is inserted in a transaction of its own.
CreateStoreAutocommit(w) ==
    /\ step[w] = "lookup"
    /\ alias[sought[w]] = None
    /\ handedOut < MaxStores
    /\ handedOut' = handedOut + 1
    /\ store' = store \cup {handedOut'}
    /\ created' = [created EXCEPT ![w] = handedOut']
    /\ step' = [step EXCEPT ![w] = "insert_alias"]
    /\ UNCHANGED <<alias, aliasWriter, sought, answered>>

\* The SELECT finds nothing and a store is inserted; a rollback returns no
\* value to the sequence.
CreateStore(w) ==
    /\ step[w] = "lookup"
    /\ alias[sought[w]] = None
    /\ handedOut < MaxStores
    /\ handedOut' = handedOut + 1
    /\ created' = [created EXCEPT ![w] = handedOut']
    /\ step' = [step EXCEPT ![w] = "insert_alias"]
    /\ UNCHANGED <<store, alias, aliasWriter, sought, answered>>

\* Fault: ON CONFLICT DO UPDATE SET store_id.
UpsertAlias(w) ==
    /\ step[w] = "insert_alias"
    /\ aliasWriter[sought[w]] = None
    /\ aliasWriter' = [aliasWriter EXCEPT ![sought[w]] = w]
    /\ step' = [step EXCEPT ![w] = "commit"]
    /\ UNCHANGED <<store, handedOut, alias, sought, created, answered>>

\* The unique index waits for another transaction's insert of the alias.
InsertAlias(w) ==
    /\ step[w] = "insert_alias"
    /\ aliasWriter[sought[w]] = None
    /\ alias[sought[w]] = None
    /\ aliasWriter' = [aliasWriter EXCEPT ![sought[w]] = w]
    /\ step' = [step EXCEPT ![w] = "commit"]
    /\ UNCHANGED <<store, handedOut, alias, sought, created, answered>>

\* The loser of the race gets the unique key's violation, and its store is
\* rolled back.
RaiseDuplicate(w) ==
    /\ step[w] = "insert_alias"
    /\ aliasWriter[sought[w]] = None
    /\ alias[sought[w]] # None
    /\ EndTransaction(w)
    /\ UNCHANGED <<store, handedOut, alias, answered>>

CommitStore(w) ==
    /\ step[w] = "commit"
    /\ store' = store \cup {created[w]}
    /\ alias' = [alias EXCEPT ![sought[w]] = created[w]]
    /\ answered' = answered \cup {<<sought[w], created[w]>>}
    /\ EndTransaction(w)
    /\ UNCHANGED handedOut

Fail(w) ==
    /\ step[w] # "idle"
    /\ EndTransaction(w)
    /\ UNCHANGED <<store, handedOut, alias, answered>>

\* add_store_source_alias: INSERT ... ON CONFLICT DO NOTHING, autocommitted.
AddStoreSourceAlias(s, a) ==
    /\ s \in store
    /\ aliasWriter[a] = None
    /\ alias' = [alias EXCEPT ![a] = IF @ = None THEN s ELSE @]
    /\ UNCHANGED <<store, handedOut, aliasWriter, step, sought, created,
                   answered>>

Advance(w) == ReturnExisting(w) \/ CreateStore(w) \/ CommitStore(w)

TakeAlias(w) == InsertAlias(w) \/ RaiseDuplicate(w)

Next ==
    \/ \E w \in Workers, a \in Aliases : Resolve(w, a)
    \/ \E w \in Workers : Advance(w) \/ TakeAlias(w) \/ Fail(w)
    \/ \E s \in store, a \in Aliases : AddStoreSourceAlias(s, a)

Spec == Init /\ [][Next]_catalogVars

-----------------------------------------------------------------------------
TypeOK ==
    /\ store \subseteq StoreIds
    /\ handedOut \in 0..MaxStores
    /\ alias \in [Aliases -> StoreIds \cup {None}]
    /\ aliasWriter \in [Aliases -> Workers \cup {None}]
    /\ step \in [Workers -> {"idle", "lookup", "insert_alias", "commit"}]
    /\ sought \in [Workers -> Aliases \cup {None}]
    /\ created \in [Workers -> StoreIds \cup {None}]
    /\ answered \subseteq Aliases \X StoreIds

\* What a resolution has returned for an identifier stays the answer:
\* "Returns the existing store_id unchanged on every subsequent call with
\* the same tuple", for callers that race to be the first as well.
AnswersAgree ==
    \A r \in answered : alias[r[1]] = r[2]

\* No store is left behind by a lost race or a failure: each committed one
\* is what some identifier means ("two concurrent callers resolving the same
\* raw identifier for the first time cannot create two Store rows").
EveryStoreHasAlias ==
    \A s \in store : \E a \in Aliases : alias[a] = s

=============================================================================
