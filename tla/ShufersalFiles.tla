--------------------------- MODULE ShufersalFiles ---------------------------
(***************************************************************************)
(* What the Shufersal collector makes of a file's bytes: transport.py,     *)
(* parse.py and validate.py, as operators.  Unlike Rami Levy's, its files  *)
(* are all gzip, its tags have one spelling, no tag is required, and ids   *)
(* are compared as strings only.                                           *)
(***************************************************************************)
EXTENDS Naturals, Sequences, SourceText

\* Only "gzip" is decompressed; plain text and a ZIP file are no fallback.
Refused == {"plain", "zip", "corrupt_gzip"}

\* A Stores document is [chain, subchains, stores]: the subchains' ids, and
\* each store with the position of its subchain.
StoreRecords(doc) ==
    [n \in DOMAIN doc.stores |->
        [chain_id |-> Text(doc.chain),
         subchain_id |-> Text(doc.subchains[doc.stores[n].subchain]),
         store_id |-> Text(doc.stores[n].id)]]

\* validate_stores.
StoresRejected(records) ==
    \/ records = <<>>
    \/ \E n \in DOMAIN records : records[n].store_id = Empty
    \/ \E n, k \in DOMAIN records :
         n # k /\ records[n].store_id = records[k].store_id

\* A PriceFull document is [chain, subchain, store, items].
PriceFullRecords(doc) ==
    [ids |-> [chain_id |-> Text(doc.chain), subchain_id |-> Text(doc.subchain),
              store_id |-> Text(doc.store)],
     items |-> doc.items]

\* validate_pricefull compares every decimal price with 0, and a comparison
\* with NaN is an InvalidOperation that is caught nowhere.
ComparesNaN(payload) ==
    \E n \in DOMAIN payload.items : payload.items[n].price = NaN

\* Fault: the chain and subchain are not compared.
PriceFullRejectedByStore(payload, name) ==
    \/ payload.items = <<>>
    \/ name.kind # "pricefull"
    \/ name.kind = "pricefull" /\ name.ids.store_id # payload.ids.store_id
    \/ \E n \in DOMAIN payload.items : ~IsDecimal(payload.items[n].price)

\* validate_pricefull.
PriceFullRejected(payload, name) ==
    \/ payload.items = <<>>
    \/ name.kind # "pricefull"
    \/ name.kind = "pricefull" /\ name.ids # payload.ids
    \/ \E n \in DOMAIN payload.items : ~IsDecimal(payload.items[n].price)

=============================================================================
