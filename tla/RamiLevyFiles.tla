---------------------------- MODULE RamiLevyFiles ----------------------------
(***************************************************************************)
(* What the Rami Levy collector makes of a listing and of a file's bytes:  *)
(* discovery.py, transport.py, parse.py and validate.py, as operators.     *)
(*                                                                         *)
(* A file name has a kind and the ids it carries; a document is its root   *)
(* ids under both spellings, its envelope and its records.  An id is a     *)
(* string, compared as one, and NumberOf is the value of those of digits.  *)
(***************************************************************************)
EXTENDS Naturals, Sequences, FiniteSets, SourceText

CONSTANTS
    NumberOf,  \* from ids that isdigit() accepts to int() of them
    NotInts    \* and ids that it accepts and int() raises for (a superscript digit)

\* A name is [kind, ids]: "stores", the two known shapes of a PriceFull name
\* ("standard", "compact"), or "other".
PriceFullKinds == {"standard", "compact"}

\* A row of the listing is [name, time]; the code compares times as strings.
StoresRows(rows) == {n \in DOMAIN rows : rows[n].name.kind = "stores"}

PriceFullRows(rows, store) ==
    {n \in DOMAIN rows : /\ rows[n].name.kind \in PriceFullKinds
                         /\ rows[n].name.ids.store_id = store}

\* max() answers the first of the latest rows.
Latest(rows, candidates) ==
    CHOOSE n \in candidates :
        \A k \in candidates : \/ rows[k].time < rows[n].time
                              \/ rows[k].time = rows[n].time /\ n <= k

-----------------------------------------------------------------------------
(* transport.normalize decides by the first bytes, never by the name.      *)

\* Containers: plain XML, "gzip", a ZIP file with one intact member; a gzip
\* stream that breaks off; a ZIP file that is malformed, empty, of several
\* members or too large; a ZIP file whose one member fails its checksum.
Passed == {"plain", "gzip", "zip"}
Refused == {"corrupt_gzip", "refused_zip"}
CorruptMember == "corrupt_member"

-----------------------------------------------------------------------------
(* parse.py.  A tag pair is [upper, lower], as in ChainID and ChainId.     *)

Conflicting(pair) ==
    /\ Text(pair.upper) # Empty /\ Text(pair.lower) # Empty
    /\ pair.upper # pair.lower

Alias(pair) == IF Text(pair.upper) # Empty THEN pair.upper ELSE Text(pair.lower)

\* A Stores document is [chain, subchains, stores, envelope]: the subchains'
\* ids, and each store with the position of its subchain.
StoresParses(doc) ==
    /\ ~Conflicting(doc.chain)
    /\ \A n \in DOMAIN doc.subchains : ~Conflicting(doc.subchains[n])
    /\ \A n \in DOMAIN doc.stores : ~Conflicting(doc.stores[n].id)

StoreRecords(doc) ==
    [n \in DOMAIN doc.stores |->
        [chain_id |-> Alias(doc.chain),
         subchain_id |-> Alias(doc.subchains[doc.stores[n].subchain]),
         store_id |-> Alias(doc.stores[n].id)]]

\* Fault: the envelope is looked at before the records.
ClassifyEnvelopeFirst(doc) ==
    CASE doc.envelope = "SubChains" -> "RECOGNIZED_EMPTY"
      [] doc.envelope = "Branches" -> "NONEMPTY_UNRECOGNIZED"
      [] doc.envelope = "neither" -> "UNKNOWN_UNCLASSIFIED"

\* analyze_stores_xml: the first match wins, and records come first.
Classify(doc) ==
    IF doc.stores # <<>> THEN "RECOGNIZED_NONEMPTY"
    ELSE IF doc.envelope = "SubChains" THEN "RECOGNIZED_EMPTY"
    ELSE IF doc.envelope = "Branches" THEN "NONEMPTY_UNRECOGNIZED"
    ELSE "UNKNOWN_UNCLASSIFIED"

\* A PriceFull document is [chain, subchain, store, items]; the root tags'
\* casing alone decides the family.
PriceFullFamily(doc) ==
    IF doc.chain.upper # Absent THEN "standard"
    ELSE IF doc.chain.lower # Absent THEN "online"
    ELSE "unrecognized"

\* An item is [tags, ...]: the families whose required tags it has all.
PriceFullParses(doc) ==
    LET family == PriceFullFamily(doc)
    IN /\ family # "unrecognized"
       /\ family = "standard" => ~Conflicting(doc.store)
       /\ \A n \in DOMAIN doc.items : family \in doc.items[n].tags

\* The standard family reads <StoreId> for a missing <StoreID>, the online
\* family reads its own spelling only.
XmlIds(doc) ==
    IF PriceFullFamily(doc) = "standard"
    THEN [chain_id |-> Text(doc.chain.upper),
          subchain_id |-> Text(doc.subchain.upper),
          store_id |-> Alias(doc.store)]
    ELSE [chain_id |-> Text(doc.chain.lower),
          subchain_id |-> Text(doc.subchain.lower),
          store_id |-> Text(doc.store.lower)]

PriceFullRecords(doc) ==
    [family |-> PriceFullFamily(doc), ids |-> XmlIds(doc), items |-> doc.items]

-----------------------------------------------------------------------------
(* validate.py: whether the validation hard-fails.                         *)

\* validate_stores.
StoresRejected(records) ==
    \/ records = <<>>
    \/ \E n \in DOMAIN records, field \in {"store_id", "chain_id", "subchain_id"} :
         records[n][field] = Empty
    \/ \E n, k \in DOMAIN records :
         n # k /\ records[n].store_id = records[k].store_id

SameNumber(a, b) ==
    /\ {a, b} \subseteq DOMAIN NumberOf
    /\ NumberOf[a] = NumberOf[b]

\* Fault: padding is ignored in both families.
IdsMatchNumerically(key, given, found, family) ==
    IF key = "store_id" THEN SameNumber(given, found) ELSE given = found

\* _ids_match: the online family's store_id is compared as a number.
IdsMatch(key, given, found, family) ==
    IF family = "online" /\ key = "store_id"
    THEN SameNumber(given, found)
    ELSE given = found

\* The comparison as a number raises a ValueError that is caught nowhere: the
\* ids of a name are \d+, which int() always reads, those of a document are not.
ComparesNotInt(payload) ==
    /\ payload.items # <<>>
    /\ payload.family = "online"
    /\ payload.ids.store_id \in NotInts

\* validate_pricefull, against the ids the file's name carries.
PriceFullRejected(payload, name) ==
    \/ payload.items = <<>>
    \/ \E key \in DOMAIN name.ids :
         ~IdsMatch(key, name.ids[key], payload.ids[key], payload.family)
    \/ \E n \in DOMAIN payload.items : ~IsDecimal(payload.items[n].price)

=============================================================================
