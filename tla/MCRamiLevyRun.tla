---------------------------- MODULE MCRamiLevyRun ----------------------------
(***************************************************************************)
(* A small instance of RamiLevyRun for TLC: one ordinary store and the     *)
(* online store, listings with old and foreign rows, and files that differ *)
(* from a sound one in one thing each.                                     *)
(***************************************************************************)
EXTENDS RamiLevyRun

TwoStores == <<"001", "039">>

Numbers == [id \in {"001", "1", "039", "39", "7290"} |->
               CASE id \in {"001", "1"} -> 1
                 [] id \in {"039", "39"} -> 39
                 [] id = "7290" -> 7290]

-----------------------------------------------------------------------------
StoresName == [kind |-> "stores", ids |-> <<>>]
Standard(store) == [kind |-> "standard",
                    ids |-> [chain_id |-> "7290", subchain_id |-> "1",
                             store_id |-> store]]
Compact(store) == [kind |-> "compact",
                   ids |-> [chain_id |-> "7290", store_id |-> store]]

Row(name, time) == [name |-> name, time |-> time]
Foreign == Row([kind |-> "other", ids |-> <<>>], 9)

\* Everything is listed; the online store has both shapes of names at once,
\* and nothing but an unpadded name of the ordinary store; nothing at all.
SomeListings == {
    << Row(Standard("001"), 1), Foreign, Row(StoresName, 1),
       Row(Compact("039"), 1) >>,
    << Row(StoresName, 2), Row(StoresName, 1), Row(Standard("1"), 3),
       Row(Standard("039"), 1), Row(Compact("039"), 2) >>,
    <<>> }

-----------------------------------------------------------------------------
Bytes(container, wellFormed, doc) ==
    [container |-> container, wellFormed |-> wellFormed, doc |-> doc]

Upper(id) == [upper |-> id, lower |-> Absent]
Lower(id) == [upper |-> Absent, lower |-> id]

Stores(subchains, stores, envelope) ==
    [chain |-> Upper("7290"), subchains |-> subchains, stores |-> stores,
     envelope |-> envelope]
At(n, id) == [subchain |-> n, id |-> id]

SoundStores == Stores(<<Upper("1")>>, <<At(1, Upper("001")), At(1, Lower("039"))>>,
                      "SubChains")

StoresDocs == {
    SoundStores,
    Stores(<<Upper("1"), Lower("1")>>, <<At(1, Upper("001")), At(2, Upper("001"))>>,
           "SubChains"),
    Stores(<<Upper(Empty)>>, <<At(1, Upper("001"))>>, "SubChains"),
    Stores(<<[upper |-> "1", lower |-> "39"]>>, <<>>, "SubChains"),
    Stores(<<>>, <<>>, "SubChains"),
    Stores(<<>>, <<>>, "Branches"),
    Stores(<<>>, <<>>, "neither") }

SomeStoresBodies ==
    {Bytes("plain", TRUE, doc) : doc \in StoresDocs}
      \cup {Bytes(container, TRUE, SoundStores) : container \in {"refused_zip", CorruptMember}}
      \cup {Bytes("gzip", FALSE, SoundStores)}

-----------------------------------------------------------------------------
Goods == [tags |-> {"standard"}, code |-> "a", price |-> "12.90",
          quantity |-> "0", unit |-> "g", name |-> "n"]
Prices(store, items) ==
    [chain |-> Upper("7290"), subchain |-> Upper("1"), store |-> store,
     items |-> items]
OnlinePrices(store, items) ==
    [chain |-> Lower("7290"), subchain |-> Lower(Absent), store |-> Lower(store),
     items |-> [n \in DOMAIN items |-> [items[n] EXCEPT !.tags = {"online"}]]]

PriceFullDocs ==
    {Prices(store, <<Goods>>) :
        store \in {Upper("001"), Lower("001"), Upper("1"), Upper("039"),
                   [upper |-> "001", lower |-> "039"]}}
      \cup {OnlinePrices(store, <<Goods>>) : store \in {"39", "1", "x", "superscript 2"}}
      \cup {Prices(Upper("001"), items) : items \in
               {<<>>,
                <<Goods, [Goods EXCEPT !.price = Empty]>>,
                <<[Goods EXCEPT !.price = Unknown]>>,
                <<[Goods EXCEPT !.price = NaN, !.quantity = Unknown, !.name = Empty]>>,
                <<Goods, [Goods EXCEPT !.tags = {}]>>}}
      \cup {[Prices(Upper("001"), <<Goods>>) EXCEPT !.chain = Upper(Absent)]}

SomePriceFullBodies ==
    {Bytes("gzip", TRUE, doc) : doc \in PriceFullDocs}
      \cup {Bytes(container, TRUE, Prices(Upper("001"), <<Goods>>)) :
               container \in {"corrupt_gzip", CorruptMember}}

=============================================================================
