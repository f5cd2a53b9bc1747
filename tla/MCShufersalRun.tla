--------------------------- MODULE MCShufersalRun ---------------------------
(***************************************************************************)
(* A small instance of ShufersalRun for TLC: two stores, and publications  *)
(* that differ from a sound one in one thing each.                         *)
(***************************************************************************)
EXTENDS ShufersalRun

TwoStores == <<"001", "002">>

Bytes(container, wellFormed, doc) ==
    [container |-> container, wellFormed |-> wellFormed, doc |-> doc]
Sound(doc) == Bytes("gzip", TRUE, doc)

\* Each name has a time of its own, for which its bytes stand.
Published(kind, ids, bytes) ==
    {[name |-> [kind |-> kind, ids |-> ids, time |-> b], bytes |-> b] : b \in bytes}

At(n, id) == [subchain |-> n, id |-> id]
Stores(stores) ==
    [chain |-> "7290", subchains |-> <<"1", Absent>>, stores |-> stores]

SomeStores == Published("other", <<>>,
    {Sound(Stores(stores)) : stores \in
        {<<At(1, "001"), At(2, "002")>>, <<At(1, "001"), At(2, "001")>>,
         <<At(1, Absent)>>, <<>>}}
    \cup {Bytes("plain", TRUE, Stores(<<>>)), Bytes("gzip", FALSE, Stores(<<>>))})

-----------------------------------------------------------------------------
Ids(chain, store) == [chain_id |-> chain, subchain_id |-> "1", store_id |-> store]

Goods == [code |-> "a", price |-> "12.90", quantity |-> Unknown, unit |-> "g",
          name |-> "n"]
Priced(price) == [Goods EXCEPT !.price = price]
Prices(ids, items) == [chain |-> ids.chain_id, subchain |-> ids.subchain_id,
                       store |-> ids.store_id, items |-> items]

SomePriceFulls ==
    Published("pricefull", Ids("7290", "001"),
        {Sound(Prices(Ids("7290", "001"), items)) : items \in
            {<<Goods>>, <<Goods, Priced(Empty)>>, <<Priced("0"), Priced(NaN)>>}}
        \cup {Sound(Prices(Ids("7290", "002"), <<Goods>>)),
              Sound(Prices(Ids("7291", "001"), <<Goods>>)),
              Bytes("corrupt_gzip", TRUE, Prices(Ids("7290", "001"), <<Goods>>))})
    \cup Published("pricefull", Ids("7290", "002"),
            {Sound(Prices(Ids("7290", "002"), <<Priced("0")>>))})
    \cup Published("other", <<>>, {Sound(Prices(Ids("7290", "001"), <<Goods>>))})

=============================================================================
