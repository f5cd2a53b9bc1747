----------------------------- MODULE Promotions -----------------------------
(***************************************************************************)
(* Promotions: one occurrence mapped to the normalized contract            *)
(* (smartcart/normalize/promotion.py and promotion_contract.py), and the   *)
(* economics of a fixed bundle (smartcart/core).  Pure functions; a raw    *)
(* field that is kept as it is supplied is left out.                       *)
(*                                                                         *)
(* A list built by nested loops is a function of the places its entries    *)
(* come from: <<i>>, <<i, j>> and <<i, j, k>> for a promotion, its group   *)
(* and the group's item, counted from 1 (group_index counts from 0).       *)
(***************************************************************************)
EXTENDS Integers, Sequences

CONSTANTS
    Absent,    \* a key the dict does not have, or None
    Refused    \* ValueError, InvalidOperation or OverflowError

\* A raw Standard occurrence: promotion -> group -> item code.
StandardOccurrences(Texts) ==
    [chain_id : Texts \cup {Absent}, store_id : Texts \cup {Absent},
     promotions : Seq([promotion_id : Texts \cup {Absent},
                       groups : Seq(Seq(Texts \cup {Absent}))])]

\* An Online promotion has items and no groups.
OnlineOccurrences(Texts) ==
    [chain_id : Texts \cup {Absent}, store_id : Texts \cup {Absent},
     promotions : Seq([promotion_id : Texts \cup {Absent},
                       items : Seq(Texts \cup {Absent})])]

PromotionPlaces(o) == DOMAIN o.promotions

GroupPlaces(o) ==
    UNION {{i} \X DOMAIN o.promotions[i].groups : i \in PromotionPlaces(o)}

ItemPlaces(o) ==
    UNION {{<<g[1], g[2], k>> : k \in DOMAIN o.promotions[g[1]].groups[g[2]]} :
             g \in GroupPlaces(o)}

OnlineItemPlaces(o) ==
    UNION {{i} \X DOMAIN o.promotions[i].items : i \in PromotionPlaces(o)}

PromotionId(o, i) == o.promotions[i].promotion_id

\* _require_occurrence_scope, and each promotion's promotion_id.
ScopeKnown(o) ==
    /\ o.chain_id # Absent /\ o.store_id # Absent
    /\ \A i \in PromotionPlaces(o) : PromotionId(o, i) # Absent

NormalizedPromotions(o) ==
    [i \in PromotionPlaces(o) |->
       [promotion_id_raw |-> PromotionId(o, i),
        retailer_chain_id |-> o.chain_id, store_id_raw |-> o.store_id]]

NormalizedGroups(o) ==
    [g \in GroupPlaces(o) |->
       [promotion_id_raw |-> PromotionId(o, g[1]), group_index |-> g[2] - 1]]

StandardMemberships(o) ==
    [m \in ItemPlaces(o) |->
       [promotion_id_raw |-> PromotionId(o, m[1]),
        retailer_item_id_raw |-> o.promotions[m[1]].groups[m[2]][m[3]],
        group_index |-> m[2] - 1]]

OnlineMemberships(o) ==
    [m \in OnlineItemPlaces(o) |->
       [promotion_id_raw |-> PromotionId(o, m[1]),
        retailer_item_id_raw |-> o.promotions[m[1]].items[m[2]],
        group_index |-> Absent]]

\* All or none: one missing identity and nothing of the occurrence is
\* returned.
NormalizeStandard(o) ==
    IF /\ ScopeKnown(o)
       /\ \A m \in ItemPlaces(o) :
            o.promotions[m[1]].groups[m[2]][m[3]] # Absent
      THEN [promotions |-> NormalizedPromotions(o),
            groups |-> NormalizedGroups(o),
            memberships |-> StandardMemberships(o)]
      ELSE Refused

NormalizeOnline(o) ==
    IF /\ ScopeKnown(o)
       /\ \A m \in OnlineItemPlaces(o) : o.promotions[m[1]].items[m[2]] # Absent
      THEN [promotions |-> NormalizedPromotions(o),
            memberships |-> OnlineMemberships(o)]
      ELSE Refused

\* The groups a consumer finds for a membership by joining on the promotion's
\* id and the group's index.
GroupsOf(result, m) ==
    {g \in DOMAIN result.groups :
       /\ result.groups[g].promotion_id_raw
            = result.memberships[m].promotion_id_raw
       /\ result.groups[g].group_index = result.memberships[m].group_index}

-----------------------------------------------------------------------------
(* A fixed bundle: required_qty items for bundle_total.  A quantity or a   *)
(* total is parsed by Decimal(raw); a finite total is an exact multiple of *)
(* one unit of money.                                                      *)

ParsedQty ==
    [kind : {"missing", "unparseable", "nan", "infinite", "fraction"}]
      \cup [kind : {"integer"}, value : Int]

ParsedTotal ==
    [kind : {"missing", "unparseable", "nan", "infinite"}]
      \cup [kind : {"finite"}, value : Int]

\* An infinity is equal to its integral value, and int() of it overflows.
RequiredQty(parsed) ==
    IF parsed.kind = "integer" THEN parsed.value ELSE Refused

\* Any Decimal is accepted as a total, a NaN or an infinity too.
BundleTotal(parsed) ==
    IF parsed.kind \in {"missing", "unparseable"} THEN Refused
    ELSE IF parsed.kind = "finite" THEN parsed.value ELSE parsed.kind

\* FixedBundleRule: both fields are read, or nothing is returned.
Interpret(minQty, total) ==
    IF Refused \in {RequiredQty(minQty), BundleTotal(total)} THEN Refused
    ELSE [required_qty |-> RequiredQty(minQty),
          bundle_total |-> BundleTotal(total)]

\* The rules whose economics are evaluated here: the total is finite.
Rules == [required_qty : Int, bundle_total : Int]

ConsumedQty(rule, basketQty) ==
    IF basketQty >= rule.required_qty THEN rule.required_qty ELSE 0

PromotionalCost(rule, basketQty) ==
    IF basketQty >= rule.required_qty THEN rule.bundle_total ELSE 0

EvaluateFixedBundle(rule, basketQty, unitPrice) ==
    LET consumed == ConsumedQty(rule, basketQty)
        cost == PromotionalCost(rule, basketQty)
    IN  [consumed_qty |-> consumed,
         consumed_ordinary_cost |-> consumed * unitPrice,
         promotional_cost |-> cost,
         unmatched_qty |-> basketQty - consumed,
         unmatched_ordinary_cost |-> (basketQty - consumed) * unitPrice,
         total_cost |-> cost + (basketQty - consumed) * unitPrice,
         savings |-> consumed * unitPrice - cost]

=============================================================================
