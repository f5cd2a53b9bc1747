-------------------------- MODULE PromotionsProofs --------------------------
(***************************************************************************)
(* Proofs about Promotions: what the normalized records of a Standard      *)
(* occurrence can and cannot be joined by, and that a bundle's costs add   *)
(* up, for any occurrence, rule, basket and price.                         *)
(***************************************************************************)
EXTENDS Promotions, SequenceTheorems, TLAPS

\* The places of groups and items are pairs and triples of positions.
LEMMA GroupPlace ==
    ASSUME NEW o, NEW g
    PROVE  g \in GroupPlaces(o) <=>
             \E i \in PromotionPlaces(o) :
               \E j \in DOMAIN o.promotions[i].groups : g = <<i, j>>
BY DEF GroupPlaces

LEMMA ItemPlace ==
    ASSUME NEW o, NEW m
    PROVE  m \in ItemPlaces(o) <=>
             \E i \in PromotionPlaces(o) :
               \E j \in DOMAIN o.promotions[i].groups :
                 \E k \in DOMAIN o.promotions[i].groups[j] : m = <<i, j, k>>
<1>1. ASSUME m \in ItemPlaces(o)
      PROVE  \E i \in PromotionPlaces(o) :
               \E j \in DOMAIN o.promotions[i].groups :
                 \E k \in DOMAIN o.promotions[i].groups[j] : m = <<i, j, k>>
  <2>1. PICK g \in GroupPlaces(o) :
          m \in {<<g[1], g[2], k>> : k \in DOMAIN o.promotions[g[1]].groups[g[2]]}
    BY <1>1 DEF ItemPlaces
  <2>2. PICK i \in PromotionPlaces(o) :
          \E j \in DOMAIN o.promotions[i].groups : g = <<i, j>>
    BY GroupPlace
  <2> QED BY <2>1, <2>2
<1>2. ASSUME NEW i \in PromotionPlaces(o), NEW j \in DOMAIN o.promotions[i].groups,
             NEW k \in DOMAIN o.promotions[i].groups[j], m = <<i, j, k>>
      PROVE  m \in ItemPlaces(o)
  <2>1. <<i, j>> \in GroupPlaces(o)
    BY GroupPlace
  <2>2. m \in {<<<<i, j>>[1], <<i, j>>[2], l>> : l \in DOMAIN o.promotions[<<i, j>>[1]].groups[<<i, j>>[2]]}
    BY <1>2
  <2> QED BY <2>1, <2>2 DEF ItemPlaces
<1> QED BY <1>1, <1>2

-----------------------------------------------------------------------------
\* When an occurrence names each promotion once, every membership is joined
\* to exactly its own group, whatever the raw GroupIDs are ("so memberships
\* can be linked back to their exact source Group").
THEOREM MembershipsFindTheirGroup ==
    ASSUME NEW Texts, NEW o \in StandardOccurrences(Texts),
           NormalizeStandard(o) # Refused,
           \A i, l \in PromotionPlaces(o) :
             PromotionId(o, i) = PromotionId(o, l) => i = l,
           NEW m \in ItemPlaces(o)
    PROVE  GroupsOf(NormalizeStandard(o), m) = {<<m[1], m[2]>>}
<1> DEFINE R == [promotions |-> NormalizedPromotions(o),
                 groups |-> NormalizedGroups(o),
                 memberships |-> StandardMemberships(o)]
<1>1. NormalizeStandard(o) = R
  BY DEF NormalizeStandard
<1>2. PICK i \in PromotionPlaces(o) :
        \E j \in DOMAIN o.promotions[i].groups :
          \E k \in DOMAIN o.promotions[i].groups[j] : m = <<i, j, k>>
  BY ItemPlace
<1>3. PICK j \in DOMAIN o.promotions[i].groups :
        \E k \in DOMAIN o.promotions[i].groups[j] : m = <<i, j, k>>
  BY <1>2
<1>4. m[1] = i /\ m[2] = j
  BY <1>3
<1>5. \A l \in PromotionPlaces(o) : DOMAIN o.promotions[l].groups \subseteq Nat
  <2> SUFFICES ASSUME NEW l \in PromotionPlaces(o)
               PROVE  DOMAIN o.promotions[l].groups \subseteq Nat
    OBVIOUS
  <2> DEFINE P == [promotion_id : Texts \cup {Absent},
                   groups : Seq(Seq(Texts \cup {Absent}))]
  <2>1. o.promotions \in Seq(P)
    BY DEF StandardOccurrences
  <2> HIDE DEF P
  <2>2. o.promotions[l] \in P
    <3>1. /\ o.promotions \in [1..Len(o.promotions) -> P]
          /\ DOMAIN o.promotions = 1..Len(o.promotions)
      BY <2>1, LenProperties
    <3> QED BY <3>1 DEF PromotionPlaces
  <2>3. o.promotions[l].groups \in Seq(Seq(Texts \cup {Absent}))
    BY <2>2 DEF P
  <2> QED BY <2>3, LenProperties
<1>6. /\ DOMAIN R.groups = GroupPlaces(o)
      /\ R.memberships[m].promotion_id_raw = PromotionId(o, i)
      /\ R.memberships[m].group_index = j - 1
  BY <1>4 DEF NormalizedGroups, StandardMemberships
<1>7. <<i, j>> \in GroupPlaces(o)
  BY GroupPlace
<1>8. ASSUME NEW g \in GroupPlaces(o)
      PROVE  /\ R.groups[g].promotion_id_raw = PromotionId(o, i)
             /\ R.groups[g].group_index = j - 1
             <=> g = <<i, j>>
  <2>x. PICK l \in PromotionPlaces(o) :
          \E n \in DOMAIN o.promotions[l].groups : g = <<l, n>>
    BY GroupPlace
  <2>1. PICK n \in DOMAIN o.promotions[l].groups : g = <<l, n>>
    BY <2>x
  <2>2. R.groups[g] = [promotion_id_raw |-> PromotionId(o, l), group_index |-> n - 1]
    BY <2>1 DEF NormalizedGroups
  <2>3. n \in Nat /\ j \in Nat
    BY <1>5
  <2>4. n - 1 = j - 1 <=> n = j
    BY <2>3
  <2>5. PromotionId(o, l) = PromotionId(o, i) <=> l = i
    OBVIOUS
  <2> QED BY <2>1, <2>2, <2>4, <2>5
<1>9. GroupsOf(R, m) = {<<i, j>>}
  BY <1>6, <1>7, <1>8 DEF GroupsOf
<1> QED BY <1>1, <1>4, <1>9

\* Nothing in the code refuses an occurrence that names a promotion twice,
\* and then a membership finds the group of the other one as well: promotion
\* id and group_index do not identify a group.
THEOREM RepeatedPromotionIsAmbiguous ==
    ASSUME NEW Texts, NEW o \in StandardOccurrences(Texts),
           NormalizeStandard(o) # Refused,
           NEW m \in ItemPlaces(o), NEW l \in PromotionPlaces(o),
           l # m[1], PromotionId(o, l) = PromotionId(o, m[1]),
           m[2] \in DOMAIN o.promotions[l].groups
    PROVE  {<<m[1], m[2]>>, <<l, m[2]>>} \subseteq GroupsOf(NormalizeStandard(o), m)
<1> DEFINE R == [promotions |-> NormalizedPromotions(o),
                 groups |-> NormalizedGroups(o),
                 memberships |-> StandardMemberships(o)]
<1>1. NormalizeStandard(o) = R
  BY DEF NormalizeStandard
<1>2. m[1] \in PromotionPlaces(o) /\ m[2] \in DOMAIN o.promotions[m[1]].groups
  BY ItemPlace
<1>3. <<m[1], m[2]>> \in GroupPlaces(o) /\ <<l, m[2]>> \in GroupPlaces(o)
  BY <1>2, GroupPlace
<1>4. /\ DOMAIN R.groups = GroupPlaces(o)
      /\ R.memberships[m].promotion_id_raw = PromotionId(o, m[1])
      /\ R.memberships[m].group_index = m[2] - 1
  BY DEF NormalizedGroups, StandardMemberships
<1>5. /\ R.groups[<<m[1], m[2]>>] = [promotion_id_raw |-> PromotionId(o, m[1]),
                                     group_index |-> m[2] - 1]
      /\ R.groups[<<l, m[2]>>] = [promotion_id_raw |-> PromotionId(o, l),
                                  group_index |-> m[2] - 1]
  BY <1>3 DEF NormalizedGroups
<1> QED BY <1>1, <1>3, <1>4, <1>5 DEF GroupsOf

-----------------------------------------------------------------------------
\* A basket's items are each paid for once: consumed and unmatched items are
\* the basket, and what the bundle saves is exactly the difference to the
\* ordinary price of the whole basket.
THEOREM BundleCostsAddUp ==
    ASSUME NEW rule \in Rules, NEW basketQty \in Int, NEW unitPrice \in Int
    PROVE  LET e == EvaluateFixedBundle(rule, basketQty, unitPrice)
           IN  /\ e.consumed_qty + e.unmatched_qty = basketQty
               /\ e.total_cost + e.savings = basketQty * unitPrice
               /\ e.consumed_ordinary_cost + e.unmatched_ordinary_cost
                    = basketQty * unitPrice
<1> DEFINE c == ConsumedQty(rule, basketQty)
           x == PromotionalCost(rule, basketQty)
<1>1. c \in Int /\ x \in Int
  BY DEF ConsumedQty, PromotionalCost, Rules
<1>2. c * unitPrice + (basketQty - c) * unitPrice = basketQty * unitPrice
  BY <1>1
<1> HIDE DEF c, x
<1> DEFINE a == c * unitPrice
           b == (basketQty - c) * unitPrice
<1>3. a \in Int /\ b \in Int /\ a + b = basketQty * unitPrice
  BY <1>1, <1>2
<1> HIDE DEF a, b
<1>4. (x + b) + (a - x) = a + b /\ c + (basketQty - c) = basketQty
  BY <1>1, <1>3
<1> QED BY <1>3, <1>4 DEF EvaluateFixedBundle, a, b, c, x

\* With a required quantity of at least zero no item of the basket is counted
\* that is not in it, and savings never exceed the ordinary cost of the
\* items the bundle consumes when a bundle costs at least nothing.
THEOREM BundleStaysInBasket ==
    ASSUME NEW rule \in Rules, NEW basketQty \in Nat, NEW unitPrice \in Nat,
           rule.required_qty >= 0, rule.bundle_total >= 0
    PROVE  LET e == EvaluateFixedBundle(rule, basketQty, unitPrice)
           IN  /\ e.consumed_qty \in 0..basketQty
               /\ e.unmatched_qty \in 0..basketQty
               /\ e.savings <= e.consumed_ordinary_cost
<1> DEFINE c == ConsumedQty(rule, basketQty)
           x == PromotionalCost(rule, basketQty)
<1>1. c \in 0..basketQty /\ x \in Nat
  BY DEF ConsumedQty, PromotionalCost, Rules
<1>2. c * unitPrice \in Int
  BY <1>1
<1> HIDE DEF c, x
<1>3. c * unitPrice - x <= c * unitPrice /\ basketQty - c \in 0..basketQty
  BY <1>1, <1>2
<1> QED BY <1>1, <1>3 DEF EvaluateFixedBundle, c, x

\* The interpretation asks only for an integer: a negative quantity becomes a
\* rule, is met by every basket, and makes more items unmatched than the
\* basket has.
THEOREM NegativeQuantityIsAccepted ==
    ASSUME NEW q \in Int, q < 0, NEW total \in Int, Refused \notin Int,
           Refused \notin Rules, NEW basketQty \in Nat, NEW unitPrice \in Int
    PROVE  LET rule == Interpret([kind |-> "integer", value |-> q],
                                 [kind |-> "finite", value |-> total])
           IN  /\ rule \in Rules
               /\ EvaluateFixedBundle(rule, basketQty, unitPrice).unmatched_qty
                    > basketQty
<1> DEFINE r == [required_qty |-> q, bundle_total |-> total]
<1>1. Interpret([kind |-> "integer", value |-> q],
                [kind |-> "finite", value |-> total]) = r
  BY DEF Interpret, RequiredQty, BundleTotal
<1>2. r \in Rules /\ ConsumedQty(r, basketQty) = q
  BY DEF Rules, ConsumedQty
<1>3. EvaluateFixedBundle(r, basketQty, unitPrice).unmatched_qty = basketQty - q
  BY <1>2 DEF EvaluateFixedBundle
<1> QED BY <1>1, <1>2, <1>3

=============================================================================
