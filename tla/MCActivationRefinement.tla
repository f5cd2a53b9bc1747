----------------------- MODULE MCActivationRefinement -----------------------
(* A small instance of ActivationRefinement for TLC. *)
EXTENDS ActivationRefinement, TLC

CONSTANTS s1, s2, i1, i2, d1

TwoTimes == 1..2

TwoPrices == {1, 2}

\* Occurrences of one store, of which one kind failed validation.
OneStore ==
    [store : {s1}, validation : {"valid"}, collectedAt : Times]
      \cup [store : {s1}, validation : {"parse_failed"}, collectedAt : {1}]

LegacyLine(i, p) == [item |-> i, price |-> p, description |-> None]

LegacyBatch(lines) ==
    [mode |-> "legacy", store |-> s1, collectedAt |-> 1, lines |-> lines]

NormalizedBatch(s, t) ==
    [mode |-> "normalized", store |-> s, collectedAt |-> t,
     lines |-> <<[item |-> i1, price |-> 1, description |-> d1]>>]

TwoProducts == LegacyBatch(<<LegacyLine(i1, 1), LegacyLine(i2, 1)>>)

\* One product named twice, at two prices, and another one dearer.
RepeatedProduct ==
    LegacyBatch(<<LegacyLine(i1, 2), LegacyLine(i1, 1), LegacyLine(i2, 2)>>)

\* The last one was built for another store.
TheBatches ==
    {TwoProducts, RepeatedProduct, NormalizedBatch(s1, 1), NormalizedBatch(s2, 1)}

Connections == Permutations(Workers)

=============================================================================
