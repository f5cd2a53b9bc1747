---------------------------- MODULE MCActivation ----------------------------
(* Small instances of Activation for TLC. *)
EXTENDS Activation, FiniteSets, TLC

CONSTANTS s1, s2, i1, d1, d2

TwoTimes == 1..2

TwoPrices == {1, 2}

Observed(statuses) ==
    [store : Stores, validation : statuses, collectedAt : Times]

AllValid == Observed({"valid"})

Legacy(prices) ==
    [mode |-> "legacy", store |-> s1, collectedAt |-> 1,
     lines |-> [n \in 1..Len(prices) |->
                  [item |-> prices[n][1], price |-> prices[n][2],
                   description |-> None]]]

Normalized(s, t, i, p, d) ==
    [mode |-> "normalized", store |-> s, collectedAt |-> t,
     lines |-> <<[item |-> i, price |-> p, description |-> d]>>]

\* One product at one price.
SingleBatch == { Legacy(<<<<i1, 1>>>>) }

\* The description of an item tells when it was observed: d1 at 1, d2 at 2.
ObservedAt == (d1 :> 1) @@ (d2 :> 2)

NormalizedBatches ==
    { Normalized(s, t, i1, t, IF t = 1 THEN d1 ELSE d2) :
        s \in Stores, t \in Times }

MixedBatches == NormalizedBatches \cup { Legacy(<<<<i1, 1>>>>) }

\* The normalized facts of a row were observed by the occurrence the row
\* names as its source.
DescriptionFromSource ==
    \A k \in Keys :
        currentState[k] # None /\ currentState[k].description # None =>
            ObservedAt[currentState[k].description]
              = occurrence[currentState[k].source].collectedAt

=============================================================================
