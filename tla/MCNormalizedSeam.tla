-------------------------- MODULE MCNormalizedSeam --------------------------
(* Small instances of NormalizedSeam for TLC. *)
EXTENDS NormalizedSeam, TLC

CONSTANTS i1, d1, a1, a2

OneTime == {1}

TwoStores == {1, 2}

TwoPrices == {1, 2}

OneLine(p) == <<[item |-> i1, price |-> p, description |-> d1]>>

ResolvedBatches ==
    [mode : {"normalized"}, store : Stores, collectedAt : Times,
     lines : {OneLine(p) : p \in Prices}]

SeamInput(o, a, t, p) ==
    [occurrence |-> o, alias |-> a, collectedAt |-> t,
     lines |-> OneLine(p)]

\* Two callers that disagree about the price, or about the alias.
Disagreeing ==
    { SeamInput(o, a, t, p) :
        o \in Occurrences, a \in Aliases, t \in Times, p \in Prices }

\* Unparsable files and a Stores file as well.
AnyOutcome ==
    [store : Stores, validation : {"valid", "parse_failed"},
     collectedAt : Times]
      \cup [store : {None}, validation : {"valid"}, collectedAt : Times]

Callers == Permutations(Workers)

=============================================================================
