------------------------ MODULE ActivationRefinement ------------------------
(***************************************************************************)
(* activate_occurrence, statement by statement over concurrent             *)
(* connections, implements OrderedActivation.  The price events of a store *)
(* are the set of those in its log; what is pending in a connection is     *)
(* invisible; an input is a batch without the store and the instant that   *)
(* it was built for.                                                       *)
(***************************************************************************)
EXTENDS Activation

InputOf(b) == [mode |-> b.mode, lines |-> b.lines]

RecordedEvents ==
    [s \in Stores |-> {priceHistory[s][n] : n \in 1..Len(priceHistory[s])}]

Ordered == INSTANCE OrderedActivation
             WITH Inputs <- {InputOf(b) : b \in Batches},
                  recorded <- RecordedEvents

\* Every behaviour of the concurrent activations is one of whole
\* occurrences applied one at a time in observation order: interleaved
\* statements, rollbacks and blocked inserts are not observable.
ImplementsOrdered == Ordered!Spec

=============================================================================
