-------------------------- MODULE MCDurableStaging --------------------------
(* Small instances of DurableStaging for TLC. *)
EXTENDS StagingRefinement, TLC

CONSTANTS h1, h2, c1, c2

TwoTimes == {1, 2}

OneTime == {1}

\* Two raw files, one compressed, with the same canonical payload.
SamePayload == [h \in Hashes |-> {c1}]

\* An extract that breaks its determinism contract.
Unstable == [h \in Hashes |-> {c1, c2}]

ProcessSymmetry == Permutations(Processes)

=============================================================================
