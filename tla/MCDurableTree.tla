--------------------------- MODULE MCDurableTree ---------------------------
(* Small instances of DurableTree for TLC. *)
EXTENDS DurableTree, TLC

\* Two files below two and three directories that share an ancestor.
Forked == { <<"root">>, <<"root", "meta">>, <<"root", "meta", "raw">> }

TwoFiles == { <<"root", "meta", "raw", "file">>, <<"root", "meta", "file">> }

Alike == Permutations(Processes) \cup Permutations(Values)

=============================================================================
