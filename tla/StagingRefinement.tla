-------------------------- MODULE StagingRefinement --------------------------
(***************************************************************************)
(* The metadata directories, as they are on disk, are write-once registers *)
(* (WriteOnce); what a process merely sees is not, since a power loss may  *)
(* take an entry back that no caller was told of.                          *)
(***************************************************************************)
EXTENDS DurableStaging

Register == INSTANCE WriteOnce
              WITH Names <- Metas, Values <- Records,
                   register <- [q \in Metas |-> durable[q]],
                   told <- answered

\* stage_raw and finalize_canonical publish each record once, for good, and
\* return only what is published, through races, kills and power losses.
ImplementsWriteOnce == Register!Spec

=============================================================================
