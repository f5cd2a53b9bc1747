---------------------------- MODULE CollectionRun ----------------------------
(***************************************************************************)
(* What a collector run promises (run_phase1a of both chains): once it has *)
(* what it depends on, every requested file is attempted in turn, leaves   *)
(* exactly one outcome whatever happens to it, and its payload is returned *)
(* when that outcome is a success; only the Stores file, the first one,    *)
(* may return what it has parsed without success.  And the run ends.  An   *)
(* exception that no part of the code catches may end it at any moment.    *)
(***************************************************************************)
EXTENDS Naturals, Sequences

CONSTANTS Count   \* the number of files to process, the Stores file first

VARIABLES
    status,     \* "starting", "running", "done", "given_up", "aborted"
    outcomes,   \* RunSummary.outcomes: whether each file succeeded
    collected   \* the positions of the files whose payload is returned

vars == <<status, outcomes, collected>>

Init ==
    /\ status = "starting"
    /\ outcomes = <<>>
    /\ collected = {}

Start ==
    /\ status = "starting"
    /\ status' = "running"
    /\ UNCHANGED <<outcomes, collected>>

\* A run-level dependency fails: no file is attempted.
GiveUp ==
    /\ status = "starting"
    /\ status' = "given_up"
    /\ UNCHANGED <<outcomes, collected>>

Record(succeeded, returned) ==
    /\ status = "running"
    /\ Len(outcomes) < Count
    /\ succeeded => returned
    /\ returned => succeeded \/ outcomes = <<>>
    /\ outcomes' = Append(outcomes, succeeded)
    /\ collected' = IF returned THEN collected \cup {Len(outcomes')} ELSE collected
    /\ status' = IF Len(outcomes') = Count THEN "done" ELSE "running"

\* No summary is returned, and what was collected is lost with it.
Abort ==
    /\ status \in {"starting", "running"}
    /\ status' = "aborted"
    /\ UNCHANGED <<outcomes, collected>>

Next == Start \/ GiveUp \/ Abort \/ (\E s, r \in BOOLEAN : Record(s, r))

Spec == Init /\ [][Next]_vars /\ WF_vars(Next)

=============================================================================
