----------------------------- MODULE WriteOnce -----------------------------
(***************************************************************************)
(* What atomic_write_once_bytes promises of a directory of files: each     *)
(* name is published at most once, for good, and whoever is told of a      *)
(* value is told of the published one.                                     *)
(***************************************************************************)
CONSTANTS Names, Values, None

VARIABLES register, told

Init ==
    /\ register = [n \in Names |-> None]
    /\ told = {}

Publish ==
    /\ register' \in [Names -> Values \cup {None}]
    /\ \A n \in Names : register[n] # None => register'[n] = register[n]

Tell ==
    /\ told \subseteq told'
    /\ told' \subseteq Names \X Values
    /\ \A a \in told' \ told : register'[a[1]] = a[2]

Next == Publish /\ Tell

Spec == Init /\ [][Next]_<<register, told>>

=============================================================================
