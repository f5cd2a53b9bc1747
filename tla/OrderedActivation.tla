-------------------------- MODULE OrderedActivation --------------------------
(***************************************************************************)
(* What activation promises (docs/adr/0011 and the docstring of            *)
(* activate_occurrence), with no transactions, locks or connections: one   *)
(* whole occurrence at a time becomes part of the derived state, in        *)
(* (collected_at, occurrence_id) order within its store, or is preserved   *)
(* as stale; nothing else ever changes derived state.                      *)
(***************************************************************************)
EXTENDS Integers, Sequences

CONSTANTS Stores, Items, Occurrences, Observations,
          Inputs,   \* what one occurrence says: a mode, and lines of products
          None

VARIABLES
    occurrence,    \* the durable facts of an occurrence, or None
    resolution,    \* "unresolved", "applied" or "stale_preserved"
    currentState,  \* the newest observation of each product of a store
    recorded       \* per store, the set of price events

vars == <<occurrence, resolution, currentState, recorded>>

Init ==
    /\ occurrence = [o \in Occurrences |-> None]
    /\ resolution = [o \in Occurrences |-> "unresolved"]
    /\ currentState = [k \in Stores \X Items |-> None]
    /\ recorded = [s \in Stores |-> {}]

\* The valid, store-scoped occurrences of o's store.
Peers(o) ==
    {a \in Occurrences :
        /\ occurrence[a] # None
        /\ occurrence[a].store = occurrence[o].store
        /\ occurrence[a].validation = "valid"}

Precedes(a, b) ==
    \/ occurrence[a].collectedAt < occurrence[b].collectedAt
    \/ occurrence[a].collectedAt = occurrence[b].collectedAt /\ a < b

Overtaken(o) ==
    \E a \in Peers(o) : Precedes(o, a) /\ resolution[a] # "unresolved"

Unresolved(o) ==
    /\ occurrence[o] # None
    /\ occurrence[o].store # None
    /\ o \in Peers(o)
    /\ resolution[o] = "unresolved"
    /\ \A a \in Peers(o) : Precedes(a, o) => resolution[a] # "unresolved"

Observe(o, f) ==
    /\ occurrence[o] = None
    /\ occurrence' = [occurrence EXCEPT ![o] = f]
    /\ UNCHANGED <<resolution, currentState, recorded>>

\* The lines of an input that name item i; the last one is what it says of i.
Mentions(input, i) == {n \in 1..Len(input.lines) : input.lines[n].item = i}

LastLine(input, i) ==
    input.lines[CHOOSE n \in Mentions(input, i) :
                  \A m \in Mentions(input, i) : m <= n]

\* The observation of item i in o, over the row there was: an observation
\* without normalized facts leaves those of the row.
Observed(o, input, i) ==
    LET line == LastLine(input, i)
        row == currentState[<<occurrence[o].store, i>>]
    IN  [price |-> line.price, source |-> o,
         description |-> IF input.mode = "normalized" THEN line.description
                         ELSE IF row = None THEN None ELSE row.description]

Changes(o, line) ==
    LET row == currentState[<<occurrence[o].store, line.item>>]
    IN  row = None \/ row.price # line.price

\* An item has one event in o: of its first line that changes the row's price.
EventLines(o, input) ==
    {n \in 1..Len(input.lines) :
        /\ Changes(o, input.lines[n])
        /\ \A m \in Mentions(input, input.lines[n].item) :
             m < n => ~Changes(o, input.lines[m])}

Apply(o, input) ==
    LET s == occurrence[o].store
    IN  /\ Unresolved(o)
        /\ ~Overtaken(o)
        /\ resolution' = [resolution EXCEPT ![o] = "applied"]
        /\ currentState' =
             [k \in Stores \X Items |->
                IF k[1] = s /\ Mentions(input, k[2]) # {}
                THEN Observed(o, input, k[2]) ELSE currentState[k]]
        /\ recorded' =
             [recorded EXCEPT ![s] = @ \cup
                {[item |-> input.lines[n].item, price |-> input.lines[n].price,
                  source |-> o] : n \in EventLines(o, input)}]
        /\ UNCHANGED occurrence

Preserve(o) ==
    /\ Unresolved(o)
    /\ Overtaken(o)
    /\ resolution' = [resolution EXCEPT ![o] = "stale_preserved"]
    /\ UNCHANGED <<occurrence, currentState, recorded>>

Next ==
    \E o \in Occurrences :
        \/ \E f \in Observations : Observe(o, f)
        \/ \E input \in Inputs : Apply(o, input)
        \/ Preserve(o)

Spec == Init /\ [][Next]_vars

=============================================================================
