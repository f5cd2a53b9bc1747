--------------------------- MODULE ProductIdentity ---------------------------
(***************************************************************************)
(* SmartCart products and the assignment of retailer tracking identities   *)
(* to them: smartcart/db_spike/product_identity.py over migrations 0005 to *)
(* 0007, called by several connections at once.                            *)
(*                                                                         *)
(* assign and correct are READ COMMITTED transactions that first read the  *)
(* assignment without a lock.  Only a statement that writes its row, which *)
(* the primary key makes unique, waits for another transaction's           *)
(* uncommitted write of it.  A transaction's own writes are implied by its *)
(* pc and call until COMMIT publishes them.                                *)
(***************************************************************************)
EXTENDS Naturals, Sequences

CONSTANTS
    Identities,  \* (chain_id, item_code_raw) pairs that chain_product holds
    Products,    \* product_id values the sequence may hand out
    Names,       \* display names
    Workers,     \* database connections
    MaxHistory,  \* a bound on the length of the history calls start from
    None         \* NULL, or an absent row

Superseded == [identity : Identities, product : Products]

Calls == [op : {"assign", "correct"}, identity : Identities,
          product : Products, found : Products \cup {None}]

ASSUME BoundAssumption == MaxHistory \in Nat

ASSUME NoneAssumption ==
    /\ None \notin Products
    /\ None \notin Workers
    /\ None \notin Names
    /\ None \notin Calls

VARIABLES
    product,     \* smartcart_product: display names of the created products
    assignment,  \* chain_product_current_assignment
    history,     \* chain_product_assignment_history, in commit order
    writer,      \* who holds an uncommitted write of an assignment's row
    pc, call     \* a connection's next statement, and its arguments

tables == <<product, assignment, history>>
vars == <<product, assignment, history, writer, pc, call>>

\* A product that was created, with or without a name.
Unnamed == "unnamed"
Absent == "absent"

Created(p) == product[p] # Absent

Init ==
    /\ product = [p \in Products |-> Absent]
    /\ assignment = [k \in Identities |-> None]
    /\ history = <<>>
    /\ writer = [k \in Identities |-> None]
    /\ pc = [w \in Workers |-> "idle"]
    /\ call = [w \in Workers |-> None]

Identity(w) == call[w].identity
Requested(w) == call[w].product

-----------------------------------------------------------------------------
CreateProduct(p) ==
    /\ ~Created(p)
    /\ product' = [product EXCEPT ![p] = Unnamed]
    /\ UNCHANGED <<assignment, history, writer, pc, call>>

\* The UPDATE of a product that does not exist changes no row.
SetDisplayName(p, n) ==
    /\ Created(p)
    /\ product' = [product EXCEPT ![p] = n]
    /\ UNCHANGED <<assignment, history, writer, pc, call>>

Begin(w, op, k, p) ==
    /\ pc[w] = "idle"
    /\ Created(p)
    /\ Len(history) < MaxHistory
    /\ pc' = [pc EXCEPT ![w] = "read"]
    /\ call' = [call EXCEPT ![w] = [op |-> op, identity |-> k,
                                    product |-> p, found |-> None]]
    /\ UNCHANGED <<tables, writer>>

\* COMMIT or ROLLBACK: the row this transaction wrote, if any, is free.
EndTransaction(w) ==
    /\ pc' = [pc EXCEPT ![w] = "idle"]
    /\ call' = [call EXCEPT ![w] = None]
    /\ writer' = [k \in Identities |->
                    IF writer[k] = w THEN None ELSE writer[k]]

\* The requested product is current already: an idempotent no-op.
ReturnUnchanged(w) ==
    /\ pc[w] = "read"
    /\ assignment[Identity(w)] = Requested(w)
    /\ EndTransaction(w)
    /\ UNCHANGED tables

\* assign refuses another product; correct refuses a first assignment.
RaiseValueError(w) ==
    /\ pc[w] = "read"
    /\ assignment[Identity(w)] # Requested(w)
    /\ (call[w].op = "assign") <=> (assignment[Identity(w)] # None)
    /\ EndTransaction(w)
    /\ UNCHANGED tables

FindUnassigned(w) ==
    /\ pc[w] = "read" /\ call[w].op = "assign"
    /\ assignment[Identity(w)] = None
    /\ pc' = [pc EXCEPT ![w] = "insert"]
    /\ UNCHANGED <<tables, writer, call>>

\* Fault: INSERT ... ON CONFLICT DO UPDATE.
Upsert(w) ==
    /\ pc[w] = "insert"
    /\ writer[Identity(w)] = None
    /\ writer' = [writer EXCEPT ![Identity(w)] = w]
    /\ pc' = [pc EXCEPT ![w] = "commit"]
    /\ UNCHANGED <<tables, call>>

\* The unique index waits for another transaction's insert of the key.
Insert(w) ==
    /\ pc[w] = "insert"
    /\ writer[Identity(w)] = None
    /\ assignment[Identity(w)] = None
    /\ writer' = [writer EXCEPT ![Identity(w)] = w]
    /\ pc' = [pc EXCEPT ![w] = "commit"]
    /\ UNCHANGED <<tables, call>>

\* The loser of a first-assignment race gets the primary key's violation.
RaiseDuplicate(w) ==
    /\ pc[w] = "insert"
    /\ writer[Identity(w)] = None
    /\ assignment[Identity(w)] # None
    /\ EndTransaction(w)
    /\ UNCHANGED tables

\* Faults: a correction without a first assignment is not refused, or the
\* request for the current product is not recognised.
FindNothing(w) ==
    /\ pc[w] = "read" /\ call[w].op = "correct"
    /\ assignment[Identity(w)] # Requested(w)
    /\ pc' = [pc EXCEPT ![w] = "append"]
    /\ call' = [call EXCEPT ![w].found = assignment[Identity(w)]]
    /\ UNCHANGED <<tables, writer>>

FindAny(w) ==
    /\ pc[w] = "read" /\ call[w].op = "correct"
    /\ assignment[Identity(w)] # None
    /\ pc' = [pc EXCEPT ![w] = "append"]
    /\ call' = [call EXCEPT ![w].found = assignment[Identity(w)]]
    /\ UNCHANGED <<tables, writer>>

FindSuperseded(w) ==
    /\ pc[w] = "read" /\ call[w].op = "correct"
    /\ assignment[Identity(w)] \notin {None, Requested(w)}
    /\ pc' = [pc EXCEPT ![w] = "append"]
    /\ call' = [call EXCEPT ![w].found = assignment[Identity(w)]]
    /\ UNCHANGED <<tables, writer>>

AppendHistory(w) ==
    /\ pc[w] = "append"
    /\ pc' = [pc EXCEPT ![w] = "update"]
    /\ UNCHANGED <<tables, writer, call>>

\* The UPDATE waits for the row, whatever product it then names.
Update(w) ==
    /\ pc[w] = "update"
    /\ writer[Identity(w)] = None
    /\ writer' = [writer EXCEPT ![Identity(w)] = w]
    /\ pc' = [pc EXCEPT ![w] = "commit"]
    /\ UNCHANGED <<tables, call>>

\* Faults: the wrong product is appended, or the row stays locked.
CommitRequested(w) ==
    /\ pc[w] = "commit"
    /\ assignment' = [assignment EXCEPT ![Identity(w)] = Requested(w)]
    /\ history' = IF call[w].op = "assign" THEN history
                  ELSE Append(history, [identity |-> Identity(w),
                                        product |-> Requested(w)])
    /\ EndTransaction(w)
    /\ UNCHANGED product

NeverCommit(w) ==
    /\ pc[w] = "commit"
    /\ pc' = [pc EXCEPT ![w] = "idle"]
    /\ call' = [call EXCEPT ![w] = None]
    /\ UNCHANGED <<tables, writer>>

Commit(w) ==
    /\ pc[w] = "commit"
    /\ assignment' = [assignment EXCEPT ![Identity(w)] = Requested(w)]
    /\ history' = IF call[w].op = "assign" THEN history
                  ELSE Append(history, [identity |-> Identity(w),
                                        product |-> call[w].found])
    /\ EndTransaction(w)
    /\ UNCHANGED product

\* A lost connection or any error: ROLLBACK.
Fail(w) ==
    /\ pc[w] # "idle"
    /\ EndTransaction(w)
    /\ UNCHANGED tables

\* Statements that take no row, and those that may have to wait for one.
Advance(w) ==
    \/ ReturnUnchanged(w) \/ RaiseValueError(w)
    \/ FindUnassigned(w) \/ FindSuperseded(w) \/ AppendHistory(w)
    \/ Commit(w)

TakeRow(w) == Insert(w) \/ RaiseDuplicate(w) \/ Update(w)

Next ==
    \/ \E p \in Products : CreateProduct(p)
    \/ \E p \in Products, n \in Names : SetDisplayName(p, n)
    \/ \E w \in Workers, op \in {"assign", "correct"}, k \in Identities,
          p \in Products : Begin(w, op, k, p)
    \/ \E w \in Workers : Advance(w) \/ TakeRow(w) \/ Fail(w)

Spec == Init /\ [][Next]_vars

\* PostgreSQL executes statements and queues the waiters for a row.
FairSpec ==
    Spec /\ \A w \in Workers : WF_vars(Advance(w)) /\ SF_vars(TakeRow(w))

-----------------------------------------------------------------------------
TypeOK ==
    /\ product \in [Products -> Names \cup {Unnamed, Absent}]
    /\ assignment \in [Identities -> Products \cup {None}]
    /\ history \in Seq(Superseded)
    /\ writer \in [Identities -> Workers \cup {None}]
    /\ pc \in [Workers -> {"idle", "read", "insert", "append", "update",
                           "commit"}]
    /\ call \in [Workers -> Calls \cup {None}]

HasHistory(k) == \E n \in 1..Len(history) : history[n].identity = k

\* Whatever races, an assigned identity stays assigned, and it moves to
\* another product only in a step that appends exactly one row of that
\* identity to the history: assign never reassigns (PID-T05-C), and a
\* correction and its history row are one step.
ReassignmentLeavesHistory ==
    [][\A k \in Identities :
         assignment[k] # None /\ assignment'[k] # assignment[k] =>
           /\ assignment'[k] # None
           /\ \E r \in Superseded :
                history' = Append(history, r) /\ r.identity = k]_vars

\* The first correction of an identity records the product it was first
\* assigned to, also when several corrections race to be the first.
FirstCorrectionExact ==
    [][\A k \in Identities :
         assignment[k] # None /\ assignment'[k] # assignment[k]
           /\ ~HasHistory(k) =>
             history' = Append(history, [identity |-> k,
                                         product |-> assignment[k]])]_vars

\* No history row says that a product was superseded by itself.
NeverSupersededByItself ==
    [][Len(history') > Len(history) =>
         LET row == history'[Len(history')]
         IN  assignment'[row.identity] # row.product]_vars

\* "Genuine correction: the previously-current Product is appended to
\* chain_product_assignment_history and the current assignment becomes
\* product_id, atomically" (correct_chain_product_assignment).
CorrectionAppendsPrevious ==
    [][\A k \in Identities :
         assignment[k] # None /\ assignment'[k] # assignment[k] =>
           history' = Append(history, [identity |-> k,
                                       product |-> assignment[k]])]_vars

\* Every call returns: no transaction waits for ever for a row.
CallsReturn == \A w \in Workers : pc[w] # "idle" ~> pc[w] = "idle"

=============================================================================
