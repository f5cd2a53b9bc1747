----------------------------- MODULE DurableTree -----------------------------
(***************************************************************************)
(* The directories below which evidence is published: ensure_dir_durable   *)
(* and atomic_write_once_bytes (smartcart/durability_spike/_atomic_file)   *)
(* called by several OS processes on one tree, with kills and power        *)
(* losses.  DurableStaging takes its directories as made and on disk; here *)
(* every call makes, or finds, each of its ancestors.                      *)
(*                                                                         *)
(* An entry is on disk only if its directory's entry is, up to the root: a *)
(* power loss takes with a directory whatever was synced inside it.        *)
(* Nobody removes or repoints an ancestor ("out of scope" in the code).    *)
(***************************************************************************)
EXTENDS Integers, Sequences

CONSTANTS
    Directories,  \* paths, as sequences of names; the root is <<>>
    Files,        \* the paths calls publish
    Values,       \* the contents they publish
    Processes,
    Directory,    \* an entry that is a real directory
    Foreign,      \* an entry that is a symlink or another non-directory
    None          \* no entry

Parent(q) == SubSeq(q, 1, Len(q) - 1)

Ancestor(q, n) == SubSeq(q, 1, n)

Paths == Directories \cup Files

ASSUME TreeAssumption ==
    /\ \A q \in Paths :
         /\ q \in Seq(STRING) /\ q # <<>>
         /\ \A n \in 1..Len(q) - 1 : Ancestor(q, n) \in Directories
    /\ Directories \cap Files = {}
    /\ {Directory, Foreign, None} \cap Values = {}
    /\ Directory # Foreign /\ Directory # None /\ Foreign # None

VARIABLES
    visible,   \* the entries every process sees
    durable,   \* the entries in their directories' tables on disk
    pc, call,  \* a process's next step, and its call with the ancestor it is at
    answered   \* <<file, value>> of every call that returned

vars == <<visible, durable, pc, call, answered>>

\* q and every directory above it are on disk.
Reachable(q) ==
    /\ durable[q] # None
    /\ \A n \in 1..Len(q) - 1 : durable[Ancestor(q, n)] = Directory

\* Some directories are there, on disk or not, and something else than a
\* directory may be where one is wanted.
Init ==
    /\ visible \in [Paths -> {None, Directory, Foreign}]
    /\ \A q \in Paths : visible[q] # None =>
         /\ q \in Directories
         /\ \A n \in 1..Len(q) - 1 : visible[Ancestor(q, n)] = Directory
    /\ durable \in [Paths -> {None, Directory, Foreign}]
    /\ \A q \in Paths : durable[q] \in {None, visible[q]}
    /\ pc = [p \in Processes |-> "idle"]
    /\ call = [p \in Processes |-> None]
    /\ answered = {}

Goto(p, step) == pc' = [pc EXCEPT ![p] = step]

Return(p) ==
    /\ Goto(p, "idle")
    /\ call' = [call EXCEPT ![p] = None]

\* The ancestor that the recursion of p has come to.
At(p) == Ancestor(call[p].file, call[p].level)

SyncDirectory(d) ==
    durable' = [q \in Paths |-> IF Parent(q) = d THEN visible[q] ELSE durable[q]]

\* Fault: ensure_dir_durable is given the file's own path.
DescendToFile(p) ==
    /\ call' = [call EXCEPT ![p].level = @ + 1]
    /\ Goto(p, IF call[p].level < Len(call[p].file) THEN "mkdir" ELSE "link")

\* The recursion returns from one ancestor to the next one below it.
Descend(p) ==
    /\ call' = [call EXCEPT ![p].level = @ + 1]
    /\ Goto(p, IF call[p].level + 1 < Len(call[p].file) THEN "mkdir" ELSE "link")

-----------------------------------------------------------------------------
\* The recursion's base case is the root, so the topmost ancestor is first.
AtomicWriteOnceBytes(p, f, v) ==
    /\ pc[p] = "idle"
    /\ call' = [call EXCEPT ![p] = [file |-> f, value |-> v, level |-> 1]]
    /\ Goto(p, IF Len(f) > 1 THEN "mkdir" ELSE "link")
    /\ UNCHANGED <<visible, durable, answered>>

Mkdir(p) ==
    /\ pc[p] = "mkdir"
    /\ visible[At(p)] = None
    /\ visible' = [visible EXCEPT ![At(p)] = Directory]
    /\ Goto(p, "sync_parent")
    /\ UNCHANGED <<durable, call, answered>>

\* Fault: a directory somebody else made is taken to be on disk.
TrustDirectory(p) ==
    /\ pc[p] = "mkdir"
    /\ visible[At(p)] = Directory
    /\ Descend(p)
    /\ UNCHANGED <<visible, durable, answered>>

\* mkdir raises FileExistsError, and the entry is a real directory.
FindDirectory(p) ==
    /\ pc[p] = "mkdir"
    /\ visible[At(p)] = Directory
    /\ Goto(p, "sync_parent")
    /\ UNCHANGED <<visible, durable, call, answered>>

RaiseNotADirectory(p) ==
    /\ pc[p] = "mkdir"
    /\ visible[At(p)] \notin {None, Directory}
    /\ Return(p)
    /\ UNCHANGED <<visible, durable, answered>>

\* Fault: the new directory is synced, and not the one its entry is in.
SyncOwn(p) ==
    /\ pc[p] = "sync_parent"
    /\ SyncDirectory(At(p))
    /\ Descend(p)
    /\ UNCHANGED <<visible, answered>>

SyncParent(p) ==
    /\ pc[p] = "sync_parent"
    /\ SyncDirectory(Parent(At(p)))
    /\ Descend(p)
    /\ UNCHANGED <<visible, answered>>

\* Fault: the entry is replaced.
Replace(p) ==
    /\ pc[p] = "link"
    /\ visible' = [visible EXCEPT ![call[p].file] = call[p].value]
    /\ Goto(p, "sync_file")
    /\ UNCHANGED <<durable, call, answered>>

\* os.link creates the entry only if there is none.
Link(p) ==
    /\ pc[p] = "link"
    /\ visible[call[p].file] = None
    /\ visible' = [visible EXCEPT ![call[p].file] = call[p].value]
    /\ Goto(p, "sync_file")
    /\ UNCHANGED <<durable, call, answered>>

LinkExists(p) ==
    /\ pc[p] = "link"
    /\ visible[call[p].file] # None
    /\ Goto(p, "confirm_file")
    /\ UNCHANGED <<visible, durable, call, answered>>

Answer(p) ==
    /\ answered' = answered \cup {<<call[p].file, call[p].value>>}
    /\ Return(p)

SyncFile(p) ==
    /\ pc[p] = "sync_file"
    /\ SyncDirectory(Parent(call[p].file))
    /\ Answer(p)
    /\ UNCHANGED visible

\* The loser of the link race fsyncs before it reads what it finds.
ConfirmSame(p) ==
    /\ pc[p] = "confirm_file"
    /\ SyncDirectory(Parent(call[p].file))
    /\ visible[call[p].file] = call[p].value
    /\ Answer(p)
    /\ UNCHANGED visible

RaiseConflict(p) ==
    /\ pc[p] = "confirm_file"
    /\ SyncDirectory(Parent(call[p].file))
    /\ visible[call[p].file] # call[p].value
    /\ Return(p)
    /\ UNCHANGED <<visible, answered>>

-----------------------------------------------------------------------------
\* A kill, or an OSError from any call.
Crash(p) ==
    /\ pc[p] # "idle"
    /\ Return(p)
    /\ UNCHANGED <<visible, durable, answered>>

\* The kernel writes a directory entry back on its own.
Writeback(q) ==
    /\ durable[q] # visible[q]
    /\ durable' = [durable EXCEPT ![q] = visible[q]]
    /\ UNCHANGED <<visible, pc, call, answered>>

PowerLoss ==
    /\ visible' = [q \in Paths |-> IF Reachable(q) THEN durable[q] ELSE None]
    /\ durable' = visible'
    /\ pc' = [p \in Processes |-> "idle"]
    /\ call' = [p \in Processes |-> None]
    /\ UNCHANGED answered

Step(p) ==
    \/ \E f \in Files, v \in Values : AtomicWriteOnceBytes(p, f, v)
    \/ Mkdir(p) \/ FindDirectory(p) \/ RaiseNotADirectory(p) \/ SyncParent(p)
    \/ Link(p) \/ LinkExists(p)
    \/ SyncFile(p) \/ ConfirmSame(p) \/ RaiseConflict(p)
    \/ Crash(p)

Next ==
    \/ \E p \in Processes : Step(p)
    \/ \E q \in Paths : Writeback(q)
    \/ PowerLoss

Spec == Init /\ [][Next]_vars

-----------------------------------------------------------------------------
Entry(q) == IF q \in Files THEN Values \cup {None}
            ELSE {Directory, Foreign, None}

TypeOK ==
    /\ DOMAIN visible = Paths /\ DOMAIN durable = Paths
    /\ \A q \in Paths : {visible[q], durable[q]} \subseteq Entry(q)
    /\ pc \in [Processes -> {"idle", "mkdir", "sync_parent", "link",
                             "sync_file", "confirm_file"}]
    /\ call \in [Processes -> [file : Files, value : Values, level : Nat]
                                \cup {None}]
    /\ answered \subseteq Files \X Values

\* A file that a call answered for is on disk with its whole chain of
\* directories, whichever of them other processes made and died before
\* syncing (ensure_dir_durable: "never trusts another process's durability
\* confirmation in its place").
AnsweredIsReachable ==
    \A a \in answered : Reachable(a[1]) /\ durable[a[1]] = a[2]

\* What a file is to a reader after a power loss.
Published(f) == IF Reachable(f) THEN durable[f] ELSE None

Register == INSTANCE WriteOnce
              WITH Names <- Files,
                   register <- [f \in Files |-> Published(f)],
                   told <- answered

\* In a tree that has no files yet, each file is published once, for good, and
\* a call returns only what is published.  Directories may be there from the
\* start and not be on disk, or be something else (Init).
ImplementsWriteOnce == Register!Spec

=============================================================================
