--------------------------- MODULE DurableStaging ---------------------------
(***************************************************************************)
(* Crash-safe staging on a local filesystem: CrashSafeStagingStore over    *)
(* BlobStore and _atomic_file (smartcart/durability_spike), used by        *)
(* several OS processes on one root directory.                             *)
(*                                                                         *)
(* A directory entry is visible from the rename or link that makes it, and *)
(* on disk from the fsync of its directory or from the kernel's own        *)
(* writeback.  A killed process leaves what is visible; a power loss       *)
(* leaves what is on disk.  File contents are fsynced before the rename or *)
(* link that shows them, so an entry on disk always has its content;       *)
(* temporary files are seen by nobody and are not modelled.                *)
(***************************************************************************)
EXTENDS Integers

CONSTANTS
    Hashes,        \* raw content hashes
    Canonicals,    \* canonical content hashes
    Times,         \* collected_at: aware UTC instants (_require_utc)
    Extract,       \* what extract may return for the bytes of a raw hash
    Processes,
    PowerMayFail,  \* whether power losses are considered, or kills only
    None           \* no such entry, or a field not known yet

RawBlob(h) == <<"raw_blobs", h>>
CanonicalBlob(c) == <<"canonical_blobs", c>>
RawMeta(h) == <<"raw_meta", h>>
CanonicalMeta(h) == <<"canonical_meta", h>>

RawMetas == {RawMeta(h) : h \in Hashes}
CanonicalMetas == {CanonicalMeta(h) : h \in Hashes}
Metas == RawMetas \cup CanonicalMetas
Blobs == {RawBlob(h) : h \in Hashes} \cup {CanonicalBlob(c) : c \in Canonicals}
Paths == Metas \cup Blobs

\* The part of a metadata record its path does not already determine.
Records == [canonical : Canonicals \cup {None}, at : Times]

\* A blob's content is named by its own hash.
Contents == Records \cup Hashes \cup Canonicals

Operations == [op : {"stage", "finalize"}, hash : Hashes,
               canonical : Canonicals \cup {None}, at : Times \cup {None}]

ASSUME StagingAssumption ==
    /\ Extract \in [Hashes -> SUBSET Canonicals]
    /\ PowerMayFail \in BOOLEAN
    /\ None \notin Contents
    /\ None \notin Times
    /\ None \notin Canonicals

\* A blob lives in a directory of its own prefix; metadata of a kind shares
\* one directory.
SameDirectory(q, r) ==
    q[1] = r[1] /\ (q \in Metas \/ q[2] = r[2])

-----------------------------------------------------------------------------
VARIABLES
    visible,   \* the directory entries every process sees
    durable,   \* the directory entries on disk
    pc, call,  \* a process's next step and the operation it is running
    answered   \* <<path, record>> of every call that returned its evidence

vars == <<visible, durable, pc, call, answered>>

Init ==
    /\ visible = [q \in Paths |-> None]
    /\ durable = [q \in Paths |-> None]
    /\ pc = [p \in Processes |-> "idle"]
    /\ call = [p \in Processes |-> None]
    /\ answered = {}

BlobOf(p) == IF call[p].op = "stage" THEN RawBlob(call[p].hash)
             ELSE CanonicalBlob(call[p].canonical)

MetaOf(p) == IF call[p].op = "stage" THEN RawMeta(call[p].hash)
             ELSE CanonicalMeta(call[p].hash)

RecordOf(p) == [canonical |-> call[p].canonical, at |-> call[p].at]

Goto(p, step) == pc' = [pc EXCEPT ![p] = step]

Return(p) ==
    /\ Goto(p, "idle")
    /\ call' = [call EXCEPT ![p] = None]

\* fsync of the directory of q: every entry in it is on disk.
SyncDirectory(q) ==
    durable' = [r \in Paths |-> IF SameDirectory(r, q) THEN visible[r]
                                ELSE durable[r]]

-----------------------------------------------------------------------------
\* Fault: the metadata is written before the blob.
StageMetadataOnly(p, h, t) ==
    /\ pc[p] = "idle"
    /\ Goto(p, "link_meta")
    /\ call' = [call EXCEPT ![p] = [op |-> "stage", hash |-> h,
                                    canonical |-> None, at |-> t]]
    /\ UNCHANGED <<visible, durable, answered>>

StageRaw(p, h, t) ==
    /\ pc[p] = "idle"
    /\ Goto(p, "check_blob")
    /\ call' = [call EXCEPT ![p] = [op |-> "stage", hash |-> h,
                                    canonical |-> None, at |-> t]]
    /\ UNCHANGED <<visible, durable, answered>>

FinalizeCanonical(p, h) ==
    /\ pc[p] = "idle"
    /\ Goto(p, "recover_raw")
    /\ call' = [call EXCEPT ![p] = [op |-> "finalize", hash |-> h,
                                    canonical |-> None, at |-> None]]
    /\ UNCHANGED <<visible, durable, answered>>

RaiseNotStaged(p) ==
    /\ pc[p] = "recover_raw"
    /\ visible[RawMeta(call[p].hash)] = None
    /\ Return(p)
    /\ UNCHANGED <<visible, durable, answered>>

\* recover_raw reads whatever record is visible.
RecoverRaw(p) ==
    /\ pc[p] = "recover_raw"
    /\ visible[RawMeta(call[p].hash)] # None
    /\ call' = [call EXCEPT ![p].at = visible[RawMeta(call[p].hash)].at]
    /\ Goto(p, "read_raw")
    /\ UNCHANGED <<visible, durable, answered>>

\* get_raw_bytes raises FileNotFoundError.
RaiseNoRawBytes(p) ==
    /\ pc[p] = "read_raw"
    /\ visible[RawBlob(call[p].hash)] = None
    /\ Return(p)
    /\ UNCHANGED <<visible, durable, answered>>

ExtractCanonical(p, c) ==
    /\ pc[p] = "read_raw"
    /\ visible[RawBlob(call[p].hash)] # None
    /\ c \in Extract[call[p].hash]
    /\ call' = [call EXCEPT ![p].canonical = c]
    /\ Goto(p, "check_blob")
    /\ UNCHANGED <<visible, durable, answered>>

\* BlobStore.put: `if not path.exists(): atomic_write_bytes(path, data)`.
FindBlob(p) ==
    /\ pc[p] = "check_blob"
    /\ visible[BlobOf(p)] # None
    /\ Goto(p, "link_meta")
    /\ UNCHANGED <<visible, durable, call, answered>>

MissBlob(p) ==
    /\ pc[p] = "check_blob"
    /\ visible[BlobOf(p)] = None
    /\ Goto(p, "replace_blob")
    /\ UNCHANGED <<visible, durable, call, answered>>

\* Fault: finalization stores the raw bytes under the canonical hash.
ReplaceWithRaw(p) ==
    /\ pc[p] = "replace_blob"
    /\ visible' = [visible EXCEPT ![BlobOf(p)] = call[p].hash]
    /\ Goto(p, "sync_blob")
    /\ UNCHANGED <<durable, call, answered>>

\* os.replace always wins; the bytes are the same whoever writes them.
ReplaceBlob(p) ==
    /\ pc[p] = "replace_blob"
    /\ visible' = [visible EXCEPT ![BlobOf(p)] = BlobOf(p)[2]]
    /\ Goto(p, "sync_blob")
    /\ UNCHANGED <<durable, call, answered>>

SyncBlob(p) ==
    /\ pc[p] = "sync_blob"
    /\ SyncDirectory(BlobOf(p))
    /\ Goto(p, "link_meta")
    /\ UNCHANGED <<visible, call, answered>>

\* Fault: metadata is published with os.replace.
ReplaceMeta(p) ==
    /\ pc[p] = "link_meta"
    /\ visible' = [visible EXCEPT ![MetaOf(p)] = RecordOf(p)]
    /\ Goto(p, "sync_meta")
    /\ UNCHANGED <<durable, call, answered>>

\* os.link creates the entry only if there is none.
LinkMeta(p) ==
    /\ pc[p] = "link_meta"
    /\ visible[MetaOf(p)] = None
    /\ visible' = [visible EXCEPT ![MetaOf(p)] = RecordOf(p)]
    /\ Goto(p, "sync_meta")
    /\ UNCHANGED <<durable, call, answered>>

LinkExists(p) ==
    /\ pc[p] = "link_meta"
    /\ visible[MetaOf(p)] # None
    /\ Goto(p, "confirm_meta")
    /\ UNCHANGED <<visible, durable, call, answered>>

Answer(p) ==
    /\ answered' = answered \cup {<<MetaOf(p), RecordOf(p)>>}
    /\ Return(p)

\* Fault: the winner answers before its fsync.
AnswerUnsynced(p) ==
    /\ pc[p] = "sync_meta"
    /\ Answer(p)
    /\ UNCHANGED <<visible, durable>>

SyncMeta(p) ==
    /\ pc[p] = "sync_meta"
    /\ SyncDirectory(MetaOf(p))
    /\ Answer(p)
    /\ UNCHANGED visible

\* Fault: the loser trusts the winner's fsync.
TrustSame(p) ==
    /\ pc[p] = "confirm_meta"
    /\ visible[MetaOf(p)] = RecordOf(p)
    /\ Answer(p)
    /\ UNCHANGED <<visible, durable>>

\* The loser of the link race fsyncs before it trusts what it finds.
ConfirmSame(p) ==
    /\ pc[p] = "confirm_meta"
    /\ visible[MetaOf(p)] = RecordOf(p)
    /\ SyncDirectory(MetaOf(p))
    /\ Answer(p)
    /\ UNCHANGED visible

RaiseConflict(p) ==
    /\ pc[p] = "confirm_meta"
    /\ visible[MetaOf(p)] # RecordOf(p)
    /\ SyncDirectory(MetaOf(p))
    /\ Return(p)
    /\ UNCHANGED <<visible, answered>>

\* A kill, or an OSError from any call: what is visible stays visible.
Crash(p) ==
    /\ pc[p] # "idle"
    /\ Return(p)
    /\ UNCHANGED <<visible, durable, answered>>

\* The kernel writes a directory entry back on its own.
Writeback(q) ==
    /\ durable[q] # visible[q]
    /\ durable' = [durable EXCEPT ![q] = visible[q]]
    /\ UNCHANGED <<visible, pc, call, answered>>

PowerLoss ==
    /\ PowerMayFail
    /\ visible' = durable
    /\ pc' = [p \in Processes |-> "idle"]
    /\ call' = [p \in Processes |-> None]
    /\ UNCHANGED <<durable, answered>>

Step(p) ==
    \/ \E h \in Hashes, t \in Times : StageRaw(p, h, t)
    \/ \E h \in Hashes : FinalizeCanonical(p, h)
    \/ RaiseNotStaged(p) \/ RecoverRaw(p) \/ RaiseNoRawBytes(p)
    \/ \E c \in Canonicals : ExtractCanonical(p, c)
    \/ FindBlob(p) \/ MissBlob(p) \/ ReplaceBlob(p) \/ SyncBlob(p)
    \/ LinkMeta(p) \/ LinkExists(p)
    \/ SyncMeta(p) \/ ConfirmSame(p) \/ RaiseConflict(p)
    \/ Crash(p)

Next ==
    \/ \E p \in Processes : Step(p)
    \/ \E q \in Paths : Writeback(q)
    \/ PowerLoss

Spec == Init /\ [][Next]_vars

-----------------------------------------------------------------------------
Entries ==
    [Paths -> Contents \cup {None}]

TypeOK ==
    /\ visible \in Entries /\ durable \in Entries
    /\ \A q \in Paths : {visible[q], durable[q]} \subseteq
         (IF q \in Metas THEN Records ELSE {q[2]}) \cup {None}
    /\ pc \in [Processes -> {"idle", "recover_raw", "read_raw", "check_blob",
                             "replace_blob", "sync_blob", "link_meta",
                             "sync_meta", "confirm_meta"}]
    /\ call \in [Processes -> Operations \cup {None}]
    /\ answered \subseteq Metas \X Records

\* What a call has returned is on disk and stays there through kills and
\* power losses, also when another process made the entry and died before
\* its own fsync (atomic_write_once_bytes: a losing caller "can safely
\* complete a winner's durability confirmation").
AnsweredIsDurable ==
    \A a \in answered : durable[a[1]] = a[2]

\* A metadata record on disk is never replaced, by whatever race, retry or
\* restart ("never a last-writer-wins race between two processes").
RecordsWriteOnce ==
    [][\A q \in Metas : durable[q] # None => durable'[q] = durable[q]]_vars

\* A record every process can see refers to bytes every process can read.
RecordHasBlob ==
    \A h \in Hashes :
        /\ visible[RawMeta(h)] # None => visible[RawBlob(h)] # None
        /\ visible[CanonicalMeta(h)] # None =>
             visible[CanonicalBlob(visible[CanonicalMeta(h)].canonical)] # None

\* No step but a power loss makes a record visible without its bytes, whoever
\* is killed in between and whoever finds another's blob: the blob comes first.
RecordsStayReadable == [][PowerLoss \/ (RecordHasBlob => RecordHasBlob')]_vars

\* The same on disk: "the raw bytes are made durable before the metadata
\* record that promotes them into a recoverable staged unit" (stage_raw).
RawBlobDurableFirst ==
    \A h \in Hashes :
        durable[RawMeta(h)] # None => durable[RawBlob(h)] # None

=============================================================================
