---------------------------- MODULE StagingProofs ----------------------------
(***************************************************************************)
(* Proofs about DurableStaging: evidence that has been returned survives   *)
(* every kill and power loss, and the metadata on disk implements          *)
(* WriteOnce, for any number of processes, hashes and instants and         *)
(* whatever extract returns.                                               *)
(***************************************************************************)
EXTENDS StagingRefinement, TLAPS

Waiting == {"idle", "recover_raw"}

\* A running call has its operation; past recover_raw it has its instant,
\* and past read_raw a finalization has its canonical hash.
CallInv ==
    \A p \in Processes :
        /\ pc[p] # "idle" => call[p] \in Operations
        /\ pc[p] \notin Waiting => call[p].at \in Times
        /\ pc[p] \notin Waiting \cup {"read_raw"} =>
             \/ call[p].op = "stage"
             \/ call[p].op = "finalize" /\ call[p].canonical \in Canonicals

\* A process about to fsync its link finds its own record there: nobody
\* replaces it, and a power loss would have taken the process with it.
SyncInv ==
    \A p \in Processes :
        pc[p] = "sync_meta" => visible[MetaOf(p)] = RecordOf(p)

\* A metadata entry on disk is what every process sees.
DurableIsVisible ==
    \A q \in Metas : durable[q] # None => visible[q] = durable[q]

IInv ==
    /\ TypeOK
    /\ CallInv
    /\ SyncInv
    /\ DurableIsVisible
    /\ AnsweredIsDurable

-----------------------------------------------------------------------------
\* Metadata and blobs are different files.
LEMMA PathFacts ==
    /\ Metas \subseteq Paths
    /\ Blobs \subseteq Paths
    /\ Metas \cap Blobs = {}
<1>1. Metas \subseteq Paths /\ Blobs \subseteq Paths
  BY DEF Paths
<1>2. ASSUME NEW q \in Metas, q \in Blobs PROVE FALSE
  <2>1. q[1] \in {"raw_meta", "canonical_meta"}
    BY <1>2 DEF Metas, RawMetas, CanonicalMetas, RawMeta, CanonicalMeta
  <2>2. q[1] \in {"raw_blobs", "canonical_blobs"}
    BY <1>2 DEF Blobs, RawBlob, CanonicalBlob
  <2> QED BY <2>1, <2>2
<1> QED BY <1>1, <1>2

\* The files a call writes are files of the store.
LEMMA CallPaths ==
    ASSUME NEW p \in Processes, call[p] \in Operations
    PROVE  /\ MetaOf(p) \in Metas
           /\ \/ call[p].op = "stage"
              \/ call[p].op = "finalize" /\ call[p].canonical \in Canonicals
              => BlobOf(p) \in Blobs /\ BlobOf(p)[2] \in Contents
<1>1. MetaOf(p) \in Metas
  BY DEF MetaOf, Metas, RawMetas, CanonicalMetas, Operations
<1>2. CASE call[p].op = "stage"
  BY <1>1, <1>2 DEF BlobOf, Blobs, RawBlob, Operations, Contents
<1>3. CASE call[p].op = "finalize" /\ call[p].canonical \in Canonicals
  BY <1>1, <1>3 DEF BlobOf, Blobs, CanonicalBlob, Operations, Contents
<1> QED BY <1>1, <1>2, <1>3

\* A record is not the absent entry.
LEMMA RecordPresent ==
    ASSUME NEW p \in Processes, call[p] \in Operations, call[p].at \in Times
    PROVE  RecordOf(p) \in Records /\ RecordOf(p) # None
<1>1. RecordOf(p) \in Records
  BY DEF RecordOf, Records, Operations
<1> QED BY <1>1, StagingAssumption DEF Contents

\* A call that only moves on, with the disk and what is visible unchanged,
\* keeps every part of the invariant that is not about that call.
LEMMA MoveKeeps ==
    ASSUME IInv, NEW p \in Processes,
           UNCHANGED <<visible, durable, answered>>,
           pc' = [pc EXCEPT ![p] = pc'[p]],
           call' = [call EXCEPT ![p] = call'[p]],
           pc'[p] \in {"idle", "recover_raw", "read_raw", "check_blob",
                       "replace_blob", "sync_blob", "link_meta", "confirm_meta"},
           call'[p] \in Operations \cup {None},
           pc'[p] # "idle" => call'[p] \in Operations,
           pc'[p] \notin Waiting => call'[p].at \in Times,
           pc'[p] \notin Waiting \cup {"read_raw"} =>
             \/ call'[p].op = "stage"
             \/ call'[p].op = "finalize" /\ call'[p].canonical \in Canonicals
    PROVE  IInv'
<1>1. TypeOK'
  BY DEF IInv, TypeOK
<1>2. CallInv'
  BY DEF IInv, TypeOK, CallInv
<1>3. SyncInv'
  BY DEF IInv, TypeOK, SyncInv, MetaOf, RecordOf
<1>4. DurableIsVisible' /\ AnsweredIsDurable'
  BY DEF IInv, DurableIsVisible, AnsweredIsDurable
<1> QED BY <1>1, <1>2, <1>3, <1>4 DEF IInv

\* Writing entries to disk as they are visible, with the calls unchanged,
\* types and keeps what is on disk.
LEMMA WritebackKeeps ==
    ASSUME IInv, UNCHANGED visible,
           durable' \in [Paths -> Contents \cup {None}],
           \A q \in Paths : durable'[q] \in {visible[q], durable[q]}
    PROVE  /\ durable' \in Entries
           /\ \A q \in Paths : {visible'[q], durable'[q]} \subseteq
                (IF q \in Metas THEN Records ELSE {q[2]}) \cup {None}
           /\ \A q \in Metas : durable[q] # None => durable'[q] = durable[q]
           /\ DurableIsVisible'
<1>1. \A q \in Paths : {visible'[q], durable'[q]} \subseteq
        (IF q \in Metas THEN Records ELSE {q[2]}) \cup {None}
  BY DEF IInv, TypeOK
<1>2. \A q \in Metas : durable[q] # None => durable'[q] = durable[q]
  BY PathFacts DEF IInv, DurableIsVisible
<1>3. DurableIsVisible'
  BY PathFacts DEF IInv, DurableIsVisible
<1> QED BY <1>1, <1>2, <1>3 DEF Entries

\* The same for the fsync of a directory.
LEMMA SyncWritesVisible ==
    ASSUME IInv, NEW q \in Paths, SyncDirectory(q)
    PROVE  /\ durable' \in [Paths -> Contents \cup {None}]
           /\ \A r \in Paths : durable'[r] \in {visible[r], durable[r]}
           /\ durable'[q] = visible[q]
BY DEF IInv, TypeOK, Entries, SyncDirectory, SameDirectory

-----------------------------------------------------------------------------
\* The invariant holds when a store is first used.
THEOREM InitInvariant == Init => IInv
<1> SUFFICES ASSUME Init PROVE IInv
  OBVIOUS
<1>1. TypeOK
  BY DEF Init, TypeOK, Entries
<1>2. CallInv /\ SyncInv /\ DurableIsVisible /\ AnsweredIsDurable
  BY PathFacts DEF Init, CallInv, Waiting, SyncInv, DurableIsVisible,
                   AnsweredIsDurable
<1> QED BY <1>1, <1>2 DEF IInv

\* The fsync that ends a call: a record found in its directory is returned
\* only when it is on disk.
LEMMA AnswerKeeps ==
    ASSUME IInv, NEW p \in Processes, pc[p] \in {"sync_meta", "confirm_meta"},
           SyncDirectory(MetaOf(p)), UNCHANGED visible, Return(p),
           \/ UNCHANGED answered
           \/ /\ visible[MetaOf(p)] = RecordOf(p)
              /\ answered' = answered \cup {<<MetaOf(p), RecordOf(p)>>}
    PROVE  IInv'
<1>1. /\ call[p] \in Operations /\ call[p].at \in Times
      /\ pc \in [Processes -> {"idle", "recover_raw", "read_raw", "check_blob",
                               "replace_blob", "sync_blob", "link_meta",
                               "sync_meta", "confirm_meta"}]
      /\ call \in [Processes -> Operations \cup {None}]
  BY DEF IInv, TypeOK, CallInv, Waiting
<1>2. MetaOf(p) \in Metas /\ MetaOf(p) \in Paths
  BY <1>1, CallPaths, PathFacts
<1>3. RecordOf(p) \in Records /\ RecordOf(p) # None
  BY <1>1, RecordPresent
<1>4. /\ durable' \in [Paths -> Contents \cup {None}]
      /\ \A r \in Paths : durable'[r] \in {visible[r], durable[r]}
      /\ durable'[MetaOf(p)] = visible[MetaOf(p)]
  BY <1>2, SyncWritesVisible
<1>5. /\ durable' \in Entries
      /\ \A q \in Paths : {visible'[q], durable'[q]} \subseteq
           (IF q \in Metas THEN Records ELSE {q[2]}) \cup {None}
      /\ \A q \in Metas : durable[q] # None => durable'[q] = durable[q]
      /\ DurableIsVisible'
  BY <1>4, WritebackKeeps
<1>6. /\ pc' = [pc EXCEPT ![p] = "idle"]
      /\ call' = [call EXCEPT ![p] = None]
  BY DEF Return, Goto
<1>7. TypeOK'
  <2>1. pc' \in [Processes -> {"idle", "recover_raw", "read_raw", "check_blob",
                               "replace_blob", "sync_blob", "link_meta",
                               "sync_meta", "confirm_meta"}]
    BY <1>1, <1>6
  <2>2. call' \in [Processes -> Operations \cup {None}]
    BY <1>1, <1>6
  <2>3. answered' \subseteq Metas \X Records
    BY <1>2, <1>3 DEF IInv, TypeOK
  <2>4. visible' \in Entries
    BY DEF IInv, TypeOK
  <2> QED BY <1>5, <2>1, <2>2, <2>3, <2>4 DEF TypeOK
<1>8. CallInv'
  BY <1>1, <1>6 DEF IInv, CallInv, Waiting
<1>9. SyncInv'
  BY <1>1, <1>6 DEF IInv, SyncInv, MetaOf, RecordOf
<1>10. AnsweredIsDurable'
  <2> SUFFICES ASSUME NEW a \in answered' PROVE durable'[a[1]] = a[2]
    BY DEF AnsweredIsDurable
  <2>1. CASE a \in answered
    <3>1. a[1] \in Metas /\ a[2] \in Records
      BY <2>1 DEF IInv, TypeOK
    <3>2. durable[a[1]] = a[2] /\ a[2] # None
      BY <2>1, <3>1, StagingAssumption DEF IInv, AnsweredIsDurable, Contents
    <3> QED BY <1>5, <3>1, <3>2
  <2>2. CASE a \notin answered
    BY <1>4, <2>2
  <2> QED BY <2>1, <2>2
<1> QED BY <1>5, <1>7, <1>8, <1>9, <1>10 DEF IInv

\* os.link adds an entry where there was none, so no other call's own
\* record and nothing on disk is affected.
LEMMA LinkKeeps ==
    ASSUME IInv, NEW p \in Processes, LinkMeta(p)
    PROVE  IInv'
<1>1. /\ call[p] \in Operations /\ call[p].at \in Times
      /\ pc \in [Processes -> {"idle", "recover_raw", "read_raw", "check_blob",
                               "replace_blob", "sync_blob", "link_meta",
                               "sync_meta", "confirm_meta"}]
      /\ visible \in [Paths -> Contents \cup {None}]
      /\ pc[p] = "link_meta" /\ visible[MetaOf(p)] = None
      /\ visible' = [visible EXCEPT ![MetaOf(p)] = RecordOf(p)]
      /\ pc' = [pc EXCEPT ![p] = "sync_meta"]
      /\ UNCHANGED <<durable, call, answered>>
  BY DEF IInv, TypeOK, CallInv, Waiting, LinkMeta, Goto, Entries
<1>2. MetaOf(p) \in Metas /\ MetaOf(p) \in Paths
  BY <1>1, CallPaths, PathFacts
<1>3. RecordOf(p) \in Records /\ RecordOf(p) \in Contents
  BY <1>1, RecordPresent DEF Contents
<1>4. TypeOK'
  <2>1. visible' \in Entries
    BY <1>1, <1>3 DEF Entries
  <2>2. \A q \in Paths : {visible'[q], durable'[q]} \subseteq
          (IF q \in Metas THEN Records ELSE {q[2]}) \cup {None}
    BY <1>1, <1>2, <1>3 DEF IInv, TypeOK
  <2> QED BY <1>1, <2>1, <2>2 DEF IInv, TypeOK
<1>5. CallInv'
  BY <1>1 DEF IInv, CallInv, Waiting
<1>6. SyncInv'
  <2> SUFFICES ASSUME NEW r \in Processes, pc'[r] = "sync_meta"
               PROVE  visible'[MetaOf(r)] = RecordOf(r)
    BY <1>1 DEF SyncInv, MetaOf, RecordOf
  <2>1. CASE r = p
    BY <1>1, <1>2, <2>1
  <2>2. CASE r # p
    <3>1. pc[r] = "sync_meta"
      BY <1>1, <2>2
    <3>2. call[r] \in Operations /\ call[r].at \in Times
      BY <3>1 DEF IInv, CallInv, Waiting
    <3>3. visible[MetaOf(r)] = RecordOf(r) /\ RecordOf(r) # None
      BY <3>1, <3>2, RecordPresent DEF IInv, SyncInv
    <3> QED BY <1>1, <3>3
  <2> QED BY <2>1, <2>2
<1>7. DurableIsVisible'
  BY <1>1, <1>2 DEF IInv, DurableIsVisible
<1>8. AnsweredIsDurable'
  BY <1>1 DEF IInv, AnsweredIsDurable
<1> QED BY <1>4, <1>5, <1>6, <1>7, <1>8 DEF IInv

\* os.replace of a blob touches no metadata.
LEMMA ReplaceKeeps ==
    ASSUME IInv, NEW p \in Processes, ReplaceBlob(p)
    PROVE  IInv'
<1>1. /\ call[p] \in Operations
      /\ \/ call[p].op = "stage"
         \/ call[p].op = "finalize" /\ call[p].canonical \in Canonicals
      /\ pc \in [Processes -> {"idle", "recover_raw", "read_raw", "check_blob",
                               "replace_blob", "sync_blob", "link_meta",
                               "sync_meta", "confirm_meta"}]
      /\ visible \in [Paths -> Contents \cup {None}]
      /\ pc[p] = "replace_blob"
      /\ visible' = [visible EXCEPT ![BlobOf(p)] = BlobOf(p)[2]]
      /\ pc' = [pc EXCEPT ![p] = "sync_blob"]
      /\ UNCHANGED <<durable, call, answered>>
  BY DEF IInv, TypeOK, CallInv, Waiting, ReplaceBlob, Goto, Entries
<1>2. /\ BlobOf(p) \in Paths /\ BlobOf(p) \notin Metas
      /\ BlobOf(p)[2] \in Contents
  BY <1>1, CallPaths, PathFacts
<1>3. \A q \in Metas : visible'[q] = visible[q]
  BY <1>1, <1>2
<1>4. TypeOK'
  <2>1. visible' \in Entries
    BY <1>1, <1>2 DEF Entries
  <2>2. \A q \in Paths : {visible'[q], durable'[q]} \subseteq
          (IF q \in Metas THEN Records ELSE {q[2]}) \cup {None}
    BY <1>1, <1>2 DEF IInv, TypeOK
  <2> QED BY <1>1, <2>1, <2>2 DEF IInv, TypeOK
<1>5. CallInv'
  BY <1>1 DEF IInv, CallInv, Waiting
<1>6. SyncInv'
  <2> SUFFICES ASSUME NEW r \in Processes, pc'[r] = "sync_meta"
               PROVE  visible'[MetaOf(r)] = RecordOf(r)
    BY <1>1 DEF SyncInv, MetaOf, RecordOf
  <2>1. pc[r] = "sync_meta" /\ call[r] \in Operations
    BY <1>1 DEF IInv, CallInv
  <2> QED BY <1>3, <2>1, CallPaths DEF IInv, SyncInv
<1>7. DurableIsVisible'
  BY <1>1, <1>3 DEF IInv, DurableIsVisible
<1>8. AnsweredIsDurable'
  BY <1>1 DEF IInv, AnsweredIsDurable
<1> QED BY <1>4, <1>5, <1>6, <1>7, <1>8 DEF IInv

\* The fsync after a blob is replaced.
LEMMA SyncBlobKeeps ==
    ASSUME IInv, NEW p \in Processes, SyncBlob(p)
    PROVE  IInv'
<1>1. /\ call[p] \in Operations
      /\ \/ call[p].op = "stage"
         \/ call[p].op = "finalize" /\ call[p].canonical \in Canonicals
      /\ pc \in [Processes -> {"idle", "recover_raw", "read_raw", "check_blob",
                               "replace_blob", "sync_blob", "link_meta",
                               "sync_meta", "confirm_meta"}]
      /\ pc[p] = "sync_blob"
      /\ SyncDirectory(BlobOf(p))
      /\ pc' = [pc EXCEPT ![p] = "link_meta"]
      /\ UNCHANGED <<visible, call, answered>>
  BY DEF IInv, TypeOK, CallInv, Waiting, SyncBlob, Goto
<1>2. BlobOf(p) \in Paths
  BY <1>1, CallPaths, PathFacts
<1>3. /\ durable' \in [Paths -> Contents \cup {None}]
      /\ \A r \in Paths : durable'[r] \in {visible[r], durable[r]}
  BY <1>1, <1>2, SyncWritesVisible
<1>4. /\ durable' \in Entries
      /\ \A q \in Paths : {visible'[q], durable'[q]} \subseteq
           (IF q \in Metas THEN Records ELSE {q[2]}) \cup {None}
      /\ \A q \in Metas : durable[q] # None => durable'[q] = durable[q]
      /\ DurableIsVisible'
  BY <1>1, <1>3, WritebackKeeps
<1>5. TypeOK'
  BY <1>1, <1>4 DEF IInv, TypeOK
<1>6. CallInv'
  BY <1>1 DEF IInv, CallInv, Waiting
<1>7. SyncInv'
  BY <1>1 DEF IInv, SyncInv, MetaOf, RecordOf
<1>8. AnsweredIsDurable'
  <2> SUFFICES ASSUME NEW a \in answered PROVE durable'[a[1]] = a[2]
    BY <1>1 DEF AnsweredIsDurable
  <2>1. a[1] \in Metas /\ a[2] \in Records
    BY DEF IInv, TypeOK
  <2>2. durable[a[1]] = a[2] /\ a[2] # None
    BY <2>1, StagingAssumption DEF IInv, AnsweredIsDurable, Contents
  <2> QED BY <1>4, <2>1, <2>2
<1> QED BY <1>4, <1>5, <1>6, <1>7, <1>8 DEF IInv

\* The kernel's own writeback.
LEMMA KernelKeeps ==
    ASSUME IInv, NEW q \in Paths, Writeback(q)
    PROVE  IInv'
<1>1. /\ durable' = [durable EXCEPT ![q] = visible[q]]
      /\ UNCHANGED <<visible, pc, call, answered>>
  BY DEF Writeback
<1>2. /\ durable' \in [Paths -> Contents \cup {None}]
      /\ \A r \in Paths : durable'[r] \in {visible[r], durable[r]}
  BY <1>1 DEF IInv, TypeOK, Entries
<1>3. /\ durable' \in Entries
      /\ \A r \in Paths : {visible'[r], durable'[r]} \subseteq
           (IF r \in Metas THEN Records ELSE {r[2]}) \cup {None}
      /\ \A r \in Metas : durable[r] # None => durable'[r] = durable[r]
      /\ DurableIsVisible'
  BY <1>1, <1>2, WritebackKeeps
<1>4. TypeOK' /\ CallInv' /\ SyncInv'
  BY <1>1, <1>3 DEF IInv, TypeOK, CallInv, SyncInv, MetaOf, RecordOf
<1>5. AnsweredIsDurable'
  <2> SUFFICES ASSUME NEW a \in answered PROVE durable'[a[1]] = a[2]
    BY <1>1 DEF AnsweredIsDurable
  <2>1. a[1] \in Metas /\ a[2] \in Records
    BY DEF IInv, TypeOK
  <2>2. durable[a[1]] = a[2] /\ a[2] # None
    BY <2>1, StagingAssumption DEF IInv, AnsweredIsDurable, Contents
  <2> QED BY <1>3, <2>1, <2>2
<1> QED BY <1>3, <1>4, <1>5 DEF IInv

\* A power loss takes back what no caller was told of, and every process.
LEMMA PowerLossKeeps ==
    ASSUME IInv, PowerLoss
    PROVE  IInv'
<1>1. /\ visible' = durable /\ UNCHANGED <<durable, answered>>
      /\ pc' = [p \in Processes |-> "idle"]
      /\ call' = [p \in Processes |-> None]
  BY DEF PowerLoss
<1>2. TypeOK'
  BY <1>1 DEF IInv, TypeOK
<1>3. CallInv' /\ SyncInv' /\ DurableIsVisible' /\ AnsweredIsDurable'
  BY <1>1 DEF IInv, CallInv, Waiting, SyncInv, DurableIsVisible,
              AnsweredIsDurable
<1> QED BY <1>2, <1>3 DEF IInv

\* Every step of a process keeps the invariant.
LEMMA ProcessKeeps ==
    ASSUME IInv, NEW p \in Processes, Step(p)
    PROVE  IInv'
<1> USE DEF Goto, Return, Waiting, Operations
<1>t. /\ pc \in [Processes -> {"idle", "recover_raw", "read_raw", "check_blob",
                               "replace_blob", "sync_blob", "link_meta",
                               "sync_meta", "confirm_meta"}]
      /\ call \in [Processes -> Operations \cup {None}]
      /\ \A q \in Metas : visible[q] \in Records \cup {None}
  BY PathFacts DEF IInv, TypeOK
<1>c. /\ pc[p] # "idle" => call[p] \in Operations
      /\ pc[p] \notin Waiting => call[p].at \in Times
      /\ pc[p] \notin Waiting \cup {"read_raw"} =>
           \/ call[p].op = "stage"
           \/ call[p].op = "finalize" /\ call[p].canonical \in Canonicals
  BY DEF IInv, CallInv
<1>1. ASSUME NEW h \in Hashes, NEW t \in Times, StageRaw(p, h, t) PROVE IInv'
  BY <1>t, <1>1, MoveKeeps DEF StageRaw
<1>2. ASSUME NEW h \in Hashes, FinalizeCanonical(p, h) PROVE IInv'
  BY <1>t, <1>2, MoveKeeps DEF FinalizeCanonical
<1>3. CASE RaiseNotStaged(p)
  BY <1>t, <1>3, MoveKeeps DEF RaiseNotStaged
<1>4. CASE RecoverRaw(p)
  <2>1. RawMeta(call[p].hash) \in Metas
    BY <1>c, <1>4 DEF RecoverRaw, Metas, RawMetas
  <2>2. visible[RawMeta(call[p].hash)].at \in Times
    BY <1>t, <1>4, <2>1 DEF RecoverRaw, Records
  <2> QED BY <1>t, <1>c, <1>4, <2>2, MoveKeeps DEF RecoverRaw
<1>5. CASE RaiseNoRawBytes(p)
  BY <1>t, <1>5, MoveKeeps DEF RaiseNoRawBytes
<1>6. ASSUME NEW c \in Canonicals, ExtractCanonical(p, c) PROVE IInv'
  <2>1. /\ call' = [call EXCEPT ![p].canonical = c]
        /\ pc' = [pc EXCEPT ![p] = "check_blob"] /\ pc[p] = "read_raw"
        /\ UNCHANGED <<visible, durable, answered>>
    BY <1>6 DEF ExtractCanonical
  <2>2. call[p] \in Operations /\ call[p].at \in Times
    BY <1>c, <2>1
  <2>3. /\ call'[p] \in Operations /\ call'[p].at \in Times
        /\ call'[p].canonical \in Canonicals
        /\ call' = [call EXCEPT ![p] = call'[p]]
    BY <1>t, <2>1, <2>2
  <2>4. call'[p].op = "stage" \/ call'[p].op = "finalize"
    BY <2>3
  <2>5. pc'[p] = "check_blob" /\ pc' = [pc EXCEPT ![p] = pc'[p]]
    BY <1>t, <2>1
  <2> QED BY <2>1, <2>3, <2>4, <2>5, MoveKeeps
<1>7. CASE FindBlob(p)
  BY <1>t, <1>c, <1>7, MoveKeeps DEF FindBlob
<1>8. CASE MissBlob(p)
  BY <1>t, <1>c, <1>8, MoveKeeps DEF MissBlob
<1>9. CASE ReplaceBlob(p)
  BY <1>9, ReplaceKeeps
<1>10. CASE SyncBlob(p)
  BY <1>10, SyncBlobKeeps
<1>11. CASE LinkMeta(p)
  BY <1>11, LinkKeeps
<1>12. CASE LinkExists(p)
  BY <1>t, <1>c, <1>12, MoveKeeps DEF LinkExists
<1>13. CASE SyncMeta(p)
  <2>1. visible[MetaOf(p)] = RecordOf(p)
    BY <1>13 DEF SyncMeta, IInv, SyncInv
  <2> QED BY <1>13, <2>1, AnswerKeeps DEF SyncMeta, Answer
<1>14. CASE ConfirmSame(p)
  BY <1>14, AnswerKeeps DEF ConfirmSame, Answer
<1>15. CASE RaiseConflict(p)
  BY <1>15, AnswerKeeps DEF RaiseConflict
<1>16. CASE Crash(p)
  BY <1>t, <1>16, MoveKeeps DEF Crash
<1> QED BY <1>1, <1>2, <1>3, <1>4, <1>5, <1>6, <1>7, <1>8, <1>9, <1>10, <1>11,
           <1>12, <1>13, <1>14, <1>15, <1>16 DEF Step

\* Every step of the system keeps the invariant.
THEOREM StepInvariant == IInv /\ [Next]_vars => IInv'
<1> SUFFICES ASSUME IInv, [Next]_vars PROVE IInv'
  OBVIOUS
<1>1. ASSUME NEW p \in Processes, Step(p) PROVE IInv'
  BY <1>1, ProcessKeeps
<1>2. ASSUME NEW q \in Paths, Writeback(q) PROVE IInv'
  BY <1>2, KernelKeeps
<1>3. CASE PowerLoss
  BY <1>3, PowerLossKeeps
<1>4. CASE UNCHANGED vars
  <2>1. TypeOK' /\ CallInv' /\ SyncInv'
    BY <1>4 DEF IInv, vars, TypeOK, CallInv, SyncInv, MetaOf, RecordOf
  <2>2. DurableIsVisible' /\ AnsweredIsDurable'
    BY <1>4 DEF IInv, vars, DurableIsVisible, AnsweredIsDurable
  <2> QED BY <2>1, <2>2 DEF IInv
<1> QED BY <1>1, <1>2, <1>3, <1>4 DEF Next

\* The strengthened invariant of the store.
THEOREM Invariant == Spec => []IInv
BY InitInvariant, StepInvariant, PTL DEF Spec

\* Every entry and call has its type, for any number of processes.
THEOREM TypeCorrect == Spec => []TypeOK
<1>1. IInv => TypeOK
  BY DEF IInv
<1> QED BY <1>1, Invariant, PTL

\* Evidence a call has returned is on disk for good, through races, kills
\* and power losses.
THEOREM AnswersSurvive == Spec => []AnsweredIsDurable
<1>1. IInv => AnsweredIsDurable
  BY DEF IInv
<1> QED BY <1>1, Invariant, PTL

\* No step takes a metadata entry on disk away or replaces it.
LEMMA NextWriteOnce ==
    IInv /\ IInv' /\ [Next]_vars =>
        \A q \in Metas : durable[q] # None => durable'[q] = durable[q]
<1> SUFFICES ASSUME IInv, IInv', [Next]_vars, NEW q \in Metas,
                    durable[q] # None
             PROVE  durable'[q] = durable[q]
  OBVIOUS
<1>1. visible[q] = durable[q] /\ q \in Paths /\ durable \in Entries
  BY PathFacts DEF IInv, DurableIsVisible, TypeOK
<1>2. ASSUME NEW r \in Paths, SyncDirectory(r) PROVE durable'[q] = durable[q]
  BY <1>1, <1>2, SyncWritesVisible
<1>3. ASSUME NEW p \in Processes, Step(p) PROVE durable'[q] = durable[q]
  <2>1. CASE SyncBlob(p)
    BY <1>1, <2>1 DEF SyncBlob, SyncDirectory
  <2>2. CASE SyncMeta(p)
    BY <1>1, <2>2 DEF SyncMeta, SyncDirectory
  <2>3. CASE ConfirmSame(p) \/ RaiseConflict(p)
    BY <1>1, <2>3 DEF ConfirmSame, RaiseConflict, SyncDirectory
  <2>4. CASE UNCHANGED durable
    BY <2>4
  <2>5. SyncBlob(p) \/ SyncMeta(p) \/ ConfirmSame(p) \/ RaiseConflict(p)
          \/ UNCHANGED durable
    BY <1>3 DEF Step, StageRaw, FinalizeCanonical, RaiseNotStaged, RecoverRaw,
                RaiseNoRawBytes, ExtractCanonical, FindBlob, MissBlob,
                ReplaceBlob, LinkMeta, LinkExists, Crash
  <2> QED BY <2>1, <2>2, <2>3, <2>4, <2>5
<1>4. ASSUME NEW r \in Paths, Writeback(r) PROVE durable'[q] = durable[q]
  BY <1>1, <1>4 DEF Writeback, Entries
<1>5. CASE PowerLoss
  BY <1>5 DEF PowerLoss
<1>6. CASE UNCHANGED vars
  BY <1>6 DEF vars
<1> QED BY <1>3, <1>4, <1>5, <1>6 DEF Next

\* Metadata on disk is written once, whatever races, retries and restarts.
THEOREM WrittenOnce == Spec => RecordsWriteOnce
<1>1. IInv /\ IInv' /\ [Next]_vars =>
        [\A q \in Metas : durable[q] # None => durable'[q] = durable[q]]_vars
  BY NextWriteOnce
<1> QED BY <1>1, Invariant, PTL DEF Spec, RecordsWriteOnce

\* No step forgets what was answered.
LEMMA NextAnswered == [Next]_vars => answered \subseteq answered'
<1> SUFFICES ASSUME [Next]_vars PROVE answered \subseteq answered'
  OBVIOUS
<1>1. ASSUME NEW p \in Processes, Step(p) PROVE answered \subseteq answered'
  BY <1>1 DEF Step, StageRaw, FinalizeCanonical, RaiseNotStaged, RecoverRaw,
              RaiseNoRawBytes, ExtractCanonical, FindBlob, MissBlob,
              ReplaceBlob, SyncBlob, LinkMeta, LinkExists, SyncMeta,
              ConfirmSame, RaiseConflict, Crash, Answer
<1> QED BY <1>1 DEF Next, Writeback, PowerLoss, vars

\* The metadata directories on disk, with what was answered of them, are
\* write-once registers: staging implements WriteOnce.
THEOREM Refinement == Spec => ImplementsWriteOnce
<1>1. \A q \in Metas : q \in Paths
  BY PathFacts
<1>2. ASSUME IInv
      PROVE  /\ [q \in Metas |-> durable[q]] \in [Metas -> Records \cup {None}]
             /\ answered \subseteq Metas \X Records
  BY <1>1, <1>2 DEF IInv, TypeOK
<1>3. Init => Register!Init
  BY <1>1 DEF Init, Register!Init
<1>4. IInv /\ IInv' /\ [Next]_vars => [Register!Next]_<<[q \in Metas |-> durable[q]], answered>>
  <2> SUFFICES ASSUME IInv, IInv', [Next]_vars PROVE Register!Next
    BY DEF Register!Next
  <2>1. \A q \in Metas : durable[q] # None => durable'[q] = durable[q]
    BY NextWriteOnce
  <2>2. [q \in Metas |-> durable'[q]] \in [Metas -> Records \cup {None}]
    BY <1>1 DEF IInv, TypeOK
  <2>3. Register!Publish
    BY <2>1, <2>2 DEF Register!Publish
  <2>4. answered' \subseteq Metas \X Records /\ AnsweredIsDurable'
    BY DEF IInv, TypeOK
  <2>5. \A a \in answered' : [q \in Metas |-> durable'[q]][a[1]] = a[2]
    BY <2>4 DEF AnsweredIsDurable
  <2>6. Register!Tell
    BY <2>4, <2>5, NextAnswered DEF Register!Tell
  <2> QED BY <2>3, <2>6 DEF Register!Next
<1> QED BY <1>3, <1>4, Invariant, PTL DEF Spec, ImplementsWriteOnce, Register!Spec

-----------------------------------------------------------------------------
\* A call that is past its blob finds it there until its metadata is linked
\* and after: only a power loss takes an entry away, and the call with it.
BlobInv ==
    \A p \in Processes :
        pc[p] \in {"sync_blob", "link_meta", "sync_meta", "confirm_meta"} =>
            visible[BlobOf(p)] # None

\* A call in flight has its operation and names files of the store.
LEMMA CallFacts ==
    ASSUME IInv, NEW p \in Processes, pc[p] \notin Waiting \cup {"read_raw"}
    PROVE  /\ call[p] \in Operations /\ call[p].at \in Times
           /\ \/ call[p].op = "stage"
              \/ call[p].op = "finalize" /\ call[p].canonical \in Canonicals
           /\ MetaOf(p) \in Metas /\ BlobOf(p) \in Blobs
           /\ BlobOf(p)[2] \in Contents
<1>1. /\ call[p] \in Operations /\ call[p].at \in Times
      /\ \/ call[p].op = "stage"
         \/ call[p].op = "finalize" /\ call[p].canonical \in Canonicals
  BY DEF IInv, CallInv, Waiting
<1> QED BY <1>1, CallPaths

\* What a step of a process makes visible is the blob a replace_blob writes
\* or the record a link_meta links; every other entry stays as it was.
LEMMA VisibleMoves ==
    ASSUME IInv, NEW p \in Processes, Step(p)
    PROVE  \/ UNCHANGED visible
           \/ /\ ReplaceBlob(p)
              /\ visible' = [visible EXCEPT ![BlobOf(p)] = BlobOf(p)[2]]
           \/ /\ LinkMeta(p) /\ visible[MetaOf(p)] = None
              /\ visible' = [visible EXCEPT ![MetaOf(p)] = RecordOf(p)]
BY DEF Step, StageRaw, FinalizeCanonical, RaiseNotStaged, RecoverRaw,
       RaiseNoRawBytes, ExtractCanonical, FindBlob, MissBlob, ReplaceBlob,
       SyncBlob, LinkMeta, LinkExists, SyncMeta, ConfirmSame, RaiseConflict,
       Crash

\* No step of a process takes an entry out of sight or replaces a record, and
\* the only record it makes visible is its own.
LEMMA VisibleGrows ==
    ASSUME IInv, NEW p \in Processes, Step(p)
    PROVE  /\ \A q \in Paths : visible[q] # None => visible'[q] # None
           /\ \A q \in Metas : visible[q] # None => visible'[q] = visible[q]
           /\ \A q \in Metas : visible'[q] # visible[q] =>
                LinkMeta(p) /\ q = MetaOf(p) /\ visible'[q] = RecordOf(p)
<1>1. visible \in [Paths -> Contents \cup {None}]
  BY DEF IInv, TypeOK, Entries
<1>2. CASE UNCHANGED visible
  BY <1>2
<1>3. CASE /\ ReplaceBlob(p)
           /\ visible' = [visible EXCEPT ![BlobOf(p)] = BlobOf(p)[2]]
  <2>1. BlobOf(p) \notin Metas /\ BlobOf(p)[2] # None
    BY <1>3, CallFacts, PathFacts, StagingAssumption
       DEF ReplaceBlob, Waiting
  <2> QED BY <1>1, <1>3, <2>1, PathFacts
<1>4. CASE /\ LinkMeta(p) /\ visible[MetaOf(p)] = None
           /\ visible' = [visible EXCEPT ![MetaOf(p)] = RecordOf(p)]
  <2>1. RecordOf(p) # None
    BY <1>4, CallFacts, RecordPresent DEF LinkMeta, Waiting
  <2> QED BY <1>1, <1>4, <2>1, PathFacts
<1> QED BY <1>2, <1>3, <1>4, VisibleMoves

\* A step of one process leaves the others where they are.
LEMMA OthersStand ==
    ASSUME IInv, NEW p \in Processes, Step(p), NEW r \in Processes, r # p
    PROVE  pc'[r] = pc[r] /\ call'[r] = call[r]
BY DEF IInv, TypeOK, Step, StageRaw, FinalizeCanonical, RaiseNotStaged,
       RecoverRaw, RaiseNoRawBytes, ExtractCanonical, FindBlob, MissBlob,
       ReplaceBlob, SyncBlob, LinkMeta, LinkExists, SyncMeta, ConfirmSame,
       RaiseConflict, Crash, Answer, Return, Goto

\* A process gets past its blob by finding it there or by writing it, and
\* keeps the operation that names it.
LEMMA PassesBlob ==
    ASSUME IInv, NEW p \in Processes, Step(p),
           pc'[p] \in {"sync_blob", "link_meta", "sync_meta", "confirm_meta"}
    PROVE  /\ call' = call
           /\ \/ FindBlob(p) \/ ReplaceBlob(p)
              \/ pc[p] \in {"sync_blob", "link_meta"}
BY DEF IInv, TypeOK, Step, StageRaw, FinalizeCanonical, RaiseNotStaged,
       RecoverRaw, RaiseNoRawBytes, ExtractCanonical, FindBlob, MissBlob,
       ReplaceBlob, SyncBlob, LinkMeta, LinkExists, SyncMeta, ConfirmSame,
       RaiseConflict, Crash, Answer, Return, Goto

\* Every step keeps the blobs of the calls that rely on them.
LEMMA BlobStep == IInv /\ BlobInv /\ [Next]_vars => BlobInv'
<1> SUFFICES ASSUME IInv, BlobInv, [Next]_vars PROVE BlobInv'
  OBVIOUS
<1>1. ASSUME NEW p \in Processes, Step(p) PROVE BlobInv'
  <2> SUFFICES ASSUME NEW r \in Processes,
                      pc'[r] \in {"sync_blob", "link_meta", "sync_meta",
                                  "confirm_meta"}
               PROVE  visible'[BlobOf(r)'] # None
    BY DEF BlobInv
  <2>1. CASE r # p
    <3>1. pc'[r] = pc[r] /\ call'[r] = call[r]
      BY <1>1, <2>1, OthersStand
    <3>2. visible[BlobOf(r)] # None /\ BlobOf(r)' = BlobOf(r)
      BY <3>1 DEF BlobInv, BlobOf
    <3>3. BlobOf(r) \in Paths
      BY <3>1, CallFacts, PathFacts DEF Waiting
    <3> QED BY <1>1, <3>2, <3>3, VisibleGrows
  <2>2. CASE r = p
    <3>1. /\ BlobOf(p)' = BlobOf(p)
          /\ \/ FindBlob(p) \/ ReplaceBlob(p)
             \/ pc[p] \in {"sync_blob", "link_meta"}
      BY <1>1, <2>2, PassesBlob DEF BlobOf
    <3>2. BlobOf(p) \in Paths /\ BlobOf(p)[2] # None
      BY <3>1, CallFacts, PathFacts, StagingAssumption
         DEF FindBlob, ReplaceBlob, Waiting
    <3>3. CASE ReplaceBlob(p)
      BY <2>2, <3>1, <3>2, <3>3 DEF ReplaceBlob, IInv, TypeOK, Entries
    <3>4. CASE FindBlob(p) \/ pc[p] \in {"sync_blob", "link_meta"}
      <4>1. visible[BlobOf(p)] # None
        BY <3>4 DEF FindBlob, BlobInv
      <4> QED BY <1>1, <2>2, <3>1, <3>2, <4>1, VisibleGrows
    <3> QED BY <3>1, <3>3, <3>4
  <2> QED BY <2>1, <2>2
<1>2. ASSUME NEW q \in Paths, Writeback(q) PROVE BlobInv'
  BY <1>2 DEF Writeback, BlobInv, BlobOf
<1>3. CASE PowerLoss
  BY <1>3 DEF PowerLoss, BlobInv
<1>4. CASE UNCHANGED vars
  BY <1>4 DEF vars, BlobInv, BlobOf
<1> QED BY <1>1, <1>2, <1>3, <1>4 DEF Next

\* A canonical record names a canonical hash: finalization links it after
\* extract has returned.
NamesInv ==
    \A h \in Hashes :
        visible[CanonicalMeta(h)] # None =>
            visible[CanonicalMeta(h)].canonical \in Canonicals

\* A call that links canonical metadata is a finalization with its hash.
LEMMA LinksItsName ==
    ASSUME IInv, NEW p \in Processes, LinkMeta(p), NEW h \in Hashes,
           MetaOf(p) = CanonicalMeta(h)
    PROVE  call[p].canonical \in Canonicals /\ call[p].op # "stage"
<1>1. call[p].op # "stage"
  BY DEF MetaOf, RawMeta, CanonicalMeta
<1> QED BY <1>1, CallFacts DEF LinkMeta, Waiting

\* Every step keeps the names: a power loss leaves only records that were
\* visible before it.
LEMMA NamesStep == IInv /\ NamesInv /\ [Next]_vars => NamesInv'
<1> SUFFICES ASSUME IInv, NamesInv, [Next]_vars, NEW h \in Hashes,
                    visible'[CanonicalMeta(h)] # None
             PROVE  visible'[CanonicalMeta(h)].canonical \in Canonicals
  BY DEF NamesInv
<1>1. CanonicalMeta(h) \in Metas
  BY DEF Metas, CanonicalMetas
<1>2. CASE visible'[CanonicalMeta(h)] = visible[CanonicalMeta(h)]
  BY <1>2 DEF NamesInv
<1>3. ASSUME NEW p \in Processes, Step(p),
             visible'[CanonicalMeta(h)] # visible[CanonicalMeta(h)]
      PROVE  visible'[CanonicalMeta(h)].canonical \in Canonicals
  <2>1. /\ LinkMeta(p) /\ MetaOf(p) = CanonicalMeta(h)
        /\ visible'[CanonicalMeta(h)] = RecordOf(p)
    BY <1>1, <1>3, VisibleGrows
  <2>2. call[p].canonical \in Canonicals
    BY <2>1, LinksItsName
  <2> QED BY <2>1, <2>2 DEF RecordOf
<1>4. CASE PowerLoss
  BY <1>1, <1>4 DEF PowerLoss, IInv, DurableIsVisible, NamesInv
<1> QED BY <1>2, <1>3, <1>4 DEF Next, Writeback, vars

\* The invariant with the blobs of the calls in flight and the names in the
\* records.
LEMMA BlobInvariant == Spec => [](IInv /\ BlobInv /\ NamesInv)
<1>1. Init => BlobInv
  BY DEF Init, BlobInv
<1>2. Init => NamesInv
  BY DEF Init, NamesInv, Paths, Metas, CanonicalMetas
<1> QED BY <1>1, <1>2, BlobStep, NamesStep, Invariant, PTL DEF Spec

\* A record that becomes visible is linked by a call that sees its blob, and
\* a record that was visible keeps its content and its blob.
LEMMA NextReadable ==
    ASSUME IInv, BlobInv, NamesInv, RecordHasBlob, [Next]_vars, ~PowerLoss
    PROVE  RecordHasBlob'
<1>1. \A h \in Hashes : RawMeta(h) \in Metas /\ CanonicalMeta(h) \in Metas
  BY DEF Metas, RawMetas, CanonicalMetas
<1>2. \A h \in Hashes : RawBlob(h) \in Paths
  BY DEF Paths, Blobs
<1>3. ASSUME NEW p \in Processes, Step(p), NEW h \in Hashes,
             visible'[RawMeta(h)] # None
      PROVE  visible'[RawBlob(h)] # None
  <2>1. CASE visible[RawMeta(h)] # None
    BY <1>2, <1>3, <2>1, VisibleGrows DEF RecordHasBlob
  <2>2. CASE visible[RawMeta(h)] = None
    <3>1. LinkMeta(p) /\ MetaOf(p) = RawMeta(h) /\ visible[BlobOf(p)] # None
      BY <1>1, <1>3, <2>2, VisibleGrows DEF LinkMeta, BlobInv
    <3>2. BlobOf(p) = RawBlob(h)
      BY <3>1 DEF MetaOf, BlobOf, RawMeta, CanonicalMeta, RawBlob
    <3> QED BY <1>2, <1>3, <3>1, <3>2, VisibleGrows
  <2> QED BY <2>1, <2>2
<1>4. ASSUME NEW p \in Processes, Step(p), NEW h \in Hashes,
             visible'[CanonicalMeta(h)] # None
      PROVE  visible'[CanonicalBlob(visible'[CanonicalMeta(h)].canonical)]
               # None
  <2>1. CASE visible[CanonicalMeta(h)] # None
    <3>1. /\ visible'[CanonicalMeta(h)] = visible[CanonicalMeta(h)]
          /\ visible[CanonicalBlob(visible[CanonicalMeta(h)].canonical)] # None
      BY <1>1, <1>4, <2>1, VisibleGrows DEF RecordHasBlob
    <3>2. CanonicalBlob(visible[CanonicalMeta(h)].canonical) \in Paths
      BY <2>1 DEF NamesInv, Paths, Blobs
    <3> QED BY <1>4, <3>1, <3>2, VisibleGrows
  <2>2. CASE visible[CanonicalMeta(h)] = None
    <3>1. /\ LinkMeta(p) /\ MetaOf(p) = CanonicalMeta(h)
          /\ visible[BlobOf(p)] # None
          /\ visible'[CanonicalMeta(h)] = RecordOf(p)
      BY <1>1, <1>4, <2>2, VisibleGrows DEF LinkMeta, BlobInv
    <3>2. BlobOf(p) = CanonicalBlob(visible'[CanonicalMeta(h)].canonical)
      BY <3>1 DEF MetaOf, BlobOf, RecordOf, RawMeta, CanonicalMeta
    <3>3. BlobOf(p) \in Paths
      BY <3>1, CallFacts, PathFacts DEF LinkMeta, Waiting
    <3> QED BY <1>4, <3>1, <3>2, <3>3, VisibleGrows
  <2> QED BY <2>1, <2>2
<1>5. CASE UNCHANGED visible
  BY <1>5 DEF RecordHasBlob
<1>6. CASE \E p \in Processes : Step(p)
  BY <1>3, <1>4, <1>6 DEF RecordHasBlob
<1> QED BY <1>5, <1>6 DEF Next, Writeback, vars

\* No race, kill or retry shows a record whose bytes cannot be read: the
\* metadata is linked after the blob, and no blob is ever removed.
THEOREM RecordsReadable == Spec => RecordsStayReadable
<1>1. IInv /\ BlobInv /\ NamesInv /\ [Next]_vars =>
        [PowerLoss \/ (RecordHasBlob => RecordHasBlob')]_vars
  BY NextReadable
<1> QED BY <1>1, BlobInvariant, PTL DEF Spec, RecordsStayReadable

\* Where only processes die and the machine does not, every record visible
\* has its bytes.
THEOREM ReadableWithoutPowerLoss ==
    ASSUME PowerMayFail = FALSE PROVE Spec => []RecordHasBlob
<1>1. Init => RecordHasBlob
  BY DEF Init, RecordHasBlob, Paths, Metas, RawMetas, CanonicalMetas
<1>2. ~PowerLoss
  BY DEF PowerLoss
<1>3. IInv /\ BlobInv /\ NamesInv /\ RecordHasBlob /\ [Next]_vars =>
        RecordHasBlob'
  BY <1>2, NextReadable
<1> QED BY <1>1, <1>3, BlobInvariant, PTL DEF Spec

=============================================================================
