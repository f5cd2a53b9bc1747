----------------------------- MODULE TreeProofs -----------------------------
(***************************************************************************)
(* Proofs about DurableTree: what a call answered for is on disk with all  *)
(* of its directories, and files are written once, for any tree, any       *)
(* number of processes and any interleaving of their calls with kills and  *)
(* power losses.                                                           *)
(***************************************************************************)
EXTENDS DurableTree, SequenceTheorems, TLAPS

\* The steps of ensure_dir_durable.
InChain(step) == step = "mkdir" \/ step = "sync_parent"

\* A running call is at an ancestor of its file, or past all of them.
CallInv ==
    \A p \in Processes : pc[p] # "idle" =>
        /\ call[p] \in [file : Files, value : Values, level : Nat]
        /\ call[p].level \in 1..Len(call[p].file)
        /\ InChain(pc[p]) => call[p].level < Len(call[p].file)
        /\ ~InChain(pc[p]) => call[p].level = Len(call[p].file)

\* The ancestors a call has passed are directories on disk: it has synced
\* the directory of each of them itself.
ChainInv ==
    \A p \in Processes : pc[p] # "idle" =>
        \A n \in 1..call[p].level - 1 :
            durable[Ancestor(call[p].file, n)] = Directory

\* A process about to sync finds there what it made or found.
SyncInv ==
    \A p \in Processes :
        /\ pc[p] = "sync_parent" => visible[At(p)] = Directory
        /\ pc[p] = "sync_file" => visible[call[p].file] = call[p].value

\* What is on disk is what every process sees.
DurableIsVisible ==
    \A q \in Paths : durable[q] # None => visible[q] = durable[q]

IInv ==
    /\ TypeOK
    /\ CallInv
    /\ ChainInv
    /\ SyncInv
    /\ DurableIsVisible
    /\ AnsweredIsReachable

USE DEF InChain

-----------------------------------------------------------------------------
\* The ancestors of a path are directories of the tree, and an ancestor's
\* ancestors are the path's own.
LEMMA AncestorFacts ==
    ASSUME NEW q \in Paths, NEW n \in 1..Len(q) - 1
    PROVE  /\ Ancestor(q, n) \in Directories
           /\ Len(Ancestor(q, n)) = n
           /\ \A m \in 1..n - 1 : Ancestor(Ancestor(q, n), m) = Ancestor(q, m)
<1>1. q \in Seq(STRING) /\ Ancestor(q, n) \in Directories /\ n \in 1..Len(q)
  <2>1. q \in Seq(STRING) /\ Ancestor(q, n) \in Directories
    BY TreeAssumption
  <2> QED BY <2>1, LenProperties
<1>2. Len(q) \in Nat
  BY <1>1, LenProperties
<1>3. Len(Ancestor(q, n)) = n
  <2>1. \A i \in 1..n : q[i] \in STRING
    BY <1>1, <1>2, ElementOfSeq
  <2>2. Len(SubSeq(q, 1, n)) = n - 1 + 1
    BY <1>1, <2>1, SubSeqProperties
  <2> QED BY <1>1, <1>2, <2>2 DEF Ancestor
<1>4. ASSUME NEW m \in 1..n - 1
      PROVE  Ancestor(Ancestor(q, n), m) = Ancestor(q, m)
  <2>1. 1 \in 1..Len(q) /\ 1 \in 1..n - 1 + 1 /\ m \in 1..n - 1 + 1
    BY <1>1, <1>2, <1>4
  <2>2. SubSeq(SubSeq(q, 1, n), 1, m) = SubSeq(q, 1 + 1 - 1, 1 + m - 1)
    BY <1>1, <2>1, SubSeqOfSubSeq
  <2>3. m \in Int /\ 1 + m - 1 = m /\ 1 + 1 - 1 = 1
    BY <2>1
  <2> QED BY <2>2, <2>3 DEF Ancestor
<1> QED BY <1>1, <1>3, <1>4

\* Paths have a length.
LEMMA PathLength ==
    ASSUME NEW q \in Paths
    PROVE  Len(q) \in Nat /\ Len(q) >= 1
<1>1. q \in Seq(STRING) /\ q # <<>>
  BY TreeAssumption
<1> QED BY <1>1, LenProperties, EmptySeq

\* Whatever an ancestor of a reachable path is, it is reachable itself.
LEMMA ReachableAncestor ==
    ASSUME NEW q \in Paths, Reachable(q), NEW n \in 1..Len(q) - 1
    PROVE  Reachable(Ancestor(q, n)) /\ durable[Ancestor(q, n)] = Directory
<1>1. n \in 1..Len(q) - 1 /\ Len(q) \in Nat
  BY PathLength
<1>2. durable[Ancestor(q, n)] = Directory
  BY <1>1 DEF Reachable
<1>3. ASSUME NEW m \in 1..Len(Ancestor(q, n)) - 1
      PROVE  durable[Ancestor(Ancestor(q, n), m)] = Directory
  <2>1. m \in 1..n - 1 /\ m \in 1..Len(q) - 1
    BY <1>1, <1>3, AncestorFacts
  <2>2. Ancestor(Ancestor(q, n), m) = Ancestor(q, m)
    BY <2>1, AncestorFacts
  <2> QED BY <2>1, <2>2 DEF Reachable
<1> QED BY <1>2, <1>3, TreeAssumption DEF Reachable

\* While every entry on disk stays there, what is reachable stays so.
LEMMA KeptIsReachable ==
    ASSUME \A q \in Paths : durable[q] # None => durable'[q] = durable[q],
           NEW q \in Paths, Reachable(q)
    PROVE  Reachable(q)' /\ durable'[q] = durable[q]
<1>1. durable'[q] = durable[q] /\ durable[q] # None
  BY DEF Reachable
<1>2. ASSUME NEW n \in 1..Len(q) - 1
      PROVE  durable'[Ancestor(q, n)] = Directory
  <2>1. Ancestor(q, n) \in Paths
    BY AncestorFacts DEF Paths
  <2>2. durable[Ancestor(q, n)] = Directory
    BY DEF Reachable
  <2> QED BY <2>1, <2>2, TreeAssumption
<1> QED BY <1>1, <1>2 DEF Reachable, Ancestor

-----------------------------------------------------------------------------
\* A step that neither takes an entry away nor answers keeps what was said of
\* the disk and of the other calls, so that only p's own call is left to see.
LEMMA OthersKept ==
    ASSUME IInv, NEW p \in Processes,
           \A q \in Paths :
             /\ visible[q] # None => visible'[q] = visible[q]
             /\ durable'[q] \in {durable[q], visible[q]}
             /\ visible'[q] \in Entry(q),
           DOMAIN visible' = Paths, DOMAIN durable' = Paths,
           pc' = [pc EXCEPT ![p] = pc'[p]],
           call' = [call EXCEPT ![p] = call'[p]],
           pc'[p] \in {"idle", "mkdir", "sync_parent", "link", "sync_file",
                       "confirm_file"},
           call'[p] \in [file : Files, value : Values, level : Nat] \cup {None},
           pc'[p] # "idle" =>
             /\ call'[p] \in [file : Files, value : Values, level : Nat]
             /\ call'[p].level \in 1..Len(call'[p].file)
             /\ InChain(pc'[p]) => call'[p].level < Len(call'[p].file)
             /\ ~InChain(pc'[p]) => call'[p].level = Len(call'[p].file)
             /\ \A n \in 1..call'[p].level - 1 :
                  durable'[Ancestor(call'[p].file, n)] = Directory,
           pc'[p] = "sync_parent" =>
             visible'[Ancestor(call'[p].file, call'[p].level)] = Directory,
           pc'[p] = "sync_file" => visible'[call'[p].file] = call'[p].value,
           answered' \subseteq Files \X Values,
           \A a \in answered' \ answered :
             /\ durable'[a[1]] = a[2]
             /\ \A n \in 1..Len(a[1]) - 1 :
                  durable'[Ancestor(a[1], n)] = Directory
    PROVE  IInv' /\ \A q \in Paths : durable[q] # None => durable'[q] = durable[q]
<1>1. \A q \in Paths : durable[q] # None => durable'[q] = durable[q]
  BY DEF IInv, DurableIsVisible
<1>2. TypeOK'
  BY DEF IInv, TypeOK, Entry
<1>3. CallInv'
  BY DEF IInv, TypeOK, CallInv
<1>4. ChainInv'
  <2> SUFFICES ASSUME NEW r \in Processes, pc'[r] # "idle",
                      NEW n \in 1..call'[r].level - 1
               PROVE  durable'[Ancestor(call'[r].file, n)] = Directory
    BY DEF ChainInv, Ancestor
  <2>1. CASE r = p
    BY <2>1
  <2>2. CASE r # p
    <3>1. pc'[r] = pc[r] /\ call'[r] = call[r]
      BY <2>2 DEF IInv, TypeOK
    <3>2. durable[Ancestor(call[r].file, n)] = Directory
      BY <3>1 DEF IInv, ChainInv
    <3>3. call[r].file \in Paths /\ call[r].level \in 1..Len(call[r].file)
      BY <3>1 DEF IInv, CallInv, Paths
    <3>4. n \in 1..Len(call[r].file) - 1
      BY <3>1, <3>3, PathLength
    <3>5. Ancestor(call[r].file, n) \in Paths
      BY <3>3, <3>4, AncestorFacts DEF Paths
    <3> QED BY <1>1, <3>1, <3>2, <3>5, TreeAssumption
  <2> QED BY <2>1, <2>2
<1>5. SyncInv'
  <2> SUFFICES ASSUME NEW r \in Processes
               PROVE  /\ pc'[r] = "sync_parent" =>
                           visible'[Ancestor(call'[r].file, call'[r].level)] = Directory
                      /\ pc'[r] = "sync_file" =>
                           visible'[call'[r].file] = call'[r].value
    BY DEF SyncInv, At, Ancestor
  <2>1. CASE r = p
    BY <2>1
  <2>2. CASE r # p
    <3>1. pc'[r] = pc[r] /\ call'[r] = call[r]
      BY <2>2 DEF IInv, TypeOK
    <3>2. CASE pc[r] = "sync_parent"
      <4>1. /\ call[r].file \in Paths /\ call[r].level \in 1..Len(call[r].file)
            /\ call[r].level < Len(call[r].file)
        BY <3>2 DEF IInv, CallInv, Paths
      <4>2. call[r].level \in 1..Len(call[r].file) - 1
        BY <4>1, PathLength
      <4>3. Ancestor(call[r].file, call[r].level) \in Paths
        BY <4>1, <4>2, AncestorFacts DEF Paths
      <4>4. visible[Ancestor(call[r].file, call[r].level)] = Directory
        BY <3>2 DEF IInv, SyncInv, At
      <4> QED BY <3>1, <3>2, <4>3, <4>4, TreeAssumption
    <3>3. CASE pc[r] = "sync_file"
      <4>1. call[r].file \in Paths /\ call[r].value \in Values
        BY <3>3 DEF IInv, CallInv, Paths
      <4>2. visible[call[r].file] = call[r].value
        BY <3>3 DEF IInv, SyncInv
      <4> QED BY <3>1, <3>3, <4>1, <4>2, TreeAssumption
    <3> QED BY <3>1, <3>2, <3>3
  <2> QED BY <2>1, <2>2
<1>6. DurableIsVisible'
  BY DEF IInv, DurableIsVisible
<1>7. AnsweredIsReachable'
  <2> SUFFICES ASSUME NEW a \in answered'
               PROVE  Reachable(a[1])' /\ durable'[a[1]] = a[2]
    BY DEF AnsweredIsReachable
  <2>1. a[1] \in Files /\ a[2] \in Values /\ a[1] \in Paths /\ a[2] # None
    BY TreeAssumption DEF Paths
  <2>2. CASE a \in answered
    <3>1. Reachable(a[1]) /\ durable[a[1]] = a[2]
      BY <2>2 DEF IInv, AnsweredIsReachable
    <3> QED BY <1>1, <2>1, <3>1, KeptIsReachable
  <2>3. CASE a \notin answered
    BY <2>1, <2>3 DEF Reachable, Ancestor
  <2> QED BY <2>2, <2>3
<1> QED BY <1>1, <1>2, <1>3, <1>4, <1>5, <1>6, <1>7 DEF IInv


-----------------------------------------------------------------------------
\* fsync of a directory writes each of its entries as it is seen, and leaves
\* the other directories alone.
LEMMA SyncWrites ==
    ASSUME IInv, NEW d, SyncDirectory(d)
    PROVE  /\ DOMAIN durable' = Paths
           /\ \A q \in Paths : durable'[q] \in {durable[q], visible[q]}
           /\ \A q \in Paths : Parent(q) = d => durable'[q] = visible[q]
BY DEF SyncDirectory

\* The invariant holds of a tree that somebody else may have begun.
LEMMA InitInvariant == Init => IInv
<1> SUFFICES ASSUME Init PROVE IInv
  OBVIOUS
<1>1. TypeOK
  BY TreeAssumption DEF Init, TypeOK, Entry
<1> QED BY <1>1 DEF Init, IInv, CallInv, ChainInv, SyncInv, DurableIsVisible,
                    AnsweredIsReachable

\* Every step of a call keeps the invariant, and everything on disk.
LEMMA ProcessKeeps ==
    ASSUME IInv, NEW p \in Processes, Step(p)
    PROVE  IInv' /\ \A q \in Paths : durable[q] # None => durable'[q] = durable[q]
<1> DEFINE f == call[p].file
           n == call[p].level
           Calls == [file : Files, value : Values, level : Nat]
<1>t. /\ TypeOK /\ DOMAIN visible = Paths /\ DOMAIN durable = Paths
      /\ \A q \in Paths : visible[q] \in Entry(q)
  BY DEF IInv, TypeOK
<1>c. ASSUME pc[p] # "idle"
      PROVE  /\ call[p] \in Calls /\ f \in Files /\ f \in Paths
             /\ Len(f) \in Nat /\ n \in 1..Len(f)
             /\ (InChain(pc[p]) => n < Len(f)) /\ (~InChain(pc[p]) => n = Len(f))
             /\ \A m \in 1..n - 1 : durable[Ancestor(f, m)] = Directory
  BY <1>c, PathLength DEF IInv, CallInv, ChainInv, Paths
<1>a. ASSUME pc[p] \in {"mkdir", "sync_parent"}
      PROVE  At(p) \in Directories /\ At(p) \in Paths /\ At(p) = Ancestor(f, n)
  <2>1. n \in 1..Len(f) - 1
    BY <1>a, <1>c
  <2> QED BY <1>a, <1>c, <2>1, AncestorFacts DEF At, Paths
<1>d. ASSUME pc[p] # "idle",
             durable' = durable \/ \E d : SyncDirectory(d)
      PROVE  \A m \in 1..n - 1 : durable'[Ancestor(f, m)] = Directory
  <2> SUFFICES ASSUME NEW m \in 1..n - 1
               PROVE  durable'[Ancestor(f, m)] = Directory
    OBVIOUS
  <2>1. m \in 1..Len(f) - 1 /\ durable[Ancestor(f, m)] = Directory
    BY <1>d, <1>c
  <2>2. Ancestor(f, m) \in Paths
    BY <1>d, <1>c, <2>1, AncestorFacts DEF Paths
  <2>3. visible[Ancestor(f, m)] = Directory
    BY <2>1, <2>2, TreeAssumption DEF IInv, DurableIsVisible
  <2> QED BY <1>d, <2>1, <2>2, <2>3 DEF SyncDirectory
<1>1. ASSUME NEW g \in Files, NEW v \in Values, AtomicWriteOnceBytes(p, g, v)
      PROVE  IInv' /\ \A q \in Paths : durable[q] # None => durable'[q] = durable[q]
  <2>1. g \in Paths /\ Len(g) \in Nat /\ Len(g) >= 1
    BY PathLength DEF Paths
  <2>2. call'[p] = [file |-> g, value |-> v, level |-> 1]
    BY <1>1, <1>t DEF AtomicWriteOnceBytes, TypeOK
  <2>3. pc'[p] = IF Len(g) > 1 THEN "mkdir" ELSE "link"
    BY <1>1, <1>t DEF AtomicWriteOnceBytes, Goto, TypeOK
  <2>4. /\ pc' = [pc EXCEPT ![p] = pc'[p]] /\ call' = [call EXCEPT ![p] = call'[p]]
        /\ UNCHANGED <<visible, durable, answered>>
    BY <1>1, <2>2, <2>3 DEF AtomicWriteOnceBytes, Goto
  <2>5. /\ call'[p] \in Calls /\ call'[p].file = g /\ call'[p].level = 1
        /\ call'[p].level \in 1..Len(g) /\ 1..call'[p].level - 1 = {}
    BY <2>1, <2>2
  <2>6. (InChain(pc'[p]) => 1 < Len(g)) /\ (~InChain(pc'[p]) => 1 = Len(g))
    <3>1. CASE Len(g) > 1
      <4>1. pc'[p] = "mkdir"
        BY <2>3, <3>1
      <4> QED BY <3>1, <4>1
    <3>2. CASE Len(g) = 1
      <4>1. pc'[p] = "link"
        BY <2>3, <3>2
      <4> QED BY <3>2, <4>1
    <3>3. \A k \in Nat : k >= 1 => k = 1 \/ k > 1
      OBVIOUS
    <3> QED BY <2>1, <3>1, <3>2, <3>3
  <2>7. pc'[p] \in {"mkdir", "link"}
    BY <2>3
  <2>8. /\ call'[p].level \in 1..Len(call'[p].file)
        /\ InChain(pc'[p]) => call'[p].level < Len(call'[p].file)
        /\ ~InChain(pc'[p]) => call'[p].level = Len(call'[p].file)
        /\ \A m \in 1..call'[p].level - 1 :
             durable'[Ancestor(call'[p].file, m)] = Directory
    BY <2>5, <2>6
  <2> QED BY <1>t, <2>4, <2>5, <2>7, <2>8, OthersKept DEF TypeOK
<1>2. CASE Mkdir(p)
  <2>1. pc[p] = "mkdir" /\ pc'[p] = "sync_parent" /\ UNCHANGED <<durable, call, answered>>
    BY <1>2, <1>t DEF Mkdir, Goto, TypeOK
  <2>2. /\ DOMAIN visible' = Paths /\ visible'[Ancestor(f, n)] = Directory
        /\ \A q \in Paths :
             /\ visible[q] # None => visible'[q] = visible[q]
             /\ visible'[q] \in Entry(q)
    <3>1. visible' = [visible EXCEPT ![At(p)] = Directory] /\ visible[At(p)] = None
      BY <1>2 DEF Mkdir
    <3>2. Directory \in Entry(At(p))
      BY <1>a, <2>1, TreeAssumption DEF Entry
    <3> QED BY <1>a, <1>t, <2>1, <3>1, <3>2
  <2> QED BY <1>2, <1>t, <1>c, <1>d, <2>1, <2>2, OthersKept DEF Mkdir, Goto, TypeOK
<1>3. CASE FindDirectory(p)
  <2>1. /\ pc[p] = "mkdir" /\ pc'[p] = "sync_parent"
        /\ UNCHANGED <<visible, durable, call, answered>>
        /\ visible[Ancestor(f, n)] = Directory
    BY <1>3, <1>t DEF FindDirectory, Goto, TypeOK, At
  <2> QED BY <1>3, <1>t, <1>c, <1>d, <2>1, OthersKept DEF FindDirectory, Goto, TypeOK
<1>4. CASE RaiseNotADirectory(p) \/ Crash(p)
  <2>1. Return(p) /\ UNCHANGED <<visible, durable, answered>>
    BY <1>4 DEF RaiseNotADirectory, Crash
  <2>2. pc'[p] = "idle" /\ call'[p] = None
    BY <2>1, <1>t DEF Return, Goto, TypeOK
  <2> QED BY <1>t, <2>1, <2>2, OthersKept DEF Return, Goto, TypeOK
<1>5. CASE SyncParent(p)
  <2>1. /\ pc[p] = "sync_parent" /\ SyncDirectory(Parent(At(p)))
        /\ Descend(p) /\ UNCHANGED <<visible, answered>>
    BY <1>5 DEF SyncParent
  <2>2. durable'[Ancestor(f, n)] = Directory
    BY <1>a, <2>1, SyncWrites DEF IInv, SyncInv
  <2>3. /\ call'[p] \in Calls /\ call'[p].file = f /\ call'[p].value = call[p].value
        /\ call'[p].level = n + 1
    BY <1>c, <1>t, <2>1 DEF Descend, TypeOK
  <2>4. pc'[p] = IF n + 1 < Len(f) THEN "mkdir" ELSE "link"
    BY <1>t, <2>1 DEF Descend, Goto, TypeOK
  <2>5. \A m \in 1..n : durable'[Ancestor(f, m)] = Directory
    BY <1>c, <1>d, <2>1, <2>2
  <2>6. n + 1 \in 1..Len(f) /\ n + 1 - 1 = n
    BY <1>c, <2>1
  <2>7. /\ pc' = [pc EXCEPT ![p] = pc'[p]] /\ call' = [call EXCEPT ![p] = call'[p]]
        /\ UNCHANGED <<visible, answered>>
    BY <2>1, <2>3, <2>4 DEF Descend, Goto
  <2>8. (InChain(pc'[p]) => n + 1 < Len(f)) /\ (~InChain(pc'[p]) => n + 1 = Len(f))
    BY <1>c, <2>1, <2>4
  <2>9. pc'[p] \in {"mkdir", "link"}
    BY <2>4
  <2>10. DOMAIN durable' = Paths /\ \A q \in Paths : durable'[q] \in {durable[q], visible[q]}
    BY <2>1, SyncWrites
  <2>11. /\ call'[p] \in Calls /\ call'[p].level \in 1..Len(call'[p].file)
         /\ InChain(pc'[p]) => call'[p].level < Len(call'[p].file)
         /\ ~InChain(pc'[p]) => call'[p].level = Len(call'[p].file)
         /\ \A m \in 1..call'[p].level - 1 :
              durable'[Ancestor(call'[p].file, m)] = Directory
    <3>1. call'[p] \in Calls /\ call'[p].level \in 1..Len(call'[p].file)
      BY <2>3, <2>6
    <3>2. /\ InChain(pc'[p]) => call'[p].level < Len(call'[p].file)
          /\ ~InChain(pc'[p]) => call'[p].level = Len(call'[p].file)
      BY <2>3, <2>8
    <3>3. call'[p].level - 1 = n
      <4>1. call'[p].level = n + 1
        BY <2>3
      <4>2. n \in Int
        BY <1>c, <2>1
      <4> QED BY <4>1, <4>2
    <3>4. \A m \in 1..call'[p].level - 1 :
             durable'[Ancestor(call'[p].file, m)] = Directory
      <4> SUFFICES ASSUME NEW m \in 1..call'[p].level - 1
                   PROVE  durable'[Ancestor(call'[p].file, m)] = Directory
        OBVIOUS
      <4>1. m \in 1..n
        BY <3>3
      <4> QED BY <2>3, <2>5, <4>1
    <3> QED BY <3>1, <3>2, <3>4
  <2> QED BY <1>t, <2>7, <2>9, <2>10, <2>11, OthersKept DEF TypeOK
<1>6. CASE Link(p)
  <2>1. pc[p] = "link" /\ pc'[p] = "sync_file" /\ UNCHANGED <<durable, call, answered>>
    BY <1>6, <1>t DEF Link, Goto, TypeOK
  <2>2. /\ DOMAIN visible' = Paths /\ visible'[f] = call[p].value
        /\ \A q \in Paths :
             /\ visible[q] # None => visible'[q] = visible[q]
             /\ visible'[q] \in Entry(q)
    <3>1. visible' = [visible EXCEPT ![f] = call[p].value] /\ visible[f] = None
      BY <1>6 DEF Link
    <3>2. f \in Paths /\ call[p].value \in Entry(f)
      BY <1>c, <2>1 DEF Entry
    <3> QED BY <1>t, <3>1, <3>2
  <2>3. pc' = [pc EXCEPT ![p] = pc'[p]] /\ call' = [call EXCEPT ![p] = call'[p]]
    <3>1. pc' = [pc EXCEPT ![p] = "sync_file"] /\ call' = call
      BY <1>6 DEF Link, Goto
    <3>2. call = [call EXCEPT ![p] = call[p]]
      BY <1>t DEF TypeOK
    <3> QED BY <2>1, <3>1, <3>2
  <2>4. /\ call'[p] = call[p] /\ call[p] \in Calls /\ n \in 1..Len(f) /\ n = Len(f)
        /\ \A m \in 1..n - 1 : durable'[Ancestor(f, m)] = Directory
    BY <1>c, <1>d, <2>1
  <2> QED BY <1>t, <2>1, <2>2, <2>3, <2>4, OthersKept DEF TypeOK
<1>7. CASE LinkExists(p)
  <2>1. /\ pc[p] = "link" /\ pc'[p] = "confirm_file"
        /\ UNCHANGED <<visible, durable, call, answered>>
    BY <1>7, <1>t DEF LinkExists, Goto, TypeOK
  <2> QED BY <1>7, <1>t, <1>c, <1>d, <2>1, OthersKept DEF LinkExists, Goto, TypeOK
<1>8. CASE SyncFile(p) \/ ConfirmSame(p)
  <2>1. /\ pc[p] \in {"sync_file", "confirm_file"} /\ Answer(p)
        /\ SyncDirectory(Parent(f)) /\ UNCHANGED visible
        /\ visible[f] = call[p].value
    BY <1>8 DEF SyncFile, ConfirmSame, IInv, SyncInv
  <2>2. durable'[f] = call[p].value
    BY <1>c, <2>1, SyncWrites
  <2>3. \A m \in 1..Len(f) - 1 : durable'[Ancestor(f, m)] = Directory
    BY <1>c, <1>d, <2>1
  <2>4. pc'[p] = "idle" /\ call'[p] = None
    BY <1>t, <2>1 DEF Answer, Return, Goto, TypeOK
  <2>5. /\ answered' \subseteq Files \X Values
        /\ \A a \in answered' \ answered : a = <<f, call[p].value>>
    BY <1>c, <1>t, <2>1 DEF Answer, TypeOK
  <2>6. \A a \in answered' \ answered :
          /\ durable'[a[1]] = a[2]
          /\ \A m \in 1..Len(a[1]) - 1 : durable'[Ancestor(a[1], m)] = Directory
    BY <2>2, <2>3, <2>5
  <2>7. /\ pc' = [pc EXCEPT ![p] = pc'[p]] /\ call' = [call EXCEPT ![p] = call'[p]]
    BY <2>1, <2>4 DEF Answer, Return, Goto
  <2>8. DOMAIN durable' = Paths /\ \A q \in Paths : durable'[q] \in {durable[q], visible[q]}
    BY <2>1, SyncWrites
  <2> QED BY <1>t, <2>1, <2>4, <2>5, <2>6, <2>7, <2>8, OthersKept DEF TypeOK
<1>9. CASE RaiseConflict(p)
  <2>1. Return(p) /\ SyncDirectory(Parent(f)) /\ UNCHANGED <<visible, answered>>
    BY <1>9 DEF RaiseConflict
  <2>2. pc'[p] = "idle" /\ call'[p] = None
    BY <2>1, <1>t DEF Return, Goto, TypeOK
  <2> QED BY <1>t, <2>1, <2>2, SyncWrites, OthersKept DEF Return, Goto, TypeOK
<1> QED BY <1>1, <1>2, <1>3, <1>4, <1>5, <1>6, <1>7, <1>8, <1>9 DEF Step

\* So does the kernel's writeback.
LEMMA KernelKeeps ==
    ASSUME IInv, NEW r \in Paths, Writeback(r)
    PROVE  IInv' /\ \A q \in Paths : durable[q] # None => durable'[q] = durable[q]
<1>t. TypeOK /\ DOMAIN durable = Paths
  BY DEF IInv, TypeOK
<1>1. /\ UNCHANGED <<visible, pc, call, answered>> /\ DOMAIN durable' = Paths
      /\ \A q \in Paths : durable'[q] \in {durable[q], visible[q]}
  BY <1>t DEF Writeback
<1>2. \A q \in Paths : durable[q] # None => durable'[q] = durable[q]
  BY <1>1 DEF IInv, DurableIsVisible
<1>3. TypeOK'
  BY <1>1 DEF IInv, TypeOK, Entry
<1>4. CallInv' /\ SyncInv' /\ DurableIsVisible'
  BY <1>1 DEF IInv, CallInv, SyncInv, At, Ancestor, DurableIsVisible
<1>5. ChainInv'
  <2> SUFFICES ASSUME NEW p \in Processes, pc[p] # "idle",
                      NEW n \in 1..call[p].level - 1
               PROVE  durable'[Ancestor(call[p].file, n)] = Directory
    BY <1>1 DEF ChainInv, Ancestor
  <2>1. /\ call[p].file \in Paths /\ call[p].level \in 1..Len(call[p].file)
        /\ durable[Ancestor(call[p].file, n)] = Directory
    BY DEF IInv, CallInv, ChainInv, Paths
  <2>2. n \in 1..Len(call[p].file) - 1
    BY <2>1, PathLength
  <2>3. Ancestor(call[p].file, n) \in Paths
    BY <2>1, <2>2, AncestorFacts DEF Paths
  <2> QED BY <1>2, <2>1, <2>3, TreeAssumption
<1>6. AnsweredIsReachable'
  <2> SUFFICES ASSUME NEW a \in answered
               PROVE  Reachable(a[1])' /\ durable'[a[1]] = a[2]
    BY <1>1 DEF AnsweredIsReachable
  <2>1. a[1] \in Paths /\ Reachable(a[1]) /\ durable[a[1]] = a[2]
    BY <1>t DEF IInv, TypeOK, AnsweredIsReachable, Paths
  <2> QED BY <1>2, <2>1, KeptIsReachable
<1> QED BY <1>2, <1>3, <1>4, <1>5, <1>6 DEF IInv

\* A power loss keeps every path that is on disk with all its ancestors.
LEMMA PowerLossKeeps ==
    ASSUME IInv, PowerLoss
    PROVE  IInv' /\ \A q \in Paths :
                      Reachable(q) => Reachable(q)' /\ durable'[q] = durable[q]
<1>t. TypeOK
  BY DEF IInv
<1>1. /\ \A q \in Paths :
           visible'[q] = IF Reachable(q) THEN durable[q] ELSE None
      /\ DOMAIN visible' = Paths /\ durable' = visible'
      /\ pc' = [p \in Processes |-> "idle"] /\ call' = [p \in Processes |-> None]
      /\ answered' = answered
  BY DEF PowerLoss
<1>2. ASSUME NEW q \in Paths, Reachable(q)
      PROVE  Reachable(q)' /\ durable'[q] = durable[q]
  <2>1. durable'[q] = durable[q] /\ durable[q] # None
    BY <1>1, <1>2 DEF Reachable
  <2>2. ASSUME NEW n \in 1..Len(q) - 1
        PROVE  durable'[Ancestor(q, n)] = Directory
    <3>1. Ancestor(q, n) \in Paths
      BY AncestorFacts DEF Paths
    <3>2. Reachable(Ancestor(q, n)) /\ durable[Ancestor(q, n)] = Directory
      BY <1>2, ReachableAncestor
    <3> QED BY <1>1, <3>1, <3>2
  <2> QED BY <2>1, <2>2 DEF Reachable, Ancestor
<1>3. TypeOK'
  BY <1>1, <1>t DEF TypeOK, Entry
<1>4. CallInv' /\ ChainInv' /\ SyncInv' /\ DurableIsVisible'
  BY <1>1 DEF CallInv, ChainInv, SyncInv, DurableIsVisible
<1>5. AnsweredIsReachable'
  <2> SUFFICES ASSUME NEW a \in answered
               PROVE  Reachable(a[1])' /\ durable'[a[1]] = a[2]
    BY <1>1 DEF AnsweredIsReachable
  <2>1. a[1] \in Paths /\ Reachable(a[1]) /\ durable[a[1]] = a[2]
    BY <1>t DEF IInv, TypeOK, AnsweredIsReachable, Paths
  <2> QED BY <1>2, <2>1
<1> QED BY <1>2, <1>3, <1>4, <1>5 DEF IInv

\* No step of the system breaks the invariant, or takes what is on disk with
\* all its ancestors.
LEMMA StepKeeps ==
    ASSUME IInv, [Next]_vars
    PROVE  IInv' /\ \A q \in Paths :
                      Reachable(q) => Reachable(q)' /\ durable'[q] = durable[q]
<1> DEFINE Kept == \A q \in Paths : Reachable(q) =>
                     Reachable(q)' /\ durable'[q] = durable[q]
<1>1. ASSUME \A q \in Paths : durable[q] # None => durable'[q] = durable[q]
      PROVE  Kept
  BY <1>1, KeptIsReachable
<1>2. ASSUME NEW p \in Processes, Step(p) PROVE IInv' /\ Kept
  BY <1>1, <1>2, ProcessKeeps
<1>3. ASSUME NEW r \in Paths, Writeback(r) PROVE IInv' /\ Kept
  BY <1>1, <1>3, KernelKeeps
<1>4. CASE PowerLoss
  BY <1>4, PowerLossKeeps
<1>5. CASE UNCHANGED vars
  BY <1>5 DEF vars, IInv, TypeOK, CallInv, ChainInv, SyncInv, At,
              DurableIsVisible, AnsweredIsReachable, Reachable
<1> QED BY <1>2, <1>3, <1>4, <1>5 DEF Next

LEMMA Invariant == Spec => []IInv
<1>1. IInv /\ [Next]_vars => IInv'
  BY StepKeeps
<1> QED BY <1>1, InitInvariant, PTL DEF Spec

-----------------------------------------------------------------------------
\* Entries and calls have their types (TypeOK), for any tree.
THEOREM TypeCorrect == Spec => []TypeOK
<1>1. IInv => TypeOK
  BY DEF IInv
<1> QED BY <1>1, Invariant, PTL

\* What atomic_write_once_bytes returned for is on disk with its whole chain
\* of directories (AnsweredIsReachable), for any tree and any races.
THEOREM AnswersAreReachable == Spec => []AnsweredIsReachable
<1>1. IInv => AnsweredIsReachable
  BY DEF IInv
<1> QED BY <1>1, Invariant, PTL

\* The files of the tree, as a reader finds them after a power loss, are
\* write-once registers (ImplementsWriteOnce).
THEOREM Refinement == Spec => ImplementsWriteOnce
<1> DEFINE register == [f \in Files |-> Published(f)]
<1>1. Init => Register!Init
  BY TreeAssumption DEF Init, Register!Init, Published, Reachable, Paths
<1>2. IInv /\ IInv' /\ [Next]_vars => [Register!Next]_<<register, answered>>
  <2> SUFFICES ASSUME IInv, IInv', [Next]_vars PROVE Register!Next
    BY DEF Register!Next
  <2>1. \A q \in Paths : Reachable(q) => Reachable(q)' /\ durable'[q] = durable[q]
    BY StepKeeps
  <2>2. \A f \in Files : Published(f) # None => Published(f)' = Published(f)
    BY <2>1 DEF Published, Paths
  <2>3. \A f \in Files : Published(f)' \in Values \cup {None}
    BY DEF IInv, TypeOK, Entry, Published, Paths
  <2>4. Register!Publish
    BY <2>2, <2>3 DEF Register!Publish
  <2>5. answered \subseteq answered'
    <3>1. ASSUME NEW p \in Processes, Step(p) PROVE answered \subseteq answered'
      BY <3>1 DEF Step, AtomicWriteOnceBytes, Mkdir, FindDirectory,
                  RaiseNotADirectory, SyncParent, Link, LinkExists, SyncFile,
                  ConfirmSame, RaiseConflict, Crash, Answer
    <3> QED BY <3>1 DEF Next, Writeback, PowerLoss, vars
  <2>6. answered' \subseteq Files \X Values
    BY DEF IInv, TypeOK
  <2>7. \A a \in answered' : a[1] \in Files /\ register'[a[1]] = a[2]
    BY <2>6 DEF IInv, AnsweredIsReachable, Published
  <2>8. Register!Tell
    BY <2>5, <2>6, <2>7 DEF Register!Tell
  <2> QED BY <2>4, <2>8 DEF Register!Next
<1> QED BY <1>1, <1>2, Invariant, PTL DEF Spec, ImplementsWriteOnce, Register!Spec

=============================================================================
