-------------------------- MODULE EvidenceStoreProofs --------------------------
(***************************************************************************)
(* Proofs about EvidenceStore: its types, that a pack a client was told of   *)
(* is kept until its retention is over, and that a readable pack has its    *)
(* blob, for any number of calls, retention runs, blobs and crashes.        *)
(***************************************************************************)
EXTENDS EvidenceStore, TLAPS

\* What an artifact and a pack are made of.
LEMMA Parts ==
    /\ \A a \in Artifacts : BlobOf(a) \in Blobs
    /\ \A p \in Packs : Ingestion(p) \in Artifacts /\ CreatedAt(p) \in Time
    /\ \A b \in Blobs, t \in Time : <<b, t>> \in Artifacts /\ BlobOf(<<b, t>>) = b
    /\ \A a \in Artifacts, t \in Time :
          <<a, t>> \in Packs /\ Ingestion(<<a, t>>) = a /\ CreatedAt(<<a, t>>) = t
    /\ None \notin Artifacts /\ None \notin Packs
  BY StoreAssumption DEF Artifacts, Packs, BlobOf, Ingestion, CreatedAt, Time

-----------------------------------------------------------------------------
(* Types.  A call that is under way has an artifact, and from the choice of *)
(* a pack on a pack of that artifact.                                       *)

HasPack == {"openPack", "writePack", "remember", "insert"}

Shape ==
    \A c \in Calls :
        /\ pc[c] \in Underway => art[c] \in Artifacts
        /\ pc[c] \in HasPack => mine[c] \in Packs /\ Ingestion(mine[c]) = art[c]

\* The conjuncts of TypeOK, in groups that the actions change together.
FileTypes ==
    blob \in [Blobs -> File] /\ mtime \in [Blobs -> Time] /\ pack \in [Packs -> File]
CacheTypes ==
    /\ artifact \in Artifacts \union {None} /\ decoded \subseteq Blobs
    /\ screened \in [Artifacts -> Packs \union {None}]
    /\ \A a \in Artifacts : screened[a] # None => Ingestion(screened[a]) = a
CallTypes ==
    /\ pc \in [Calls -> Underway \union {"ready", "done", "failed"}]
    /\ art \in [Calls -> Artifacts \union {None}] /\ mine \in [Calls -> Packs \union {None}]
GcTypes ==
    /\ gc \in [Collectors -> {"idle", "packs", "scan", "sweep"}]
    /\ cutoff \in [Collectors -> Int] /\ \A g \in Collectors : cutoff[g] <= MaxTime + 1
    /\ shortest \in {Retention} \union Overrides
    /\ refs \in [Collectors -> SUBSET Blobs]
HistoryTypes ==
    /\ issued \subseteq Packs /\ crashes \in 0 .. MaxCrashes
    /\ torn \subseteq Blobs \union Packs /\ late \subseteq Packs

TypeInv ==
    clock \in Time /\ FileTypes /\ CacheTypes /\ CallTypes /\ GcTypes /\ HistoryTypes /\ Shape

LEMMA TypeInvOK == TypeInv => TypeOK
  BY DEF TypeInv, TypeOK, FileTypes, CacheTypes, CallTypes, GcTypes, HistoryTypes

LEMMA TypeInit == Init => TypeInv
<1>. SUFFICES ASSUME Init PROVE TypeInv
  OBVIOUS
<1>1. clock \in Time /\ FileTypes /\ GcTypes
  BY StoreAssumption DEF Init, FileTypes, GcTypes, File, Time
<1>2. CacheTypes /\ CallTypes /\ HistoryTypes
  BY StoreAssumption, Parts DEF Init, CacheTypes, CallTypes, HistoryTypes
<1>3. Shape
  BY DEF Init, Shape, Underway, HasPack
<1>. QED  BY <1>1, <1>2, <1>3 DEF TypeInv

\* A step of call c to l changes no other call.
LEMMA CallFrame ==
    ASSUME TypeInv, NEW c \in Calls, NEW l \in Underway \union {"ready", "done", "failed"},
           Goto(c, l),
           NEW a \in Artifacts \union {None}, art' = [art EXCEPT ![c] = a],
           NEW m \in Packs \union {None}, mine' = [mine EXCEPT ![c] = m],
           l \in Underway => a \in Artifacts,
           l \in HasPack => m \in Packs /\ Ingestion(m) = a
    PROVE  CallTypes' /\ Shape'
  BY DEF TypeInv, CallTypes, Shape, Goto

LEMMA TypeCall ==
    ASSUME TypeInv, NEW c \in Calls, CallStep(c)
    PROVE  TypeInv'
<1>. USE DEF CallUnchanged, gcVars, files, caches, CallTypes, Shape
<1>0. c \in Calls /\ art[c] \in Artifacts \union {None} /\ mine[c] \in Packs \union {None}
  BY DEF TypeInv
<1>1. CASE Begin(c)
  <2>1. PICK a \in Artifacts, l \in {"sets", "checkBlob"} :
            Goto(c, l) /\ art' = [art EXCEPT ![c] = a]
    <3>1. 0 .. clock \subseteq Time
      BY StoreAssumption DEF TypeInv, Time
    <3>. QED  BY <1>1, <3>1, Parts DEF Begin, TypeInv, CacheTypes
  <2>2. CallTypes' /\ Shape'
    <3>1. mine' = [mine EXCEPT ![c] = mine[c]]
      BY <1>1 DEF Begin, TypeInv
    <3>. QED  BY <1>0, <2>1, <3>1, CallFrame DEF Underway, HasPack
  <2>. QED  BY <1>1, <2>2 DEF Begin, TypeInv, FileTypes, CacheTypes, GcTypes, HistoryTypes
<1>2. CASE CheckBlob(c) \/ OpenBlob(c) \/ WriteBlob(c) \/ Put(c)
  <2>1. art[c] \in Artifacts /\ BlobOf(art[c]) \in Blobs
    BY <1>2, Parts DEF TypeInv, CheckBlob, OpenBlob, WriteBlob, Put, Underway
  <2>2. PICK l \in {"openBlob", "put", "writeBlob", "sets"} : Goto(c, l)
    BY <1>2 DEF CheckBlob, OpenBlob, WriteBlob, Put
  <2>3. UNCHANGED <<clock, pack, art, mine, decoded, screened, gc, cutoff, refs, shortest, crashes,
                    torn, issued, late>>
    BY <1>2 DEF CheckBlob, OpenBlob, WriteBlob, Put
  <2>4. CallTypes' /\ Shape'
    BY <1>0, <2>1, <2>2, <2>3, CallFrame DEF TypeInv, Underway, HasPack
  <2>5. FileTypes'
    BY <1>2, <2>1, <2>3 DEF TypeInv, CheckBlob, OpenBlob, WriteBlob, Put, FileTypes, File
  <2>6. artifact' \in Artifacts \union {None}
    BY <1>2, <2>1 DEF TypeInv, CheckBlob, OpenBlob, WriteBlob, Put, CacheTypes
  <2>. QED  BY <2>3, <2>4, <2>5, <2>6 DEF TypeInv, CacheTypes, GcTypes, HistoryTypes
<1>3. CASE Sets(c)
  <2>1. art[c] \in Artifacts /\ BlobOf(art[c]) \in Blobs
    BY <1>3, Parts DEF TypeInv, Sets, Underway
  <2>2. CallTypes' /\ Shape'
    <3>1. CASE Goto(c, "choose") /\ UNCHANGED <<art, mine>>
      BY <1>0, <2>1, <3>1, CallFrame DEF TypeInv, Underway, HasPack
    <3>2. CASE Return(c, "failed")
      <4>1. PICK l \in {"done", "failed"} : Return(c, l)
        BY <3>2
      <4>. QED  BY <1>0, <4>1, CallFrame DEF Return, Underway, HasPack
    <3>. QED  BY <1>3, <3>1, <3>2 DEF Sets
  <2>. QED  BY <1>3, <2>1, <2>2 DEF Sets, TypeInv, FileTypes, CacheTypes, GcTypes, HistoryTypes
<1>4. CASE Choose(c)
  <2>1. art[c] \in Artifacts /\ clock \in Time
    BY <1>4 DEF TypeInv, Choose, Underway
  <2>2. PICK m \in Packs, l \in {"insert", "openPack", "remember"} :
            Goto(c, l) /\ mine' = [mine EXCEPT ![c] = m] /\ Ingestion(m) = art[c]
    <3>1. CASE screened[art[c]] # None /\ pack[screened[art[c]]] # "none"
      BY <1>4, <2>1, <3>1, Parts DEF Choose, TypeInv, CacheTypes
    <3>2. CASE ~(screened[art[c]] # None /\ pack[screened[art[c]]] # "none")
      BY <1>4, <2>1, <3>2, Parts DEF Choose
    <3>. QED  BY <3>1, <3>2
  <2>3. CallTypes' /\ Shape'
    <3>1. art' = [art EXCEPT ![c] = art[c]]
      BY <1>4 DEF Choose, TypeInv
    <3>. QED  BY <1>0, <2>1, <2>2, <3>1, CallFrame DEF Underway, HasPack
  <2>. QED  BY <1>4, <2>3 DEF Choose, TypeInv, FileTypes, CacheTypes, GcTypes, HistoryTypes
<1>5. CASE OpenPack(c) \/ WritePack(c) \/ Remember(c)
  <2>1. art[c] \in Artifacts /\ mine[c] \in Packs /\ Ingestion(mine[c]) = art[c]
    BY <1>5 DEF TypeInv, OpenPack, WritePack, Remember, Underway, HasPack
  <2>2. PICK l \in {"writePack", "remember", "insert"} : Goto(c, l)
    BY <1>5 DEF OpenPack, WritePack, Remember
  <2>3. UNCHANGED <<clock, blob, mtime, art, mine, artifact, decoded, gc, cutoff, refs, shortest,
                    crashes, torn, issued>>
    BY <1>5 DEF OpenPack, WritePack, Remember
  <2>4. CallTypes' /\ Shape'
    BY <1>0, <2>1, <2>2, <2>3, CallFrame DEF TypeInv, Underway, HasPack
  <2>5. FileTypes' /\ late' \subseteq Packs
    BY <1>5, <2>1, <2>3 DEF TypeInv, OpenPack, WritePack, Remember, FileTypes, File, HistoryTypes
  <2>6. CacheTypes'
    BY <1>5, <2>1, <2>3 DEF TypeInv, OpenPack, WritePack, Remember, CacheTypes
  <2>. QED  BY <2>3, <2>4, <2>5, <2>6 DEF TypeInv, GcTypes, HistoryTypes
<1>6. CASE Insert(c) \/ WriteFails(c)
  <2>1. art[c] \in Artifacts /\ (pc[c] # "writeBlob" => mine[c] \in Packs)
    BY <1>6 DEF TypeInv, Insert, WriteFails, Underway, HasPack
  <2>2. CallTypes' /\ Shape'
    <3>1. PICK l \in {"done", "failed"} : Return(c, l)
      BY <1>6 DEF Insert, WriteFails
    <3>. QED  BY <1>0, <3>1, CallFrame DEF Return, Underway, HasPack
  <2>3. HistoryTypes'
    BY <1>6, <2>1, Parts, StoreAssumption DEF TypeInv, Insert, WriteFails, HistoryTypes
  <2>. QED  BY <1>6, <2>2, <2>3 DEF Insert, WriteFails, TypeInv, FileTypes, CacheTypes, GcTypes
<1>. QED  BY <1>1, <1>2, <1>3, <1>4, <1>5, <1>6 DEF CallStep

\* A collector sends a writer on to the point its write leads to.
LEMMA TypeWriteOn ==
    ASSUME TypeInv, NEW B, NEW P, WriteOn(B, P), UNCHANGED <<art, mine>>
    PROVE  CallTypes' /\ Shape'
<1>1. ASSUME NEW c \in Calls
      PROVE  /\ pc'[c] \in Underway \union {"ready", "done", "failed"}
             /\ pc'[c] \in Underway => pc[c] \in Underway
             /\ pc'[c] \in HasPack => pc[c] \in HasPack
  BY DEF WriteOn, TypeInv, CallTypes, Underway, HasPack
<1>2. CallTypes'
  BY <1>1 DEF WriteOn, TypeInv, CallTypes
<1>. QED  BY <1>1, <1>2 DEF TypeInv, Shape

LEMMA TypeGc ==
    ASSUME TypeInv, NEW g \in Collectors, GcStep(g)
    PROVE  TypeInv'
<1>. USE DEF GcUnchanged, caches, historyVars
<1>0. /\ UNCHANGED <<clock, mtime, artifact, decoded, screened, art, mine, issued, crashes, torn,
                     late>>
      /\ blob' = blob \/ \E b : WriteOn(b, {})
  BY DEF GcStep, StartGc, DeletePacks, Scan, Sweep
<1>1. CacheTypes' /\ HistoryTypes' /\ clock' \in Time
  BY <1>0 DEF TypeInv, CacheTypes, HistoryTypes
<1>2. CallTypes' /\ Shape'
  <2>1. CASE UNCHANGED pc
    BY <1>0, <2>1 DEF TypeInv, CallTypes, Shape
  <2>2. CASE \E B, P : WriteOn(B, P)
    BY <1>0, <2>2, TypeWriteOn
  <2>. QED  BY <2>1, <2>2 DEF GcStep, StartGc, DeletePacks, Scan, Sweep
<1>3. FileTypes'
  BY <1>0 DEF GcStep, StartGc, DeletePacks, Scan, Sweep, TypeInv, FileTypes, File
<1>4. GcTypes'
  <2>1. /\ \A days \in {Retention} \union Overrides :
                clock - days + 1 \in Int /\ clock - days + 1 <= MaxTime + 1
        /\ 0 \in Int /\ 0 <= MaxTime + 1
    BY StoreAssumption DEF TypeInv, Time
  <2>2. \A p \in Packs : BlobOf(Ingestion(p)) \in Blobs
    BY Parts
  <2>. QED  BY <2>1, <2>2 DEF GcStep, StartGc, DeletePacks, Scan, Sweep, EndGc, TypeInv, GcTypes
<1>. QED  BY <1>1, <1>2, <1>3, <1>4 DEF TypeInv

LEMMA TypeStep == TypeInv /\ [Next]_vars => TypeInv'
<1>. SUFFICES ASSUME TypeInv, [Next]_vars PROVE TypeInv'
  OBVIOUS
<1>. USE DEF files, caches, callVars, gcVars, historyVars, TypeInv, FileTypes, CacheTypes, CallTypes,
             GcTypes, HistoryTypes, Shape
<1>1. CASE Expire
  BY <1>1 DEF Expire
<1>2. CASE Crash
  <2>1. torn' \subseteq Blobs \union Packs /\ crashes' \in 0 .. MaxCrashes
    BY <1>2, StoreAssumption DEF Crash
  <2>2. CallTypes' /\ Shape'
    BY <1>2 DEF Crash, Underway, HasPack
  <2>. QED  BY <1>2, <2>1, <2>2 DEF Crash
<1>3. CASE ClockTick
  BY <1>3, StoreAssumption DEF ClockTick, Time
<1>4. CASE UNCHANGED vars
  BY <1>4 DEF vars
<1>. QED  BY <1>1, <1>2, <1>3, <1>4, TypeCall, TypeGc DEF Next

\* Every reachable state of the store is well typed, for any number of calls,
\* retention runs, contents and crashes (storage.py, screening.py).
THEOREM TypeCorrect == Spec => []TypeOK
  BY TypeInit, TypeStep, TypeInvOK, PTL DEF Spec

-----------------------------------------------------------------------------
(* A file that is torn has a writer, or had one that died or failed.        *)

TornExplained ==
    /\ \A b \in Blobs : blob[b] = "torn" => WritingBlob(b) # {} \/ b \in torn
    /\ \A p \in Packs : pack[p] = "torn" => WritingPack(p) # {} \/ p \in torn

\* A step of call c: what others write they go on writing, and the file that c may
\* leave torn is one it is writing from now on or a history variable names.
LEMMA TornFrame ==
    ASSUME TypeInv, TornExplained, NEW c \in Calls,
           \A d \in Calls \ {c} : pc'[d] = pc[d] /\ art'[d] = art[d] /\ mine'[d] = mine[d],
           torn \subseteq torn',
           \A b \in Blobs : blob'[b] = "torn" =>
              \/ c \in WritingBlob(b)' \/ b \in torn'
              \/ blob[b] = "torn" /\ c \notin WritingBlob(b),
           \A p \in Packs : pack'[p] = "torn" =>
              \/ c \in WritingPack(p)' \/ p \in torn'
              \/ pack[p] = "torn" /\ c \notin WritingPack(p)
    PROVE  TornExplained'
<1>1. ASSUME NEW b \in Blobs, blob'[b] = "torn" PROVE WritingBlob(b)' # {} \/ b \in torn'
  <2>1. CASE blob[b] = "torn" /\ c \notin WritingBlob(b) /\ b \notin torn
    <3>1. PICK d \in Calls : pc[d] = "writeBlob" /\ BlobOf(art[d]) = b
      BY <2>1 DEF TornExplained, WritingBlob
    <3>2. d # c
      BY <2>1, <3>1 DEF WritingBlob
    <3>. QED  BY <3>1, <3>2 DEF WritingBlob
  <2>. QED  BY <1>1, <2>1
<1>2. ASSUME NEW p \in Packs, pack'[p] = "torn" PROVE WritingPack(p)' # {} \/ p \in torn'
  <2>1. CASE pack[p] = "torn" /\ c \notin WritingPack(p) /\ p \notin torn
    <3>1. PICK d \in Calls : pc[d] = "writePack" /\ mine[d] = p
      BY <2>1 DEF TornExplained, WritingPack
    <3>2. d # c
      BY <2>1, <3>1 DEF WritingPack
    <3>. QED  BY <3>1, <3>2 DEF WritingPack
  <2>. QED  BY <1>2, <2>1
<1>. QED  BY <1>1, <1>2 DEF TornExplained

LEMMA TornCall ==
    ASSUME TypeInv, TornExplained, NEW c \in Calls, CallStep(c)
    PROVE  TornExplained'
<1>. USE DEF CallUnchanged, files, caches, TypeInv, CallTypes, FileTypes, Goto, Return, WritingBlob,
             WritingPack, Shape
<1>1. CASE Begin(c) \/ CheckBlob(c) \/ Put(c) \/ Sets(c) \/ Choose(c) \/ Remember(c) \/ Insert(c)
  <2>1. UNCHANGED <<blob, pack, torn>> /\ pc[c] # "writeBlob" /\ pc[c] # "writePack"
    BY <1>1 DEF Begin, CheckBlob, Put, Sets, Choose, Remember, Insert
  <2>2. \A d \in Calls \ {c} : pc'[d] = pc[d] /\ art'[d] = art[d] /\ mine'[d] = mine[d]
    BY <1>1 DEF Begin, CheckBlob, Put, Sets, Choose, Remember, Insert
  <2>. QED  BY <2>1, <2>2, TornFrame
<1>2. CASE OpenBlob(c) \/ WriteBlob(c)
  <2>1. UNCHANGED <<pack, torn, art, mine>> /\ pc[c] # "writePack"
    BY <1>2 DEF OpenBlob, WriteBlob
  <2>2. \A d \in Calls \ {c} : pc'[d] = pc[d]
    BY <1>2 DEF OpenBlob, WriteBlob
  <2>3. \A b \in Blobs : blob'[b] = "torn" =>
            c \in WritingBlob(b)' \/ (blob[b] = "torn" /\ c \notin WritingBlob(b))
    BY <1>2 DEF OpenBlob, WriteBlob
  <2>. QED  BY <2>1, <2>2, <2>3, TornFrame
<1>3. CASE OpenPack(c) \/ WritePack(c)
  <2>1. UNCHANGED <<blob, torn, art, mine>> /\ pc[c] # "writeBlob"
    BY <1>3 DEF OpenPack, WritePack
  <2>2. \A d \in Calls \ {c} : pc'[d] = pc[d]
    BY <1>3 DEF OpenPack, WritePack
  <2>3. \A p \in Packs : pack'[p] = "torn" =>
            c \in WritingPack(p)' \/ (pack[p] = "torn" /\ c \notin WritingPack(p))
    BY <1>3 DEF OpenPack, WritePack
  <2>. QED  BY <2>1, <2>2, <2>3, TornFrame
<1>4. CASE WriteFails(c)
  <2>1. UNCHANGED <<blob, pack>> /\ torn \subseteq torn'
    BY <1>4 DEF WriteFails
  <2>2. \A d \in Calls \ {c} : pc'[d] = pc[d] /\ art'[d] = art[d] /\ mine'[d] = mine[d]
    BY <1>4 DEF WriteFails
  <2>3. /\ \A b \in Blobs : c \in WritingBlob(b) => b \in torn'
        /\ \A p \in Packs : c \in WritingPack(p) => p \in torn'
    BY <1>4 DEF WriteFails
  <2>. QED  BY <2>1, <2>2, <2>3, TornFrame
<1>. QED  BY <1>1, <1>2, <1>3, <1>4 DEF CallStep

\* A retention run takes a writer away only with the file it writes.
LEMMA TornGc ==
    ASSUME TypeInv, TornExplained, NEW g \in Collectors, GcStep(g)
    PROVE  TornExplained'
<1>. USE DEF GcUnchanged, TypeInv, CallTypes, FileTypes, WritingBlob, WritingPack
<1>0. UNCHANGED <<art, mine, torn>>
  BY DEF GcStep, StartGc, DeletePacks, Scan, Sweep, historyVars
<1>1. CASE StartGc(g) \/ Scan(g)
  BY <1>0, <1>1 DEF StartGc, Scan, TornExplained
<1>2. CASE DeletePacks(g)
  <2>1. PICK P \in SUBSET Packs : /\ pack' = [p \in Packs |-> IF p \in P THEN "none" ELSE pack[p]]
                                 /\ WriteOn({}, P)
    BY <1>2 DEF DeletePacks
  <2>. QED  BY <1>0, <1>2, <2>1 DEF DeletePacks, WriteOn, TornExplained
<1>3. CASE Sweep(g)
  <2>1. PICK B \in SUBSET Blobs : /\ blob' = [b \in Blobs |-> IF b \in B THEN "none" ELSE blob[b]]
                                 /\ WriteOn(B, {})
    BY <1>3 DEF Sweep, Old
  <2>. QED  BY <1>0, <1>3, <2>1 DEF Sweep, WriteOn, TornExplained
<1>. QED  BY <1>1, <1>2, <1>3 DEF GcStep

LEMMA TornStep == TypeInv /\ TornExplained /\ [Next]_vars => TornExplained'
<1>. SUFFICES ASSUME TypeInv, TornExplained, [Next]_vars PROVE TornExplained'
  OBVIOUS
<1>1. CASE Expire \/ ClockTick \/ UNCHANGED vars
  BY <1>1 DEF Expire, ClockTick, vars, files, callVars, historyVars, TornExplained, WritingBlob,
     WritingPack
<1>2. CASE Crash
  <2>1. UNCHANGED <<blob, pack>>
    BY <1>2 DEF Crash, files
  <2>2. torn' = torn \union {b \in Blobs : WritingBlob(b) # {}}
                     \union {p \in Packs : WritingPack(p) # {}}
    BY <1>2 DEF Crash
  <2>. QED  BY <2>1, <2>2 DEF TornExplained
<1>. QED  BY <1>1, <1>2, TornCall, TornGc DEF Next

-----------------------------------------------------------------------------
(* Issued packs.  A retention run that is at its packs has a cutoff no later *)
(* than the present less the shortest retention of a run; so a pack whose   *)
(* retention is not over, once its file is there, stays there in some form. *)

CutoffPast == \A g \in Collectors : gc[g] = "packs" => cutoff[g] <= clock - shortest + 1

Written(p) == p \in issued \/ \E c \in Calls : pc[c] \in {"remember", "insert"} /\ mine[c] = p
WrittenKept ==
    \A p \in Packs : Written(p) /\ clock - shortest < CreatedAt(p) => pack[p] # "none"

KeptInv == TypeInv /\ TornExplained /\ CutoffPast /\ WrittenKept

LEMMA KeptInit == Init => KeptInv
<1>. SUFFICES ASSUME Init PROVE KeptInv
  OBVIOUS
<1>. QED  BY TypeInit DEF Init, KeptInv, TornExplained, CutoffPast, WrittenKept, Written

LEMMA Days ==
    TypeInv => /\ clock \in Nat /\ shortest \in Nat /\ \A g \in Collectors : cutoff[g] \in Int
               /\ \A days \in {Retention} \union Overrides : days \in Nat
<1>1. \A days \in {Retention} \union Overrides : days \in Nat
  BY StoreAssumption
<1>. SUFFICES ASSUME TypeInv
              PROVE  clock \in Nat /\ shortest \in Nat /\ \A g \in Collectors : cutoff[g] \in Int
  BY <1>1
<1>2. clock \in Nat
  BY StoreAssumption DEF TypeInv, Time
<1>. QED  BY <1>1, <1>2 DEF TypeInv, GcTypes

LEMMA EarlierCut ==
    ASSUME NEW t \in Nat, NEW days \in Nat, NEW more \in Nat, days <= more
    PROVE  t - more + 1 <= t - days + 1
  OBVIOUS

LEMMA CutoffStep == TypeInv /\ CutoffPast /\ [Next]_vars => CutoffPast' /\ shortest' <= shortest
<1>. SUFFICES ASSUME TypeInv, CutoffPast, [Next]_vars PROVE CutoffPast' /\ shortest' <= shortest
  OBVIOUS
<1>1. ASSUME NEW g \in Collectors, StartGc(g) PROVE CutoffPast' /\ shortest' <= shortest
  <2>1. PICK days \in {Retention} \union Overrides :
            \E ours \in BOOLEAN :
                /\ cutoff' = [cutoff EXCEPT ![g] = clock - days + 1]
                /\ gc' = [gc EXCEPT ![g] = IF ours THEN "packs" ELSE "scan"]
                /\ shortest' = IF ours /\ days < shortest THEN days ELSE shortest
    BY <1>1 DEF StartGc
  <2>2. clock' = clock /\ clock \in Nat /\ shortest \in Nat /\ days \in Nat
    BY <1>1, Days DEF StartGc, GcUnchanged
  <2>3. shortest' \in Nat /\ shortest' <= shortest /\ (gc'[g] = "packs" => shortest' <= days)
    BY <2>1, <2>2 DEF TypeInv, GcTypes
  <2>4. gc'[g] = "packs" => cutoff'[g] <= clock' - shortest' + 1
    <3>1. cutoff'[g] = clock - days + 1
      BY <2>1 DEF TypeInv, GcTypes
    <3>2. shortest' \in Nat /\ clock \in Nat /\ days \in Nat
      BY <2>2, <2>3
    <3>3. shortest' <= days => clock - days + 1 <= clock - shortest' + 1
      BY <3>2, EarlierCut
    <3>. QED  BY <2>2, <2>3, <3>1, <3>3
  <2>5. ASSUME NEW h \in Collectors \ {g}, gc'[h] = "packs"
        PROVE  cutoff'[h] <= clock' - shortest' + 1
    <3>1. cutoff'[h] = cutoff[h] /\ gc[h] = "packs" /\ cutoff[h] \in Int
      BY <2>1, <2>5 DEF TypeInv, GcTypes
    <3>2. cutoff[h] <= clock - shortest + 1
      BY <3>1 DEF CutoffPast
    <3>. QED  BY <2>2, <2>3, <3>1, <3>2
  <2>. QED  BY <2>3, <2>4, <2>5 DEF CutoffPast
<1>2. CASE \E g \in Collectors : DeletePacks(g) \/ Scan(g) \/ Sweep(g)
  <2>1. clock' = clock /\ shortest' = shortest /\ shortest \in Nat
    BY <1>2, Days DEF DeletePacks, Scan, Sweep, GcUnchanged
  <2>2. \A g \in Collectors : gc'[g] = "packs" => gc[g] = "packs" /\ cutoff'[g] = cutoff[g]
    BY <1>2 DEF DeletePacks, Scan, Sweep, EndGc, TypeInv, GcTypes
  <2>. QED  BY <2>1, <2>2 DEF CutoffPast
<1>3. CASE ClockTick
  <2>1. UNCHANGED <<gc, cutoff, shortest>> /\ clock' = clock + 1
    BY <1>3 DEF ClockTick, gcVars
  <2>2. ASSUME NEW g \in Collectors, gc'[g] = "packs" PROVE cutoff'[g] <= clock' - shortest' + 1
    BY <2>1, <2>2, Days DEF CutoffPast
  <2>. QED  BY <2>1, <2>2, Days DEF CutoffPast
<1>4. CASE UNCHANGED <<clock, gc, cutoff, shortest>>
  <2>1. shortest \in Nat
    BY Days
  <2>. QED  BY <1>4, <2>1 DEF CutoffPast
<1>5. CASE Expire \/ Crash \/ UNCHANGED vars \/ \E c \in Calls : CallStep(c)
  <2>1. UNCHANGED <<clock, gc, cutoff, shortest>>
    BY <1>5 DEF Expire, Crash, vars, gcVars, CallStep, CallUnchanged, Begin, CheckBlob, OpenBlob,
       WriteBlob, Put, Sets, Choose, OpenPack, WritePack, Remember, Insert, WriteFails
  <2>. QED  BY <1>4, <2>1
<1>. QED  BY <1>1, <1>2, <1>3, <1>5 DEF Next, GcStep

\* A pack that is to be kept after a step was to be kept before it.
LEMMA KeptBefore ==
    ASSUME TypeInv, TypeInv', shortest' <= shortest, clock <= clock', NEW p \in Packs,
           clock' - shortest' < CreatedAt(p)
    PROVE  clock - shortest < CreatedAt(p)
<1>1. /\ clock \in Nat /\ clock' \in Nat /\ shortest \in Nat /\ shortest' \in Nat
      /\ CreatedAt(p) \in Nat
  <2>1. (TypeInv => clock \in Nat /\ shortest \in Nat)'
    BY Days, PTL
  <2>. QED  BY <2>1, Days, Parts DEF Time
<1>. QED  BY <1>1

\* What a call's step makes written has its file, and no call removes one.
LEMMA WrittenCall ==
    ASSUME KeptInv, NEW c \in Calls, CallStep(c)
    PROVE  WrittenKept'
<1>. USE DEF CallUnchanged, files, caches, TypeInv, CallTypes, FileTypes, Goto, Return, KeptInv
<1>1. /\ clock' = clock /\ shortest' = shortest
      /\ \A p \in Packs : pack[p] # "none" => pack'[p] # "none"
  BY DEF gcVars, CallStep, Begin, CheckBlob, OpenBlob, WriteBlob, Put, Sets, Choose, OpenPack, WritePack,
     Remember, Insert, WriteFails
<1>2. ASSUME NEW p \in Packs, Written(p)', ~Written(p) PROVE pack'[p] # "none"
  <2>1. CASE Choose(c)
    <3>1. c \in Calls /\ UNCHANGED <<pack, issued>> /\ mine'[c] = p /\ pc'[c] \in {"remember", "insert"}
      BY <1>2, <2>1 DEF Choose, Written
    <3>. QED  BY <2>1, <3>1 DEF Choose
  <2>2. CASE WritePack(c)
    <3>1. UNCHANGED <<mine, issued>> /\ mine[c] = p
      BY <1>2, <2>2 DEF WritePack, Written
    <3>. QED  BY <2>2, <3>1 DEF WritePack
  <2>3. CASE Insert(c)
    BY <1>2, <2>3 DEF Insert, Written
  <2>4. CASE \/ Begin(c) \/ CheckBlob(c) \/ OpenBlob(c) \/ WriteBlob(c) \/ Put(c) \/ Sets(c)
             \/ OpenPack(c) \/ Remember(c) \/ WriteFails(c)
    BY <1>2, <2>4 DEF Written, Begin, CheckBlob, OpenBlob, WriteBlob, Put, Sets, OpenPack,
       Remember, WriteFails
  <2>. QED  BY <2>1, <2>2, <2>3, <2>4 DEF CallStep
<1>. QED  BY <1>1, <1>2 DEF WrittenKept

\* A retention run removes no pack whose retention is not over.
LEMMA WrittenGc ==
    ASSUME KeptInv, NEW g \in Collectors, GcStep(g)
    PROVE  WrittenKept'
<1>. USE DEF TypeInv, CallTypes, FileTypes, KeptInv, GcUnchanged
<1>1. UNCHANGED <<clock, issued, mine>>
  BY DEF GcStep, StartGc, DeletePacks, Scan, Sweep, historyVars
<1>0. \A p \in Packs : clock' - shortest' < CreatedAt(p) => clock - shortest < CreatedAt(p)
  <2>1. TypeInv' /\ shortest' <= shortest
    BY TypeStep, CutoffStep DEF Next
  <2>2. clock <= clock'
    BY <1>1, Days
  <2>. QED  BY <2>1, <2>2, KeptBefore
<1>2. CASE DeletePacks(g)
  <2>0. shortest' = shortest
    BY <1>2 DEF DeletePacks
  <2>1. /\ shortest \in Nat /\ clock \in Nat /\ cutoff[g] \in Int
        /\ cutoff[g] <= clock - shortest + 1 /\ \A p \in Packs : CreatedAt(p) \in Nat
    BY <1>2, Days, Parts DEF DeletePacks, CutoffPast, Time
  <2>2. \A p \in Packs : clock - shortest < CreatedAt(p) => pack'[p] = pack[p]
    <3>1. ASSUME NEW p \in Packs, clock - shortest < CreatedAt(p) PROVE ~(CreatedAt(p) < cutoff[g])
      BY <2>1, <3>1
    <3>. QED  BY <1>2, <3>1 DEF DeletePacks
  <2>3. ASSUME NEW p \in Packs, Written(p)', ~Written(p) PROVE pack'[p] # pack[p]
    <3>1. PICK P \in SUBSET Packs :
              /\ \A q \in P : pack[q] = "whole"
              /\ pack' = [q \in Packs |-> IF q \in P THEN "none" ELSE pack[q]] /\ WriteOn({}, P)
      BY <1>2 DEF DeletePacks
    <3>2. PICK c \in Calls : pc'[c] \in {"remember", "insert"} /\ mine'[c] = p
      BY <1>1, <2>3 DEF Written
    <3>3. pc[c] = "writePack" /\ mine[c] \in P
      BY <1>1, <2>3, <3>1, <3>2 DEF WriteOn, Written
    <3>4. p \in P
      BY <1>1, <3>2, <3>3
    <3>. QED  BY <3>1, <3>4
  <2>. QED  BY <1>1, <2>0, <2>2, <2>3 DEF WrittenKept
<1>3. CASE StartGc(g) \/ Scan(g) \/ Sweep(g)
  <2>1. pack' = pack
    BY <1>3 DEF StartGc, Scan, Sweep
  <2>2. \A c \in Calls : pc'[c] \in {"remember", "insert"} => pc[c] \in {"remember", "insert"}
    BY <1>3 DEF StartGc, Scan, Sweep, WriteOn
  <2>. QED  BY <1>0, <1>1, <2>1, <2>2 DEF WrittenKept, Written
<1>. QED  BY <1>2, <1>3 DEF GcStep

LEMMA KeptStep == KeptInv /\ [Next]_vars => KeptInv'
<1>. SUFFICES ASSUME KeptInv, [Next]_vars PROVE KeptInv'
  OBVIOUS
<1>1. TypeInv' /\ TornExplained' /\ CutoffPast'
  BY TypeStep, TornStep, CutoffStep DEF KeptInv
<1>2. WrittenKept'
  <2>1. CASE ClockTick
    <3>1. UNCHANGED <<pack, pc, mine, issued>>
      BY <2>1 DEF ClockTick, files, callVars, historyVars
    <3>2. shortest' <= shortest /\ clock <= clock'
      BY <2>1, Days, CutoffStep DEF ClockTick, KeptInv
    <3>3. \A p \in Packs : clock' - shortest' < CreatedAt(p) => clock - shortest < CreatedAt(p)
      BY <1>1, <3>2, KeptBefore DEF KeptInv
    <3>. QED  BY <3>1, <3>3 DEF WrittenKept, Written, KeptInv
  <2>2. CASE Expire \/ UNCHANGED vars
    BY <2>2 DEF Expire, vars, files, callVars, gcVars, historyVars, KeptInv, WrittenKept, Written
  <2>3. CASE Crash
    BY <2>3 DEF Crash, files, gcVars, KeptInv, WrittenKept, Written, Underway, TypeInv, CallTypes
  <2>. QED  BY <2>1, <2>2, <2>3, WrittenCall, WrittenGc DEF Next
<1>. QED  BY <1>1, <1>2 DEF KeptInv

\* A pack a client was told of is readable until its retention is over, unless a
\* second call of the same second is rewriting the same file, or failed while it
\* did (app.py:847, storage.py:117): for any number of calls and retention runs.
THEOREM IssuedPackKeptHolds == Spec => []IssuedPackKept
<1>1. KeptInv => IssuedPackKept
  <2>. SUFFICES ASSUME KeptInv, NEW p \in issued, clock - shortest < CreatedAt(p),
                       WritingPack(p) = {}, p \notin torn
                PROVE  pack[p] = "whole"
    BY DEF IssuedPackKept
  <2>1. p \in Packs /\ pack[p] \in File
    BY DEF KeptInv, TypeInv, HistoryTypes, FileTypes
  <2>2. pack[p] # "none"
    BY <2>1 DEF KeptInv, WrittenKept, Written
  <2>3. pack[p] # "torn"
    BY <2>1 DEF KeptInv, TornExplained
  <2>. QED  BY <2>1, <2>2, <2>3 DEF File
<1>. QED  BY <1>1, KeptInit, KeptStep, PTL DEF Spec

-----------------------------------------------------------------------------
(* References.  A readable pack that is not late has a blob file, and every  *)
(* retention run that is about to sweep has found its reference.            *)

Readable(p) == pack[p] = "whole" /\ p \notin late
BlobThere == \A p \in Packs : Readable(p) => blob[BlobOf(Ingestion(p))] # "none"
ReferenceFound ==
    \A p \in Packs, g \in Collectors :
        Readable(p) /\ gc[g] = "sweep" => BlobOf(Ingestion(p)) \in refs[g]

RefInv == TypeInv /\ TornExplained /\ BlobThere /\ ReferenceFound

LEMMA RefInit == Init => RefInv
  BY TypeInit DEF Init, RefInv, TornExplained, BlobThere, ReferenceFound, Readable

\* A call makes a pack readable only while its blob is there and nobody sweeps.
LEMMA RefCall ==
    ASSUME RefInv, NEW c \in Calls, CallStep(c)
    PROVE  BlobThere' /\ ReferenceFound'
<1>. USE DEF CallUnchanged, gcVars, files, caches, TypeInv, CallTypes, FileTypes, RefInv
<1>1. UNCHANGED <<gc, refs>> /\ \A b \in Blobs : blob[b] # "none" => blob'[b] # "none"
  BY DEF CallStep, Begin, CheckBlob, OpenBlob, WriteBlob, Put, Sets, Choose, OpenPack, WritePack,
     Remember, Insert, WriteFails
<1>2. ASSUME NEW p \in Packs, Readable(p)', ~Readable(p)
      PROVE  blob'[BlobOf(Ingestion(p))] # "none" /\ \A g \in Collectors : gc[g] # "sweep"
  <2>1. CASE WritePack(c)
    <3>1. mine[c] = p /\ Ingestion(mine[c]) = art[c]
      BY <1>2, <2>1 DEF WritePack, Readable, Shape, HasPack
    <3>. QED  BY <1>2, <2>1, <3>1 DEF WritePack, Readable
  <2>2. CASE ~WritePack(c)
    BY <1>2, <2>2 DEF CallStep, Begin, CheckBlob, OpenBlob, WriteBlob, Put, Sets, Choose,
       OpenPack, Remember, Insert, WriteFails, Readable
  <2>. QED  BY <2>1, <2>2
<1>3. \A p \in Packs : BlobOf(Ingestion(p)) \in Blobs
  BY Parts
<1>. QED  BY <1>1, <1>2, <1>3 DEF BlobThere, ReferenceFound

\* A retention run finds every readable pack's reference, and sweeps only blobs
\* without one.
LEMMA RefGc ==
    ASSUME RefInv, NEW g \in Collectors, GcStep(g)
    PROVE  BlobThere' /\ ReferenceFound'
<1>. USE DEF GcUnchanged, historyVars, TypeInv, FileTypes, GcTypes, RefInv, Readable
<1>0. \A p \in Packs : BlobOf(Ingestion(p)) \in Blobs
  BY Parts
<1>1. CASE StartGc(g)
  BY <1>1 DEF StartGc, BlobThere, ReferenceFound
<1>2. CASE DeletePacks(g)
  BY <1>2 DEF DeletePacks, BlobThere, ReferenceFound
<1>3. CASE Scan(g)
  <2>1. /\ UNCHANGED <<blob, pack, late>>
        /\ gc' = [gc EXCEPT ![g] = "sweep"]
        /\ refs' = [refs EXCEPT ![g] = {BlobOf(Ingestion(p)) : p \in {q \in Packs : pack[q] = "whole"}}]
    BY <1>3 DEF Scan
  <2>. QED  BY <2>1 DEF BlobThere, ReferenceFound
<1>4. CASE Sweep(g)
  <2>1. PICK old \in Old(g) : blob' = [b \in Blobs |-> IF b \in old \ refs[g] THEN "none" ELSE blob[b]]
    BY <1>4 DEF Sweep
  <2>2. /\ UNCHANGED <<pack, late>> /\ gc[g] = "sweep"
        /\ gc' = [gc EXCEPT ![g] = "idle"] /\ refs' = [refs EXCEPT ![g] = {}]
    BY <1>4 DEF Sweep, EndGc
  <2>. QED  BY <1>0, <2>1, <2>2 DEF BlobThere, ReferenceFound
<1>. QED  BY <1>1, <1>2, <1>3, <1>4 DEF GcStep

LEMMA RefStep == RefInv /\ [Next]_vars => RefInv'
<1>. SUFFICES ASSUME RefInv, [Next]_vars PROVE RefInv'
  OBVIOUS
<1>1. TypeInv' /\ TornExplained'
  BY TypeStep, TornStep DEF RefInv
<1>2. BlobThere' /\ ReferenceFound'
  <2>1. CASE Expire \/ Crash \/ ClockTick \/ UNCHANGED vars
    BY <2>1 DEF Expire, Crash, ClockTick, vars, files, gcVars, historyVars, RefInv, BlobThere,
       ReferenceFound, Readable
  <2>. QED  BY <2>1, RefCall, RefGc DEF Next
<1>. QED  BY <1>1, <1>2 DEF RefInv

\* A readable pack has its blob, whole, however screenings and any number of
\* retention runs interleave (storage.py:160), but for the exceptions the property
\* names.
THEOREM ReferencesKeptHolds == Spec => []ReferencesKept
<1>1. RefInv => ReferencesKept
  <2>. SUFFICES ASSUME RefInv, NEW p \in Packs, Readable(p), NEW b, b = BlobOf(Ingestion(p)),
                       WritingBlob(b) = {}, b \notin torn
                PROVE  blob[b] = "whole"
    BY DEF ReferencesKept, Readable
  <2>1. b \in Blobs /\ blob[b] \in File
    BY Parts DEF RefInv, TypeInv, FileTypes
  <2>2. blob[b] # "none" /\ blob[b] # "torn"
    BY <2>1 DEF RefInv, BlobThere, TornExplained
  <2>. QED  BY <2>1, <2>2 DEF File
<1>. QED  BY <1>1, RefInit, RefStep, PTL DEF Spec
=============================================================================
