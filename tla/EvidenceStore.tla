---------------------------- MODULE EvidenceStore ----------------------------
(***************************************************************************)
(* The evidence store on a file system (storage.py) between the screenings  *)
(* that fill it (app.py, ingestion.py) and the retention runs that empty it *)
(* (worker.py and POST /v1/admin/gc/run).                                   *)
(*                                                                          *)
(* Files are named by the hash of their content and written in place: a     *)
(* file is "torn" from the moment it is opened for writing until its last   *)
(* byte is there, and stays so when the writer dies.  An artifact stores    *)
(* several blobs; one of them is followed, the normalised name sets: equal   *)
(* lists fetched at different times give two artifacts that share it.  A    *)
(* pack is determined by its artifact and its created_at, since all calls   *)
(* screen the same subject for one customer.  The clock counts seconds:     *)
(* created_at and retrieval_ts have no fraction, mtimes and cutoffs do.     *)
(***************************************************************************)
EXTENDS Integers, FiniteSets

CONSTANTS
    Calls,       \* screening calls, and ingests of the worker among them
    Collectors,  \* retention runs: the worker's and the administrator's
    Blobs,       \* contents of the name sets, as the lists change
    None,        \* no artifact, no pack
    Retention,   \* evidence_retention_days of the configuration
    Overrides,   \* what a query parameter or a customer's plan says instead
    MaxTime,     \* BOUND: the clock stops here
    MaxCrashes   \* BOUND: crashes of the API process and failed writes

ASSUME StoreAssumption ==
    /\ Retention \in Nat /\ Overrides \subseteq Nat \ {0} /\ MaxTime \in Nat /\ MaxCrashes \in Nat
    /\ None \notin Blobs \X (0 .. MaxTime)
    /\ None \notin (Blobs \X (0 .. MaxTime)) \X (0 .. MaxTime)

Time == 0 .. MaxTime
Artifacts == Blobs \X Time       \* <<normalised name sets, retrieval_ts>>
Packs == Artifacts \X Time       \* <<ingestion, created_at>>
BlobOf(a) == a[1]
Ingestion(p) == p[1]
CreatedAt(p) == p[2]

VARIABLES
    clock,
    blob,       \* blob files
    mtime,      \* their modification times
    pack,       \* pack files
    artifact,   \* artifact in the ingest cache, or None
    decoded,    \* NameSetCache: blobs decoded in this process
    screened,   \* ScreenCache: per artifact its pack, or None
    issued,     \* packs that a screening row, and so a client, names
    pc,         \* call: control point
    art,        \* call: its artifact
    mine,       \* call: its pack
    gc,         \* collector: control point
    cutoff,     \* collector: its cutoff
    refs,       \* collector: blobs it found referenced
    shortest,   \* history: the shortest retention a run over these packs was given
    crashes,    \* crashes and failed writes so far
    torn,       \* history: packs and blobs whose writer died or failed
    late        \* history: packs completed after a collector's scan or without their blob

files == <<blob, mtime, pack>>
caches == <<artifact, decoded, screened>>
callVars == <<pc, art, mine>>
gcVars == <<gc, cutoff, refs, shortest>>
historyVars == <<issued, crashes, torn, late>>
vars == <<clock, files, caches, callVars, gcVars, historyVars>>

File == {"none", "torn", "whole"}
Underway == {"checkBlob", "openBlob", "writeBlob", "put", "sets", "choose", "openPack",
             "writePack", "remember", "insert"}

TypeOK ==
    /\ clock \in Time
    /\ blob \in [Blobs -> File] /\ mtime \in [Blobs -> Time] /\ pack \in [Packs -> File]
    /\ artifact \in Artifacts \union {None} /\ decoded \subseteq Blobs
    /\ screened \in [Artifacts -> Packs \union {None}]
    /\ \A a \in Artifacts : screened[a] # None => Ingestion(screened[a]) = a
    /\ issued \subseteq Packs
    /\ pc \in [Calls -> Underway \union {"ready", "done", "failed"}]
    /\ art \in [Calls -> Artifacts \union {None}] /\ mine \in [Calls -> Packs \union {None}]
    /\ gc \in [Collectors -> {"idle", "packs", "scan", "sweep"}]
    /\ cutoff \in [Collectors -> Int] /\ \A g \in Collectors : cutoff[g] <= MaxTime + 1
    /\ shortest \in {Retention} \union Overrides
    /\ refs \in [Collectors -> SUBSET Blobs]
    /\ crashes \in 0 .. MaxCrashes
    /\ torn \subseteq Blobs \union Packs /\ late \subseteq Packs

Init ==
    /\ clock = 0
    /\ blob = [b \in Blobs |-> "none"] /\ mtime = [b \in Blobs |-> 0]
    /\ pack = [p \in Packs |-> "none"]
    /\ artifact = None /\ decoded = {} /\ screened = [a \in Artifacts |-> None]
    /\ pc = [c \in Calls |-> "ready"]
    /\ art = [c \in Calls |-> None] /\ mine = [c \in Calls |-> None]
    /\ gc = [g \in Collectors |-> "idle"]
    /\ cutoff = [g \in Collectors |-> 0] /\ refs = [g \in Collectors |-> {}]
    /\ shortest = Retention
    /\ issued = {} /\ crashes = 0 /\ torn = {} /\ late = {}

-----------------------------------------------------------------------------
(* Screenings.                                                              *)

Goto(c, l) == pc' = [pc EXCEPT ![c] = l]
CallUnchanged == UNCHANGED <<clock, gcVars, crashes, torn>>

\* A call ends, and its locals with it.
Return(c, l) ==
    /\ Goto(c, l)
    /\ art' = [art EXCEPT ![c] = None] /\ mine' = [mine EXCEPT ![c] = None]

\* get_or_refresh: the cached artifact, or a fetch whose name sets are b and whose
\* retrieval_ts is sampled now, or an earlier one that the request gives.  A fetch of
\* the worker, which fills no cache of this process, is a call that stops early.
Begin(c) ==
    /\ pc[c] = "ready"
    /\ \/ /\ artifact # None
          /\ art' = [art EXCEPT ![c] = artifact] /\ Goto(c, "sets")
       \/ /\ \E b \in Blobs, t \in 0 .. clock : art' = [art EXCEPT ![c] = <<b, t>>]
          /\ Goto(c, "checkBlob")
    /\ CallUnchanged /\ UNCHANGED <<files, caches, mine, issued, late>>

\* put_blob: a file that exists, whole or torn, is left alone.
CheckBlob(c) ==
    /\ pc[c] = "checkBlob"
    /\ Goto(c, IF blob[BlobOf(art[c])] = "none" THEN "openBlob" ELSE "put")
    /\ CallUnchanged /\ UNCHANGED <<files, caches, art, mine, issued, late>>

OpenBlob(c) ==
    /\ pc[c] = "openBlob"
    /\ blob' = [blob EXCEPT ![BlobOf(art[c])] = "torn"]
    /\ mtime' = [mtime EXCEPT ![BlobOf(art[c])] = clock]
    /\ Goto(c, "writeBlob")
    /\ CallUnchanged /\ UNCHANGED <<pack, caches, art, mine, issued, late>>

WriteBlob(c) ==
    /\ pc[c] = "writeBlob"
    /\ blob' = [blob EXCEPT ![BlobOf(art[c])] = "whole"]
    /\ mtime' = [mtime EXCEPT ![BlobOf(art[c])] = clock]
    /\ Goto(c, "put")
    /\ CallUnchanged /\ UNCHANGED <<pack, caches, art, mine, issued, late>>

\* The artifact enters the ingest cache, unless the fetch was the worker's, who has
\* a cache of its own.
Put(c) ==
    /\ pc[c] = "put"
    /\ artifact' \in {artifact, art[c]}
    /\ Goto(c, "sets")
    /\ CallUnchanged /\ UNCHANGED <<files, decoded, screened, art, mine, issued, late>>

\* NameSetCache.get: decoded before, or read and decoded now; a file that is
\* missing or torn makes the call fail.
Sets(c) ==
    /\ pc[c] = "sets"
    /\ \/ /\ BlobOf(art[c]) \in decoded \/ blob[BlobOf(art[c])] = "whole"
          /\ decoded' = decoded \union {BlobOf(art[c])}
          /\ Goto(c, "choose") /\ UNCHANGED <<art, mine>>
       \/ /\ BlobOf(art[c]) \notin decoded /\ blob[BlobOf(art[c])] # "whole"
          /\ Return(c, "failed") /\ UNCHANGED decoded
    /\ CallUnchanged /\ UNCHANGED <<files, artifact, screened, issued, late>>

\* The cached pack if its file exists, else a new one, whose created_at is sampled
\* here; put_pack looks whether that exists.
Choose(c) ==
    /\ pc[c] = "choose"
    /\ LET cached == screened[art[c]]
           new == <<art[c], clock>>
       IN IF cached # None /\ pack[cached] # "none"
          THEN mine' = [mine EXCEPT ![c] = cached] /\ Goto(c, "insert")
          ELSE /\ mine' = [mine EXCEPT ![c] = new]
               /\ Goto(c, IF pack[new] = "none" THEN "openPack" ELSE "remember")
    /\ CallUnchanged /\ UNCHANGED <<files, caches, art, issued, late>>

OpenPack(c) ==
    /\ pc[c] = "openPack"
    /\ pack' = [pack EXCEPT ![mine[c]] = "torn"]
    /\ Goto(c, "writePack")
    /\ CallUnchanged /\ UNCHANGED <<blob, mtime, caches, art, mine, issued, late>>

WritePack(c) ==
    /\ pc[c] = "writePack"
    /\ pack' = [pack EXCEPT ![mine[c]] = "whole"]
    /\ late' = IF blob[BlobOf(art[c])] = "none" \/ \E g \in Collectors : gc[g] = "sweep"
               THEN late \union {mine[c]} ELSE late
    /\ Goto(c, "remember")
    /\ CallUnchanged /\ UNCHANGED <<blob, mtime, caches, art, mine, issued>>

\* screen_cache.set
Remember(c) ==
    /\ pc[c] = "remember"
    /\ screened' = [screened EXCEPT ![art[c]] = mine[c]]
    /\ Goto(c, "insert")
    /\ CallUnchanged /\ UNCHANGED <<files, artifact, decoded, art, mine, issued, late>>

\* insert_screening: from here on the client may be told the pack's id.
Insert(c) ==
    /\ pc[c] = "insert"
    /\ issued' = issued \union {mine[c]}
    /\ Return(c, "done")
    /\ CallUnchanged /\ UNCHANGED <<files, caches, late>>

\* The TTL of the artifact runs out.
Expire ==
    /\ artifact # None
    /\ artifact' = None
    /\ UNCHANGED <<clock, files, decoded, screened, callVars, gcVars, historyVars>>

WritingBlob(b) == {c \in Calls : pc[c] = "writeBlob" /\ BlobOf(art[c]) = b}
WritingPack(p) == {c \in Calls : pc[c] = "writePack" /\ mine[c] = p}

\* A write that raises: the file stays as far as it got.
WriteFails(c) ==
    /\ crashes < MaxCrashes
    /\ pc[c] \in {"writeBlob", "writePack"}
    /\ crashes' = crashes + 1
    /\ torn' = torn \union {IF pc[c] = "writeBlob" THEN BlobOf(art[c]) ELSE mine[c]}
    /\ Return(c, "failed")
    /\ UNCHANGED <<clock, files, caches, gcVars, issued, late>>

\* The API process dies with its calls and its caches; files stay as they are.
Crash ==
    /\ crashes < MaxCrashes
    /\ \E c \in Calls : pc[c] \in Underway
    /\ crashes' = crashes + 1
    /\ torn' = torn \union {b \in Blobs : WritingBlob(b) # {}}
                    \union {p \in Packs : WritingPack(p) # {}}
    /\ pc' = [c \in Calls |-> IF pc[c] \in Underway THEN "failed" ELSE pc[c]]
    /\ art' = [c \in Calls |-> None] /\ mine' = [c \in Calls |-> None]
    /\ artifact' = None /\ decoded' = {} /\ screened' = [a \in Artifacts |-> None]
    /\ UNCHANGED <<clock, files, gcVars, issued, late>>

-----------------------------------------------------------------------------
(* Retention runs.  Deletions of several files commute with whatever one    *)
(* call does in between, so each loop over the files is one step.           *)

GcUnchanged == UNCHANGED <<clock, mtime, caches, art, mine, historyVars>>

\* A call that is writing a file when it is unlinked writes to no effect.
WriteOn(blobs, packs) ==
    pc' = [c \in Calls |-> IF pc[c] = "writeBlob" /\ BlobOf(art[c]) \in blobs THEN "put"
                           ELSE IF pc[c] = "writePack" /\ mine[c] \in packs THEN "remember"
                           ELSE pc[c]]

\* Mutant of StartGc: the retention is added.
StartGcAhead(g) ==
    /\ gc[g] = "idle"
    /\ cutoff' = [cutoff EXCEPT ![g] = clock + Retention + 1]
    /\ gc' = [gc EXCEPT ![g] = "packs"]
    /\ GcUnchanged /\ UNCHANGED <<blob, pack, refs, pc, shortest>>

\* The worker's run takes the retention of the configuration, the administrator's the
\* query's, the plan's or that of the configuration.  One for another customer looks
\* at none of these packs, but at all blobs with its own cutoff.  The cutoff lies
\* within a second, so it is past the whole second that starts it: the variable
\* holds the first second that is not past.
StartGc(g) ==
    /\ gc[g] = "idle"
    /\ \E days \in {Retention} \union Overrides, ours \in BOOLEAN :
        /\ cutoff' = [cutoff EXCEPT ![g] = clock - days + 1]
        /\ gc' = [gc EXCEPT ![g] = IF ours THEN "packs" ELSE "scan"]
        /\ shortest' = IF ours /\ days < shortest THEN days ELSE shortest
    /\ GcUnchanged /\ UNCHANGED <<blob, pack, refs, pc>>

\* Mutant of DeletePacks: a second too many.
DeletePacksAt(g) ==
    /\ gc[g] = "packs"
    /\ LET old == {p \in Packs : pack[p] = "whole" /\ CreatedAt(p) <= cutoff[g]}
       IN pack' = [p \in Packs |-> IF p \in old THEN "none" ELSE pack[p]] /\ WriteOn({}, old)
    /\ gc' = [gc EXCEPT ![g] = "scan"]
    /\ GcUnchanged /\ UNCHANGED <<blob, cutoff, refs, shortest>>

\* delete_packs_before: a pack whose hash does not match, a torn one, is kept.
DeletePacks(g) ==
    /\ gc[g] = "packs"
    /\ LET old == {p \in Packs : pack[p] = "whole" /\ CreatedAt(p) < cutoff[g]}
       IN pack' = [p \in Packs |-> IF p \in old THEN "none" ELSE pack[p]] /\ WriteOn({}, old)
    /\ gc' = [gc EXCEPT ![g] = "scan"]
    /\ GcUnchanged /\ UNCHANGED <<blob, cutoff, refs, shortest>>

\* referenced_blob_digests: what whole packs name.
Scan(g) ==
    /\ gc[g] = "scan"
    /\ LET whole == {p \in Packs : pack[p] = "whole"}
       IN refs' = [refs EXCEPT ![g] = {BlobOf(Ingestion(p)) : p \in whole}]
    /\ gc' = [gc EXCEPT ![g] = "sweep"]
    /\ GcUnchanged /\ UNCHANGED <<blob, pack, cutoff, pc, shortest>>

EndGc(g) ==
    /\ gc' = [gc EXCEPT ![g] = "idle"]
    /\ cutoff' = [cutoff EXCEPT ![g] = 0] /\ refs' = [refs EXCEPT ![g] = {}]

\* Blob files a cutoff may find old; one written in the second before the cutoff's
\* next may be on either side of it.
Old(g) ==
    {{b \in Blobs : blob[b] # "none" /\ mtime[b] < cutoff[g] - 1} \union same :
        same \in SUBSET {b \in Blobs : blob[b] # "none" /\ mtime[b] = cutoff[g] - 1}}

\* Mutant of Sweep: age alone decides.
SweepOld(g) ==
    /\ gc[g] = "sweep"
    /\ \E old \in Old(g) :
           /\ blob' = [b \in Blobs |-> IF b \in old THEN "none" ELSE blob[b]]
           /\ WriteOn(old, {})
    /\ EndGc(g)
    /\ GcUnchanged /\ UNCHANGED <<pack, shortest>>

\* delete_unreferenced_blobs, after the scan.
Sweep(g) ==
    /\ gc[g] = "sweep"
    /\ \E old \in Old(g) :
           /\ blob' = [b \in Blobs |-> IF b \in old \ refs[g] THEN "none" ELSE blob[b]]
           /\ WriteOn(old \ refs[g], {})
    /\ EndGc(g)
    /\ GcUnchanged /\ UNCHANGED <<pack, shortest>>

ClockTick ==
    /\ clock < MaxTime
    /\ clock' = clock + 1
    /\ UNCHANGED <<files, caches, callVars, gcVars, historyVars>>

-----------------------------------------------------------------------------
CallStep(c) ==
    \/ Begin(c) \/ CheckBlob(c) \/ OpenBlob(c) \/ WriteBlob(c) \/ Put(c) \/ Sets(c)
    \/ Choose(c) \/ OpenPack(c) \/ WritePack(c) \/ Remember(c) \/ Insert(c)
    \/ WriteFails(c)

GcStep(g) == StartGc(g) \/ DeletePacks(g) \/ Scan(g) \/ Sweep(g)

Next ==
    \/ \E c \in Calls : CallStep(c)
    \/ \E g \in Collectors : GcStep(g)
    \/ Expire \/ Crash \/ ClockTick

Spec == Init /\ [][Next]_vars

-----------------------------------------------------------------------------
\* A pack that a client was told of is readable until its retention is over (app.py:847,
\* storage.py:117), the shortest one that a run over its customer's packs was given: a
\* run for another customer, however short its plan, does not touch it.  Unless a second
\* call of the same second is rewriting the same file, or failed while it did.
IssuedPackKept ==
    \A p \in issued :
        clock - shortest < CreatedAt(p) /\ WritingPack(p) = {} /\ p \notin torn
            => pack[p] = "whole"

\* A readable pack has its blob, whole: collectors delete "blobs not referenced by any
\* pack" (storage.py:160), and put_blob leaves a blob alone that exists.  The
\* exceptions: a pack completed after a collector had looked for references or after
\* its blob had gone, and a blob that a second fetch rewrites or failed to rewrite.
ReferencesKept ==
    \A p \in Packs :
        pack[p] = "whole" /\ p \notin late =>
            LET b == BlobOf(Ingestion(p))
            IN blob[b] = "whole" \/ WritingBlob(b) # {} \/ b \in torn

=============================================================================
