--------------------------- MODULE AssetService ---------------------------
(***************************************************************************)
(* The asset service of an official or standalone backend over one map     *)
(* bundle (services/asset.rs) and the SHA-256 cache it relies on           *)
(* (libs/hash-cache/src/lib.rs).  An operator may replace a file of the    *)
(* bundle at any moment by renaming a new version over it; a reader that   *)
(* has opened a file keeps reading the version it opened.  A version       *)
(* stands for a content, its hash and its modification time in seconds:    *)
(* no two versions share a time, which is what the cache's freshness rule  *)
(* needs.                                                                  *)
(***************************************************************************)
EXTENDS Integers, Sequences, FiniteSets

CONSTANTS Handlers,     \* requests being served
          MaxVersion,   \* bound: versions of a file
          Size,         \* the size of a version, in blocks
          Limits,       \* chunk sizes a client asks for, in blocks
          Offsets,      \* offsets a client asks for
          Asked,        \* the files clients download
          Replaced,     \* the files the operator replaces or removes
          Blank,        \* the empty line a sidecar holds after its hash
          Nil

Versions == 1 .. MaxVersion
Required == {"main", "svg", "minimap", "json"}
Files == Required \cup {"animation"}
Hashed == {"main", "svg", "animation"}

\* Assumed of the constants.
AssetAssumption ==
    /\ MaxVersion \in Nat \ {0}
    /\ Size \in [Versions -> Nat \ {0}]
    /\ Limits \subseteq Nat \ {0} /\ Offsets \subseteq Nat
    /\ Asked \subseteq Hashed /\ Replaced \subseteq Files
    /\ Nil \notin Versions /\ Nil \notin Files /\ Nil \notin Handlers
    /\ Blank \notin Nat

VARIABLES dir,      \* the bundle directory: the version of each file, or Nil
          newest,   \* the newest version a file ever had
          mem,      \* HashCache.mem: per file, the stamp and the hash kept
          sidecar,  \* the sidecar file of each hashed file
          locks,    \* HashCache.locks: per file, the request holding it
          cache,    \* map_bundle_meta_cache: the bundle meta kept, or Nil
          req       \* the requests

vars == <<dir, newest, mem, sidecar, locks, cache, req>>

Idle == [at |-> "idle", kind |-> Nil, file |-> Nil, ifMatch |-> Nil,
         offset |-> 0, limit |-> 0, total |-> 0, stamp |-> Nil, hash |-> Nil,
         seen |-> {}, known |-> {}, open |-> Nil, pos |-> 0, eof |-> FALSE]

Init == /\ dir \in {d \in [Files -> {Nil, 1}] : \A f \in Required : d[f] = 1}
        /\ newest = [f \in Files |-> 1]
        /\ mem = [f \in Hashed |-> Nil]
        /\ sidecar = [f \in Hashed |-> Nil]
        /\ locks = [f \in Hashed |-> Nil]
        /\ cache = Nil
        /\ req = [h \in Handlers |-> Idle]

Present(v) == IF v = Nil THEN {} ELSE {v}

Become(h, r) == req' = [req EXCEPT ![h] = r]

-----------------------------------------------------------------------------
(* The operator. `seen' is history: the versions a file had since the       *)
(* request that works on it asked for it.                                   *)

Watch(f, v) ==
    req' = [h \in Handlers |->
              IF req[h].file = f
              THEN [req[h] EXCEPT !.seen = @ \cup Present(v)] ELSE req[h]]

Replace(f) ==
    /\ newest[f] < MaxVersion
    /\ newest' = [newest EXCEPT ![f] = @ + 1]
    /\ dir' = [dir EXCEPT ![f] = newest[f] + 1]
    /\ Watch(f, newest[f] + 1)
    /\ UNCHANGED <<mem, sidecar, locks, cache>>

Remove(f) ==
    /\ dir[f] # Nil
    /\ dir' = [dir EXCEPT ![f] = Nil]
    /\ UNCHANGED <<newest, mem, sidecar, locks, cache, req>>

(* The backend is killed and started again: the sidecars stay. *)
Restart ==
    /\ mem # [f \in Hashed |-> Nil] \/ cache # Nil \/ \E h \in Handlers : req[h] # Idle
    /\ mem' = [f \in Hashed |-> Nil]
    /\ locks' = [f \in Hashed |-> Nil]
    /\ cache' = Nil
    /\ req' = [h \in Handlers |-> Idle]
    /\ UNCHANGED <<dir, newest, sidecar>>

-----------------------------------------------------------------------------
(* The bundle and the requests. *)

\* resolve_official_bundle_paths with bundle_is_complete.
Complete == \A f \in Required : dir[f] # Nil

Work(h, f, at) ==
    [req[h] EXCEPT !.file = f, !.at = at, !.stamp = Nil, !.hash = Nil, !.total = 0,
                   !.seen = IF f = Nil THEN {} ELSE Present(dir[f])]

\* A request that fails, or that its client cancels, gives back its lock.
Fail(h) ==
    /\ Become(h, Idle)
    /\ locks' = [f \in Hashed |-> IF locks[f] = h THEN Nil ELSE locks[f]]
    /\ UNCHANGED <<dir, newest, mem, sidecar, cache>>

\* get_map_asset_bundle_meta: the cached answer, while it is young enough
\* (try_get_cached_bundle_meta), or the bundle is resolved and described.
GetBundleMeta(h) ==
    /\ req[h] = Idle
    /\ \/ /\ cache # Nil
          /\ Become(h, [Idle EXCEPT !.at = "answered", !.kind = "bundle", !.known = cache])
          /\ UNCHANGED cache
       \/ /\ cache' = Nil
          /\ Complete
          /\ Become(h, [Work(h, "main", "meta") EXCEPT !.kind = "bundle"])
    /\ UNCHANGED <<dir, newest, mem, sidecar, locks>>

\* get_map_asset.
GetMapAsset(h, f, offset, limit, ifMatch) ==
    /\ req[h] = Idle
    /\ Complete
    /\ Become(h, [Work(h, f, "meta") EXCEPT !.kind = "asset", !.offset = offset,
                    !.limit = limit, !.ifMatch = ifMatch])
    /\ UNCHANGED <<dir, newest, mem, sidecar, locks, cache>>

\* stream_map_asset_glb: the same stream, of one of the two glb files and with
\* no hash to match.
StreamMapAssetGlb(h, f, offset, limit) ==
    /\ f \in {"main", "animation"}
    /\ GetMapAsset(h, f, offset, limit, Nil)

\* fs::metadata of the file: its size is kept, its hash may be asked for.
Metadata(h) ==
    LET r == req[h]
        v == dir[r.file]
    IN  /\ r.at = "meta"
        /\ v # Nil
        /\ Become(h, [r EXCEPT !.total = Size[v],
                        !.at = IF r.kind = "bundle" \/ r.ifMatch # Nil
                               THEN "lock" ELSE "open"])
        /\ UNCHANGED <<dir, newest, mem, sidecar, locks, cache>>

-----------------------------------------------------------------------------
(* HashCache::get_or_compute. *)

HashLock(h) ==
    LET f == req[h].file IN
    /\ req[h].at = "lock"
    /\ locks[f] = Nil
    /\ locks' = [locks EXCEPT ![f] = h]
    /\ Become(h, [req[h] EXCEPT !.at = "stat"])
    /\ UNCHANGED <<dir, newest, mem, sidecar, cache>>

\* try_read_sidecar: the first line after the hash must be the size and the
\* second the time. write_sidecar puts a newline between the hash and the
\* size, so the first line it left is empty.
SidecarAccepts(f, v) ==
    /\ sidecar[f] # Nil
    /\ sidecar[f].lines[1] = Size[v]
    /\ sidecar[f].lines[2] = v

\* The entry in memory or the sidecar is used when size and time still match.
HashLookup(h) ==
    LET f == req[h].file
        v == dir[f]
        kept == IF mem[f] # Nil /\ mem[f].stamp = v THEN mem[f].hash
                ELSE IF SidecarAccepts(f, v) THEN sidecar[f].hash ELSE Nil
    IN  /\ req[h].at = "stat"
        /\ v # Nil
        /\ Become(h, [req[h] EXCEPT !.stamp = v, !.hash = kept,
                        !.at = IF kept = Nil THEN "sum" ELSE "hashed"])
        /\ mem' = IF kept = Nil THEN mem
                  ELSE [mem EXCEPT ![f] = [stamp |-> v, hash |-> kept]]
        /\ locks' = IF kept = Nil THEN locks ELSE [locks EXCEPT ![f] = Nil]
        /\ UNCHANGED <<dir, newest, sidecar, cache>>

\* compute_sha256 hashes the version it opens.
HashSum(h) ==
    LET v == dir[req[h].file] IN
    /\ req[h].at = "sum"
    /\ v # Nil
    /\ Become(h, [req[h] EXCEPT !.hash = v, !.at = "check"])
    /\ UNCHANGED <<dir, newest, mem, sidecar, locks, cache>>

\* Mutated form: what the second metadata says is stored unchecked.
HashCheckUnchecked(h) ==
    LET r == req[h]
        f == req[h].file
        v == dir[f]
    IN  /\ r.at = "check"
        /\ v # Nil
        /\ Become(h, [r EXCEPT !.at = "hashed"])
        /\ locks' = [locks EXCEPT ![f] = Nil]
        /\ mem' = [mem EXCEPT ![f] = [stamp |-> v, hash |-> r.hash]]
        /\ UNCHANGED <<dir, newest, sidecar, cache>>

\* write_sidecar leaves the hash, an empty line, the size and the time.
Sidecar(hash, v) == [hash |-> hash, lines |-> <<Blank, Size[v], v>>]

\* The second metadata: only the hash of a file that did not change meanwhile
\* is kept, in the sidecar, whose write may fail, and in memory.
HashCheck(h) ==
    LET r == req[h]
        f == req[h].file
        v == dir[f]
    IN  /\ r.at = "check"
        /\ v # Nil
        /\ Become(h, [r EXCEPT !.at = "hashed"])
        /\ locks' = [locks EXCEPT ![f] = Nil]
        /\ IF v # r.stamp THEN UNCHANGED <<sidecar, mem>>
           ELSE /\ \E s \in {sidecar[f], Sidecar(r.hash, v)} :
                     sidecar' = [sidecar EXCEPT ![f] = s]
                /\ mem' = [mem EXCEPT ![f] = [stamp |-> v, hash |-> r.hash]]
        /\ UNCHANGED <<dir, newest, cache>>

-----------------------------------------------------------------------------
(* The rest of the answer. *)

Known(r) == r.known \cup {[file |-> r.file, size |-> r.total, hash |-> r.hash]}

\* get_map_asset_bundle_meta goes on from the main file to the minimap.
DescribeMinimap(h) ==
    /\ req[h].kind = "bundle" /\ req[h].at = "hashed" /\ req[h].file = "main"
    /\ Become(h, [Work(h, "svg", "meta") EXCEPT !.known = Known(req[h])])
    /\ UNCHANGED <<dir, newest, mem, sidecar, locks, cache>>

\* read_minimap_metadata and read_map_metadata: both files must be there.
ReadMetadata(h) ==
    /\ req[h].kind = "bundle" /\ req[h].at = "hashed" /\ req[h].file = "svg"
    /\ dir["minimap"] # Nil /\ dir["json"] # Nil
    /\ Become(h, [Work(h, Nil, "animation") EXCEPT !.known = Known(req[h])])
    /\ UNCHANGED <<dir, newest, mem, sidecar, locks, cache>>

StoreBundle(h, known) ==
    /\ Become(h, [Idle EXCEPT !.at = "answered", !.kind = "bundle", !.known = known])
    /\ cache' = known

\* The animation is described if there is one, and the answer stored
\* (store_cached_bundle_meta).
DescribeAnimation(h) ==
    /\ req[h].kind = "bundle"
    /\ \/ /\ req[h].at = "animation" /\ dir["animation"] # Nil
          /\ Become(h, Work(h, "animation", "meta"))
          /\ UNCHANGED cache
       \/ /\ req[h].at = "animation" /\ dir["animation"] = Nil
          /\ StoreBundle(h, req[h].known)
       \/ /\ req[h].at = "hashed" /\ req[h].file = "animation"
          /\ StoreBundle(h, Known(req[h]))
    /\ UNCHANGED <<dir, newest, mem, sidecar, locks>>

\* get_map_asset compares the hash with the one the client expects.
Match(h) ==
    /\ req[h].kind = "asset" /\ req[h].at = "hashed"
    /\ req[h].hash = req[h].ifMatch
    /\ Become(h, [req[h] EXCEPT !.at = "open"])
    /\ UNCHANGED <<dir, newest, mem, sidecar, locks, cache>>

\* An offset at or past the end is answered at once; otherwise the file is
\* opened and the reader moved to the offset.
OpenFile(h) ==
    LET r == req[h] IN
    /\ r.at = "open"
    /\ IF r.offset >= r.total
       THEN Become(h, [r EXCEPT !.at = "answered", !.pos = r.offset, !.eof = TRUE])
       ELSE /\ dir[r.file] # Nil
            /\ Become(h, [r EXCEPT !.at = "stream", !.open = dir[r.file], !.pos = r.offset])
    /\ UNCHANGED <<dir, newest, mem, sidecar, locks, cache>>

\* One round of the stream: a read gives up to a chunk, none only at the end of
\* the file. The chunk that reaches the size seen at first is the last one.
SendChunk(h) ==
    LET r == req[h]
        left == IF Size[r.open] > r.pos THEN Size[r.open] - r.pos ELSE 0
    IN  /\ r.at = "stream"
        /\ \/ /\ left = 0
              /\ Become(h, [r EXCEPT !.eof = TRUE, !.at = "answered"])
           \/ \E n \in 1 .. r.limit :
                /\ n <= left
                /\ LET last == r.pos + n >= r.total IN
                   Become(h, [r EXCEPT !.pos = @ + n, !.eof = last,
                                       !.at = IF last THEN "answered" ELSE "stream"])
        /\ UNCHANGED <<dir, newest, mem, sidecar, locks, cache>>

\* The client has the whole answer.
Done(h) ==
    /\ req[h].at = "answered"
    /\ Become(h, Idle)
    /\ UNCHANGED <<dir, newest, mem, sidecar, locks, cache>>

Next ==
    \/ \E f \in Replaced : Replace(f)
    \/ \E f \in Replaced : Remove(f)
    \/ Restart
    \/ \E h \in Handlers :
         \/ GetBundleMeta(h)
         \/ \E f \in Asked, o \in Offsets, l \in Limits, m \in Versions \cup {Nil} :
              GetMapAsset(h, f, o, l, m)
         \/ \E f \in Asked, o \in Offsets, l \in Limits : StreamMapAssetGlb(h, f, o, l)
         \/ Metadata(h) \/ HashLock(h) \/ HashLookup(h) \/ HashSum(h) \/ HashCheck(h)
         \/ DescribeMinimap(h) \/ ReadMetadata(h) \/ DescribeAnimation(h)
         \/ Match(h) \/ OpenFile(h) \/ SendChunk(h) \/ Done(h)
         \/ req[h].at \notin {"idle", "answered"} /\ Fail(h)

Spec == Init /\ [][Next]_vars

-----------------------------------------------------------------------------
(* Properties. *)

Entries == [stamp : Versions, hash : Versions]
Described == [file : Hashed, size : Nat, hash : Versions]

\* The variables keep their types, and only a request inside the hash cache
\* holds the lock of a file.
TypeOK ==
    /\ dir \in [Files -> Versions \cup {Nil}]
    /\ newest \in [Files -> Versions]
    /\ mem \in [Hashed -> Entries \cup {Nil}]
    /\ \A f \in Hashed : sidecar[f] # Nil =>
         sidecar[f].hash \in Versions /\ sidecar[f].lines[3] \in Versions
    /\ cache # Nil => cache \subseteq Described
    /\ \A f \in Hashed : locks[f] # Nil =>
         req[locks[f]].file = f /\ req[locks[f]].at \in {"stat", "sum", "check"}

\* HashCache: a hash handed out, from memory, from a sidecar or just computed,
\* is that of a version the file had while the request was working on it,
\* whatever replacements, concurrent requests and restarts came in between.
HashIsCurrent ==
    \A h \in Handlers : req[h].at = "hashed" => req[h].hash \in req[h].seen

\* get_map_asset: a download that ends with eof and during which the file was
\* not replaced brought every byte from the offset on, of the version whose
\* hash the client asked for.
DownloadWhole ==
    \A h \in Handlers : LET r == req[h] IN
        (r.at = "answered" /\ r.kind = "asset") =>
            /\ r.eof
            /\ \A v \in Versions : r.seen = {v} =>
                 /\ r.offset < Size[v] => r.pos = Size[v]
                 /\ r.ifMatch \in {Nil, v}

=============================================================================
