----------------------------- MODULE MapMirror -----------------------------
(***************************************************************************)
(* The copy of an official map that a local backend keeps on disk          *)
(* (local/map_assets.rs), as the asset service and the sandbox             *)
(* administration ask for it.  Every file is written to a temporary path,  *)
(* the old file removed and the temporary one renamed.  Requests run       *)
(* concurrently, may fail at each call, are dropped when their client goes *)
(* away, and the backend may be killed at any moment; a file system        *)
(* operation that was under way when its request was dropped has either    *)
(* taken effect by then or never does.  The official bundle does not       *)
(* change while it is copied.                                              *)
(***************************************************************************)
EXTENDS Integers, Sequences, FiniteSets

CONSTANTS Handlers,     \* requests being served
          Kinds,        \* what they ask for: "map", "list"
          Size,         \* the size of a file of the bundle, in blocks
          MaxCatalogue, \* bound: versions of the official catalogue
          Part,         \* a catalogue file that is not wholly written
          Nil

\* Assumed of the constants.
MirrorAssumption ==
    /\ Size \in Nat \ {0}
    /\ MaxCatalogue \in Nat \ {0}
    /\ Nil \notin Handlers \cup 0 .. Size

Plan == <<"svg", "json", "minimap", "main", "animation">>
CheckOrder == <<"main", "json", "minimap", "svg">>
Glb == {"main", "animation"}
Files == {Plan[i] : i \in DOMAIN Plan}
Required == {CheckOrder[i] : i \in DOMAIN CheckOrder}

VARIABLES disk,       \* the blocks of each file of the map in the cache directory
          tmp,        \* the blocks of its temporary file
          sync_lock,  \* the request that fetches
          token,      \* a token is kept in auth_token
          animated,   \* the official bundle has an animation
          official,   \* the version of the official catalogue
          catalogue,  \* CATALOG_CACHE_FILE
          catTmp,     \* its temporary file
          call        \* the requests

mirror == <<disk, tmp, sync_lock>>
listing == <<official, catalogue, catTmp>>
vars == <<mirror, listing, token, animated, call>>

\* next: the file of Plan or CheckOrder a request is at; got: the blocks
\* received; ver: the catalogue received; fd: where the temporary file it has
\* opened is now; wants: the call to make once there is a token.
Idle == [at |-> "idle", next |-> 1, got |-> 0, ver |-> Nil, fd |-> Nil,
         wants |-> Nil, again |-> FALSE]

Init == /\ disk = [f \in Files |-> Nil]
        /\ tmp = [f \in Files |-> Nil]
        /\ sync_lock = Nil
        /\ token = FALSE
        /\ animated \in BOOLEAN
        /\ official = 1
        /\ catalogue = Nil /\ catTmp = Nil
        /\ call = [h \in Handlers |-> Idle]

Go(h, at) == call' = [call EXCEPT ![h].at = at]
Become(h, c) == call' = [call EXCEPT ![h] = c]
Holds(h) == sync_lock = h
Released(h) == IF Holds(h) THEN Nil ELSE sync_lock

Cached == \A f \in Required : disk[f] # Nil

-----------------------------------------------------------------------------
(* ensure_map_cached. *)

\* ensure_local_map_cached_if_needed: the files are looked for first.
Ensure(h) ==
    /\ "map" \in Kinds /\ call[h] = Idle
    /\ Go(h, IF Cached THEN "ready" ELSE "look")
    /\ UNCHANGED <<mirror, listing, token, animated>>

\* required_files_exist: one file at a time, first without and then with the
\* lock.
Look(h) ==
    LET c == call[h] IN
    /\ c.at \in {"look", "relook"}
    /\ IF disk[CheckOrder[c.next]] = Nil
       THEN /\ Become(h, IF c.at = "look" THEN [Idle EXCEPT !.at = "lock"]
                         ELSE [Idle EXCEPT !.at = "token", !.wants = "meta"])
            /\ UNCHANGED sync_lock
       ELSE IF c.next < Len(CheckOrder)
       THEN Become(h, [c EXCEPT !.next = @ + 1]) /\ UNCHANGED sync_lock
       ELSE /\ Become(h, [Idle EXCEPT !.at = "ready"])
            /\ sync_lock' = Released(h)
    /\ UNCHANGED <<disk, tmp, listing, token, animated>>

\* Mutated form: the files are not looked for again under the lock.
LockUnchecked(h) ==
    /\ call[h].at = "lock" /\ sync_lock = Nil
    /\ sync_lock' = h
    /\ Become(h, [Idle EXCEPT !.at = "token", !.wants = "meta"])
    /\ UNCHANGED <<disk, tmp, listing, token, animated>>

Lock(h) ==
    /\ call[h].at = "lock" /\ sync_lock = Nil
    /\ sync_lock' = h
    /\ Go(h, "relook")
    /\ UNCHANGED <<disk, tmp, listing, token, animated>>

\* token_or_fetch, and refresh_token once a call was refused.
Token(h) ==
    /\ call[h].at = "token"
    /\ token' = TRUE
    /\ Go(h, call[h].wants)
    /\ UNCHANGED <<mirror, listing, animated>>

\* is_auth_error: the call is made once more with a new token.
Refused(h) ==
    /\ call[h].at \in {"meta", "stream", "list"} /\ ~call[h].again
    /\ Become(h, [call[h] EXCEPT !.at = "token", !.wants = call[h].at, !.again = TRUE])
    /\ UNCHANGED <<mirror, listing, token, animated>>

\* get_map_asset_sync_meta answers with the three small files.
SyncMeta(h) ==
    /\ call[h].at = "meta"
    /\ Become(h, [Idle EXCEPT !.at = "create"])
    /\ UNCHANGED <<mirror, listing, token, animated>>

\* stream_map_asset_glb answers; an animation the bundle does not have is
\* left out, and the map is ready.
GlbAnswer(h) ==
    LET c == call[h]
        f == Plan[c.next]
    IN  /\ c.at = "stream"
        /\ IF f = "animation" /\ ~animated
           THEN Become(h, [Idle EXCEPT !.at = "ready"]) /\ sync_lock' = Released(h)
           ELSE Become(h, [c EXCEPT !.at = "create", !.again = FALSE])
                /\ UNCHANGED sync_lock
        /\ UNCHANGED <<disk, tmp, listing, token, animated>>

\* The temporary file is created, or truncated if an earlier attempt left one.
Create(h) ==
    LET f == Plan[call[h].next] IN
    /\ call[h].at = "create"
    /\ tmp' = [tmp EXCEPT ![f] = 0]
    /\ Become(h, [call[h] EXCEPT !.at = "fill", !.got = 0])
    /\ UNCHANGED <<disk, sync_lock, listing, token, animated>>

\* Mutated form: the first chunk of a glb is taken for the whole file.
FillOnce(h) ==
    LET c == call[h]
        f == Plan[c.next]
    IN  /\ c.at = "fill"
        /\ \E n \in 1 .. Size - c.got :
             /\ tmp' = [tmp EXCEPT ![f] = c.got + n]
             /\ Become(h, [c EXCEPT !.got = c.got + n, !.at = "remove"])
        /\ UNCHANGED <<disk, sync_lock, listing, token, animated>>

\* A small file is written whole; a glb chunk by chunk, at the offset that
\* follows the last one, until the chunk marked eof.
Fill(h) ==
    LET c == call[h]
        f == Plan[c.next]
    IN  /\ c.at = "fill"
        /\ \E n \in 1 .. Size - c.got :
             LET got == IF f \in Glb THEN c.got + n ELSE Size IN
             /\ tmp' = [tmp EXCEPT ![f] = got]
             /\ Become(h, [c EXCEPT !.got = got,
                                    !.at = IF got = Size THEN "remove" ELSE "fill"])
        /\ UNCHANGED <<disk, sync_lock, listing, token, animated>>

\* replace_file_atomically removes the old file ...
RemoveOld(h) ==
    /\ call[h].at = "remove"
    /\ disk' = [disk EXCEPT ![Plan[call[h].next]] = Nil]
    /\ Go(h, "rename")
    /\ UNCHANGED <<tmp, sync_lock, listing, token, animated>>

\* ... and renames the temporary one; then comes the next file of the plan.
Rename(h) ==
    LET f == Plan[call[h].next]
        n == call[h].next + 1
    IN  /\ call[h].at = "rename"
        /\ disk' = [disk EXCEPT ![f] = tmp[f]]
        /\ tmp' = [tmp EXCEPT ![f] = Nil]
        /\ IF n > Len(Plan)
           THEN Become(h, [Idle EXCEPT !.at = "ready"]) /\ sync_lock' = Released(h)
           ELSE /\ Become(h, IF Plan[n] \in Glb
                             THEN [Idle EXCEPT !.next = n, !.at = "token", !.wants = "stream"]
                             ELSE [Idle EXCEPT !.next = n, !.at = "create"])
                /\ UNCHANGED sync_lock
        /\ UNCHANGED <<listing, token, animated>>

-----------------------------------------------------------------------------
(* list_maps_remote_or_cached. *)

List(h) ==
    /\ "list" \in Kinds /\ call[h] = Idle
    /\ Become(h, [Idle EXCEPT !.at = "token", !.wants = "list"])
    /\ UNCHANGED <<mirror, listing, token, animated>>

\* The official backend answers: write_catalog_cache begins.
Listed(h) ==
    /\ call[h].at = "list"
    /\ Become(h, [Idle EXCEPT !.at = "catCreate", !.ver = official])
    /\ UNCHANGED <<mirror, listing, token, animated>>

\* write_bytes_atomically on the catalogue, without a lock: two listings share
\* one temporary file.
CatCreate(h) ==
    /\ call[h].at = "catCreate"
    /\ catTmp' = Part
    /\ Become(h, [call[h] EXCEPT !.at = "catFill", !.fd = "tmp"])
    /\ UNCHANGED <<mirror, official, catalogue, token, animated>>

\* What is in a file after a second writer: its bytes, or a mixture.
Mixed(old, new) == IF old \in {Part, new} THEN {new} ELSE {new, Part}

CatFill(h) ==
    LET c == call[h] IN
    /\ c.at = "catFill"
    /\ IF c.fd = "tmp" THEN catTmp' \in Mixed(catTmp, c.ver) ELSE UNCHANGED catTmp
    /\ IF c.fd = "final" THEN catalogue' \in Mixed(catalogue, c.ver)
       ELSE UNCHANGED catalogue
    /\ Become(h, [c EXCEPT !.at = "catRemove", !.fd = Nil])
    /\ UNCHANGED <<mirror, official, token, animated>>

CatRemove(h) ==
    /\ call[h].at = "catRemove"
    /\ catalogue' = Nil
    /\ call' = [g \in Handlers |->
                  IF g = h THEN [call[h] EXCEPT !.at = "catRename"]
                  ELSE IF call[g].fd = "final" THEN [call[g] EXCEPT !.fd = "gone"]
                  ELSE call[g]]
    /\ UNCHANGED <<mirror, official, catTmp, token, animated>>

\* A rename that finds no temporary file fails; the answer is given all the same.
CatRename(h) ==
    /\ call[h].at = "catRename"
    /\ IF catTmp = Nil THEN UNCHANGED <<catalogue, catTmp>>
       ELSE catalogue' = catTmp /\ catTmp' = Nil
    /\ call' = [g \in Handlers |->
                  IF g = h THEN [call[h] EXCEPT !.at = "answered"]
                  ELSE IF catTmp = Nil THEN call[g]
                  ELSE IF call[g].fd = "tmp" THEN [call[g] EXCEPT !.fd = "final"]
                  ELSE IF call[g].fd = "final" THEN [call[g] EXCEPT !.fd = "gone"]
                  ELSE call[g]]
    /\ UNCHANGED <<mirror, official, token, animated>>

\* Mutated form: the catalogue file is taken as it is.
CatReadUnchecked(h) ==
    /\ call[h].at = "list"
    /\ IF catalogue = Nil THEN Become(h, Idle)
       ELSE Become(h, [Idle EXCEPT !.at = "answered", !.ver = catalogue])
    /\ UNCHANGED <<mirror, listing, token, animated>>

\* The call failed or timed out: read_catalog_cache_or answers from the file;
\* one that is missing or does not parse makes the request fail.
CatRead(h) ==
    /\ call[h].at = "list"
    /\ IF catalogue \in {Nil, Part} THEN Become(h, Idle)
       ELSE Become(h, [Idle EXCEPT !.at = "answered", !.ver = catalogue])
    /\ UNCHANGED <<mirror, listing, token, animated>>

-----------------------------------------------------------------------------
(* Answers, failures and the environment. *)

Answered(h) ==
    /\ call[h].at \in {"ready", "answered"}
    /\ Become(h, Idle)
    /\ UNCHANGED <<mirror, listing, token, animated>>

\* A call fails, or the request is dropped: the lock is free again and the
\* files stay as they are.
Fail(h) ==
    /\ call[h].at \notin {"idle", "ready", "answered"}
    /\ Become(h, Idle)
    /\ sync_lock' = Released(h)
    /\ UNCHANGED <<disk, tmp, listing, token, animated>>

\* The backend is killed and started again; a first call has been made since.
Kill ==
    /\ token
    /\ token' = FALSE
    /\ call' = [h \in Handlers |-> Idle]
    /\ sync_lock' = Nil
    /\ UNCHANGED <<disk, tmp, listing, animated>>

\* The official backend publishes another catalogue.
Publish ==
    /\ official < MaxCatalogue
    /\ official' = official + 1
    /\ UNCHANGED <<mirror, catalogue, catTmp, token, animated, call>>

Next ==
    \/ Publish \/ Kill
    \/ \E h \in Handlers :
         \/ Ensure(h) \/ Look(h) \/ Lock(h) \/ Token(h) \/ Refused(h)
         \/ SyncMeta(h) \/ GlbAnswer(h) \/ Create(h) \/ Fill(h) \/ RemoveOld(h)
         \/ Rename(h)
         \/ List(h) \/ Listed(h) \/ CatCreate(h) \/ CatFill(h) \/ CatRemove(h)
         \/ CatRename(h) \/ CatRead(h)
         \/ Answered(h) \/ Fail(h)

Spec == Init /\ [][Next]_vars

-----------------------------------------------------------------------------
(* Properties. *)

\* The variables keep their types.
TypeOK ==
    /\ disk \in [Files -> (0 .. Size) \cup {Nil}]
    /\ tmp \in [Files -> (0 .. Size) \cup {Nil}]
    /\ sync_lock \in Handlers \cup {Nil}
    /\ official \in 1 .. MaxCatalogue
    /\ {catalogue, catTmp} \subseteq (1 .. MaxCatalogue) \cup {Nil, Part}

\* required_files_exist and ensure_map_cached: a request told that the map is
\* cached finds every required file, whole; whatever failed, was cancelled or
\* killed before, and whoever fetches at the same time.
ReadyIsWhole ==
    \A h \in Handlers : call[h].at = "ready" => \A f \in Required : disk[f] = Size

\* sync_lock and the second look under it: the files of a map that is cached
\* are never fetched again, so no request loses them between being told and
\* reading them.
CachedStays == [][Cached => Cached']_vars

\* list_maps_remote_or_cached: a catalogue answered is one the official backend
\* served, also when two listings wrote the cache file at the same time.
CatalogueIsReal ==
    \A h \in Handlers : call[h].at = "answered" => call[h].ver \in 1 .. official

=============================================================================
