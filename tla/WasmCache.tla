-------------------------------- MODULE WasmCache --------------------------------
(***************************************************************************)
(* The archive cache of the WASM build (src/wasm/mz_wasm_native.c) and the *)
(* part of its JavaScript wrapper that loads archives through it           *)
(* (src/wasm/minizip-ng-wasm.js).                                          *)
(*                                                                         *)
(* A call of C runs to its end.  What it begins does not: downloads and    *)
(* synchronisations with IndexedDB go on in the event loop, in steps       *)
(* between which other calls come, and the page may be left at any time.   *)
(***************************************************************************)
EXTENDS Integers, Sequences, FiniteSets

CONSTANTS
  Nil,        \* no file
  Urls,       \* archives on servers, each of the same size
  KeyOf,      \* KeyOf[u]: the cache key that is used for url u
  Packages,   \* the urls that load_package is used for
  MaxChunks,  \* bound: pieces in which a body arrives
  MaxLoads,   \* bound: downloads at a time
  MaxSyncs,   \* bound: synchronisations at a time
  Habits      \* what happens besides, see CacheHabits

CacheHabits == {
  "call before restored",  \* the cache is used before the mount has read IndexedDB
  "storage fails",         \* IndexedDB refuses a synchronisation that restores or clears
  "clear while loading",   \* the cache is cleared next to a download
  "error page"}            \* load_progressive and load_package meet an HTTP error

ASSUME CacheAssumption ==
  /\ Packages \subseteq Urls /\ KeyOf \in [Urls -> {KeyOf[u] : u \in Urls}]
  /\ MaxChunks \in Nat \ {0} /\ MaxLoads \in Nat /\ MaxSyncs \in Nat
  /\ Nil \notin [url : Urls, pieces : 0..MaxChunks]
  /\ Habits \subseteq CacheHabits

VARIABLES
  initialized,  \* g_cache_initialized: the directories exist
  mounted,      \* IDBFS is mounted at /archive-cache
  files,        \* /archive-cache: file of a key, or Nil
  packages,     \* /archive-packages: file and manifest of a package, or Nil
  stored,       \* IndexedDB: file of a key, or Nil
  syncs,        \* the calls of FS.syncfs under way, oldest first
  loads,        \* the downloads under way
  told,         \* what the last step told the program: an answer, or a callback
  wanted        \* keys loaded since the cache was cleared

vars == <<initialized, mounted, files, packages, stored, syncs, loads, told, wanted>>
cacheVars == <<files, wanted>>

Keys == {KeyOf[u] : u \in Urls}
Empty == [k \in Keys |-> Nil]

\* A file: n pieces of the archive at url, or a page that says why there is none.
Archive(u, n) == [url |-> u, pieces |-> n]
Page(u)       == [url |-> u, pieces |-> 0]

Load(kind, u) == [kind |-> kind, url |-> u, got |-> 0, user |-> FALSE]
Nothing == [who |-> "nobody"]
Quiet   == told' = Nothing

Init ==
  /\ initialized = FALSE /\ mounted = FALSE /\ files = Empty /\ stored = Empty
  /\ packages = [p \in Packages |-> Nil]
  /\ syncs = <<>> /\ loads = {} /\ told = Nothing /\ wanted = {}

-----------------------------------------------------------------------------
(* FS.syncfs of Emscripten, with IDBFS: external *)

\* What is in the directory when it is called counts, as far as it was synchronised: remote is
\* what was in IndexedDB when that was read.
\* by: the call that asked for it.
Synced(by, local) == syncs' = Append(syncs, [by |-> by, local |-> local, remote |-> Nil])

Restoring == \E i \in DOMAIN syncs : syncs[i].by = "mount"
MayUse == ~Restoring \/ "call before restored" \in Habits

SyncReads ==
  \E i \in DOMAIN syncs :
    /\ syncs[i].remote = Nil /\ \A j \in 1..(i - 1) : syncs[j].remote # Nil
    /\ syncs' = [syncs EXCEPT ![i].remote = stored] /\ Quiet
    /\ UNCHANGED <<initialized, mounted, cacheVars, packages, stored, loads>>

\* Files that differ are copied from one side to the other as they are now; files that the one
\* side did not have are removed from the other.
Reconciled(from, to, now, target) ==
  [k \in Keys |-> CASE from[k] = to[k] -> target[k]
                    [] from[k] # to[k] /\ from[k] = Nil -> Nil
                    [] from[k] # to[k] /\ from[k] # Nil -> IF now[k] = Nil THEN target[k] ELSE now[k]]
SyncEnds ==
  /\ syncs # <<>> /\ Head(syncs).remote # Nil /\ syncs' = Tail(syncs) /\ Quiet
  /\ LET s == Head(syncs)
     IN IF s.by = "mount"
        THEN /\ files' = Reconciled(s.remote, s.local, stored, files)
             /\ wanted' = wanted \cup {k \in Keys : s.remote[k] # Nil} /\ UNCHANGED stored
        ELSE stored' = Reconciled(s.local, s.remote, files, stored) /\ UNCHANGED cacheVars
  /\ UNCHANGED <<initialized, mounted, packages, loads>>
\* IndexedDB refuses.
SyncFails ==
  /\ syncs # <<>> /\ (Head(syncs).by \in {"mount", "clear"} => "storage fails" \in Habits)
  /\ syncs' = Tail(syncs) /\ Quiet
  /\ UNCHANGED <<initialized, mounted, cacheVars, packages, stored, loads>>

-----------------------------------------------------------------------------
(* Calls of C *)

\* mz_wasm_native_init_filesystem.
InitFilesystem ==
  /\ initialized' = TRUE /\ Quiet
  /\ UNCHANGED <<mounted, cacheVars, packages, stored, syncs, loads>>

\* mz_wasm_native_mount_persistent_cache.  A mount hides what was in the directory; a second one
\* fails.  It returns before the files are there.
\* Mutants: the wrong direction; no synchronisation at all.
PersistAtMount  == Synced("sync", Empty)
ForgetAtMount   == UNCHANGED syncs
PopulateAtMount == Synced("mount", Empty)
Mount ==
  /\ initialized' = TRUE /\ Quiet
  /\ \/ mounted /\ UNCHANGED <<mounted, files, syncs>>
     \/ /\ ~mounted /\ Len(syncs) < MaxSyncs
        /\ mounted' = TRUE /\ files' = Empty /\ PopulateAtMount
  /\ UNCHANGED <<packages, stored, loads, wanted>>

\* mz_wasm_native_sync_cache: of the directory as it is, f.
SyncCache(by, f) == IF mounted THEN Synced(by, f) ELSE UNCHANGED syncs
Synchronize ==
  /\ MayUse /\ Len(syncs) < MaxSyncs /\ SyncCache("sync", files) /\ Quiet
  /\ UNCHANGED <<initialized, mounted, cacheVars, packages, stored, loads>>

\* mz_wasm_native_load_from_cdn: the promise of the download counts as MZ_OK, and the cache is
\* synchronised before there is anything new in it.
\* Bound: of two downloads that are the same the second begins when the first has got something.
Begins(load) == load \notin loads /\ Cardinality(loads) < MaxLoads /\ loads' = loads \cup {load}
CdnLoad(u) ==
  /\ initialized' = TRUE /\ Len(syncs) < MaxSyncs
  /\ IF files[KeyOf[u]] # Nil THEN UNCHANGED <<loads, syncs, wanted>>
     ELSE Begins(Load("cdn", u)) /\ SyncCache("load", files) /\ wanted' = wanted \cup {KeyOf[u]}
LoadFromCdn(u) ==
  /\ MayUse /\ CdnLoad(u) /\ Quiet
  /\ UNCHANGED <<mounted, files, packages, stored>>

\* mz_wasm_native_load_package and _load_progressive, which does not create directories.  user:
\* the caller has given user_data.
LoadPackage(p) ==
  /\ initialized' = TRUE /\ Begins(Load("package", p)) /\ Quiet
  /\ UNCHANGED <<mounted, cacheVars, packages, stored, syncs>>
LoadProgressive(u, user) ==
  /\ MayUse /\ Begins([Load("progressive", u) EXCEPT !.user = user]) /\ wanted' = wanted \cup {KeyOf[u]} /\ Quiet
  /\ UNCHANGED <<initialized, mounted, files, packages, stored, syncs>>

\* mz_wasm_native_clear_cache.  Mutant: one file of the directory is left.
ClearedButOne == [k \in Keys |-> IF \A j \in Keys : files[j] # Nil THEN files[k] ELSE Nil]
Cleared       == Empty
SyncAfterClear == SyncCache("clear", Cleared)
ClearCache ==
  /\ MayUse /\ Len(syncs) < MaxSyncs
  /\ "clear while loading" \in Habits \/ \A d \in loads : d.kind \notin {"cdn", "progressive"}
  /\ files' = Cleared /\ wanted' = {} /\ SyncAfterClear /\ Quiet
  /\ UNCHANGED <<initialized, mounted, packages, stored, loads>>

-----------------------------------------------------------------------------
(* The wrapper *)

\* initialize.
Initialize(persistentCache) ==
  IF persistentCache THEN Mount ELSE InitFilesystem

\* loadFromUrl: through the cache, which is read at once, or by a fetch of its own.
Answer(u, f) == told' = [who |-> "page", url |-> u, file |-> f]
LoadFromUrl(u, useCache) ==
  /\ initialized
  /\ IF useCache /\ mounted
     THEN MayUse /\ CdnLoad(u) /\ Answer(u, files[KeyOf[u]])
     ELSE Begins(Load("direct", u)) /\ Quiet /\ UNCHANGED <<initialized, syncs, wanted>>
  /\ UNCHANGED <<mounted, files, packages, stored>>

-----------------------------------------------------------------------------
(* The event loop *)

Ends(d) == loads' = loads \ {d}

\* The headers arrived, and their status counts.  Mutant: it does not.
AcceptsAll(kind, ok) == TRUE
Accepts(kind, ok)    == ok \/ kind \in {"progressive", "package"}

\* The whole body: of arrayBuffer(), or of the reader.
\* Mutant: the last piece is left out.
LastLeftOut(load) == load.got >= MaxChunks - 1
Complete(load)    == load.got = MaxChunks

\* A piece arrives.  The progress callback of load_progressive is looked for where user_data is:
\* without user_data there is none, and with it the download ends in a trap.
\* Bound: only archives come in pieces.
Piece(d) ==
  /\ ~Complete(d) /\ [d EXCEPT !.got = @ + 1] \notin loads
  /\ IF d.user THEN Ends(d) ELSE loads' = (loads \ {d}) \cup {[d EXCEPT !.got = @ + 1]}
  /\ Quiet /\ UNCHANGED <<initialized, mounted, cacheVars, packages, stored, syncs>>

\* A file is written if there is a directory for it; FS.rename does not move a file from one
\* mounted file system to another: external.
Writes(k, f) ==
  files' = IF initialized THEN [files EXCEPT ![k] = f] ELSE files
Renames(k, f) ==
  files' = IF initialized /\ ~mounted THEN [files EXCEPT ![k] = f] ELSE files

\* All of it is there.  f: what it is.
Arrived(load, f) ==
  CASE load.kind = "cdn" -> Renames(KeyOf[load.url], f) /\ Quiet /\ UNCHANGED packages
    [] load.kind = "progressive" ->
         /\ Writes(KeyOf[load.url], f) /\ UNCHANGED packages
         /\ told' = IF initialized THEN [who |-> "complete", key |-> KeyOf[load.url], file |-> f] ELSE Nothing
    [] load.kind = "package" ->
         /\ packages' = [packages EXCEPT ![load.url] = [zip |-> f, manifest |-> TRUE]]
         /\ Quiet /\ UNCHANGED files
    [] load.kind = "direct" -> Answer(load.url, f) /\ UNCHANGED <<files, packages>>
Arrives(d) ==
  /\ Complete(d)
  /\ Arrived(d, Archive(d.url, d.got)) /\ Ends(d)
  /\ UNCHANGED <<initialized, mounted, stored, syncs, wanted>>
HttpError(d) ==
  /\ d.got = 0
  /\ d.kind \in {"progressive", "package"} => "error page" \in Habits
  /\ IF Accepts(d.kind, FALSE) THEN Arrived(d, Page(d.url))
     ELSE /\ (IF d.kind = "direct" THEN Answer(d.url, Nil) ELSE Quiet)
          /\ UNCHANGED <<files, packages>>
  /\ Ends(d) /\ UNCHANGED <<initialized, mounted, stored, syncs, wanted>>
ConnectionFails(d) ==
  /\ Ends(d)
  /\ IF d.kind = "direct" THEN Answer(d.url, Nil) ELSE Quiet
  /\ UNCHANGED <<initialized, mounted, cacheVars, packages, stored, syncs>>

\* The page is left, or reloaded: what is not in IndexedDB is gone.
Reload ==
  /\ initialized' = FALSE /\ mounted' = FALSE /\ files' = Empty
  /\ packages' = [p \in Packages |-> Nil]
  /\ syncs' = <<>> /\ loads' = {} /\ wanted' = {} /\ Quiet
  /\ UNCHANGED stored

EventLoop ==
  \/ SyncReads \/ SyncEnds \/ SyncFails
  \/ \E d \in loads : Piece(d) \/ Arrives(d) \/ HttpError(d) \/ ConnectionFails(d)
Next ==
  \/ InitFilesystem \/ Mount \/ Synchronize \/ ClearCache \/ Reload
  \/ \E u \in Urls : LoadFromCdn(u)
  \/ \E u \in Urls, user \in BOOLEAN : LoadProgressive(u, user)
  \/ \E p \in Packages : LoadPackage(p)
  \/ \E c \in BOOLEAN : Initialize(c)
  \/ \E u \in Urls, c \in BOOLEAN : LoadFromUrl(u, c)
  \/ EventLoop

\* IndexedDB answers: the browser runs the event loop whatever the program does.
Spec == Init /\ [][Next]_vars /\ WF_vars(SyncReads) /\ WF_vars(SyncEnds)

-----------------------------------------------------------------------------
(* Properties *)

\* There are no more pieces than there are, and files only in directories that exist and only
\* what some server has sent (mz_wasm_native.c:41-69).
TypeOK ==
  /\ initialized \in BOOLEAN /\ mounted \in BOOLEAN /\ (mounted => initialized)
  /\ \A d \in loads : d.url \in Urls /\ d.got \in 0..MaxChunks
  /\ Len(syncs) <= MaxSyncs /\ wanted \subseteq Keys
  /\ \A k \in Keys : files[k] # Nil => initialized
  /\ \A i \in DOMAIN syncs : mounted

\* Whatever ends, fails or is left in between, a file in the cache, or in IndexedDB, is a whole
\* archive that its key is used for (mz_wasm_native.c:153-173, 312-324).
CachedIsWhole ==
  TypeOK /\ \A k \in Keys : \A f \in {files[k], stored[k]} \ {Nil} : f.pieces = MaxChunks /\ KeyOf[f.url] = k

\* While no more than two synchronisations are under way, what is in IndexedDB stays there until the
\* cache is cleared, whatever downloads and reloads come (mz_wasm_native.c:71-99, 101-118).
StoredStays == [][\A k \in Keys : stored[k] # Nil /\ stored'[k] = Nil => Head(syncs).by = "clear"]_vars

\* Once the synchronisations have ended IndexedDB has nothing that the cache does not have: what
\* it holds was restored, and what was cleared is gone there too (mz_wasm_native.c:448-449).
StoredIsCached ==
  mounted /\ syncs = <<>> => \A k \in Keys : stored[k] # Nil => files[k] # Nil

\* After a clear the cache has only what was loaded since, and so has IndexedDB once the
\* synchronisations have ended (mz_wasm_native.c:403-449).
ClearedIsGone == StoredIsCached /\ \A k \in Keys : files[k] # Nil => k \in wanted

\* loadFromUrl answers with the whole archive at its url, or an error; load_progressive calls
\* back when the archive is in the cache, and only then (minizip-ng-wasm.js:126-180,
\* mz_wasm_native.c:323-330).
AnswersAreRight ==
  /\ told.who = "page" /\ told.file # Nil => told.file = Archive(told.url, MaxChunks)
  /\ told.who = "complete" => files[told.key] = told.file

\* A mounted cache gets what IndexedDB holds, unless that is removed or the page is left
\* (mz_wasm_native.c:83-90).
Restored ==
  \A k \in Keys : mounted /\ stored[k] # Nil ~> files[k] # Nil \/ stored[k] = Nil \/ ~mounted
================================================================================
