---------------------------- MODULE WasmCache_proofs ----------------------------
(***************************************************************************)
(* Theorems about WasmCache, for every set of archives and packages and    *)
(* every bound, when none of Habits happens.                               *)
(***************************************************************************)
EXTENDS WasmCache, SequenceTheorems, TLAPS

-----------------------------------------------------------------------------
(* The invariant *)

\* What a directory may hold of a key, and what is kept of a synchronisation and a download.
File     == [url : Urls, pieces : Nat] \cup {Nil}
Contents == [Keys -> File]
Sync     == [by : {"mount", "sync", "load", "clear"}, local : Contents, remote : Contents \cup {Nil}]
Download == [kind : {"cdn", "progressive", "package", "direct"}, url : Urls,
             got : 0..MaxChunks, user : BOOLEAN]

Types ==
  /\ initialized \in BOOLEAN /\ mounted \in BOOLEAN
  /\ files \in Contents /\ stored \in Contents
  /\ syncs \in Seq(Sync) /\ loads \subseteq Download /\ wanted \subseteq Keys

\* Directories exist before there is anything in them.
Directories ==
  /\ mounted => initialized
  /\ \A k \in Keys : files[k] # Nil => initialized
  /\ Len(syncs) <= MaxSyncs /\ (syncs # <<>> => mounted)

Whole(f, k) == f # Nil => f.pieces = MaxChunks /\ KeyOf[f.url] = k
AllWhole == \A k \in Keys : Whole(files[k], k) /\ Whole(stored[k], k)

\* Nobody asks for a synchronisation next to the one that restores, so IndexedDB is still what it read.
MountIsAlone ==
  \A i \in DOMAIN syncs :
    syncs[i].by = "mount" =>
      Len(syncs) = 1 /\ syncs[i].local = Empty /\ (syncs[i].remote = Nil \/ syncs[i].remote = stored)

\* A synchronisation that makes the two sides alike in k, where its directory has no file.
Settles(s, k) ==
  /\ s.by \in {"mount", "clear"} /\ s.local[k] = Nil
  /\ s.remote = Nil \/ s.remote[k] # Nil

\* What IndexedDB has and the cache has not is about to be restored or removed.
MissingIsSettled ==
  mounted => \A k \in Keys : stored[k] # Nil /\ files[k] = Nil =>
               \E i \in DOMAIN syncs : Settles(syncs[i], k)

\* What comes into the cache is wanted: what is there, and what is on its way.
Wanted ==
  /\ \A k \in Keys : files[k] # Nil => k \in wanted
  /\ \A d \in loads : d.kind \in {"cdn", "progressive"} => KeyOf[d.url] \in wanted

CacheInv == Types /\ Directories /\ AllWhole /\ MountIsAlone /\ MissingIsSettled /\ Wanted

\* With at most two synchronisations at a time none but a clear, or one behind a clear, finds a
\* file in IndexedDB that it does not find in the directory.
Keeps(s) == s.by \in {"sync", "load"}
NoneMissing ==
  /\ \A i \in DOMAIN syncs : ~Keeps(syncs[i]) => syncs[i].local = Empty
  /\ \A k \in Keys :
       /\ Len(syncs) >= 1 /\ Keeps(syncs[1]) /\ syncs[1].local[k] = Nil => stored[k] = Nil
       /\ Len(syncs) = 1 /\ Keeps(syncs[1]) /\ syncs[1].local[k] # Nil => files[k] # Nil
       /\ Len(syncs) = 2 /\ Keeps(syncs[2]) =>
            /\ syncs[2].local[k] # Nil => files[k] # Nil
            /\ syncs[2].local[k] = Nil =>
                 /\ syncs[1].local[k] = Nil
                 /\ Keeps(syncs[1]) \/ stored[k] = Nil \/ Settles(syncs[1], k)

-----------------------------------------------------------------------------
(* Sequences of synchronisations, and files *)

\* A synchronisation is added behind the others.
LEMMA Added ==
  ASSUME NEW q \in Seq(Sync), NEW s \in Sync
  PROVE  /\ Append(q, s) \in Seq(Sync) /\ Len(Append(q, s)) = Len(q) + 1
         /\ DOMAIN Append(q, s) = 1..(Len(q) + 1) /\ DOMAIN q = 1..Len(q) /\ Len(q) \in Nat
         /\ \A i \in 1..Len(q) : Append(q, s)[i] = q[i]
         /\ Append(q, s)[Len(q) + 1] = s
BY AppendProperties, LenProperties

\* The oldest one is done.
LEMMA Removed ==
  ASSUME NEW q \in Seq(Sync), q # <<>>
  PROVE  /\ Head(q) \in Sync /\ Head(q) = q[1] /\ Len(q) \in Nat \ {0} /\ DOMAIN q = 1..Len(q)
         /\ Tail(q) \in Seq(Sync) /\ Len(Tail(q)) = Len(q) - 1 /\ DOMAIN Tail(q) = 1..(Len(q) - 1)
         /\ \A i \in 1..(Len(q) - 1) : Tail(q)[i] = q[i + 1]
<1>1. /\ Head(q) \in Sync /\ Tail(q) \in Seq(Sync) /\ Len(Tail(q)) = Len(q) - 1
      /\ \A i \in 1..Len(Tail(q)) : Tail(q)[i] = q[i + 1]
  BY HeadTailProperties
<1>2. Len(q) \in Nat /\ DOMAIN q = 1..Len(q) /\ (Len(q) = 0 => q = <<>>)
  BY LenProperties, EmptySeq
<1>3. DOMAIN Tail(q) = 1..Len(Tail(q))
  BY <1>1, LenProperties
<1>4. Head(q) = q[1]
  OBVIOUS
<1> QED
  BY <1>1, <1>2, <1>3, <1>4

LEMMA KeyOfUrl == \A u \in Urls : KeyOf[u] \in Keys
BY DEF Keys

LEMMA EmptyContents == Empty \in Contents /\ \A k \in Keys : Empty[k] = Nil
BY DEF Empty, Contents, File

\* A download that is begun.
LEMMA BegunLoad ==
  ASSUME NEW kind \in {"cdn", "progressive", "package", "direct"}, NEW u \in Urls
  PROVE  /\ Load(kind, u) \in Download /\ Load(kind, u).kind = kind /\ Load(kind, u).url = u
         /\ \A user \in BOOLEAN : LET d == [Load(kind, u) EXCEPT !.user = user]
                                  IN  d \in Download /\ d.kind = kind /\ d.url = u
<1>1. 0 \in 0..MaxChunks
  BY CacheAssumption
<1> QED
  BY <1>1 DEF Load, Download

LEMMA WholeArchive ==
  ASSUME NEW u \in Urls
  PROVE  /\ Archive(u, MaxChunks) \in File /\ Archive(u, MaxChunks) # Nil
         /\ Whole(Archive(u, MaxChunks), KeyOf[u])
<1>1. MaxChunks \in Nat /\ MaxChunks \in 0..MaxChunks
  BY CacheAssumption
<1>2. Archive(u, MaxChunks) \in [url : Urls, pieces : 0..MaxChunks]
  BY <1>1 DEF Archive
<1>3. Archive(u, MaxChunks) # Nil
  BY <1>2, CacheAssumption
<1> QED
  BY <1>1, <1>3 DEF Archive, File, Whole

-----------------------------------------------------------------------------
(* What steps preserve the invariant *)

LEMMA InitCache == Init => CacheInv
<1> SUFFICES ASSUME Init PROVE CacheInv
  OBVIOUS
<1>1. MaxSyncs \in Nat
  BY CacheAssumption
<1>2. syncs \in Seq(Sync) /\ Len(syncs) = 0 /\ DOMAIN syncs = {}
  BY EmptySeq DEF Init
<1>3. Types
  BY <1>2, EmptyContents DEF Init, Types
<1>4. Directories
  BY <1>1, <1>2, EmptyContents DEF Init, Directories
<1>5. AllWhole /\ Wanted
  BY EmptyContents DEF Init, AllWhole, Whole, Wanted
<1>6. MountIsAlone /\ MissingIsSettled
  BY <1>2 DEF Init, MountIsAlone, MissingIsSettled
<1> QED
  BY <1>3, <1>4, <1>5, <1>6 DEF CacheInv

\* A step next to the cache: it creates directories, or begins or ends a download.
LEMMA AsideCache ==
  ASSUME CacheInv, UNCHANGED <<mounted, files, stored, syncs>>,
         initialized' \in BOOLEAN, initialized => initialized',
         loads' \subseteq Download, wanted \subseteq wanted', wanted' \subseteq Keys,
         \A d \in loads' : d.kind \in {"cdn", "progressive"} => KeyOf[d.url] \in wanted'
  PROVE  CacheInv'
<1>1. Types'
  BY DEF CacheInv, Types
<1>2. Directories' /\ AllWhole' /\ MountIsAlone' /\ MissingIsSettled'
  BY DEF CacheInv, Directories, AllWhole, Whole, MountIsAlone, MissingIsSettled, Settles
<1>3. Wanted'
  BY DEF CacheInv, Types, Wanted
<1> QED
  BY <1>1, <1>2, <1>3 DEF CacheInv

\* A whole archive is put where its key is.
LEMMA StoreCache ==
  ASSUME CacheInv, UNCHANGED <<mounted, initialized, stored, syncs, wanted>>, initialized,
         NEW k \in wanted, NEW f \in File, Whole(f, k), f # Nil,
         files' = [files EXCEPT ![k] = f], loads' \subseteq loads
  PROVE  CacheInv'
<1>1. k \in Keys /\ files \in Contents
  BY DEF CacheInv, Types
<1>2. /\ files' \in Contents /\ files'[k] = f
      /\ \A j \in Keys : j # k => files'[j] = files[j]
  BY <1>1 DEF Contents
<1>3. Types'
  BY <1>2 DEF CacheInv, Types
<1>4. Directories' /\ AllWhole' /\ Wanted'
  BY <1>2 DEF CacheInv, Directories, AllWhole, Whole, Wanted
<1>5. MountIsAlone'
  BY DEF CacheInv, MountIsAlone
<1>6. MissingIsSettled'
  BY <1>2 DEF CacheInv, MissingIsSettled, Settles
<1> QED
  BY <1>3, <1>4, <1>5, <1>6 DEF CacheInv

\* A synchronisation of the directory as it is, asked for when none restores.
LEMMA SyncCacheStep ==
  ASSUME CacheInv, mounted, ~Restoring, Len(syncs) < MaxSyncs, NEW by \in {"sync", "load"},
         Synced(by, files), UNCHANGED <<mounted, files, stored>>, initialized' = TRUE \/ initialized' = initialized,
         loads' \subseteq Download, wanted \subseteq wanted', wanted' \subseteq Keys,
         \A d \in loads' : d.kind \in {"cdn", "progressive"} => KeyOf[d.url] \in wanted'
  PROVE  CacheInv'
<1> DEFINE s == [by |-> by, local |-> files, remote |-> Nil]
<1>1. syncs \in Seq(Sync) /\ s \in Sync /\ syncs' = Append(syncs, s)
  BY DEF CacheInv, Types, Sync, Synced
<1>2. s.by # "mount"
  OBVIOUS
<1> HIDE DEF s
<1>3. /\ syncs' \in Seq(Sync) /\ Len(syncs') = Len(syncs) + 1
      /\ DOMAIN syncs' = 1..(Len(syncs) + 1) /\ DOMAIN syncs = 1..Len(syncs) /\ Len(syncs) \in Nat
      /\ \A i \in 1..Len(syncs) : syncs'[i] = syncs[i]
      /\ syncs'[Len(syncs) + 1] = s
  BY <1>1, Added, Zenon
<1>4. Types'
  BY <1>3 DEF CacheInv, Types
<1>5. Directories'
  <2>1. MaxSyncs \in Nat
    BY CacheAssumption
  <2>2. Len(syncs') <= MaxSyncs
    BY <1>3, <2>1
  <2>3. initialized'
    BY DEF CacheInv, Directories
  <2> QED
    BY <2>2, <2>3, Zenon DEF Directories
<1>6. AllWhole' /\ Wanted'
  BY DEF CacheInv, AllWhole, Whole, Wanted
<1>7. MountIsAlone'
  BY <1>2, <1>3 DEF CacheInv, MountIsAlone, Restoring
<1>8. MissingIsSettled'
  BY <1>3 DEF CacheInv, MissingIsSettled, Settles
<1> QED
  BY <1>4, <1>5, <1>6, <1>7, <1>8 DEF CacheInv

\* The cache is cleared, and IndexedDB is to follow.
LEMMA ClearStep ==
  ASSUME CacheInv, Habits = {}, ClearCache
  PROVE  CacheInv'
<1>1. /\ ~Restoring /\ Len(syncs) < MaxSyncs
      /\ \A d \in loads : d.kind \notin {"cdn", "progressive"}
      /\ files' = Empty /\ wanted' = {} /\ UNCHANGED <<initialized, mounted, stored, loads>>
  BY DEF ClearCache, MayUse, Cleared
<1>2. IF mounted THEN Synced("clear", Empty) ELSE UNCHANGED syncs
  BY DEF ClearCache, SyncAfterClear, SyncCache, Cleared
<1>3. AllWhole' /\ Wanted'
  BY <1>1, EmptyContents DEF CacheInv, AllWhole, Whole, Wanted
<1>4. files' \in Contents /\ \A k \in Keys : files'[k] = Nil
  BY <1>1, EmptyContents
<1>5. CASE ~mounted
  <2>1. syncs' = syncs
    BY <1>2, <1>5
  <2>2. Types' /\ Directories'
    BY <1>1, <1>4, <2>1 DEF CacheInv, Types, Directories
  <2>3. MountIsAlone' /\ MissingIsSettled'
    BY <1>1, <1>5, <2>1 DEF CacheInv, MountIsAlone, MissingIsSettled
  <2> QED
    BY <1>3, <2>2, <2>3 DEF CacheInv
<1>6. CASE mounted
  <2> DEFINE s == [by |-> "clear", local |-> Empty, remote |-> Nil]
  <2>1. syncs \in Seq(Sync) /\ s \in Sync /\ syncs' = Append(syncs, s)
    BY <1>2, <1>6, EmptyContents DEF CacheInv, Types, Sync, Synced
  <2>2. s.by = "clear" /\ s.remote = Nil /\ \A k \in Keys : s.local[k] = Nil
    BY EmptyContents
  <2> HIDE DEF s
  <2>3. /\ syncs' \in Seq(Sync) /\ Len(syncs') = Len(syncs) + 1
        /\ DOMAIN syncs' = 1..(Len(syncs) + 1) /\ DOMAIN syncs = 1..Len(syncs) /\ Len(syncs) \in Nat
        /\ \A i \in 1..Len(syncs) : syncs'[i] = syncs[i]
        /\ syncs'[Len(syncs) + 1] = s
    BY <2>1, Added, Zenon
  <2>4. Types'
    BY <1>1, <1>4, <2>3 DEF CacheInv, Types
  <2>5. Directories'
    <3>1. MaxSyncs \in Nat
      BY CacheAssumption
    <3>2. Len(syncs') <= MaxSyncs
      BY <1>1, <2>3, <3>1
    <3>3. (mounted => initialized) /\ mounted' = mounted /\ initialized' = initialized
      BY <1>1 DEF CacheInv, Directories
    <3> QED
      BY <1>4, <1>6, <3>2, <3>3, Zenon DEF Directories
  <2>6. MountIsAlone'
    BY <1>1, <2>2, <2>3 DEF CacheInv, MountIsAlone, Restoring
  <2>7. MissingIsSettled'
    <3>1. Len(syncs) + 1 \in DOMAIN syncs' /\ \A k \in Keys : Settles(syncs'[Len(syncs) + 1], k)
      BY <2>2, <2>3 DEF Settles
    <3>2. \A k \in Keys : \E i \in DOMAIN syncs' : Settles(syncs'[i], k)
      BY <3>1, Zenon
    <3> QED
      BY <3>2 DEF MissingIsSettled, Settles
  <2> QED
    BY <1>3, <2>4, <2>5, <2>6, <2>7 DEF CacheInv
<1> QED
  BY <1>5, <1>6

\* A mount hides what there was; nothing is under way yet but what it asks for.
LEMMA MountStep ==
  ASSUME CacheInv, Mount
  PROVE  CacheInv'
<1>1. initialized' = TRUE /\ UNCHANGED <<stored, loads, wanted>>
  BY DEF Mount
<1>2. CASE mounted /\ UNCHANGED <<mounted, files, syncs>>
  BY <1>1, <1>2, AsideCache DEF CacheInv, Types, Wanted
<1>3. CASE ~mounted /\ mounted' = TRUE /\ Len(syncs) < MaxSyncs /\ files' = Empty /\ PopulateAtMount
  <2> DEFINE s == [by |-> "mount", local |-> Empty, remote |-> Nil]
  <2>1. syncs \in Seq(Sync) /\ s \in Sync /\ syncs' = Append(syncs, s) /\ syncs = <<>>
    BY <1>3, EmptyContents DEF CacheInv, Types, Sync, Synced, PopulateAtMount, Directories
  <2>2. s.by = "mount" /\ s.remote = Nil /\ s.local = Empty /\ \A k \in Keys : s.local[k] = Nil
    BY EmptyContents
  <2> HIDE DEF s
  <2>3. syncs' \in Seq(Sync) /\ Len(syncs') = 1 /\ DOMAIN syncs' = 1..1 /\ syncs'[1] = s
    <3>1. Len(syncs) = 0
      BY <2>1
    <3> QED
      BY <2>1, <3>1, Added
  <2>4. files' \in Contents /\ \A k \in Keys : files'[k] = Nil
    BY <1>3, EmptyContents
  <2>5. Types'
    BY <1>1, <1>3, <2>3, <2>4 DEF CacheInv, Types
  <2>6. Directories'
    <3>1. MaxSyncs \in Nat /\ Len(syncs) = 0
      BY CacheAssumption, <2>1
    <3>2. Len(syncs') <= MaxSyncs
      BY <1>3, <2>3, <3>1
    <3> QED
      BY <1>1, <1>3, <3>2, Zenon DEF Directories
  <2>7. AllWhole' /\ Wanted'
    BY <1>1, <2>4 DEF CacheInv, AllWhole, Whole, Wanted
  <2>8. MountIsAlone'
    BY <2>2, <2>3 DEF MountIsAlone
  <2>9. MissingIsSettled'
    <3>1. 1 \in DOMAIN syncs' /\ \A k \in Keys : Settles(syncs'[1], k)
      BY <2>2, <2>3 DEF Settles
    <3>2. \A k \in Keys : \E i \in DOMAIN syncs' : Settles(syncs'[i], k)
      BY <3>1, Zenon
    <3> QED
      BY <3>2 DEF MissingIsSettled, Settles
  <2> QED
    BY <2>5, <2>6, <2>7, <2>8, <2>9 DEF CacheInv
<1> QED
  BY <1>2, <1>3 DEF Mount

\* IndexedDB is read: what a synchronisation finds missing there stays to be restored or removed.
LEMMA SyncReadsStep ==
  ASSUME CacheInv, SyncReads
  PROVE  CacheInv'
<1>1. PICK i \in DOMAIN syncs :
        syncs[i].remote = Nil /\ syncs' = [syncs EXCEPT ![i].remote = stored]
  BY DEF SyncReads
<1>2. UNCHANGED <<initialized, mounted, files, wanted, stored, loads>>
  BY DEF SyncReads, cacheVars
<1>3. syncs \in Seq(Sync) /\ stored \in Contents /\ DOMAIN syncs = 1..Len(syncs) /\ Len(syncs) \in Nat
  BY LenProperties DEF CacheInv, Types
<1>4. syncs[i] \in Sync
  BY <1>3
<1> DEFINE s == [syncs[i] EXCEPT !.remote = stored]
<1>5. s \in Sync /\ s.by = syncs[i].by /\ s.local = syncs[i].local /\ s.remote = stored
  BY <1>3, <1>4 DEF Sync
<1>6. syncs' = [syncs EXCEPT ![i] = s]
  BY <1>1
<1> HIDE DEF s
<1>7. /\ syncs' \in Seq(Sync) /\ Len(syncs') = Len(syncs) /\ DOMAIN syncs' = DOMAIN syncs
      /\ syncs'[i] = s /\ \A j \in DOMAIN syncs : j # i => syncs'[j] = syncs[j]
  BY <1>3, <1>5, <1>6, ExceptSeq, LenProperties
<1>8. Types'
  BY <1>2, <1>7 DEF CacheInv, Types
<1>9. Directories' /\ AllWhole' /\ Wanted'
  BY <1>2, <1>3, <1>7 DEF CacheInv, Directories, AllWhole, Whole, Wanted
<1>10. MountIsAlone'
  BY <1>2, <1>3, <1>5, <1>7 DEF CacheInv, MountIsAlone
<1>11. ASSUME NEW k \in Keys, NEW j \in DOMAIN syncs, stored[k] # Nil, Settles(syncs[j], k)
       PROVE  Settles(syncs'[j], k)
  BY <1>5, <1>7, <1>11 DEF Settles
<1>12. MissingIsSettled'
  BY <1>2, <1>7, <1>11 DEF CacheInv, MissingIsSettled
<1> QED
  BY <1>8, <1>9, <1>10, <1>12 DEF CacheInv

\* What a synchronisation makes of a file: it takes the one that is there now, or leaves what was.
LEMMA ReconciledFile ==
  ASSUME NEW from \in Contents, NEW to \in Contents, NEW now \in Contents, NEW target \in Contents
  PROVE  /\ Reconciled(from, to, now, target) \in Contents
         /\ \A k \in Keys :
              LET f == Reconciled(from, to, now, target)[k] IN
              /\ f \in {Nil, now[k], target[k]}
              /\ from[k] # Nil => f = (IF from[k] = to[k] \/ now[k] = Nil THEN target[k] ELSE now[k])
              /\ from[k] = Nil => f = (IF to[k] = Nil THEN target[k] ELSE Nil)
<1> DEFINE r == Reconciled(from, to, now, target)
<1>1. r = [k \in Keys |-> CASE from[k] = to[k] -> target[k]
                            [] from[k] # to[k] /\ from[k] = Nil -> Nil
                            [] from[k] # to[k] /\ from[k] # Nil -> IF now[k] = Nil THEN target[k] ELSE now[k]]
  BY DEF Reconciled
<1>2. ASSUME NEW k \in Keys
      PROVE  r[k] = IF from[k] = to[k] THEN target[k]
                    ELSE IF from[k] = Nil THEN Nil
                    ELSE IF now[k] = Nil THEN target[k] ELSE now[k]
  BY <1>1
<1>3. DOMAIN r = Keys /\ r = [k \in Keys |-> r[k]]
  BY <1>1
<1> HIDE DEF r
<1>4. \A k \in Keys : r[k] \in {Nil, now[k], target[k]}
  BY <1>2
<1>5. \A k \in Keys : now[k] \in File /\ target[k] \in File /\ Nil \in File
  BY DEF Contents, File
<1>6. r \in Contents
  BY <1>3, <1>4, <1>5 DEF Contents
<1>7. r \in Contents /\ \A k \in Keys :
              /\ r[k] \in {Nil, now[k], target[k]}
              /\ from[k] # Nil => r[k] = (IF from[k] = to[k] \/ now[k] = Nil THEN target[k] ELSE now[k])
              /\ from[k] = Nil => r[k] = (IF to[k] = Nil THEN target[k] ELSE Nil)
  BY <1>2, <1>4, <1>6
<1> QED
  BY <1>7 DEF r

\* The oldest synchronisation is done.
LEMMA SyncEndsStep ==
  ASSUME CacheInv, SyncEnds
  PROVE  CacheInv'
<1> DEFINE s == Head(syncs)
<1>1. syncs # <<>> /\ s.remote # Nil /\ syncs' = Tail(syncs)
      /\ UNCHANGED <<initialized, mounted, loads>>
  BY DEF SyncEnds
<1>2. IF s.by = "mount"
      THEN /\ files' = Reconciled(s.remote, s.local, stored, files)
           /\ wanted' = wanted \cup {k \in Keys : s.remote[k] # Nil} /\ stored' = stored
      ELSE stored' = Reconciled(s.local, s.remote, files, stored) /\ files' = files /\ wanted' = wanted
  BY DEF SyncEnds, cacheVars
<1>3. syncs \in Seq(Sync) /\ files \in Contents /\ stored \in Contents
  BY DEF CacheInv, Types
<1>4. /\ s \in Sync /\ s = syncs[1] /\ Len(syncs) \in Nat \ {0} /\ DOMAIN syncs = 1..Len(syncs)
      /\ syncs' \in Seq(Sync) /\ Len(syncs') = Len(syncs) - 1 /\ DOMAIN syncs' = 1..(Len(syncs) - 1)
      /\ \A i \in 1..(Len(syncs) - 1) : syncs'[i] = syncs[i + 1]
  BY <1>1, <1>3, Removed
<1>5. s.local \in Contents /\ s.remote \in Contents
  BY <1>1, <1>4 DEF Sync
<1>6. mounted /\ initialized /\ mounted' /\ initialized'
  BY <1>1 DEF CacheInv, Directories
<1>7. 1 \in DOMAIN syncs
  BY <1>4
<1> HIDE DEF s
<1>8. Len(syncs') <= MaxSyncs
  <2>1. MaxSyncs \in Nat /\ Len(syncs) <= MaxSyncs
    BY CacheAssumption DEF CacheInv, Directories
  <2> QED
    BY <1>4, <2>1
<1>9. CASE s.by = "mount"
  <2>1. Len(syncs) = 1 /\ s.remote = stored
    BY <1>1, <1>4, <1>7, <1>9 DEF CacheInv, MountIsAlone, s
  <2>2. /\ files' \in Contents
        /\ \A k \in Keys : files'[k] \in {Nil, stored[k], files[k]}
        /\ \A k \in Keys : stored[k] # Nil => files'[k] # Nil
        /\ \A k \in Keys : files'[k] # Nil => files[k] # Nil \/ stored[k] # Nil
    <3>1. files' = Reconciled(stored, s.local, stored, files)
      BY <1>2, <1>9, <2>1
    <3>2. /\ files' \in Contents
          /\ \A k \in Keys :
              /\ files'[k] \in {Nil, stored[k], files[k]}
              /\ stored[k] # Nil => files'[k] = (IF stored[k] = s.local[k] \/ stored[k] = Nil THEN files[k] ELSE stored[k])
              /\ stored[k] = Nil => files'[k] = (IF s.local[k] = Nil THEN files[k] ELSE Nil)
      BY <1>3, <1>5, <3>1, ReconciledFile
    <3>3. \A k \in Keys : s.local[k] = Nil
      <4>1. s.local = Empty
        BY <1>4, <1>7, <1>9 DEF CacheInv, MountIsAlone, s
      <4> QED
        BY <4>1, EmptyContents
    <3> QED
      BY <3>2, <3>3
  <2>3. stored' = stored /\ wanted' = wanted \cup {k \in Keys : stored[k] # Nil}
    BY <1>2, <1>9, <2>1
  <2>4. syncs' = <<>>
    BY <1>4, <2>1, EmptySeq
  <2>5. Types'
    BY <1>1, <1>4, <2>2, <2>3 DEF CacheInv, Types
  <2>6. Directories'
    BY <1>6, <1>8, Zenon DEF Directories
  <2>7. AllWhole'
    BY <2>2, <2>3 DEF CacheInv, AllWhole, Whole
  <2>8. MountIsAlone'
    BY <1>4, <2>1 DEF MountIsAlone
  <2>9. MissingIsSettled'
    BY <2>2, <2>3 DEF MissingIsSettled
  <2>10. Wanted'
    BY <1>1, <2>2, <2>3 DEF CacheInv, Wanted
  <2> QED
    BY <2>5, <2>6, <2>7, <2>8, <2>9, <2>10 DEF CacheInv
<1>10. CASE s.by # "mount"
  <2>1. stored' = Reconciled(s.local, s.remote, files, stored) /\ files' = files /\ wanted' = wanted
    BY <1>2, <1>10
  <2>2. /\ stored' \in Contents
        /\ \A k \in Keys :
             /\ stored'[k] \in {Nil, files[k], stored[k]}
             /\ s.local[k] # Nil => stored'[k] = (IF s.local[k] = s.remote[k] \/ files[k] = Nil THEN stored[k] ELSE files[k])
             /\ s.local[k] = Nil => stored'[k] = (IF s.remote[k] = Nil THEN stored[k] ELSE Nil)
    BY <1>3, <1>5, <2>1, ReconciledFile
  <2>3. Types'
    BY <1>1, <1>4, <2>1, <2>2 DEF CacheInv, Types
  <2>4. Directories'
    BY <1>6, <1>8, Zenon DEF Directories
  <2>5. AllWhole' /\ Wanted'
    BY <1>1, <2>1, <2>2 DEF CacheInv, AllWhole, Whole, Wanted
  <2>6. MountIsAlone'
    <3>1. ASSUME NEW i \in DOMAIN syncs', syncs'[i].by = "mount" PROVE FALSE
      <4>1. i \in 1..(Len(syncs) - 1) /\ i + 1 \in DOMAIN syncs /\ syncs[i + 1].by = "mount"
        BY <1>4, <3>1
      <4>2. Len(syncs) = 1
        BY <4>1 DEF CacheInv, MountIsAlone
      <4> QED
        BY <4>1, <4>2
    <3> QED
      BY <3>1 DEF MountIsAlone
  <2>7. MissingIsSettled'
    <3> SUFFICES ASSUME NEW k \in Keys, stored'[k] # Nil, files'[k] = Nil
                 PROVE  \E i \in DOMAIN syncs' : Settles(syncs'[i], k)
      BY DEF MissingIsSettled
    <3>1. files[k] = Nil /\ stored[k] # Nil
      BY <2>1, <2>2
    <3>2. PICK i \in DOMAIN syncs : Settles(syncs[i], k)
      BY <1>6, <3>1 DEF CacheInv, MissingIsSettled
    <3>3. i # 1
      BY <1>1, <1>4, <2>2, <3>2 DEF Settles
    <3>4. i - 1 \in DOMAIN syncs' /\ syncs'[i - 1] = syncs[i]
      BY <1>4, <3>3
    <3> QED
      BY <3>2, <3>4
  <2> QED
    BY <2>3, <2>4, <2>5, <2>6, <2>7 DEF CacheInv
<1> QED
  BY <1>9, <1>10

\* A synchronisation that neither restores nor clears may fail.
LEMMA SyncFailsStep ==
  ASSUME CacheInv, Habits = {}, SyncFails
  PROVE  CacheInv'
<1>1. /\ syncs # <<>> /\ Head(syncs).by \notin {"mount", "clear"} /\ syncs' = Tail(syncs)
      /\ UNCHANGED <<initialized, mounted, files, wanted, stored, loads>>
  BY DEF SyncFails, cacheVars
<1>2. syncs \in Seq(Sync)
  BY DEF CacheInv, Types
<1>3. /\ Head(syncs) = syncs[1] /\ Len(syncs) \in Nat \ {0} /\ DOMAIN syncs = 1..Len(syncs)
      /\ syncs' \in Seq(Sync) /\ Len(syncs') = Len(syncs) - 1 /\ DOMAIN syncs' = 1..(Len(syncs) - 1)
      /\ \A i \in 1..(Len(syncs) - 1) : syncs'[i] = syncs[i + 1]
  BY <1>1, <1>2, Removed
<1>4. Types'
  BY <1>1, <1>3 DEF CacheInv, Types
<1>5. Directories'
  <2>1. MaxSyncs \in Nat /\ Len(syncs) <= MaxSyncs
    BY CacheAssumption DEF CacheInv, Directories
  <2>2. Len(syncs') <= MaxSyncs
    BY <1>3, <2>1
  <2>3. mounted' /\ initialized'
    BY <1>1 DEF CacheInv, Directories
  <2> QED
    BY <2>2, <2>3, Zenon DEF Directories
<1>6. AllWhole' /\ Wanted'
  BY <1>1 DEF CacheInv, AllWhole, Whole, Wanted
<1>7. MountIsAlone'
  <2>1. ASSUME NEW i \in DOMAIN syncs', syncs'[i].by = "mount" PROVE FALSE
    <3>1. i \in 1..(Len(syncs) - 1) /\ i + 1 \in DOMAIN syncs /\ syncs[i + 1].by = "mount"
      BY <1>3, <2>1
    <3>2. Len(syncs) = 1
      BY <3>1 DEF CacheInv, MountIsAlone
    <3> QED
      BY <3>1, <3>2
  <2> QED
    BY <2>1 DEF MountIsAlone
<1>8. MissingIsSettled'
  <2> SUFFICES ASSUME mounted, NEW k \in Keys, stored[k] # Nil, files[k] = Nil
               PROVE  \E i \in DOMAIN syncs' : Settles(syncs'[i], k)
    BY <1>1 DEF MissingIsSettled
  <2>1. PICK i \in DOMAIN syncs : Settles(syncs[i], k)
    BY DEF CacheInv, MissingIsSettled
  <2>2. i # 1
    BY <1>1, <1>3, <2>1 DEF Settles
  <2>3. i - 1 \in DOMAIN syncs' /\ syncs'[i - 1] = syncs[i]
    BY <1>3, <2>2
  <2> QED
    BY <2>1, <2>3
<1> QED
  BY <1>4, <1>5, <1>6, <1>7, <1>8 DEF CacheInv

\* The page is left, and IndexedDB stays.
LEMMA ReloadStep ==
  ASSUME CacheInv, Reload
  PROVE  CacheInv'
<1>1. /\ initialized' = FALSE /\ mounted' = FALSE /\ files' = Empty /\ syncs' = <<>> /\ loads' = {}
      /\ wanted' = {} /\ stored' = stored
  BY DEF Reload
<1>2. syncs' \in Seq(Sync) /\ Len(syncs') = 0 /\ DOMAIN syncs' = {}
  BY <1>1, EmptySeq
<1>3. Types'
  BY <1>1, <1>2, EmptyContents DEF CacheInv, Types
<1>4. Directories'
  BY <1>1, <1>2, EmptyContents, CacheAssumption DEF Directories
<1>5. AllWhole' /\ Wanted'
  BY <1>1, EmptyContents DEF CacheInv, AllWhole, Whole, Wanted
<1>6. MountIsAlone' /\ MissingIsSettled'
  BY <1>1, <1>2 DEF MountIsAlone, MissingIsSettled
<1> QED
  BY <1>3, <1>4, <1>5, <1>6 DEF CacheInv

\* A download through the cache: it begins, and so does a synchronisation if there is a mount.
LEMMA CdnLoadStep ==
  ASSUME CacheInv, Habits = {}, MayUse, NEW u \in Urls, CdnLoad(u), UNCHANGED <<mounted, files, stored>>
  PROVE  CacheInv'
<1>1. initialized' = TRUE /\ Len(syncs) < MaxSyncs /\ ~Restoring
  BY DEF CdnLoad, MayUse
<1>2. KeyOf[u] \in Keys
  BY KeyOfUrl
<1>3. CASE files[KeyOf[u]] # Nil
  <2>1. UNCHANGED <<loads, syncs, wanted>>
    BY <1>3 DEF CdnLoad
  <2>2. loads \subseteq Download /\ wanted \subseteq Keys
        /\ \A d \in loads : d.kind \in {"cdn", "progressive"} => KeyOf[d.url] \in wanted
    BY DEF CacheInv, Types, Wanted
  <2> QED
    BY <1>1, <2>1, <2>2, AsideCache
<1>4. CASE files[KeyOf[u]] = Nil
  <2>1. /\ loads' = loads \cup {Load("cdn", u)} /\ wanted' = wanted \cup {KeyOf[u]}
        /\ IF mounted THEN Synced("load", files) ELSE UNCHANGED syncs
    BY <1>4 DEF CdnLoad, Begins, SyncCache
  <2>2. Load("cdn", u) \in Download /\ Load("cdn", u).url = u
    BY BegunLoad
  <2>3. /\ loads' \subseteq Download /\ wanted \subseteq wanted' /\ wanted' \subseteq Keys
        /\ \A d \in loads' : d.kind \in {"cdn", "progressive"} => KeyOf[d.url] \in wanted'
    BY <1>2, <2>1, <2>2 DEF CacheInv, Types, Wanted
  <2>4. CASE mounted
    <3>1. Synced("load", files)
      BY <2>1, <2>4
    <3> QED
      BY <1>1, <2>3, <2>4, <3>1, SyncCacheStep
  <2>5. CASE ~mounted
    <3>1. syncs' = syncs
      BY <2>1, <2>5
    <3> QED
      BY <1>1, <2>3, <3>1, AsideCache
  <2> QED
    BY <2>4, <2>5
<1> QED
  BY <1>3, <1>4

\* What a download that has all of it does: it stores a whole archive, or nothing here.
LEMMA ArrivesStep ==
  ASSUME CacheInv, NEW d \in loads, Arrives(d)
  PROVE  CacheInv'
<1> DEFINE k == KeyOf[d.url]
           f == Archive(d.url, MaxChunks)
<1>1. d \in Download /\ d.got = MaxChunks /\ loads' = loads \ {d}
      /\ UNCHANGED <<initialized, mounted, stored, syncs, wanted>>
  BY DEF CacheInv, Types, Arrives, Complete, Ends
<1>2. d.url \in Urls /\ d.kind \in {"cdn", "progressive", "package", "direct"}
  BY <1>1 DEF Download
<1>3. f \in File /\ f # Nil /\ Whole(f, k)
  BY <1>2, WholeArchive
<1>4. Arrived(d, f)
  BY <1>1 DEF Arrives
<1>5. /\ loads' \subseteq Download /\ loads' \subseteq loads /\ wanted \subseteq Keys
      /\ \A e \in loads' : e.kind \in {"cdn", "progressive"} => KeyOf[e.url] \in wanted
      /\ initialized \in BOOLEAN
  BY <1>1 DEF CacheInv, Types, Wanted
<1> HIDE DEF k, f
<1>6. CASE files' = files
  BY <1>1, <1>5, <1>6, AsideCache
<1>7. CASE files' # files
  <2>1. d.kind \in {"cdn", "progressive"} /\ initialized /\ files' = [files EXCEPT ![k] = f]
    BY <1>2, <1>4, <1>7 DEF Arrived, Renames, Writes, k
  <2>2. k \in wanted
    BY <2>1 DEF CacheInv, Wanted, k
  <2> QED
    BY <1>1, <1>3, <1>5, <2>1, <2>2, StoreCache
<1> QED
  BY <1>6, <1>7

\* A download that ends in an error changes nothing else, as no page of an error is accepted for
\* an archive.
LEMMA HttpErrorStep ==
  ASSUME CacheInv, Habits = {}, NEW d \in loads, HttpError(d)
  PROVE  CacheInv'
<1>1. /\ d.kind \notin {"progressive", "package"} /\ loads' = loads \ {d}
      /\ UNCHANGED <<initialized, mounted, stored, syncs, wanted>>
  BY DEF HttpError, Ends
<1>2. files' = files
  BY <1>1 DEF HttpError, Accepts
<1>3. /\ loads' \subseteq Download /\ wanted \subseteq Keys /\ initialized \in BOOLEAN
      /\ \A e \in loads' : e.kind \in {"cdn", "progressive"} => KeyOf[e.url] \in wanted
  BY <1>1 DEF CacheInv, Types, Wanted
<1> QED
  BY <1>1, <1>2, <1>3, AsideCache

LEMMA PieceStep ==
  ASSUME CacheInv, NEW d \in loads, Piece(d)
  PROVE  CacheInv'
<1> DEFINE e == [d EXCEPT !.got = @ + 1]
<1>1. /\ d.got # MaxChunks /\ loads' \in {loads \ {d}, (loads \ {d}) \cup {e}}
      /\ UNCHANGED <<initialized, mounted, files, stored, syncs, wanted>>
  BY DEF Piece, Complete, Ends, cacheVars
<1>2. d \in Download /\ MaxChunks \in Nat
  BY CacheAssumption DEF CacheInv, Types
<1>3. d.got + 1 \in 0..MaxChunks
  BY <1>1, <1>2 DEF Download
<1>4. e \in Download /\ e.kind = d.kind /\ e.url = d.url
  BY <1>2, <1>3 DEF Download
<1> HIDE DEF e
<1>5. /\ loads' \subseteq Download /\ wanted \subseteq Keys /\ initialized \in BOOLEAN
      /\ \A x \in loads' : x.kind \in {"cdn", "progressive"} => KeyOf[x.url] \in wanted
  BY <1>1, <1>4 DEF CacheInv, Types, Wanted
<1> QED
  BY <1>1, <1>5, AsideCache

LEMMA ConnectionFailsStep ==
  ASSUME CacheInv, NEW d \in loads, ConnectionFails(d)
  PROVE  CacheInv'
<1>1. /\ loads' = loads \ {d}
      /\ UNCHANGED <<initialized, mounted, files, stored, syncs, wanted>>
  BY DEF ConnectionFails, Ends, cacheVars
<1>2. /\ loads' \subseteq Download /\ wanted \subseteq Keys /\ initialized \in BOOLEAN
      /\ \A x \in loads' : x.kind \in {"cdn", "progressive"} => KeyOf[x.url] \in wanted
  BY <1>1 DEF CacheInv, Types, Wanted
<1> QED
  BY <1>1, <1>2, AsideCache

LEMMA LoadPackageStep ==
  ASSUME CacheInv, NEW p \in Packages, LoadPackage(p)
  PROVE  CacheInv'
<1>1. /\ loads' = loads \cup {Load("package", p)} /\ initialized' = TRUE
      /\ UNCHANGED <<mounted, files, stored, syncs, wanted>>
  BY DEF LoadPackage, Begins, cacheVars
<1>2. Load("package", p) \in Download /\ Load("package", p).kind = "package"
  BY CacheAssumption, BegunLoad
<1>3. /\ loads' \subseteq Download /\ wanted \subseteq Keys
      /\ \A x \in loads' : x.kind \in {"cdn", "progressive"} => KeyOf[x.url] \in wanted
  BY <1>1, <1>2 DEF CacheInv, Types, Wanted
<1> QED
  BY <1>1, <1>3, AsideCache

LEMMA LoadProgressiveStep ==
  ASSUME CacheInv, NEW u \in Urls, NEW user \in BOOLEAN, LoadProgressive(u, user)
  PROVE  CacheInv'
<1> DEFINE d == [Load("progressive", u) EXCEPT !.user = user]
<1>1. /\ loads' = loads \cup {d} /\ wanted' = wanted \cup {KeyOf[u]}
      /\ UNCHANGED <<initialized, mounted, files, stored, syncs>>
  BY DEF LoadProgressive, Begins
<1>2. d \in Download /\ d.url = u /\ KeyOf[u] \in Keys
  BY BegunLoad, KeyOfUrl
<1> HIDE DEF d
<1>3. /\ loads' \subseteq Download /\ wanted \subseteq wanted' /\ wanted' \subseteq Keys /\ initialized \in BOOLEAN
      /\ \A x \in loads' : x.kind \in {"cdn", "progressive"} => KeyOf[x.url] \in wanted'
  BY <1>1, <1>2 DEF CacheInv, Types, Wanted
<1> QED
  BY <1>1, <1>3, AsideCache

\* loadFromUrl goes through the cache, or begins a download that ends in an answer.
LEMMA LoadFromUrlStep ==
  ASSUME CacheInv, Habits = {}, NEW u \in Urls, NEW c \in BOOLEAN, LoadFromUrl(u, c)
  PROVE  CacheInv'
<1>1. CASE c /\ mounted
  BY <1>1, CdnLoadStep DEF LoadFromUrl
<1>2. CASE ~(c /\ mounted)
  <2>1. /\ loads' = loads \cup {Load("direct", u)}
        /\ UNCHANGED <<initialized, mounted, files, stored, syncs, wanted>>
    BY <1>2 DEF LoadFromUrl, Begins
  <2>2. Load("direct", u) \in Download /\ Load("direct", u).kind = "direct"
    BY BegunLoad
  <2>3. /\ loads' \subseteq Download /\ wanted \subseteq Keys /\ initialized \in BOOLEAN
        /\ \A x \in loads' : x.kind \in {"cdn", "progressive"} => KeyOf[x.url] \in wanted
    BY <2>1, <2>2 DEF CacheInv, Types, Wanted
  <2> QED
    BY <2>1, <2>3, AsideCache
<1> QED
  BY <1>1, <1>2

LEMMA SynchronizeStep ==
  ASSUME CacheInv, Habits = {}, Synchronize
  PROVE  CacheInv'
<1>1. /\ ~Restoring /\ Len(syncs) < MaxSyncs
      /\ UNCHANGED <<initialized, mounted, files, stored, loads, wanted>>
  BY DEF Synchronize, MayUse, cacheVars
<1>2. /\ loads \subseteq Download /\ wanted \subseteq Keys /\ initialized \in BOOLEAN
      /\ \A x \in loads : x.kind \in {"cdn", "progressive"} => KeyOf[x.url] \in wanted
  BY DEF CacheInv, Types, Wanted
<1>3. CASE mounted
  <2>1. Synced("sync", files)
    BY <1>3 DEF Synchronize, SyncCache
  <2> QED
    BY <1>1, <1>2, <1>3, <2>1, SyncCacheStep
<1>4. CASE ~mounted
  <2>1. syncs' = syncs
    BY <1>4 DEF Synchronize, SyncCache
  <2> QED
    BY <1>1, <1>2, <2>1, AsideCache
<1> QED
  BY <1>3, <1>4

LEMMA InitFilesystemStep ==
  ASSUME CacheInv, InitFilesystem
  PROVE  CacheInv'
<1>1. initialized' = TRUE /\ UNCHANGED <<mounted, files, stored, syncs, loads, wanted>>
  BY DEF InitFilesystem, cacheVars
<1> QED
  BY <1>1, AsideCache DEF CacheInv, Types, Wanted

LEMMA NextCache ==
  ASSUME Habits = {}
  PROVE  CacheInv /\ [Next]_vars => CacheInv'
<1> SUFFICES ASSUME CacheInv, [Next]_vars PROVE CacheInv'
  OBVIOUS
<1>1. CASE UNCHANGED vars
  BY <1>1, AsideCache DEF vars, CacheInv, Types, Wanted
<1>2. CASE InitFilesystem \/ \E c \in BOOLEAN : Initialize(c)
  BY <1>2, InitFilesystemStep, MountStep DEF Initialize
<1>3. CASE Mount
  BY <1>3, MountStep
<1>4. CASE Synchronize \/ ClearCache \/ Reload
  BY <1>4, SynchronizeStep, ClearStep, ReloadStep
<1>5. CASE \E u \in Urls : LoadFromCdn(u)
  BY <1>5, CdnLoadStep DEF LoadFromCdn
<1>6. CASE \E u \in Urls, user \in BOOLEAN : LoadProgressive(u, user)
  BY <1>6, LoadProgressiveStep
<1>7. CASE \E p \in Packages : LoadPackage(p)
  BY <1>7, LoadPackageStep
<1>8. CASE \E u \in Urls, c \in BOOLEAN : LoadFromUrl(u, c)
  BY <1>8, LoadFromUrlStep
<1>9. CASE EventLoop
  <2>1. CASE SyncReads \/ SyncEnds \/ SyncFails
    BY <2>1, SyncReadsStep, SyncEndsStep, SyncFailsStep
  <2>2. CASE \E d \in loads : Piece(d) \/ Arrives(d) \/ HttpError(d) \/ ConnectionFails(d)
    BY <2>2, PieceStep, ArrivesStep, HttpErrorStep, ConnectionFailsStep
  <2> QED
    BY <1>9, <2>1, <2>2 DEF EventLoop
<1> QED
  BY <1>1, <1>2, <1>3, <1>4, <1>5, <1>6, <1>7, <1>8, <1>9 DEF Next

LEMMA CacheCorrect ==
  ASSUME Habits = {}
  PROVE  Spec => []CacheInv
BY InitCache, NextCache, PTL DEF Spec

-----------------------------------------------------------------------------
(* Theorems *)

LEMMA CacheInvTypeOK == CacheInv => TypeOK
<1> SUFFICES ASSUME CacheInv PROVE TypeOK
  OBVIOUS
<1>1. \A d \in loads : d.url \in Urls /\ d.got \in 0..MaxChunks
  BY DEF CacheInv, Types, Download
<1>2. \A i \in DOMAIN syncs : mounted
  BY EmptySeq DEF CacheInv, Directories
<1> QED
  BY <1>1, <1>2, Zenon DEF TypeOK, CacheInv, Types, Directories

\* When none of Habits happens the cache and IndexedDB hold whole archives only, each under
\* a key it is used for, whatever ends, fails or is left in between (mz_wasm_native.c:153-173,
\* 312-324).
THEOREM CachedIsWholeAlways ==
  ASSUME Habits = {}
  PROVE  Spec => []CachedIsWhole
<1>1. CacheInv => CachedIsWhole
  BY CacheInvTypeOK, Zenon DEF CacheInv, AllWhole, Whole, CachedIsWhole
<1> QED
  BY <1>1, CacheCorrect, PTL

\* When none of Habits happens the cache has only what was loaded, or restored, since it was
\* cleared, and once the synchronisations have ended IndexedDB has no more: also when several
\* clears, loads and synchronisations overlap (mz_wasm_native.c:403-449).
THEOREM ClearedIsGoneAlways ==
  ASSUME Habits = {}
  PROVE  Spec => []ClearedIsGone
<1>1. ASSUME CacheInv PROVE ClearedIsGone
  <2>1. ASSUME mounted, syncs = <<>>, NEW k \in Keys, stored[k] # Nil PROVE files[k] # Nil
    <3>1. DOMAIN syncs = {}
      BY <2>1
    <3> QED
      BY <1>1, <2>1, <3>1 DEF CacheInv, MissingIsSettled
  <2>2. StoredIsCached
    BY <2>1 DEF StoredIsCached
  <2> QED
    BY <1>1, <2>2 DEF CacheInv, Wanted, ClearedIsGone
<1> QED
  BY <1>1, CacheCorrect, PTL

-----------------------------------------------------------------------------
(* Answers *)

\* A file of the cache answers for the one url whose key it has.
LEMMA CachedAnswer ==
  ASSUME CacheInv, \A u, v \in Urls : KeyOf[u] = KeyOf[v] => u = v,
         NEW u \in Urls, files[KeyOf[u]] # Nil
  PROVE  files[KeyOf[u]] = Archive(u, MaxChunks)
<1> DEFINE f == files[KeyOf[u]]
<1>1. KeyOf[u] \in Keys
  BY KeyOfUrl
<1>2. f \in [url : Urls, pieces : Nat]
  BY <1>1 DEF CacheInv, Types, Contents, File
<1>3. f.pieces = MaxChunks /\ KeyOf[f.url] = KeyOf[u]
  BY <1>1 DEF CacheInv, AllWhole, Whole
<1>4. f.url = u
  BY <1>2, <1>3
<1> HIDE DEF f
<1>5. f = [url |-> u, pieces |-> MaxChunks]
  BY <1>2, <1>3, <1>4
<1> QED
  BY <1>5 DEF Archive, f

LEMMA QuietAnswers == ASSUME Quiet PROVE AnswersAreRight'
BY DEF Quiet, Nothing, AnswersAreRight

LEMMA ArrivesAnswers ==
  ASSUME CacheInv, NEW d \in loads, Arrives(d)
  PROVE  AnswersAreRight'
<1> DEFINE f == Archive(d.url, MaxChunks)
<1>1. d \in Download /\ Arrived(d, f)
  BY DEF CacheInv, Types, Arrives, Complete
<1>2. d.url \in Urls /\ d.kind \in {"cdn", "progressive", "package", "direct"} /\ KeyOf[d.url] \in Keys
  BY <1>1, KeyOfUrl DEF Download
<1> HIDE DEF f
<1>3. CASE d.kind = "cdn"
  <2>1. Quiet
    BY <1>1, <1>3, Zenon DEF Arrived
  <2> QED
    BY <2>1, QuietAnswers
<1>4. CASE d.kind = "progressive"
  <2>1. /\ files' = IF initialized THEN [files EXCEPT ![KeyOf[d.url]] = f] ELSE files
        /\ told' = IF initialized THEN [who |-> "complete", key |-> KeyOf[d.url], file |-> f] ELSE Nothing
    BY <1>1, <1>4 DEF Arrived, Writes
  <2>2. files \in Contents
    BY DEF CacheInv, Types
  <2>3. CASE initialized
    <3>1. told'.who = "complete" /\ told'.key = KeyOf[d.url] /\ told'.file = f
      BY <2>1, <2>3
    <3>2. files'[KeyOf[d.url]] = f
      BY <1>2, <2>1, <2>2, <2>3 DEF Contents
    <3> QED
      BY <3>1, <3>2 DEF AnswersAreRight
  <2>4. CASE ~initialized
    <3>1. Quiet
      BY <2>1, <2>4 DEF Quiet
    <3> QED
      BY <3>1, QuietAnswers
  <2> QED
    BY <2>3, <2>4
<1>5. CASE d.kind = "package"
  <2>1. Quiet
    BY <1>1, <1>5 DEF Arrived
  <2> QED
    BY <2>1, QuietAnswers
<1>6. CASE d.kind = "direct"
  <2>1. Answer(d.url, f)
    BY <1>1, <1>6 DEF Arrived
  <2> QED
    BY <2>1 DEF Answer, AnswersAreRight, f
<1> QED
  BY <1>2, <1>3, <1>4, <1>5, <1>6

LEMMA ErrorAnswers ==
  ASSUME Habits = {}, NEW d, HttpError(d) \/ ConnectionFails(d)
  PROVE  AnswersAreRight'
<1>1. Quiet \/ Answer(d.url, Nil)
  BY DEF HttpError, ConnectionFails, Accepts
<1> QED
  BY <1>1, QuietAnswers DEF Answer, AnswersAreRight

LEMMA LoadFromUrlAnswers ==
  ASSUME CacheInv, \A u, v \in Urls : KeyOf[u] = KeyOf[v] => u = v,
         NEW u \in Urls, NEW c \in BOOLEAN, LoadFromUrl(u, c)
  PROVE  AnswersAreRight'
<1>1. Quiet \/ Answer(u, files[KeyOf[u]])
  BY DEF LoadFromUrl
<1>2. CASE Quiet
  BY <1>2, QuietAnswers
<1>3. CASE Answer(u, files[KeyOf[u]])
  <2>1. told'.who = "page" /\ told'.url = u /\ told'.file = files[KeyOf[u]]
    BY <1>3 DEF Answer
  <2> QED
    BY <2>1, CachedAnswer DEF AnswersAreRight
<1> QED
  BY <1>1, <1>2, <1>3

LEMMA NextAnswers ==
  ASSUME Habits = {}, \A u, v \in Urls : KeyOf[u] = KeyOf[v] => u = v
  PROVE  CacheInv /\ AnswersAreRight /\ [Next]_vars => AnswersAreRight'
<1> SUFFICES ASSUME CacheInv, AnswersAreRight, [Next]_vars PROVE AnswersAreRight'
  OBVIOUS
<1>1. CASE UNCHANGED vars
  BY <1>1 DEF vars, AnswersAreRight
<1>2. CASE InitFilesystem \/ Mount \/ Synchronize \/ ClearCache \/ Reload
           \/ \E c \in BOOLEAN : Initialize(c)
  BY <1>2, QuietAnswers DEF InitFilesystem, Mount, Synchronize, ClearCache, Reload, Initialize
<1>3. CASE (\E u \in Urls : LoadFromCdn(u)) \/ (\E p \in Packages : LoadPackage(p))
           \/ \E u \in Urls, user \in BOOLEAN : LoadProgressive(u, user)
  BY <1>3, QuietAnswers DEF LoadFromCdn, LoadPackage, LoadProgressive
<1>4. CASE \E u \in Urls, c \in BOOLEAN : LoadFromUrl(u, c)
  BY <1>4, LoadFromUrlAnswers
<1>5. CASE EventLoop
  <2>1. CASE SyncReads \/ SyncEnds \/ SyncFails \/ \E d \in loads : Piece(d)
    BY <2>1, QuietAnswers DEF SyncReads, SyncEnds, SyncFails, Piece
  <2>2. CASE \E d \in loads : Arrives(d) \/ HttpError(d) \/ ConnectionFails(d)
    BY <2>2, ArrivesAnswers, ErrorAnswers
  <2> QED
    BY <1>5, <2>1, <2>2, Zenon DEF EventLoop
<1> QED
  BY <1>1, <1>2, <1>3, <1>4, <1>5, Zenon DEF Next

\* When none of Habits happens and no two archives have one key, what the wrapper answers,
\* from the cache or from a download, is the whole archive at the url that was asked for, and a
\* completion callback comes when that archive is in the cache (minizip-ng-wasm.js:126-180,
\* mz_wasm_native.c:323-330).
THEOREM AnswersAreRightAlways ==
  ASSUME Habits = {}, \A u, v \in Urls : KeyOf[u] = KeyOf[v] => u = v
  PROVE  Spec => []AnswersAreRight
<1>1. Init => AnswersAreRight
  BY DEF Init, Nothing, AnswersAreRight
<1> QED
  BY <1>1, NextAnswers, CacheCorrect, PTL DEF Spec

-----------------------------------------------------------------------------
(* What IndexedDB keeps, with at most two synchronisations at a time *)

\* A step that neither begins nor ends a synchronisation, and takes no file away.
LEMMA AsideKeeps ==
  ASSUME NoneMissing, UNCHANGED <<stored, syncs>>, \A k \in Keys : files[k] # Nil => files'[k] # Nil
  PROVE  NoneMissing'
BY DEF NoneMissing, Settles, Keeps

\* A synchronisation is added whose directory is the one that is there, or was cleared.
LEMMA AddedKeeps ==
  ASSUME CacheInv, NoneMissing, MaxSyncs <= 2, Len(syncs) < MaxSyncs, mounted,
         NEW s \in Sync, syncs' = Append(syncs, s), stored' = stored, s.by # "mount",
         ~Keeps(s) => s.local = Empty,
         Keeps(s) => ~Restoring /\ files' = files /\ s.local = files
  PROVE  NoneMissing'
<1>1. syncs \in Seq(Sync) /\ MaxSyncs \in Nat
  BY CacheAssumption DEF CacheInv, Types
<1>2. /\ Len(syncs') = Len(syncs) + 1 /\ DOMAIN syncs = 1..Len(syncs) /\ Len(syncs) \in Nat
      /\ DOMAIN syncs' = 1..(Len(syncs) + 1)
      /\ \A i \in 1..Len(syncs) : syncs'[i] = syncs[i]
      /\ syncs'[Len(syncs) + 1] = s
  BY <1>1, Added, Zenon
<1>3. Len(syncs) \in {0, 1}
  BY <1>1, <1>2
<1>4. \A i \in DOMAIN syncs' : ~Keeps(syncs'[i]) => syncs'[i].local = Empty
  BY <1>2 DEF NoneMissing
<1>5. ASSUME Keeps(s), NEW k \in Keys, stored[k] # Nil, files[k] = Nil
      PROVE  Len(syncs) = 1 /\ Settles(syncs[1], k)
  <2>1. PICK i \in DOMAIN syncs : Settles(syncs[i], k)
    BY <1>5 DEF CacheInv, MissingIsSettled
  <2>2. i = 1 /\ Len(syncs) = 1
    BY <1>2, <1>3, <2>1
  <2> QED
    BY <2>1, <2>2
<1>6. CASE Len(syncs) = 0
  <2>1. Len(syncs') = 1 /\ syncs'[1] = s
    BY <1>2, <1>6
  <2>2. \A k \in Keys : Keeps(s) /\ s.local[k] = Nil => stored[k] = Nil
    BY <1>5, <1>6
  <2> QED
    BY <1>4, <2>1, <2>2 DEF NoneMissing
<1>7. CASE Len(syncs) = 1
  <2>1. Len(syncs') = 2 /\ syncs'[1] = syncs[1] /\ syncs'[2] = s /\ 1 \in DOMAIN syncs
    BY <1>2, <1>7
  <2>2. \A k \in Keys : Keeps(syncs[1]) /\ syncs[1].local[k] = Nil => stored[k] = Nil
    BY <1>7 DEF NoneMissing
  <2>3. ASSUME Keeps(s), NEW k \in Keys, s.local[k] = Nil
        PROVE  syncs[1].local[k] = Nil /\ (Keeps(syncs[1]) \/ stored[k] = Nil \/ Settles(syncs[1], k))
    <3>1. files[k] = Nil
      BY <2>3
    <3>2. Keeps(syncs[1]) => syncs[1].local[k] = Nil
      BY <1>7, <3>1 DEF NoneMissing
    <3>3. ~Keeps(syncs[1]) => syncs[1].local[k] = Nil
      BY <2>1, EmptyContents DEF NoneMissing
    <3> QED
      BY <1>5, <2>3, <3>1, <3>2, <3>3
  <2>4. Keeps(s) => \A k \in Keys : s.local[k] # Nil => files'[k] # Nil
    OBVIOUS
  <2>5. ASSUME NEW k \in Keys, Len(syncs') = 2, Keeps(syncs'[2])
        PROVE  /\ syncs'[2].local[k] # Nil => files'[k] # Nil
               /\ syncs'[2].local[k] = Nil =>
                    /\ syncs'[1].local[k] = Nil
                    /\ Keeps(syncs'[1]) \/ stored'[k] = Nil \/ Settles(syncs'[1], k)
    BY <2>1, <2>3, <2>4, <2>5
  <2>6. ASSUME NEW k \in Keys
        PROVE  Keeps(syncs'[1]) /\ syncs'[1].local[k] = Nil => stored'[k] = Nil
    BY <2>1, <2>2
  <2>7. Len(syncs') # 1
    BY <2>1
  <2> QED
    BY <1>4, <2>5, <2>6, <2>7, Zenon DEF NoneMissing, Settles, Keeps
<1> QED
  BY <1>3, <1>6, <1>7

LEMMA ReadKeeps ==
  ASSUME CacheInv, NoneMissing, SyncReads
  PROVE  NoneMissing'
<1>1. PICK i \in DOMAIN syncs :
        syncs[i].remote = Nil /\ syncs' = [syncs EXCEPT ![i].remote = stored]
  BY DEF SyncReads
<1>2. UNCHANGED <<files, stored>>
  BY DEF SyncReads, cacheVars
<1>3. syncs \in Seq(Sync) /\ DOMAIN syncs = 1..Len(syncs) /\ Len(syncs) \in Nat
  BY LenProperties DEF CacheInv, Types
<1>4. ASSUME NEW j \in DOMAIN syncs
      PROVE  /\ syncs'[j].by = syncs[j].by /\ syncs'[j].local = syncs[j].local
             /\ syncs'[j].remote \in {syncs[j].remote, stored}
  <2>1. syncs[j] \in Sync
    BY <1>3
  <2>2. syncs'[j] = IF j = i THEN [syncs[j] EXCEPT !.remote = stored] ELSE syncs[j]
    BY <1>1
  <2> QED
    BY <2>1, <2>2 DEF Sync
<1>5. Len(syncs') = Len(syncs) /\ DOMAIN syncs' = DOMAIN syncs
  BY <1>1, <1>3
<1>6. ASSUME NEW k \in Keys, NEW j \in DOMAIN syncs, stored[k] # Nil, Settles(syncs[j], k)
      PROVE  Settles(syncs'[j], k)
  BY <1>4, <1>6 DEF Settles
<1>7. \A j \in DOMAIN syncs : Keeps(syncs'[j]) <=> Keeps(syncs[j])
  BY <1>4 DEF Keeps
<1>8. ASSUME NEW k \in Keys
      PROVE /\ Len(syncs') >= 1 /\ Keeps(syncs'[1]) /\ syncs'[1].local[k] = Nil => stored'[k] = Nil
            /\ Len(syncs') = 1 /\ Keeps(syncs'[1]) /\ syncs'[1].local[k] # Nil => files'[k] # Nil
  <2>1. Len(syncs') >= 1 => 1 \in DOMAIN syncs
    BY <1>3, <1>5
  <2> QED
    BY <1>2, <1>3, <1>4, <1>5, <1>7, <2>1 DEF NoneMissing
<1>9. ASSUME NEW k \in Keys, Len(syncs') = 2, Keeps(syncs'[2])
      PROVE /\ syncs'[2].local[k] # Nil => files'[k] # Nil
            /\ syncs'[2].local[k] = Nil =>
                 /\ syncs'[1].local[k] = Nil
                 /\ Keeps(syncs'[1]) \/ stored'[k] = Nil \/ Settles(syncs'[1], k)
  <2>1. Len(syncs) = 2 /\ 1 \in DOMAIN syncs /\ 2 \in DOMAIN syncs
    BY <1>3, <1>5, <1>9
  <2>2. Keeps(syncs[2])
    BY <1>7, <1>9, <2>1
  <2>3. /\ syncs[2].local[k] # Nil => files[k] # Nil
        /\ syncs[2].local[k] = Nil =>
             /\ syncs[1].local[k] = Nil
             /\ Keeps(syncs[1]) \/ stored[k] = Nil \/ Settles(syncs[1], k)
    BY <2>1, <2>2 DEF NoneMissing
  <2> QED
    BY <1>2, <1>4, <1>6, <1>7, <2>1, <2>3
<1>10. \A j \in DOMAIN syncs' : ~Keeps(syncs'[j]) => syncs'[j].local = Empty
  BY <1>4, <1>5, <1>7 DEF NoneMissing
<1> QED
  BY <1>8, <1>9, <1>10, Zenon DEF NoneMissing, Settles, Keeps

\* The oldest synchronisation has ended, in the file of k as s.by has it.
LEMMA RemovedKeeps ==
  ASSUME CacheInv, NoneMissing, MaxSyncs <= 2, syncs # <<>>, syncs' = Tail(syncs),
         syncs[1].by # "mount" => files' = files,
         \A k \in Keys : stored[k] = Nil /\ syncs[1].local[k] = Nil => stored'[k] = Nil,
         \A k \in Keys : ~Keeps(syncs[1]) /\ Settles(syncs[1], k) => stored'[k] = Nil \/ syncs[1].by = "mount"
  PROVE  NoneMissing'
<1>1. syncs \in Seq(Sync) /\ MaxSyncs \in Nat /\ Len(syncs) <= MaxSyncs
  BY CacheAssumption DEF CacheInv, Types, Directories
<1>2. /\ Len(syncs) \in Nat \ {0} /\ DOMAIN syncs = 1..Len(syncs)
      /\ Len(syncs') = Len(syncs) - 1 /\ DOMAIN syncs' = 1..(Len(syncs) - 1)
      /\ \A i \in 1..(Len(syncs) - 1) : syncs'[i] = syncs[i + 1]
  BY <1>1, Removed, Zenon
<1>3. Len(syncs) \in {1, 2}
  BY <1>1, <1>2
<1>4. CASE Len(syncs) = 1
  <2>1. Len(syncs') = 0 /\ DOMAIN syncs' = {}
    BY <1>2, <1>4
  <2>2. ~(0 >= 1) /\ 0 # 1 /\ 0 # 2
    OBVIOUS
  <2> QED
    BY <2>1, <2>2, Zenon DEF NoneMissing, Settles, Keeps
<1>5. CASE Len(syncs) = 2
  <2>1. Len(syncs') = 1 /\ DOMAIN syncs' = 1..1 /\ syncs'[1] = syncs[2] /\ 1 \in DOMAIN syncs /\ 2 \in DOMAIN syncs
    BY <1>2, <1>5
  <2>2. syncs[1].by # "mount"
    BY <1>5, <2>1 DEF CacheInv, MountIsAlone
  <2>3. ASSUME NEW k \in Keys, Keeps(syncs[2]), syncs[2].local[k] # Nil PROVE files'[k] # Nil
    BY <1>5, <2>2, <2>3 DEF NoneMissing
  <2>4. ASSUME NEW k \in Keys, Keeps(syncs[2]), syncs[2].local[k] = Nil PROVE stored'[k] = Nil
    <3>1. /\ syncs[1].local[k] = Nil
          /\ Keeps(syncs[1]) \/ stored[k] = Nil \/ Settles(syncs[1], k)
      BY <1>5, <2>4 DEF NoneMissing
    <3>2. Keeps(syncs[1]) => stored[k] = Nil
      BY <1>5, <3>1 DEF NoneMissing
    <3> QED
      BY <2>2, <3>1, <3>2
  <2>5. \A i \in DOMAIN syncs' : ~Keeps(syncs'[i]) => syncs'[i].local = Empty
    BY <2>1 DEF NoneMissing
  <2>6. ASSUME NEW k \in Keys, Keeps(syncs'[1])
        PROVE  /\ syncs'[1].local[k] # Nil => files'[k] # Nil
               /\ syncs'[1].local[k] = Nil => stored'[k] = Nil
    BY <2>1, <2>3, <2>4, <2>6
  <2>7. Len(syncs') # 2
    BY <2>1
  <2> QED
    BY <2>5, <2>6, <2>7, Zenon DEF NoneMissing, Keeps
<1> QED
  BY <1>3, <1>4, <1>5

LEMMA EndKeeps ==
  ASSUME CacheInv, NoneMissing, MaxSyncs <= 2, SyncEnds
  PROVE  NoneMissing'
<1> DEFINE s == syncs[1]
<1>1. syncs \in Seq(Sync) /\ files \in Contents /\ stored \in Contents /\ syncs # <<>>
  BY DEF CacheInv, Types, SyncEnds
<1>2. s \in Sync /\ Head(syncs) = s
  BY <1>1, Removed
<1>3. /\ s.remote # Nil /\ syncs' = Tail(syncs)
      /\ s.by = "mount" => stored' = stored
      /\ s.by # "mount" => stored' = Reconciled(s.local, s.remote, files, stored) /\ files' = files
  BY <1>2 DEF SyncEnds, cacheVars
<1>4. s.local \in Contents /\ s.remote \in Contents
  BY <1>2, <1>3 DEF Sync
<1>5. ASSUME NEW k \in Keys, s.by # "mount", s.local[k] = Nil
      PROVE  stored'[k] = IF s.remote[k] = Nil THEN stored[k] ELSE Nil
  BY <1>1, <1>3, <1>4, <1>5, ReconciledFile
<1>6. ASSUME NEW k \in Keys, stored[k] = Nil, s.local[k] = Nil PROVE stored'[k] = Nil
  BY <1>3, <1>5, <1>6
<1>7. ASSUME NEW k \in Keys, Settles(s, k) PROVE stored'[k] = Nil \/ s.by = "mount"
  BY <1>3, <1>5, <1>7 DEF Settles
<1> HIDE DEF s
<1> QED
  BY <1>1, <1>3, <1>6, <1>7, RemovedKeeps DEF s

LEMMA FailKeeps ==
  ASSUME CacheInv, NoneMissing, Habits = {}, MaxSyncs <= 2, SyncFails
  PROVE  NoneMissing'
<1>1. syncs \in Seq(Sync) /\ syncs # <<>>
  BY DEF CacheInv, Types, SyncFails
<1>2. Head(syncs) = syncs[1] /\ syncs[1] \in Sync
  BY <1>1, Removed
<1>3. /\ syncs' = Tail(syncs) /\ stored' = stored /\ files' = files
      /\ syncs[1].by \notin {"mount", "clear"}
  BY <1>2 DEF SyncFails, cacheVars
<1>4. Keeps(syncs[1])
  BY <1>2, <1>3 DEF Sync, Keeps
<1> QED
  BY <1>1, <1>3, <1>4, RemovedKeeps

LEMMA MountKeeps ==
  ASSUME CacheInv, NoneMissing, Mount
  PROVE  NoneMissing'
<1>1. CASE mounted /\ UNCHANGED <<mounted, files, syncs>>
  BY <1>1, AsideKeeps DEF Mount
<1>2. CASE ~mounted /\ PopulateAtMount
  <2> DEFINE s == [by |-> "mount", local |-> Empty, remote |-> Nil]
  <2>1. syncs \in Seq(Sync) /\ s \in Sync /\ syncs' = Append(syncs, s) /\ syncs = <<>>
    BY <1>2, EmptyContents DEF CacheInv, Types, Sync, Synced, PopulateAtMount, Directories
  <2>2. s.by = "mount" /\ s.local = Empty
    OBVIOUS
  <2> HIDE DEF s
  <2>3. Len(syncs') = 1 /\ DOMAIN syncs' = 1..1 /\ syncs'[1] = s
    <3>1. Len(syncs) = 0
      BY <2>1
    <3> QED
      BY <2>1, <3>1, Added
  <2> QED
    BY <2>2, <2>3 DEF NoneMissing, Keeps
<1> QED
  BY <1>1, <1>2 DEF Mount

LEMMA ClearKeeps ==
  ASSUME CacheInv, NoneMissing, MaxSyncs <= 2, ClearCache
  PROVE  NoneMissing'
<1>1. Len(syncs) < MaxSyncs /\ stored' = stored /\ files' = Empty
  BY DEF ClearCache, Cleared
<1>2. IF mounted THEN Synced("clear", Empty) ELSE UNCHANGED syncs
  BY DEF ClearCache, SyncAfterClear, SyncCache, Cleared
<1>3. CASE ~mounted
  <2>1. Len(syncs) = 0 /\ syncs' = syncs /\ DOMAIN syncs = {}
    BY <1>2, <1>3 DEF CacheInv, Directories
  <2> QED
    BY <2>1 DEF NoneMissing
<1>4. CASE mounted
  <2> DEFINE s == [by |-> "clear", local |-> Empty, remote |-> Nil]
  <2>1. s \in Sync /\ syncs' = Append(syncs, s) /\ ~Keeps(s) /\ s.by # "mount" /\ s.local = Empty
    BY <1>2, <1>4, EmptyContents DEF Sync, Synced, Keeps
  <2> HIDE DEF s
  <2> QED
    BY <1>1, <1>4, <2>1, AddedKeeps
<1> QED
  BY <1>3, <1>4

\* A synchronisation of the directory as it is.
LEMMA SyncKeeps ==
  ASSUME CacheInv, NoneMissing, MaxSyncs <= 2, Len(syncs) < MaxSyncs, ~Restoring,
         NEW by \in {"sync", "load"}, SyncCache(by, files), UNCHANGED <<files, stored>>
  PROVE  NoneMissing'
<1>1. CASE ~mounted
  BY <1>1, AsideKeeps DEF SyncCache
<1>2. CASE mounted
  <2> DEFINE s == [by |-> by, local |-> files, remote |-> Nil]
  <2>1. s \in Sync /\ syncs' = Append(syncs, s) /\ Keeps(s) /\ s.by # "mount" /\ s.local = files
    BY <1>2 DEF CacheInv, Types, Sync, SyncCache, Synced, Keeps
  <2> HIDE DEF s
  <2> QED
    BY <1>2, <2>1, AddedKeeps
<1> QED
  BY <1>1, <1>2

LEMMA ArrivesKeeps ==
  ASSUME CacheInv, NoneMissing, NEW d \in loads, Arrives(d)
  PROVE  NoneMissing'
<1> DEFINE f == Archive(d.url, MaxChunks)
<1>1. d \in Download /\ Arrived(d, f) /\ UNCHANGED <<stored, syncs>> /\ files \in Contents
  BY DEF CacheInv, Types, Arrives, Complete
<1>2. d.url \in Urls /\ d.kind \in {"cdn", "progressive", "package", "direct"} /\ f # Nil
  BY <1>1, WholeArchive DEF Download
<1> HIDE DEF f
<1>3. files' = files \/ files' = [files EXCEPT ![KeyOf[d.url]] = f]
  BY <1>1, <1>2 DEF Arrived, Renames, Writes
<1>4. \A k \in Keys : files[k] # Nil => files'[k] # Nil
  BY <1>1, <1>2, <1>3 DEF Contents
<1> QED
  BY <1>1, <1>4, AsideKeeps

LEMMA NextKeeps ==
  ASSUME Habits = {}, MaxSyncs <= 2
  PROVE  CacheInv /\ NoneMissing /\ [Next]_vars => NoneMissing'
<1> SUFFICES ASSUME CacheInv, NoneMissing, [Next]_vars PROVE NoneMissing'
  OBVIOUS
<1>1. CASE UNCHANGED vars
  BY <1>1, AsideKeeps DEF vars
<1>2. CASE InitFilesystem \/ Mount \/ \E c \in BOOLEAN : Initialize(c)
  <2>1. InitFilesystem => NoneMissing'
    BY AsideKeeps DEF InitFilesystem, cacheVars
  <2> QED
    BY <1>2, <2>1, MountKeeps DEF Initialize
<1>3. CASE Synchronize \/ ClearCache \/ Reload
  <2>1. Synchronize => NoneMissing'
    BY SyncKeeps DEF Synchronize, MayUse, cacheVars
  <2>2. ASSUME Reload PROVE NoneMissing'
    <3>1. Len(syncs') = 0 /\ DOMAIN syncs' = {}
      BY <2>2 DEF Reload
    <3> QED
      BY <3>1 DEF NoneMissing
  <2> QED
    BY <1>3, <2>1, <2>2, ClearKeeps
<1>4. ASSUME NEW u \in Urls, MayUse, CdnLoad(u), UNCHANGED <<files, stored>> PROVE NoneMissing'
  <2>1. ~Restoring /\ Len(syncs) < MaxSyncs /\ (UNCHANGED syncs \/ SyncCache("load", files))
    BY <1>4 DEF MayUse, CdnLoad
  <2> QED
    BY <1>4, <2>1, SyncKeeps, AsideKeeps
<1>5. CASE (\E u \in Urls : LoadFromCdn(u)) \/ \E u \in Urls, c \in BOOLEAN : LoadFromUrl(u, c)
  <2>1. ASSUME NEW u \in Urls, LoadFromCdn(u) PROVE NoneMissing'
    BY <1>4, <2>1 DEF LoadFromCdn
  <2>2. ASSUME NEW u \in Urls, NEW c \in BOOLEAN, LoadFromUrl(u, c) PROVE NoneMissing'
    BY <1>4, <2>2, AsideKeeps DEF LoadFromUrl
  <2> QED
    BY <1>5, <2>1, <2>2
<1>6. CASE (\E p \in Packages : LoadPackage(p))
           \/ \E u \in Urls, user \in BOOLEAN : LoadProgressive(u, user)
  BY <1>6, AsideKeeps DEF LoadPackage, LoadProgressive, cacheVars
<1>7. CASE EventLoop
  <2>1. CASE SyncReads \/ SyncEnds \/ SyncFails
    BY <2>1, ReadKeeps, EndKeeps, FailKeeps
  <2>2. ASSUME NEW d \in loads, Piece(d) \/ ConnectionFails(d) \/ HttpError(d) PROVE NoneMissing'
    <3>1. UNCHANGED <<files, stored, syncs>>
      BY <2>2 DEF Piece, ConnectionFails, HttpError, Accepts, cacheVars
    <3> QED
      BY <3>1, AsideKeeps
  <2> QED
    BY <1>7, <2>1, <2>2, ArrivesKeeps DEF EventLoop
<1> QED
  BY <1>1, <1>2, <1>3, <1>5, <1>6, <1>7, Zenon DEF Next

\* A synchronisation takes out of IndexedDB only what it does not find in its directory.
LEMMA NothingLost ==
  ASSUME CacheInv, NoneMissing, SyncEnds, NEW k \in Keys, stored[k] # Nil, stored'[k] = Nil
  PROVE  Head(syncs).by = "clear"
<1> DEFINE s == Head(syncs)
<1>1. syncs \in Seq(Sync) /\ files \in Contents /\ stored \in Contents /\ syncs # <<>>
  BY DEF CacheInv, Types, SyncEnds
<1>2. s \in Sync /\ s = syncs[1] /\ Len(syncs) >= 1
  BY <1>1, Removed
<1> HIDE DEF s
<1>3. /\ s.remote # Nil /\ s.by # "mount"
      /\ stored' = Reconciled(s.local, s.remote, files, stored)
  BY DEF SyncEnds, s
<1>4. s.local \in Contents /\ s.remote \in Contents
  BY <1>2, <1>3 DEF Sync
<1>5. s.local[k] = Nil
  BY <1>1, <1>3, <1>4, ReconciledFile
<1>6. ~Keeps(s)
  BY <1>2, <1>5 DEF NoneMissing
<1> QED
  BY <1>2, <1>3, <1>6 DEF Sync, Keeps, s

\* When none of Habits happens and no more than two synchronisations are under way at a
\* time, what is in IndexedDB stays there until a clear takes it out, whatever other
\* synchronisations, downloads and reloads come (mz_wasm_native.c:71-99, 101-118).
THEOREM StoredStaysAlways ==
  ASSUME Habits = {}, MaxSyncs <= 2
  PROVE  Spec => StoredStays
<1>1. Init => NoneMissing
  BY DEF Init, NoneMissing
<1>2. CacheInv /\ NoneMissing /\ [Next]_vars =>
        [\A k \in Keys : stored[k] # Nil /\ stored'[k] = Nil => Head(syncs).by = "clear"]_vars
  <2> SUFFICES ASSUME CacheInv, NoneMissing, Next, NEW k \in Keys, stored[k] # Nil, stored'[k] = Nil
               PROVE  Head(syncs).by = "clear"
    OBVIOUS
  <2>1. CASE SyncEnds
    BY <2>1, NothingLost
  <2>2. CASE stored' = stored
    BY <2>2
  <2>3. SyncEnds \/ stored' = stored
    <3>1. InitFilesystem \/ Mount \/ Synchronize \/ ClearCache \/ Reload => stored' = stored
      BY DEF InitFilesystem, Mount, Synchronize, ClearCache, Reload
    <3>2. \A u \in Urls, c \in BOOLEAN :
            LoadFromCdn(u) \/ LoadProgressive(u, c) \/ LoadPackage(u) \/ Initialize(c) \/ LoadFromUrl(u, c)
              => stored' = stored
      BY <3>1 DEF LoadFromCdn, LoadProgressive, LoadPackage, Initialize, LoadFromUrl
    <3>3. SyncReads \/ SyncFails => stored' = stored
      BY DEF SyncReads, SyncFails
    <3>4. \A d \in loads : Piece(d) \/ Arrives(d) \/ HttpError(d) \/ ConnectionFails(d) => stored' = stored
      BY DEF Piece, Arrives, HttpError, ConnectionFails
    <3>5. \A p \in Packages : LoadPackage(p) => stored' = stored
      BY DEF LoadPackage
    <3>6. \A c \in BOOLEAN : Initialize(c) => stored' = stored
      BY <3>1 DEF Initialize
    <3> QED
      BY <3>1, <3>2, <3>3, <3>4, <3>5, <3>6 DEF Next, EventLoop
  <2> QED
    BY <2>1, <2>2, <2>3
<1> QED
  BY <1>1, <1>2, NextKeeps, CacheCorrect, PTL DEF Spec, StoredStays

================================================================================
