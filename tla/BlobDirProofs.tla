---------------------------- MODULE BlobDirProofs ----------------------------
(***************************************************************************)
(* What is proved of the files of the blob cache and of its listing: a     *)
(* stored blob has a name, stats lists whole blobs, only a death of the    *)
(* process leaves temp files behind; and of what a request comes to: its   *)
(* note is made, a HIT is sent from the disk, a whole body is kept.        *)
(***************************************************************************)
EXTENDS BlobProxyProofs, FiniteSetTheorems

\* The repo is noted before a blob is asked for.
NamedInv ==
    "disk" \notin Faults =>
        /\ \A d \in Stored : sidecar[<<"repos", d>>] # <<>>
        /\ \A h \in Handler : pc[h] \in BlobPC => sidecar[<<"repos", req[h].key>>] # <<>>

\* What a stats request has listed, and what it has yet to look at, is stored.
ListedInv ==
    \A h \in Handler :
        /\ todo[h] \subseteq Stored
        /\ \A e \in listed[h] : e.digest \in Stored /\ e.size = Chunks

\* So many leftovers at most, which is a count of a finite set.
OrphanInv == IsFiniteSet(Orphans) /\ OnlyCrashesOrphan

DirInv == ProxyInv /\ NamedInv /\ ListedInv /\ OrphanInv

-----------------------------------------------------------------------------
(* Names *)

\* What has been appended to is not empty.
LEMMA Appended == ASSUME NEW S, NEW s \in Seq(S), NEW e \in S PROVE Append(s, e) # <<>>
<1>1. Len(Append(s, e)) = Len(s) + 1 /\ Len(s) \in Nat
  OBVIOUS
<1>2. Len(<<>>) = 0
  OBVIOUS
<1> QED  BY <1>1, <1>2

\* Lines are only added to a sidecar file.
LEMMA LinesStay ==
    ASSUME ProxyInv, [Next]_vars, NEW f \in Sidecar, sidecar[f] # <<>>
    PROVE  sidecar'[f] # <<>>
<1>t. sidecar \in [Sidecar -> Seq(Repo \cup Ref)]
  BY DEF ProxyInv, TypeOK
<1>1. ASSUME NEW h \in Handler, RecordAppend(h) PROVE sidecar'[f] # <<>>
  <2>1. File(req[h]) \in Sidecar /\ req[h].line \in Repo \cup Ref
    BY <1>1 DEF RecordAppend, Goto, ProxyInv, ReqInPlace, Note, BlobNote, TagNote, File, Sidecar
  <2>2. sidecar[File(req[h])] \in Seq(Repo \cup Ref)
    BY <1>t, <2>1
  <2>4. Append(sidecar[File(req[h])], req[h].line) # <<>>
    BY <2>1, <2>2, Appended
  <2>3. \/ sidecar' = [sidecar EXCEPT ![File(req[h])] = Append(@, req[h].line)]
        \/ sidecar' = sidecar
    BY <1>1 DEF RecordAppend
  <2> QED  BY <1>t, <2>1, <2>3, <2>4
<1>2. ASSUME NEW h \in Handler, Arrive(h) \/ Remote(h) PROVE sidecar' = sidecar
  BY <1>2 DEF Arrive, ServeBlob, ServeManifest, ServeStats, Remote, AskUpstream, FollowRedirect, CopyChunk,
       CopyFails, CopyEnds, RelayManifest, SendHit, StatsDone, diskVars
<1>3. ASSUME NEW h \in Handler, Local(h), ~RecordAppend(h) PROVE sidecar' = sidecar
  BY <1>3 DEF Local, RecordRead, Stat, Open, CreateTemp, Verify, Commit, RemoveTemp, StatsInfo, diskVars
<1>4. Crash \/ UNCHANGED vars \/ (\E h \in Handler : HangsUp(h)) => sidecar' = sidecar
  BY DEF Crash, HangsUp, vars, diskVars
<1> QED  BY <1>1, <1>2, <1>3, <1>4 DEF Next

\* A request goes on to its blob from the places where the note is made, or
\* from a place where it was on to it already.
LEMMA OnToBlob ==
    ASSUME ProxyInv, [Next]_vars, NEW h \in Handler, pc'[h] \in BlobPC
    PROVE  \/ pc[h] \in BlobPC /\ req'[h] = req[h]
           \/ RecordRead(h) /\ pc'[h] = "stat"
           \/ RecordAppend(h)
<1> USE DEF BlobPC, Streaming, Goto
<1>t. pc \in [Handler -> PC] /\ req \in [Handler -> Note \cup {None}]
  BY DEF ProxyInv, TypeOK
<1>1. ASSUME NEW g \in Handler, Arrive(g) PROVE pc[h] \in BlobPC /\ req'[h] = req[h]
  BY <1>1, <1>t DEF Arrive, ServeBlob, ServeManifest, ServeStats
<1>2. ASSUME NEW g \in Handler, Remote(g) PROVE pc[h] \in BlobPC /\ req'[h] = req[h]
  BY <1>2, <1>t DEF Remote, AskUpstream, FollowRedirect, CopyChunk, CopyFails, AfterError, CopyEnds,
       RelayManifest, SendHit, StatsDone, Fail
<1>3. ASSUME NEW g \in Handler, Local(g), ~RecordRead(g), ~RecordAppend(g)
      PROVE  pc[h] \in BlobPC /\ req'[h] = req[h]
  BY <1>3, <1>t DEF Local, Stat, Open, CreateTemp, Verify, Commit, RemoveTemp, StatsInfo, Fail
<1>4. ASSUME NEW g \in Handler, RecordRead(g) \/ RecordAppend(g), g # h
      PROVE  pc[h] \in BlobPC /\ req'[h] = req[h]
  BY <1>4, <1>t DEF RecordRead, RecordAppend
<1>5. ASSUME RecordRead(h) PROVE pc'[h] = "stat"
  BY <1>5, <1>t DEF RecordRead, AfterNote
<1>6. ~Crash
  BY DEF Crash
<1>7. UNCHANGED vars \/ (\E g \in Handler : HangsUp(g)) => pc[h] \in BlobPC /\ req'[h] = req[h]
  BY DEF HangsUp, vars
<1> QED  BY <1>1, <1>2, <1>3, <1>4, <1>5, <1>6, <1>7 DEF Next

\* A handler that gets past its note has left a line.
LEMMA NotedIsNamed ==
    ASSUME ProxyInv, NEW h \in Handler, "disk" \notin Faults, pc'[h] \in BlobPC,
           RecordRead(h) \/ RecordAppend(h)
    PROVE  req'[h] = req[h] /\ sidecar'[<<"repos", req[h].key>>] # <<>>
<1>t. /\ sidecar \in [Sidecar -> Seq(Repo \cup Ref)] /\ pc \in [Handler -> PC] /\ req[h] \in Note
      /\ req' = req
  BY DEF ProxyInv, TypeOK, ReqInPlace, RecordRead, RecordAppend, Goto
<1>1. req[h].dir = "repos"
  BY <1>t DEF RecordRead, RecordAppend, Goto, AfterNote, BlobPC, Streaming
<1>f. File(req[h]) = <<"repos", req[h].key>>
  BY <1>1 DEF File
<1>2. File(req[h]) \in Sidecar /\ req[h].line \in Repo \cup Ref
  BY <1>t, <1>1 DEF Note, BlobNote, TagNote, File, Sidecar
<1>s. sidecar \in [Sidecar -> Seq(Repo \cup Ref)]
  BY <1>t
<1>n. sidecar[File(req[h])] \in Seq(Repo \cup Ref)
  BY <1>s, <1>2
<1>3. CASE RecordRead(h)
  <2>1. req[h].line \in Lines(sidecar[File(req[h])]) /\ sidecar' = sidecar
    BY <1>3, <1>t DEF RecordRead, Goto, BlobPC, Streaming, diskVars
  <2>2. sidecar[File(req[h])] # <<>>
    BY <2>1, <1>n DEF Lines
  <2> QED  BY <1>t, <1>f, <1>2, <2>1, <2>2
<1>4. CASE RecordAppend(h)
  <2>1. sidecar' = [sidecar EXCEPT ![File(req[h])] = Append(@, req[h].line)]
    BY <1>4 DEF RecordAppend
  <2>2. Append(sidecar[File(req[h])], req[h].line) # <<>>
    BY <1>n, <1>2, Appended
  <2> QED  BY <1>t, <1>f, <1>2, <2>1, <2>2
<1> QED  BY <1>3, <1>4

\* A blob is stored by a request that has left its note.
LEMMA NamedNext == ProxyInv /\ NamedInv /\ [Next]_vars => NamedInv'
<1> SUFFICES ASSUME ProxyInv, NamedInv, [Next]_vars, "disk" \notin Faults
             PROVE  /\ \A d \in Stored' : sidecar'[<<"repos", d>>] # <<>>
                    /\ \A h \in Handler : pc'[h] \in BlobPC => sidecar'[<<"repos", req'[h].key>>] # <<>>
    BY DEF NamedInv
<1>1. ASSUME NEW d \in Digest, sidecar[<<"repos", d>>] # <<>> PROVE sidecar'[<<"repos", d>>] # <<>>
  BY <1>1, LinesStay DEF Sidecar
<1>2. ASSUME NEW h \in Handler, pc[h] \in BlobPC
      PROVE  req[h].key \in Digest /\ sidecar[<<"repos", req[h].key>>] # <<>>
  BY <1>2 DEF ProxyInv, ReqInPlace, BlobNote, NamedInv
<1>3. ASSUME NEW d \in Stored' PROVE sidecar'[<<"repos", d>>] # <<>>
  <2>0. d \in Digest
    BY DEF Stored
  <2>1. CASE d \in Stored
    BY <2>0, <2>1, <1>1 DEF NamedInv
  <2>2. CASE d \notin Stored
    <3>1. PICK h \in Handler : Commit(h) /\ blobs' = [blobs EXCEPT ![req[h].key] = Whole]
      BY <2>0, <2>2, BlobsStep DEF Stored
    <3>2. d = req[h].key
      BY <2>0, <2>2, <3>1 DEF Stored, ProxyInv, TypeOK
    <3>3. pc[h] \in BlobPC
      BY <3>1 DEF Commit, Goto, BlobPC, Streaming
    <3> QED  BY <3>2, <3>3, <1>1, <1>2
  <2> QED  BY <2>1, <2>2
<1>4. ASSUME NEW h \in Handler, pc'[h] \in BlobPC PROVE sidecar'[<<"repos", req'[h].key>>] # <<>>
  <2>1. CASE pc[h] \in BlobPC /\ req'[h] = req[h]
    BY <2>1, <1>1, <1>2
  <2>2. CASE RecordRead(h) \/ RecordAppend(h)
    BY <2>2, <1>4, NotedIsNamed
  <2> QED  BY <1>4, <2>1, <2>2, OnToBlob
<1> QED  BY <1>3, <1>4

-----------------------------------------------------------------------------
(* The listing *)

\* What is stored stays stored.
LEMMA StoredStays == ASSUME ProxyInv, [Next]_vars PROVE Stored \subseteq Stored'
<1>1. blobs \in [Digest -> Content \cup {None}] /\ Whole # None
  BY Values, ProxyAssumption DEF ProxyInv, TypeOK
<1> QED  BY <1>1, BlobsStep DEF Stored

\* Only the directory is taken up, and only what is in it is listed.
LEMMA ListStep ==
    ASSUME ProxyInv, [Next]_vars, NEW h \in Handler
    PROVE  /\ todo'[h] \subseteq todo[h] \cup Stored
           /\ \A e \in listed'[h] \ listed[h] :
                 e.digest \in todo[h] /\ (e.digest \in Stored => e.size = blobs[e.digest].len)
<1>t. /\ todo \in [Handler -> SUBSET (Digest \cup TempName)] /\ listed \in [Handler -> SUBSET Entry]
  BY DEF ProxyInv, TypeOK
<1>1. ASSUME NEW g \in Handler, Arrive(g)
      PROVE  todo'[h] \subseteq todo[h] \cup Stored /\ listed'[h] \subseteq listed[h]
  BY <1>1, <1>t DEF Arrive, ServeBlob, ServeManifest, ServeStats, DirEntries
<1>2. ASSUME NEW g \in Handler, Remote(g) \/ HangsUp(g) PROVE todo' = todo /\ listed' = listed
  BY <1>2 DEF Remote, AskUpstream, FollowRedirect, CopyChunk, CopyFails, CopyEnds, RelayManifest, SendHit, StatsDone,
       HangsUp, statsVars
<1>3. ASSUME NEW g \in Handler, Local(g), ~StatsInfo(g) PROVE todo' = todo /\ listed' = listed
  BY <1>3 DEF Local, RecordRead, RecordAppend, Stat, Open, CreateTemp, Verify, Commit, RemoveTemp, statsVars
<1>4. ASSUME NEW g \in Handler, StatsInfo(g)
      PROVE  /\ todo'[h] \subseteq todo[h]
             /\ \A e \in listed'[h] \ listed[h] :
                   e.digest \in todo[h] /\ (e.digest \in Stored => e.size = blobs[e.digest].len)
  <2>1. PICK e \in todo[g] :
           LET c == IF e \in Digest THEN blobs[e] ELSE temps[e]
               names == IF e \in Digest THEN Lines(sidecar[<<"repos", e>>]) ELSE {}
           IN /\ todo' = [todo EXCEPT ![g] = @ \ {e}]
              /\ listed' = IF c = None THEN listed ELSE
                   [listed EXCEPT ![g] = @ \cup {[digest |-> e, size |-> c.len, repos |-> names]}]
    BY <1>4 DEF StatsInfo
  <2>2. todo'[h] \subseteq todo[h]
    BY <1>t, <2>1
  <2>3. ASSUME NEW x \in listed'[h] \ listed[h] PROVE h = g /\ x.digest = e /\ (e \in Digest => x.size = blobs[e].len)
    BY <1>t, <2>1, <2>3
  <2> QED  BY <2>2, <2>3 DEF Stored
<1>5. Crash => todo'[h] = {} /\ listed'[h] = {}
  BY DEF Crash
<1>6. UNCHANGED vars => todo' = todo /\ listed' = listed
  BY DEF vars, statsVars
<1> QED  BY <1>1, <1>2, <1>3, <1>4, <1>5, <1>6 DEF Next

\* Nothing that is stored goes away under the listing.
LEMMA ListedNext == ProxyInv /\ ListedInv /\ [Next]_vars => ListedInv'
<1> SUFFICES ASSUME ProxyInv, ListedInv, [Next]_vars, NEW h \in Handler
             PROVE  /\ todo'[h] \subseteq Stored'
                    /\ \A e \in listed'[h] : e.digest \in Stored' /\ e.size = Chunks
    BY DEF ListedInv
<1>1. Stored \subseteq Stored'
  BY StoredStays
<1>2. todo[h] \subseteq Stored /\ \A e \in listed[h] : e.digest \in Stored /\ e.size = Chunks
  BY DEF ListedInv
<1>3. \A d \in Stored : blobs[d].len = Chunks
  BY DEF ProxyInv, StoreVerified, Whole
<1> QED  BY <1>1, <1>2, <1>3, ListStep

-----------------------------------------------------------------------------
(* Leftovers *)

\* No step but a crash leaves a file without a writer.
LEMMA OnlyCrashLeaves == ASSUME ProxyInv, [Next]_vars, ~Crash PROVE Orphans' \subseteq Orphans
<1>t. /\ temps \in [TempName -> Content \cup {None}] /\ tmp \in [Handler -> TempName \cup {None}]
      /\ \A h \in Handler : pc[h] \in Streaming => tmp[h] \in TempName
  BY DEF ProxyInv, TypeOK, TempsInPlace
<1>1. ASSUME NEW h \in Handler, CreateTemp(h) PROVE Orphans' \subseteq Orphans
  <2>0. tmp[h] = None
    BY <1>1 DEF CreateTemp, Goto, Fail, ProxyInv, TempsInPlace, Streaming
  <2>1. CASE temps' = temps /\ tmp' = tmp
    BY <2>1 DEF Orphans
  <2>2. ASSUME NEW n \in TempName, temps' = [temps EXCEPT ![n] = Empty], tmp' = [tmp EXCEPT ![h] = n]
        PROVE  Orphans' \subseteq Orphans
    <3>1. ASSUME NEW o \in Orphans' PROVE o \in Orphans
      <4>1. o \in TempName /\ o # n /\ temps'[o] # None /\ \A g \in Handler : tmp'[g] # o
        BY <1>t, <2>2 DEF Orphans
      <4>2. temps[o] # None
        BY <1>t, <2>2, <4>1
      <4>3. o # None
        BY <4>1, ProxyAssumption
      <4>4. \A g \in Handler : tmp[g] # o
        BY <1>t, <2>0, <2>2, <4>1, <4>3
      <4> QED  BY <4>1, <4>2, <4>4 DEF Orphans
    <3> QED  BY <3>1
  <2> QED  BY <1>1, <2>1, <2>2 DEF CreateTemp, FreshNames
<1>2. ASSUME NEW h \in Handler, CopyChunk(h) PROVE Orphans' \subseteq Orphans
  <2>1. tmp' = tmp /\ tmp[h] \in TempName
    BY <1>2, <1>t DEF CopyChunk, Streaming
  <2>2. ASSUME NEW o \in TempName, o # tmp[h] PROVE temps'[o] = temps[o]
    BY <1>2, <1>t, <2>1, <2>2 DEF CopyChunk
  <2> QED  BY <2>1, <2>2 DEF Orphans
<1>3. ASSUME NEW h \in Handler, Commit(h) PROVE Orphans' \subseteq Orphans
  <2>1. tmp' = tmp /\ \A o \in TempName : temps'[o] # None => temps[o] # None
    BY <1>3, <1>t DEF Commit
  <2> QED  BY <2>1 DEF Orphans
<1>4. ASSUME NEW h \in Handler, RemoveTemp(h) PROVE Orphans' \subseteq Orphans
  <2>1. /\ tmp[h] \in TempName
        /\ temps' = [temps EXCEPT ![tmp[h]] = None]
        /\ tmp' = [tmp EXCEPT ![h] = None]
    BY <1>4, <1>t DEF RemoveTemp, Removed, Goto, Streaming
  <2>2. ASSUME NEW o \in Orphans' PROVE o \in Orphans
    <3>1. o \in TempName /\ temps'[o] # None /\ \A g \in Handler : tmp'[g] # o
      BY DEF Orphans
    <3>2. o # tmp[h] /\ temps[o] # None
      BY <1>t, <2>1, <3>1
    <3>3. \A g \in Handler : tmp[g] # o
      BY <1>t, <2>1, <3>1, <3>2
    <3> QED  BY <3>1, <3>2, <3>3 DEF Orphans
  <2> QED  BY <2>2
<1>5. ASSUME NEW h \in Handler, Local(h), ~CreateTemp(h), ~Commit(h), ~RemoveTemp(h) PROVE temps' = temps /\ tmp' = tmp
  BY <1>5 DEF Local, RecordRead, RecordAppend, Stat, Open, Verify, StatsInfo, diskVars
<1>6. ASSUME NEW h \in Handler, Arrive(h) \/ Remote(h) \/ HangsUp(h), ~CopyChunk(h) PROVE temps' = temps /\ tmp' = tmp
  BY <1>6 DEF Arrive, ServeBlob, ServeManifest, ServeStats, Remote, AskUpstream, FollowRedirect, CopyFails, CopyEnds,
       RelayManifest, SendHit, StatsDone, HangsUp, diskVars
<1>7. UNCHANGED vars => temps' = temps /\ tmp' = tmp
  BY DEF vars, diskVars
<1>8. temps' = temps /\ tmp' = tmp => Orphans' \subseteq Orphans
  BY DEF Orphans
<1> QED  BY <1>1, <1>2, <1>3, <1>4, <1>5, <1>6, <1>7, <1>8 DEF Next

\* The files being written are no more than the handlers.
LEMMA WritersBound ==
    ASSUME tmp \in [Handler -> TempName \cup {None}]
    PROVE  LET W == {tmp[h] : h \in Handler}
           IN  IsFiniteSet(W) /\ Cardinality(W) <= Cardinality(Handler) /\ Cardinality(W) \in Nat
<1> DEFINE W == {tmp[h] : h \in Handler}
<1> DEFINE f == [h \in Handler |-> tmp[h]]
<1>1. f \in Surjection(Handler, W)
  BY DEF Surjection
<1>2. IsFiniteSet(W) /\ Cardinality(W) <= Cardinality(Handler)
  BY <1>1, FiniteHandlers, FS_Surjection
<1> QED  BY <1>2, FS_CardinalityType

\* A crash adds one leftover per handler at most.
LEMMA OrphanNext == ProxyInv /\ OrphanInv /\ [Next]_vars => OrphanInv'
<1> SUFFICES ASSUME ProxyInv, OrphanInv, [Next]_vars PROVE OrphanInv'
    OBVIOUS
<1>0. /\ IsFiniteSet(Orphans) /\ Cardinality(Orphans) <= crashes * Cardinality(Handler)
      /\ crashes \in Nat /\ Cardinality(Handler) \in Nat /\ Cardinality(Orphans) \in Nat
  BY FiniteHandlers, FS_CardinalityType, ProxyAssumption DEF OrphanInv, OnlyCrashesOrphan, ProxyInv, TypeOK
<1>1. CASE ~Crash
  <2>1. IsFiniteSet(Orphans') /\ Cardinality(Orphans') <= Cardinality(Orphans)
    BY <1>0, <1>1, OnlyCrashLeaves, FS_Subset
  <2>2. crashes' = crashes
    BY <1>1 DEF Next, Arrive, ServeBlob, ServeManifest, ServeStats, Local, RecordRead, RecordAppend, RelayManifest, Stat,
         Open, SendHit, CreateTemp, Verify, Commit, RemoveTemp, StatsInfo, StatsDone, Remote, AskUpstream, FollowRedirect,
         CopyChunk, CopyFails, CopyEnds, HangsUp, vars
  <2>3. Cardinality(Orphans') \in Nat
    BY <2>1, FS_CardinalityType
  <2>4. Cardinality(Orphans') <= crashes' * Cardinality(Handler)
    <3> DEFINE c == crashes * Cardinality(Handler)
    <3>1. c \in Nat
      BY <1>0
    <3>2. Cardinality(Orphans') <= c
      <4> HIDE DEF c
      <4>1. Cardinality(Orphans) <= c
        BY <1>0 DEF c
      <4> QED  BY <1>0, <2>1, <2>3, <3>1, <4>1
    <3> QED  BY <2>2, <3>2
  <2> QED  BY <2>1, <2>4 DEF OrphanInv, OnlyCrashesOrphan
<1>2. CASE Crash
  <2> DEFINE W == {tmp[h] : h \in Handler}
  <2>1. IsFiniteSet(W) /\ Cardinality(W) <= Cardinality(Handler) /\ Cardinality(W) \in Nat
    BY WritersBound DEF ProxyInv, TypeOK
  <2>2. Orphans' \subseteq Orphans \cup W
    BY <1>2 DEF Crash, Orphans, diskVars
  <2>3. /\ IsFiniteSet(Orphans \cup W)
        /\ Cardinality(Orphans \cup W) = Cardinality(Orphans) + Cardinality(W) - Cardinality(Orphans \cap W)
    BY <1>0, <2>1, FS_Union
  <2>4. Cardinality(Orphans \cap W) \in Nat
    BY <1>0, FS_Intersection, FS_CardinalityType
  <2>5. IsFiniteSet(Orphans') /\ Cardinality(Orphans') <= Cardinality(Orphans \cup W)
    BY <2>2, <2>3, FS_Subset
  <2>6. Cardinality(Orphans') \in Nat /\ Cardinality(Orphans \cup W) \in Nat
    BY <2>3, <2>5, FS_CardinalityType
  <2>7. Cardinality(Orphans') <= Cardinality(Orphans) + Cardinality(Handler)
    <3> HIDE DEF W
    <3> QED  BY <1>0, <2>1, <2>3, <2>4, <2>5, <2>6
  <2>8. crashes' * Cardinality(Handler) = crashes * Cardinality(Handler) + Cardinality(Handler)
    <3>1. crashes' = crashes + 1
      BY <1>2 DEF Crash
    <3>2. \A k, n \in Nat : (k + 1) * n = k * n + n
      OBVIOUS
    <3> QED  BY <1>0, <3>1, <3>2
  <2>9. Cardinality(Orphans') <= crashes' * Cardinality(Handler)
    <3> DEFINE c == crashes * Cardinality(Handler)
    <3>1. c \in Nat
      BY <1>0
    <3>2. Cardinality(Orphans') <= c + Cardinality(Handler)
      <4> HIDE DEF c
      <4>1. Cardinality(Orphans) <= c
        BY <1>0 DEF c
      <4> QED  BY <1>0, <2>6, <2>7, <3>1, <4>1
    <3> QED  BY <2>8, <3>2
  <2> QED  BY <2>5, <2>9 DEF OrphanInv, OnlyCrashesOrphan
<1> QED  BY <1>1, <1>2

-----------------------------------------------------------------------------
(* The theorems *)

\* The three parts hold between any two steps, for any number of requests.
THEOREM DirInvariant == Spec => []DirInv
<1>1. Init => NamedInv /\ ListedInv
  BY DEF Init, NamedInv, ListedInv, Stored, BlobPC, Streaming
<1>2. Init => OrphanInv
  <2> SUFFICES ASSUME Init PROVE OrphanInv
      OBVIOUS
  <2>1. Orphans = {}
    BY DEF Init, Orphans
  <2>2. Cardinality(Handler) \in Nat /\ crashes = 0
    BY FiniteHandlers, FS_CardinalityType DEF Init
  <2> QED  BY <2>1, <2>2, FS_EmptySet DEF OrphanInv, OnlyCrashesOrphan
<1>3. ProxyInv /\ NamedInv /\ ListedInv /\ OrphanInv /\ [Next]_vars => (NamedInv /\ ListedInv /\ OrphanInv)'
  BY NamedNext, ListedNext, OrphanNext
<1>4. DirInv <=> ProxyInv /\ NamedInv /\ ListedInv /\ OrphanInv
  BY DEF DirInv
<1> QED  BY <1>1, <1>2, <1>3, <1>4, ProxyInvariant, PTL DEF Spec

\* Whatever streams fail and whenever the process dies, a cached blob has a
\* repo to be listed under, as long as the disk takes the lines.
THEOREM CachedIsNamed == Spec => []StoredIsNamed
<1>1. DirInv => StoredIsNamed
  BY DEF DirInv, NamedInv, StoredIsNamed
<1> QED  BY <1>1, DirInvariant, PTL

\* stats, which takes no lock, lists whole blobs only.
THEOREM ListingIsWhole == Spec => []StatsWhole
<1>1. DirInv => StatsWhole
  BY DEF DirInv, ListedInv, StatsWhole
<1> QED  BY <1>1, DirInvariant, PTL

\* A temp file without a writer was left by a death of the process, one per
\* request at most.
THEOREM LeftoversAreOfCrashes == Spec => []OnlyCrashesOrphan
<1>1. DirInv => OnlyCrashesOrphan
  BY DEF DirInv, OrphanInv
<1> QED  BY <1>1, DirInvariant, PTL

-----------------------------------------------------------------------------
(* Deliveries *)

Early == {"record", "append", "stat", "open", "ask", "follow", "temp"}
Late  == {"stream", "verify", "commit"}

\* What has been written to a client is what the hash of its stream has absorbed,
\* unless it has hung up, and before the stream it is nothing.
DeliveredInv ==
    \A h \in Handler :
        /\ pc[h] \in Early => reply[h].sent = Empty
        /\ pc[h] \in Late => reply[h] \in {Gone, [xcache |-> "MISS", sent |-> hash[h]]}

\* A request that is streamed was looked up before, and one that is looked up
\* has just arrived.
LEMMA DeliveredNext == ProxyInv /\ DeliveredInv /\ [Next]_vars => DeliveredInv'
<1> SUFFICES ASSUME ProxyInv, DeliveredInv, [Next]_vars, NEW g \in Handler
             PROVE  /\ pc'[g] \in Early => reply'[g].sent = Empty
                    /\ pc'[g] \in Late => reply'[g] \in {Gone, [xcache |-> "MISS", sent |-> hash'[g]]}
    BY DEF DeliveredInv
<1> DEFINE Goal == /\ pc'[g] \in Early => reply'[g].sent = Empty
                   /\ pc'[g] \in Late => reply'[g] \in {Gone, [xcache |-> "MISS", sent |-> hash'[g]]}
<1> USE DEF Goto, Answer, Early, Late
<1>t. /\ pc \in [Handler -> PC] /\ reply \in [Handler -> Reply] /\ hash \in [Handler -> Content]
      /\ req \in [Handler -> Note \cup {None}]
  BY DEF ProxyInv, TypeOK
<1>i. /\ pc[g] \in Early => reply[g].sent = Empty
      /\ pc[g] \in Late => reply[g] \in {Gone, [xcache |-> "MISS", sent |-> hash[g]]}
  BY DEF DeliveredInv
<1>1. ASSUME NEW h \in Handler, Arrive(h) PROVE Goal
  BY <1>1, <1>t, <1>i DEF Arrive, ServeBlob, ServeManifest, ServeStats, NoReply
<1>2. ASSUME NEW h \in Handler, Local(h), ~CreateTemp(h) PROVE Goal
  <2>1. /\ RecordRead(h) \/ RecordAppend(h) => Goal
        /\ Stat(h) \/ Verify(h) \/ Commit(h) => Goal
        /\ StatsInfo(h) => Goal
    BY <1>t, <1>i DEF RecordRead, RecordAppend, AfterNote, Stat, Verify, Commit, StatsInfo
  <2>2. Open(h) => Goal
    BY <1>t, <1>i DEF Open
  <2>3. RemoveTemp(h) => Goal
    BY <1>t, <1>i DEF RemoveTemp
  <2> QED  BY <1>2, <2>1, <2>2, <2>3 DEF Local
<1>3. ASSUME NEW h \in Handler, CreateTemp(h) PROVE Goal
  <2>1. pc[h] = "temp" /\ hash[h] = Empty /\ hash' = hash
    BY <1>3 DEF CreateTemp, Fail, ProxyInv, TempsInPlace, Streaming
  <2>2. CASE g # h
    BY <1>3, <1>t, <1>i, <2>2 DEF CreateTemp, Fail
  <2>3. CASE g = h /\ pc'[g] = "stream"
    <3>1. reply' = [reply EXCEPT ![g].xcache = "MISS"]
      BY <1>3, <1>t, <2>1, <2>3 DEF CreateTemp, Fail
    <3> QED  BY <1>t, <1>i, <2>1, <2>3, <3>1 DEF Reply
  <2>4. CASE g = h /\ pc'[g] = "idle"
    BY <2>4
  <2> QED  BY <1>3, <1>t, <2>1, <2>2, <2>3, <2>4 DEF CreateTemp, Fail
<1>4. ASSUME NEW h \in Handler, Remote(h), ~CopyChunk(h) PROVE Goal
  <2>1. /\ AskUpstream(h) \/ FollowRedirect(h) => Goal
        /\ CopyFails(h) \/ CopyEnds(h) => Goal
    BY <1>t, <1>i DEF AskUpstream, FollowRedirect, Fail, CopyFails, AfterError, CopyEnds
  <2>2. RelayManifest(h) \/ StatsDone(h) => Goal
    BY <1>t, <1>i DEF RelayManifest, StatsDone
  <2>3. SendHit(h) => Goal
    BY <1>t, <1>i DEF SendHit
  <2> QED  BY <1>4, <2>1, <2>2, <2>3 DEF Remote
<1>5. ASSUME NEW h \in Handler, CopyChunk(h) PROVE Goal
  <2>1. PICK right \in BOOLEAN :
           /\ reply' = IF reply[h] = Gone THEN reply ELSE [reply EXCEPT ![h].sent = Grow(hash[h], right)]
           /\ \/ hash' = [hash EXCEPT ![h] = Grow(hash[h], right)] /\ pc' = pc
              \/ pc' = [pc EXCEPT ![h] = "cleanup"] /\ hash' = hash
    BY <1>5 DEF CopyChunk, AfterError
  <2> HIDE DEF Grow
  <2> QED  BY <1>5, <1>t, <1>i, <2>1 DEF CopyChunk, Reply
<1>6. Crash \/ UNCHANGED vars => Goal
  BY <1>t, <1>i DEF Crash, vars
<1>7. ASSUME NEW h \in Handler, HangsUp(h) PROVE Goal
  BY <1>7, <1>t, <1>i DEF HangsUp
<1> QED  BY <1>1, <1>2, <1>3, <1>4, <1>5, <1>6, <1>7 DEF Next

\* What is cached from now on was written, whole and as a MISS, to the client
\* whose request renames it, unless that client has hung up.
THEOREM CachedIsDelivered == Spec => CachedWasDelivered
<1>1. Init => DeliveredInv
  BY DEF Init, DeliveredInv, Early, Late
<1>2. ProxyInv /\ DeliveredInv /\ [Next]_vars =>
        \A d \in Stored' \ Stored : \E h \in Handler :
            \/ Delivers(h, d)
            \/ Misses(h, d) /\ reply[h] = Gone /\ pc[h] = "commit"
  <2> SUFFICES ASSUME ProxyInv, DeliveredInv, [Next]_vars, NEW d \in Stored', d \notin Stored
               PROVE  \E h \in Handler :
                         \/ Delivers(h, d)
                         \/ Misses(h, d) /\ reply[h] = Gone /\ pc[h] = "commit"
      OBVIOUS
  <2>1. PICK h \in Handler : Commit(h) /\ blobs' = [blobs EXCEPT ![req[h].key] = Whole]
    BY BlobsStep DEF Stored
  <2>2. req[h] \in BlobNote
    BY <2>1 DEF Commit, Goto, ProxyInv, ReqInPlace, BlobPC, Streaming
  <2>4. req[h].key = d
    BY <2>1 DEF Stored, ProxyInv, TypeOK
  <2>3. hash[h] = Whole /\ pc[h] = "commit" /\ reply[h] \in {Gone, [xcache |-> "MISS", sent |-> hash[h]]}
    BY <2>1 DEF Commit, Goto, ProxyInv, TempsInPlace, DeliveredInv, Late
  <2> QED  BY <2>2, <2>3, <2>4 DEF Delivers, Misses
<1> QED  BY <1>1, <1>2, DeliveredNext, ProxyInvariant, PTL DEF Spec, CachedWasDelivered

-----------------------------------------------------------------------------
(* What NobodyIsStuck rests on, without ENABLED: what a local step is      *)
(* about to use is there, whatever the others did to the disk meanwhile.   *)

\* A note waits for the mutex only while another handler is about to append and
\* give it back; a file found by Stat is there to be opened; a temp file
\* is there to be renamed, and is no one else's; a listed entry is not gone.
GoesOn(h) ==
    /\ pc[h] = "record" => Lock \/ \E g \in Handler \ {h} : mu = g /\ pc[g] = "append"
    /\ pc[h] = "append" => mu = h /\ File(req[h]) \in Sidecar
    /\ pc[h] = "open" => blobs[req[h].key] = Whole
    /\ pc[h] \in {"verify", "commit"} => temps[tmp[h]] = hash[h]
    /\ pc[h] \in {"verify", "commit", "cleanup"} =>
            tmp[h] \in TempName /\ \A g \in Handler \ {h} : tmp[g] # tmp[h]
    /\ \A e \in todo[h] : e \in Digest /\ blobs[e] # None

\* No handler ever finds that what its next step needs has gone (recordRepo's
\* lock, serveBlob's Open, streamAndCache's Rename, stats' Info): no request of
\* the blob cache waits for another but for the time of one append.
THEOREM HandlersGoOn == Spec => [](\A h \in Handler : GoesOn(h))
<1>1. DirInv => \A h \in Handler : GoesOn(h)
  <2> SUFFICES ASSUME DirInv, NEW h \in Handler PROVE GoesOn(h)
      OBVIOUS
  <2> USE DEF DirInv, ProxyInv
  <2>1. pc[h] = "record" => Lock \/ \E g \in Handler \ {h} : mu = g /\ pc[g] = "append"
    BY DEF Lock, LockInPlace, TypeOK
  <2>2. pc[h] = "append" => mu = h /\ File(req[h]) \in Sidecar
    BY DEF LockInPlace, TypeOK, ReqInPlace, File, Sidecar, Note, BlobNote, TagNote
  <2>3. pc[h] = "open" => blobs[req[h].key] = Whole
    BY DEF HitsInPlace, StoreVerified
  <2>5. pc[h] \in {"verify", "commit"} => temps[tmp[h]] = hash[h]
    BY DEF TempsInPlace
  <2>6. pc[h] \in {"verify", "commit", "cleanup"} =>
            tmp[h] \in TempName /\ \A g \in Handler \ {h} : tmp[g] # tmp[h]
    BY ProxyAssumption DEF TempsInPlace, Streaming
  <2>7. \A e \in todo[h] : e \in Digest /\ blobs[e] # None
    BY DEF ListedInv, Stored
  <2> QED  BY <2>1, <2>2, <2>3, <2>5, <2>6, <2>7 DEF GoesOn
<1> QED  BY <1>1, DirInvariant, PTL

-----------------------------------------------------------------------------
(* What requests come to.  The prover has no rules for ENABLED, so that a  *)
(* step can be taken is a hypothesis here, NobodyIsStuck, which a run      *)
(* checks; the rest of each argument is proved.                            *)

\* A request moves by its own steps; a crash ends it.
LEMMA OwnMoves ==
    ASSUME ProxyInv, [Next]_vars, NEW h \in Handler
    PROVE  \/ pc'[h] = pc[h] /\ req'[h] = req[h] /\ hash'[h] = hash[h]
           \/ Arrive(h) \/ Local(h) \/ Remote(h)
           \/ pc'[h] = "idle" /\ "crash" \in Faults
<1> USE DEF Goto
<1>t. pc \in [Handler -> PC] /\ req \in [Handler -> Note \cup {None}] /\ hash \in [Handler -> Content]
  BY DEF ProxyInv, TypeOK
<1> DEFINE Same3 == pc'[h] = pc[h] /\ req'[h] = req[h] /\ hash'[h] = hash[h]
<1>1. ASSUME NEW g \in Handler, g # h, Arrive(g) PROVE Same3
  BY <1>1, <1>t DEF Arrive, ServeBlob, ServeManifest, ServeStats
<1>2. ASSUME NEW g \in Handler, g # h, Remote(g) PROVE Same3
  BY <1>2, <1>t DEF Remote, AskUpstream, FollowRedirect, CopyChunk, CopyFails, AfterError, CopyEnds,
       RelayManifest, SendHit, StatsDone, Fail
<1>3. ASSUME NEW g \in Handler, g # h, Local(g) PROVE Same3
  BY <1>3, <1>t DEF Local, RecordRead, RecordAppend, Stat, Open, CreateTemp, Verify, Commit, RemoveTemp,
       StatsInfo, Fail
<1>4. Crash => pc'[h] = "idle" /\ "crash" \in Faults
  BY DEF Crash
<1>5. UNCHANGED vars \/ (\E g \in Handler : HangsUp(g)) => Same3
  BY DEF HangsUp, vars
<1> QED  BY <1>1, <1>2, <1>3, <1>4, <1>5 DEF Next

\* At a place of its own a request goes nowhere but to the next place.
LEMMA LocalMoves ==
    ASSUME ProxyInv, NEW h \in Handler, Arrive(h) \/ Local(h) \/ Remote(h), 
           pc[h] \in {"record", "append", "stat", "open", "verify", "commit"}
    PROVE  /\ req'[h] = req[h] /\ hash'[h] = hash[h]
           /\ pc[h] = "record" => RecordRead(h) /\ pc'[h] \in {"append", AfterNote(h)}
           /\ pc[h] = "append" => RecordAppend(h) /\ pc'[h] = AfterNote(h)
           /\ pc[h] = "stat" => Stat(h)
           /\ pc[h] = "open" => Open(h)
           /\ pc[h] = "verify" => Verify(h)
           /\ pc[h] = "commit" => Commit(h)
<1> USE DEF Goto
<1>t. pc \in [Handler -> PC] /\ req \in [Handler -> Note \cup {None}] /\ hash \in [Handler -> Content]
  BY DEF ProxyInv, TypeOK
<1>1. ~Arrive(h)
  BY DEF Arrive, ServeBlob, ServeManifest, ServeStats
<1>2. ~Remote(h)
  BY DEF Remote, AskUpstream, FollowRedirect, CopyChunk, CopyFails, CopyEnds, RelayManifest, SendHit, StatsDone, Fail
<1>3. ~CreateTemp(h) /\ ~RemoveTemp(h) /\ ~StatsInfo(h)
  BY DEF CreateTemp, RemoveTemp, StatsInfo, Fail
<1>4. \/ RecordRead(h) \/ RecordAppend(h) \/ Stat(h) \/ Open(h) \/ Verify(h) \/ Commit(h)
  BY <1>1, <1>2, <1>3 DEF Local
<1>5. req' = req /\ hash' = hash
  BY <1>4 DEF RecordRead, RecordAppend, Stat, Open, Verify, Commit
<1>6. /\ pc[h] = "record" => RecordRead(h)
      /\ pc[h] = "append" => RecordAppend(h)
      /\ pc[h] = "stat" => Stat(h)
      /\ pc[h] = "open" => Open(h)
      /\ pc[h] = "verify" => Verify(h)
      /\ pc[h] = "commit" => Commit(h)
  BY <1>4 DEF RecordRead, RecordAppend, Stat, Open, Verify, Commit
<1>7. RecordRead(h) => pc'[h] \in {"append", AfterNote(h)}
  BY <1>t DEF RecordRead
<1>8. RecordAppend(h) => pc'[h] = AfterNote(h)
  BY <1>t DEF RecordAppend
<1> QED  BY <1>5, <1>6, <1>7, <1>8

\* The mutex is given back again and again.
LEMMA LockIsFreed == FairSpec /\ []NobodyIsStuck => []<>(mu = None)
<1>1. FairSpec => WF_vars(Appends) /\ Spec
  BY PTL DEF FairSpec
<1>2. ProxyInv /\ NobodyIsStuck /\ ~(mu = None) => ENABLED <<Appends>>_vars
  <2>1. NobodyIsStuck => ((\E h \in Handler : pc[h] = "append") => ENABLED <<Appends>>_vars)
    BY DEF NobodyIsStuck
  <2>2. ProxyInv /\ mu # None => \E h \in Handler : pc[h] = "append"
    BY DEF ProxyInv, TypeOK, LockInPlace
  <2> QED  BY <2>1, <2>2
<1>3. <<Appends>>_vars => (mu = None)'
  BY DEF Appends, RecordAppend, Unlock
<1> QED  BY <1>1, <1>2, <1>3, ProxyInvariant, PTL DEF Spec

\* What one request waits for: its notes.
LEMMA NoteIsMade ==
    ASSUME NEW h \in Handler
    PROVE  FairSpec /\ []NobodyIsStuck => (pc[h] = "record" ~> pc[h] \notin {"record", "append"})
<1>1. Fairness => Scheduled(h)
  BY DEF Fairness
<1>2. Scheduled(h) => WF_vars(Local(h)) /\ SF_vars(RecordRead(h))
  BY PTL DEF Scheduled
<1>3. FairSpec => Spec /\ Fairness
  BY PTL DEF FairSpec
<1>4. ProxyInv /\ NobodyIsStuck /\ mu = None /\ pc[h] = "record" => ENABLED <<RecordRead(h)>>_vars
  <2>1. NobodyIsStuck /\ pc[h] = "record"
            => ENABLED <<RecordRead(h)>>_vars \/ \E g \in Handler : pc[g] = "append"
    BY DEF NobodyIsStuck
  <2>2. ProxyInv /\ mu = None => \A g \in Handler : pc[g] # "append"
    BY ProxyAssumption DEF ProxyInv, LockInPlace
  <2> QED  BY <2>1, <2>2
<1>5. ProxyInv /\ <<RecordRead(h)>>_vars => (~(pc[h] = "record"))'
  BY DEF ProxyInv, TypeOK, RecordRead, Goto, AfterNote
<1>6. ProxyInv /\ [Next]_vars /\ pc[h] = "record" => (pc[h] = "record")' \/ (~(pc[h] = "record"))'
  OBVIOUS
<1>7. ProxyInv /\ [Next]_vars /\ pc[h] = "record" => (pc[h] \in {"record", "append"})' \/ (pc[h] \notin {"record", "append"})'
  OBVIOUS
<1>8. NobodyIsStuck /\ pc[h] = "append" => ENABLED <<Local(h)>>_vars
  BY DEF NobodyIsStuck, OwnPlaces
<1>9. ProxyInv /\ [Next]_vars /\ pc[h] = "append" => (pc[h] = "append")' \/ (pc[h] \notin {"record", "append"})'
  BY OwnMoves, LocalMoves DEF AfterNote
<1>10. ProxyInv /\ [Next]_vars /\ pc[h] = "append" /\ <<Local(h)>>_vars => (pc[h] \notin {"record", "append"})'
  BY LocalMoves DEF AfterNote
<1>11. pc[h] \notin {"record", "append"} <=> ~(pc[h] = "record") /\ ~(pc[h] = "append")
  OBVIOUS
<1> QED  BY <1>1, <1>2, <1>3, <1>4, <1>5, <1>8, <1>9, <1>10, <1>11, LockIsFreed, ProxyInvariant, PTL DEF Spec

\* Notes are made, however many requests contend for the mutex and whatever
\* the network does to any of them.
THEOREM NotesAreMade == FairSpec /\ []NobodyIsStuck => NotesDoNotWait
  BY NoteIsMade DEF NotesDoNotWait

\* A request for blob d, at place p, with the blob stored.
HitAt(h, d, p) == pc[h] = p /\ req[h].dir = "repos" /\ req[h].key = d /\ d \in Stored

\* On its way to a HIT a request passes four places and no other.
LEMMA HitMoves ==
    ASSUME ProxyInv, [Next]_vars, Faults \cap {"disk", "crash"} = {}, NEW h \in Handler, NEW d \in Digest
    PROVE  /\ HitAt(h, d, "record") =>
                HitAt(h, d, "record")' \/ HitAt(h, d, "append")' \/ HitAt(h, d, "stat")'
           /\ HitAt(h, d, "append") => HitAt(h, d, "append")' \/ HitAt(h, d, "stat")'
           /\ HitAt(h, d, "stat") => HitAt(h, d, "stat")' \/ HitAt(h, d, "open")'
           /\ HitAt(h, d, "open") => HitAt(h, d, "open")' \/ pc'[h] = "hit"
<1>t. pc \in [Handler -> PC] /\ blobs \in [Digest -> Content \cup {None}]
  BY DEF ProxyInv, TypeOK
<1>1. d \in Stored => d \in Stored'
  <2>1. d \in Stored => blobs[d] = Whole /\ Whole # None
    BY Values, ProxyAssumption DEF ProxyInv, StoreVerified
  <2> QED  BY <1>t, <2>1, BlobsStep DEF Stored
<1>2. Stat(h) /\ HitAt(h, d, "stat") => pc'[h] = "open"
  BY <1>t DEF Stat, Goto, HitAt, Stored, Cached
<1>3. Open(h) /\ HitAt(h, d, "open") => pc'[h] = "hit"
  BY <1>t DEF Open, Goto, HitAt, Stored
<1>4. HitAt(h, d, "record") \/ HitAt(h, d, "append") => AfterNote(h) = "stat"
  BY DEF HitAt, AfterNote
<1> QED  BY <1>1, <1>2, <1>3, <1>4, OwnMoves, LocalMoves DEF HitAt

\* Each of these steps the request can take alone.
LEMMA HitGoesOn ==
    ASSUME ProxyInv, NEW h \in Handler, NEW d \in Digest, Faults \cap {"disk", "crash"} = {}, Local(h)
    PROVE  /\ HitAt(h, d, "append") => ~(pc[h] = "append")'
           /\ HitAt(h, d, "stat") => ~(pc[h] = "stat")'
           /\ HitAt(h, d, "open") => ~(pc[h] = "open")'
<1>t. pc \in [Handler -> PC] /\ blobs \in [Digest -> Content \cup {None}]
  BY DEF ProxyInv, TypeOK
<1>1. /\ RecordAppend(h) => ~(pc[h] = "append")'
      /\ Stat(h) => ~(pc[h] = "stat")'
      /\ Open(h) => ~(pc[h] = "open")'
  BY <1>t DEF RecordAppend, AfterNote, Stat, Open, Goto
<1> QED  BY <1>1, LocalMoves DEF HitAt

\* The bytes of a cached blob are on their way from the disk, whatever becomes of
\* the upstream, of the other requests and of their clients.
THEOREM HitsAreSent == FairSpec /\ []NobodyIsStuck => HitNeedsNoUpstream
<1> SUFFICES ASSUME Faults \cap {"disk", "crash"} = {}, NEW h \in Handler, NEW d \in Digest
             PROVE  FairSpec /\ []NobodyIsStuck => (HitAt(h, d, "record") ~> pc[h] = "hit")
    BY DEF HitNeedsNoUpstream, HitAt
<1>1. Fairness => Scheduled(h)
  BY DEF Fairness
<1>2. Scheduled(h) => WF_vars(Local(h))
  BY PTL DEF Scheduled
<1>3. FairSpec => Spec /\ Fairness
  BY PTL DEF FairSpec
<1>4. NobodyIsStuck => (pc[h] \in OwnPlaces => ENABLED <<Local(h)>>_vars)
  BY DEF NobodyIsStuck
<1>5. \/ HitAt(h, d, "append") \/ HitAt(h, d, "stat") \/ HitAt(h, d, "open")
      => pc[h] \in OwnPlaces
  BY DEF HitAt, OwnPlaces
<1>6. ProxyInv /\ [Next]_vars =>
        /\ HitAt(h, d, "record") => HitAt(h, d, "record")' \/ HitAt(h, d, "append")' \/ HitAt(h, d, "stat")'
        /\ HitAt(h, d, "append") => HitAt(h, d, "append")' \/ HitAt(h, d, "stat")'
        /\ HitAt(h, d, "stat") => HitAt(h, d, "stat")' \/ HitAt(h, d, "open")'
        /\ HitAt(h, d, "open") => HitAt(h, d, "open")' \/ (pc[h] = "hit")'
  BY HitMoves
<1>7. ProxyInv /\ <<Local(h)>>_vars =>
        /\ HitAt(h, d, "append") => ~HitAt(h, d, "append")'
        /\ HitAt(h, d, "stat") => ~HitAt(h, d, "stat")'
        /\ HitAt(h, d, "open") => ~HitAt(h, d, "open")'
  BY HitGoesOn DEF HitAt
<1>8. HitAt(h, d, "record") => pc[h] = "record"
  BY DEF HitAt
<1>9. pc[h] \notin {"record", "append"} => ~HitAt(h, d, "record") /\ ~HitAt(h, d, "append")
  BY DEF HitAt
<1> HIDE DEF HitAt
<1>10. FairSpec /\ []NobodyIsStuck => (pc[h] = "record" ~> pc[h] \notin {"record", "append"})
  BY NoteIsMade
<1> QED  BY <1>1, <1>2, <1>3, <1>4, <1>5, <1>6, <1>7, <1>8, <1>9, <1>10, ProxyInvariant, PTL DEF Spec

\* A request whose body is being checked and was whole, and then renamed.
WholeAt(h, d, p) == pc[h] = p /\ hash[h] = Whole /\ req[h].key = d

\* A body that was whole is under its digest's name in the end, unless the disk
\* fails or the process dies.
THEOREM VerifiedBlobsAreCached == FairSpec /\ []NobodyIsStuck => VerifiedIsCached
<1> SUFFICES ASSUME Faults \cap {"disk", "crash"} = {}, NEW h \in Handler, NEW d \in Digest
             PROVE  FairSpec /\ []NobodyIsStuck => (WholeAt(h, d, "verify") ~> d \in Stored)
    BY DEF VerifiedIsCached, WholeAt
<1>1. Fairness => Scheduled(h)
  BY DEF Fairness
<1>2. Scheduled(h) => WF_vars(Local(h))
  BY PTL DEF Scheduled
<1>3. FairSpec => Spec /\ Fairness
  BY PTL DEF FairSpec
<1>4. NobodyIsStuck => (pc[h] \in OwnPlaces => ENABLED <<Local(h)>>_vars)
  BY DEF NobodyIsStuck
<1>5. WholeAt(h, d, "verify") \/ WholeAt(h, d, "commit") => pc[h] \in OwnPlaces
  BY DEF WholeAt, OwnPlaces
<1>6. ProxyInv /\ (Arrive(h) \/ Local(h) \/ Remote(h)) =>
        /\ WholeAt(h, d, "verify") => WholeAt(h, d, "commit")'
        /\ WholeAt(h, d, "commit") => (d \in Stored)'
  <2> SUFFICES ASSUME ProxyInv, Arrive(h) \/ Local(h) \/ Remote(h)
               PROVE  /\ WholeAt(h, d, "verify") => WholeAt(h, d, "commit")'
                      /\ WholeAt(h, d, "commit") => d \in Stored'
      OBVIOUS
  <2>t. pc \in [Handler -> PC] /\ blobs \in [Digest -> Content \cup {None}]
    BY DEF ProxyInv, TypeOK
  <2>1. ASSUME WholeAt(h, d, "verify") PROVE WholeAt(h, d, "commit")'
    <3>1. Verify(h) /\ req'[h] = req[h] /\ hash'[h] = hash[h]
      BY <2>1, LocalMoves DEF WholeAt
    <3> QED  BY <2>1, <2>t, <3>1 DEF Verify, Goto, Matches, WholeAt
  <2>2. ASSUME WholeAt(h, d, "commit") PROVE d \in Stored'
    <3>1. Commit(h)
      BY <2>2, LocalMoves DEF WholeAt
    <3>2. temps[tmp[h]] = Whole /\ req[h].key = d /\ Whole # None
      BY <2>2, Values, ProxyAssumption DEF ProxyInv, TempsInPlace, WholeAt
    <3>3. blobs' = [blobs EXCEPT ![req[h].key] = temps[tmp[h]]]
      BY <3>1 DEF Commit
    <3> QED  BY <2>t, <3>2, <3>3 DEF Stored
  <2> QED  BY <2>1, <2>2
<1>7. ProxyInv /\ [Next]_vars =>
        /\ WholeAt(h, d, "verify") => WholeAt(h, d, "verify")' \/ WholeAt(h, d, "commit")'
        /\ WholeAt(h, d, "commit") => WholeAt(h, d, "commit")' \/ (d \in Stored)'
  BY <1>6, OwnMoves DEF WholeAt
<1>8. ProxyInv /\ <<Local(h)>>_vars =>
        /\ WholeAt(h, d, "verify") => WholeAt(h, d, "commit")'
        /\ WholeAt(h, d, "commit") => (d \in Stored)'
  BY <1>6
<1> QED  BY <1>1, <1>2, <1>3, <1>4, <1>5, <1>7, <1>8, ProxyInvariant, PTL DEF Spec
=============================================================================
