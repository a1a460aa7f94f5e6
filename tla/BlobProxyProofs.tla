--------------------------- MODULE BlobProxyProofs ---------------------------
(***************************************************************************)
(* What is proved of BlobProxy, for every value of its constants.          *)
(***************************************************************************)
EXTENDS BlobProxy, TLAPS

\* The initial values are of their types.
LEMMA Values ==
    /\ Empty \in Content /\ Whole \in Content
    /\ NoReply \in Reply /\ Gone \in Reply
    /\ 0 \in 0 .. Chunks + 1
  BY ProxyAssumption DEF Empty, Whole, Content, NoReply, Gone, Reply, Verdict

\* Stamping a verdict on an answer keeps the answers well formed.
LEMMA AnswerType ==
    ASSUME reply \in [Handler -> Reply], NEW h \in Handler, NEW v \in Verdict, Answer(h, v)
    PROVE  reply' \in [Handler -> Reply]
  BY DEF Answer, Reply

\* So does moving a handler on.
LEMMA GotoType ==
    ASSUME pc \in [Handler -> PC], NEW h \in Handler, NEW from, NEW to \in PC, Goto(h, from, to)
    PROVE  pc' \in [Handler -> PC]
  BY DEF Goto

\* An answer stays well formed as more of the body is sent.
LEMMA SentType ==
    ASSUME reply \in [Handler -> Reply], NEW h \in Handler, NEW c \in Content
    PROVE  [reply EXCEPT ![h].sent = c] \in [Handler -> Reply]
  BY DEF Reply

\* Every step keeps the types.
LEMMA TypeNext == ProxyInv /\ [Next]_vars => TypeOK'
<1> SUFFICES ASSUME ProxyInv, [Next]_vars PROVE TypeOK'
    OBVIOUS
<1> USE Values DEF ProxyInv, TypeOK, diskVars, statsVars, Goto, PC
<1>1. ASSUME NEW h \in Handler, Arrive(h) PROVE TypeOK'
  <2>1. CASE ServeBlob(h)
    BY <2>1 DEF ServeBlob, Note
  <2>2. CASE ServeManifest(h)
    BY <2>2 DEF ServeManifest, Note
  <2>3. CASE ServeStats(h)
    BY <2>3 DEF ServeStats, DirEntries, Stored
  <2> QED  BY <1>1, <2>1, <2>2, <2>3 DEF Arrive
<1>2. ASSUME NEW h \in Handler, Local(h) PROVE TypeOK'
  <2>1. CASE RecordRead(h)
    BY <2>1 DEF RecordRead, Lock, AfterNote
  <2>2. CASE RecordAppend(h)
    <3>1. File(req[h]) \in Sidecar /\ req[h].line \in Repo \cup Ref
      BY <2>2 DEF RecordAppend, Unlock, ReqInPlace, Note, BlobNote, TagNote, File, Sidecar
    <3>2. \/ sidecar' = sidecar
          \/ sidecar' = [sidecar EXCEPT ![File(req[h])] = Append(@, req[h].line)]
      BY <2>2 DEF RecordAppend, Unlock
    <3>3. sidecar' \in [Sidecar -> Seq(Repo \cup Ref)]
      <4>1. sidecar \in [Sidecar -> Seq(Repo \cup Ref)]
        OBVIOUS
      <4> HIDE DEF ProxyInv, TypeOK
      <4>2. Append(sidecar[File(req[h])], req[h].line) \in Seq(Repo \cup Ref)
        BY <4>1, <3>1
      <4> QED  BY <4>1, <4>2, <3>1, <3>2
    <3> QED  BY <2>2, <3>3 DEF RecordAppend, Unlock, AfterNote
  <2>3. CASE Stat(h)
    <3>1. req[h].key \in Digest
      BY <2>3 DEF Stat, Cached, ReqInPlace, BlobPC, BlobNote
    <3>2. blobs[req[h].key] # None => blobs[req[h].key].len \in 0 .. Chunks + 1
      BY <3>1 DEF Content
    <3> QED  BY <2>3, <3>1, <3>2 DEF Stat, Cached
  <2>4. CASE Open(h)
    <3>1. req[h].key \in Digest
      BY <2>4 DEF Open, ReqInPlace, BlobPC, BlobNote
    <3>2. reply' \in [Handler -> Reply]
      BY <2>4, AnswerType DEF Open, Verdict
    <3>3. 0 \in 0 .. Chunks + 1 /\ size' \in [Handler -> 0 .. Chunks + 1]
      <4>1. size' = size \/ size' = [size EXCEPT ![h] = 0]
        BY <2>4 DEF Open
      <4> QED  BY <4>1
    <3>4. pc' \in [Handler -> PC]
      BY <2>4 DEF Open
    <3>5. file' \in [Handler -> Content \cup {None}]
      BY <2>4, <3>1 DEF Open
    <3> QED  BY <2>4, <3>2, <3>3, <3>4, <3>5 DEF Open
  <2>5. CASE CreateTemp(h)
    <3>1. reply' \in [Handler -> Reply]
      BY <2>5, AnswerType DEF CreateTemp, Fail, Verdict
    <3>2. \/ temps' = temps /\ tmp' = tmp
          \/ \E t \in TempName : /\ temps' = [temps EXCEPT ![t] = Empty]
                               /\ tmp' = [tmp EXCEPT ![h] = t]
      BY <2>5 DEF CreateTemp, FreshNames
    <3>3. /\ temps' \in [TempName -> Content \cup {None}]
          /\ tmp' \in [Handler -> TempName \cup {None}]
      <4>1. temps \in [TempName -> Content \cup {None}] /\ tmp \in [Handler -> TempName \cup {None}]
        OBVIOUS
      <4> HIDE DEF ProxyInv, TypeOK
      <4> QED  BY <4>1, <3>2
    <3>4. pc' \in [Handler -> PC]
      BY <2>5, GotoType DEF CreateTemp, Fail
    <3> QED  BY <2>5, <3>1, <3>3, <3>4 DEF CreateTemp
  <2>6. CASE Verify(h)
    BY <2>6 DEF Verify
  <2>7. CASE Commit(h)
    <3>1. req[h].key \in Digest /\ tmp[h] \in TempName
      BY <2>7 DEF Commit, ReqInPlace, TempsInPlace, BlobPC, Streaming, BlobNote
    <3> QED  BY <2>7, <3>1 DEF Commit
  <2>8. CASE RemoveTemp(h)
    BY <2>8 DEF RemoveTemp, Removed
  <2>9. CASE StatsInfo(h)
    <3>1. \A e \in Digest \cup TempName :
             (IF e \in Digest THEN blobs[e] ELSE temps[e]) \in Content \cup {None}
      OBVIOUS
    <3>2. \A e \in Digest : Lines(sidecar[<<"repos", e>>]) \subseteq Repo \cup Ref
      BY DEF Lines, Sidecar
    <3>3. \A e \in Digest \cup TempName, c \in Content, names \in SUBSET (Repo \cup Ref) :
             [digest |-> e, size |-> c.len, repos |-> names] \in Entry
      BY DEF Entry, Content
    <3>4. listed' \in [Handler -> SUBSET Entry] /\ todo' \in [Handler -> SUBSET (Digest \cup TempName)]
      BY <2>9, <3>1, <3>2, <3>3 DEF StatsInfo
    <3> QED  BY <2>9, <3>4 DEF StatsInfo
  <2> QED  BY <1>2, <2>1, <2>2, <2>3, <2>4, <2>5, <2>6, <2>7, <2>8, <2>9 DEF Local
<1>3. ASSUME NEW h \in Handler, Remote(h) PROVE TypeOK'
  <2>1. CASE AskUpstream(h)
    BY <2>1, AnswerType DEF AskUpstream, Fail, Goto, Verdict
  <2>2. CASE FollowRedirect(h)
    BY <2>2, AnswerType DEF FollowRedirect, Fail, Goto, Verdict
  <2>3. CASE CopyChunk(h)
    <3>1. tmp[h] \in TempName /\ temps[tmp[h]] = hash[h]
      BY <2>3 DEF CopyChunk, AfterError, TempsInPlace, Streaming
    <3>2. \A right \in BOOLEAN : Grow(hash[h], right) \in Content
      BY <2>3, ProxyAssumption DEF CopyChunk, AfterError, Grow, Content
    <3>3. reply' \in [Handler -> Reply]
      BY <2>3, <3>2, SentType DEF CopyChunk, AfterError
    <3>4. PICK right \in BOOLEAN :
             \/ /\ temps' = [temps EXCEPT ![tmp[h]] = Grow(@, right)]
                /\ hash' = [hash EXCEPT ![h] = Grow(hash[h], right)]
             \/ temps' = temps /\ hash' = hash
      BY <2>3 DEF CopyChunk, AfterError
    <3>5. temps' \in [TempName -> Content \cup {None}] /\ hash' \in [Handler -> Content]
      <4>1. temps \in [TempName -> Content \cup {None}] /\ hash \in [Handler -> Content]
        OBVIOUS
      <4> HIDE DEF ProxyInv, TypeOK
      <4> QED  BY <4>1, <3>1, <3>2, <3>4
    <3> QED  BY <2>3, <3>3, <3>5 DEF CopyChunk, AfterError
  <2>4. CASE CopyFails(h)
    BY <2>4 DEF CopyFails, AfterError
  <2>5. CASE CopyEnds(h)
    BY <2>5 DEF CopyEnds
  <2>6. CASE RelayManifest(h)
    BY <2>6, AnswerType DEF RelayManifest, Fail, Goto, Verdict
  <2>7. CASE SendHit(h)
    <3>1. file[h] \in Content
      BY <2>7 DEF SendHit, HitsInPlace
    <3>2. \A n \in 0 .. file[h].len : [len |-> n, good |-> file[h].good] \in Content
      BY <3>1, ProxyAssumption DEF Content
    <3>3. reply' \in [Handler -> Reply]
      BY <2>7, <3>2, SentType DEF SendHit
    <3>4. 0 \in 0 .. Chunks + 1 /\ size' \in [Handler -> 0 .. Chunks + 1]
      BY <2>7, ProxyAssumption DEF SendHit
    <3> QED  BY <2>7, <3>3, <3>4 DEF SendHit
  <2>8. CASE StatsDone(h)
    BY <2>8 DEF StatsDone
  <2> QED  BY <1>3, <2>1, <2>2, <2>3, <2>4, <2>5, <2>6, <2>7, <2>8 DEF Remote
<1>4. CASE Crash
  <2>1. 0 \in 0 .. Chunks + 1 /\ crashes' \in 0 .. MaxCrashes
    BY <1>4, ProxyAssumption DEF Crash
  <2> QED  BY <1>4, <2>1 DEF Crash
<1>5. CASE UNCHANGED vars
  BY <1>5 DEF vars, diskVars, statsVars
<1>6. ASSUME NEW h \in Handler, HangsUp(h) PROVE TypeOK'
  BY <1>6 DEF HangsUp, Gone
<1> QED  BY <1>1, <1>2, <1>3, <1>4, <1>5, <1>6 DEF Next

\* Only a rename of a verified temp file changes the store.
LEMMA StoreNext == ProxyInv /\ [Next]_vars => StoreVerified'
<1> SUFFICES ASSUME ProxyInv, [Next]_vars PROVE StoreVerified'
    OBVIOUS
<1> USE DEF ProxyInv, StoreVerified, Stored, diskVars
<1>1. ASSUME NEW h \in Handler, Arrive(h) PROVE StoreVerified'
  <2>1. CASE ServeBlob(h)
    BY <2>1 DEF ServeBlob
  <2>2. CASE ServeManifest(h)
    BY <2>2 DEF ServeManifest
  <2>3. CASE ServeStats(h)
    BY <2>3 DEF ServeStats, DirEntries
  <2> QED  BY <1>1, <2>1, <2>2, <2>3 DEF Arrive
<1>2. ASSUME NEW h \in Handler, Local(h) PROVE StoreVerified'
  <2>1. CASE RecordRead(h)
    BY <2>1 DEF RecordRead, Lock
  <2>2. CASE RecordAppend(h)
    BY <2>2 DEF RecordAppend, Unlock
  <2>3. CASE Stat(h)
    BY <2>3 DEF Stat, Cached
  <2>4. CASE Open(h)
    BY <2>4 DEF Open
  <2>5. CASE CreateTemp(h)
    BY <2>5 DEF CreateTemp
  <2>6. CASE Verify(h)
    BY <2>6 DEF Verify
  <2>7. CASE Commit(h)
    <3>1. tmp[h] \in TempName /\ temps[tmp[h]] = Whole
      BY <2>7 DEF Commit, Goto, TempsInPlace, Streaming
    <3>2. blobs' = blobs \/ blobs' = [blobs EXCEPT ![req[h].key] = Whole]
      BY <2>7, <3>1 DEF Commit
    <3> QED  BY <3>2 DEF TypeOK
  <2>8. CASE RemoveTemp(h)
    BY <2>8 DEF RemoveTemp, Removed
  <2>9. CASE StatsInfo(h)
    BY <2>9 DEF StatsInfo
  <2> QED  BY <1>2, <2>1, <2>2, <2>3, <2>4, <2>5, <2>6, <2>7, <2>8, <2>9 DEF Local
<1>3. ASSUME NEW h \in Handler, Remote(h) PROVE StoreVerified'
  <2>1. CASE AskUpstream(h)
    BY <2>1 DEF AskUpstream
  <2>2. CASE FollowRedirect(h)
    BY <2>2 DEF FollowRedirect
  <2>3. CASE CopyChunk(h)
    BY <2>3 DEF CopyChunk, AfterError
  <2>4. CASE CopyFails(h)
    BY <2>4 DEF CopyFails, AfterError
  <2>5. CASE CopyEnds(h)
    BY <2>5 DEF CopyEnds
  <2>6. CASE RelayManifest(h)
    BY <2>6 DEF RelayManifest
  <2>7. CASE SendHit(h)
    BY <2>7 DEF SendHit
  <2>8. CASE StatsDone(h)
    BY <2>8 DEF StatsDone
  <2> QED  BY <1>3, <2>1, <2>2, <2>3, <2>4, <2>5, <2>6, <2>7, <2>8 DEF Remote
<1>4. CASE Crash
  BY <1>4 DEF Crash
<1>5. CASE UNCHANGED vars
  BY <1>5 DEF vars, diskVars, statsVars
<1>6. ASSUME NEW h \in Handler, HangsUp(h) PROVE StoreVerified'
  BY <1>6 DEF HangsUp, Gone
<1> QED  BY <1>1, <1>2, <1>3, <1>4, <1>5, <1>6 DEF Next

\* A handler goes only where its request leads.
LEMMA ReqNext == ProxyInv /\ [Next]_vars => ReqInPlace'
<1> SUFFICES ASSUME ProxyInv, [Next]_vars PROVE ReqInPlace'
    OBVIOUS
<1>t. pc \in [Handler -> PC] /\ req \in [Handler -> Note \cup {None}]
    BY DEF ProxyInv, TypeOK
<1> USE <1>t
<1> USE DEF ProxyInv, ReqInPlace, BlobPC, Streaming, Goto
<1>1. ASSUME NEW h \in Handler, Arrive(h) PROVE ReqInPlace'
  <2>1. CASE ServeBlob(h)
    BY <2>1 DEF ServeBlob, Note
  <2>2. CASE ServeManifest(h)
    BY <2>2 DEF ServeManifest, Note
  <2>3. CASE ServeStats(h)
    BY <2>3 DEF ServeStats, DirEntries
  <2> QED  BY <1>1, <2>1, <2>2, <2>3 DEF Arrive
<1>2. ASSUME NEW h \in Handler, Local(h) PROVE ReqInPlace'
  <2>1. CASE RecordRead(h)
    BY <2>1 DEF RecordRead, Lock, AfterNote, Note, BlobNote, TagNote
  <2>2. CASE RecordAppend(h)
    BY <2>2 DEF RecordAppend, Unlock, AfterNote, Note, BlobNote, TagNote
  <2>3. CASE Stat(h)
    BY <2>3 DEF Stat, Cached
  <2>4. CASE Open(h)
    BY <2>4 DEF Open
  <2>5. CASE CreateTemp(h)
    BY <2>5 DEF CreateTemp, Fail
  <2>6. CASE Verify(h)
    BY <2>6 DEF Verify
  <2>7. CASE Commit(h)
    BY <2>7 DEF Commit
  <2>8. CASE RemoveTemp(h)
    BY <2>8 DEF RemoveTemp, Removed
  <2>9. CASE StatsInfo(h)
    BY <2>9 DEF StatsInfo
  <2> QED  BY <1>2, <2>1, <2>2, <2>3, <2>4, <2>5, <2>6, <2>7, <2>8, <2>9 DEF Local
<1>3. ASSUME NEW h \in Handler, Remote(h) PROVE ReqInPlace'
  <2>1. CASE AskUpstream(h)
    BY <2>1 DEF AskUpstream, Fail
  <2>2. CASE FollowRedirect(h)
    BY <2>2 DEF FollowRedirect, Fail
  <2>3. CASE CopyChunk(h)
    BY <2>3 DEF CopyChunk, AfterError
  <2>4. CASE CopyFails(h)
    BY <2>4 DEF CopyFails, AfterError
  <2>5. CASE CopyEnds(h)
    BY <2>5 DEF CopyEnds
  <2>6. CASE RelayManifest(h)
    BY <2>6 DEF RelayManifest
  <2>7. CASE SendHit(h)
    BY <2>7 DEF SendHit
  <2>8. CASE StatsDone(h)
    BY <2>8 DEF StatsDone
  <2> QED  BY <1>3, <2>1, <2>2, <2>3, <2>4, <2>5, <2>6, <2>7, <2>8 DEF Remote
<1>4. CASE Crash
  BY <1>4 DEF Crash
<1>5. CASE UNCHANGED vars
  BY <1>5 DEF vars, diskVars, statsVars
<1>6. ASSUME NEW h \in Handler, HangsUp(h) PROVE ReqInPlace'
  BY <1>6 DEF HangsUp, Gone
<1> QED  BY <1>1, <1>2, <1>3, <1>4, <1>5, <1>6 DEF Next

\* No step touches the temp file of another handler.
LEMMA TempsNext == ProxyInv /\ [Next]_vars => TempsInPlace'
<1> SUFFICES ASSUME ProxyInv, [Next]_vars PROVE TempsInPlace'
    OBVIOUS
<1>t. pc \in [Handler -> PC] /\ tmp \in [Handler -> TempName \cup {None}] /\ temps \in [TempName -> Content \cup {None}] /\ hash \in [Handler -> Content]
    BY DEF ProxyInv, TypeOK
<1> USE <1>t
<1> USE ProxyAssumption DEF ProxyInv, TempsInPlace, Streaming, Goto, diskVars
<1>1. ASSUME NEW h \in Handler, Arrive(h) PROVE TempsInPlace'
  <2>1. CASE ServeBlob(h)
    BY <2>1 DEF ServeBlob
  <2>2. CASE ServeManifest(h)
    BY <2>2 DEF ServeManifest
  <2>3. CASE ServeStats(h)
    BY <2>3 DEF ServeStats, DirEntries
  <2> QED  BY <1>1, <2>1, <2>2, <2>3 DEF Arrive
<1>2. ASSUME NEW h \in Handler, Local(h) PROVE TempsInPlace'
  <2>1. CASE RecordRead(h)
    BY <2>1 DEF RecordRead, Lock, AfterNote
  <2>2. CASE RecordAppend(h)
    BY <2>2 DEF RecordAppend, Unlock, AfterNote
  <2>3. CASE Stat(h)
    BY <2>3 DEF Stat, Cached
  <2>4. CASE Open(h)
    BY <2>4 DEF Open
  <2>5. CASE CreateTemp(h)
    <3>1. tmp[h] = None /\ hash[h] = Empty /\ Empty \in Content
      BY <2>5, Values DEF CreateTemp, Fail
    <3>2. CASE pc'[h] = "stream"
      <4>1. PICK t \in FreshNames : /\ temps' = [temps EXCEPT ![t] = Empty]
                                    /\ tmp' = [tmp EXCEPT ![h] = t]
        BY <2>5, <3>2 DEF CreateTemp, Fail
      <4>2. t \in TempName /\ t # None /\ \A g \in Handler : tmp[g] # t
        BY <4>1 DEF FreshNames
      <4>3. \A g \in Handler \ {h} :
              /\ pc'[g] = pc[g] /\ tmp'[g] = tmp[g] /\ hash'[g] = hash[g]
              /\ tmp[g] \in TempName => temps'[tmp[g]] = temps[tmp[g]]
        BY <2>5, <4>1, <4>2 DEF CreateTemp, Fail
      <4>4. tmp'[h] = t /\ temps'[t] = Empty /\ hash'[h] = Empty /\ pc'[h] = "stream"
        BY <2>5, <3>1, <3>2, <4>1, <4>2 DEF CreateTemp, Fail
      <4> QED  BY <4>2, <4>3, <4>4
    <3>3. CASE pc'[h] # "stream"
      BY <2>5, <3>1, <3>3 DEF CreateTemp, Fail
    <3> QED  BY <3>2, <3>3
  <2>6. CASE Verify(h)
    BY <2>6 DEF Verify, Matches
  <2>7. CASE Commit(h)
    BY <2>7 DEF Commit
  <2>8. CASE RemoveTemp(h)
    BY <2>8 DEF RemoveTemp, Removed
  <2>9. CASE StatsInfo(h)
    BY <2>9 DEF StatsInfo
  <2> QED  BY <1>2, <2>1, <2>2, <2>3, <2>4, <2>5, <2>6, <2>7, <2>8, <2>9 DEF Local
<1>3. ASSUME NEW h \in Handler, Remote(h) PROVE TempsInPlace'
  <2>1. CASE AskUpstream(h)
    BY <2>1 DEF AskUpstream, Fail
  <2>2. CASE FollowRedirect(h)
    BY <2>2 DEF FollowRedirect, Fail
  <2>3. CASE CopyChunk(h)
    BY <2>3 DEF CopyChunk, AfterError
  <2>4. CASE CopyFails(h)
    BY <2>4 DEF CopyFails, AfterError
  <2>5. CASE CopyEnds(h)
    BY <2>5 DEF CopyEnds
  <2>6. CASE RelayManifest(h)
    BY <2>6 DEF RelayManifest
  <2>7. CASE SendHit(h)
    BY <2>7 DEF SendHit
  <2>8. CASE StatsDone(h)
    BY <2>8 DEF StatsDone
  <2> QED  BY <1>3, <2>1, <2>2, <2>3, <2>4, <2>5, <2>6, <2>7, <2>8 DEF Remote
<1>4. CASE Crash
  BY <1>4 DEF Crash
<1>5. CASE UNCHANGED vars
  BY <1>5 DEF vars, diskVars, statsVars
<1>6. ASSUME NEW h \in Handler, HangsUp(h) PROVE TempsInPlace'
  BY <1>6 DEF HangsUp, Gone
<1> QED  BY <1>1, <1>2, <1>3, <1>4, <1>5, <1>6 DEF Next

\* Between Stat, Open and the copy the blob stays what it was.
LEMMA HitsNext == ProxyInv /\ [Next]_vars => HitsInPlace'
<1> SUFFICES ASSUME ProxyInv, [Next]_vars PROVE HitsInPlace'
    OBVIOUS
<1>t. pc \in [Handler -> PC] /\ size \in [Handler -> 0 .. Chunks + 1] /\ file \in [Handler -> Content \cup {None}] /\ reply \in [Handler -> Reply]
    BY DEF ProxyInv, TypeOK
<1> USE <1>t
<1> USE DEF ProxyInv, HitsInPlace, Goto, diskVars, Stored, NoReply, Answer
<1>1. ASSUME NEW h \in Handler, Arrive(h) PROVE HitsInPlace'
  <2>1. CASE ServeBlob(h)
    BY <2>1 DEF ServeBlob, Empty
  <2>2. CASE ServeManifest(h)
    BY <2>2 DEF ServeManifest, Empty
  <2>3. CASE ServeStats(h)
    BY <2>3 DEF ServeStats, DirEntries
  <2> QED  BY <1>1, <2>1, <2>2, <2>3 DEF Arrive
<1>2. ASSUME NEW h \in Handler, Local(h) PROVE HitsInPlace'
  <2>1. CASE RecordRead(h)
    BY <2>1 DEF RecordRead, Lock, AfterNote
  <2>2. CASE RecordAppend(h)
    BY <2>2 DEF RecordAppend, Unlock, AfterNote
  <2>3. CASE Stat(h)
    <3>1. req[h].key \in Digest
      BY <2>3 DEF Stat, Cached, ReqInPlace, BlobPC, BlobNote
    <3>2. blobs[req[h].key] # None => req[h].key \in Stored /\ blobs[req[h].key].len = Chunks
      BY <3>1 DEF StoreVerified, Whole
    <3> QED  BY <2>3, <3>2 DEF Stat, Cached
  <2>4. CASE Open(h)
    <3>1. req[h] \in BlobNote /\ req[h].key \in Digest
      BY <2>4 DEF Open, ReqInPlace, BlobPC, BlobNote
    <3>2. req[h].key \in Stored /\ blobs[req[h].key] = Whole
      BY <2>4, <3>1 DEF Open, StoreVerified
    <3>3. CASE pc'[h] = "hit"
      <4>1. reply' = [reply EXCEPT ![h] = [xcache |-> "HIT", sent |-> reply[h].sent]]
        BY <2>4, <3>3 DEF Open, Reply
      <4>2. reply[h].sent.good
        BY <2>4 DEF Open
      <4>3. file' = [file EXCEPT ![h] = Whole] /\ UNCHANGED <<blobs, size, req>>
        BY <2>4, <3>2, <3>3 DEF Open
      <4> QED  BY <2>4, <3>1, <3>2, <3>3, <4>1, <4>2, <4>3 DEF Open
    <3>4. CASE pc'[h] # "hit"
      BY <2>4, <3>4 DEF Open
    <3> QED  BY <3>3, <3>4
  <2>5. CASE CreateTemp(h)
    <3>1. \A g \in Handler \ {h} : pc'[g] = pc[g] /\ reply'[g] = reply[g]
      BY <2>5 DEF CreateTemp, Fail
    <3>2. reply'[h].xcache # "HIT" /\ pc'[h] \notin {"record", "append", "stat", "open", "hit"}
      <4>1. reply[h] \in Reply /\ reply[h].xcache # "HIT"
        BY <2>5 DEF CreateTemp, Fail
      <4> QED  BY <2>5, <4>1 DEF CreateTemp, Fail, Reply
    <3> QED  BY <2>5, <3>1, <3>2 DEF CreateTemp
  <2>6. CASE Verify(h)
    BY <2>6 DEF Verify
  <2>7. CASE Commit(h)
    <3>1. Stored \subseteq Stored'
      <4>1. temps[tmp[h]] # None
        BY <2>7, ProxyAssumption, Values DEF Commit, TempsInPlace, Streaming
      <4>2. blobs' = blobs \/ blobs' = [blobs EXCEPT ![req[h].key] = temps[tmp[h]]]
        BY <2>7 DEF Commit
      <4> QED  BY <4>1, <4>2 DEF TypeOK
    <3> HIDE DEF Stored
    <3> QED  BY <2>7, <3>1 DEF Commit
  <2>8. CASE RemoveTemp(h)
    BY <2>8 DEF RemoveTemp, Removed
  <2>9. CASE StatsInfo(h)
    BY <2>9 DEF StatsInfo
  <2> QED  BY <1>2, <2>1, <2>2, <2>3, <2>4, <2>5, <2>6, <2>7, <2>8, <2>9 DEF Local
<1>3. ASSUME NEW h \in Handler, Remote(h) PROVE HitsInPlace'
  <2>1. CASE AskUpstream(h)
    <3>1. \A g \in Handler \ {h} : pc'[g] = pc[g] /\ reply'[g] = reply[g]
      BY <2>1 DEF AskUpstream, Fail
    <3>2. reply'[h].xcache # "HIT" /\ pc'[h] \notin {"record", "append", "stat", "open", "hit"}
      <4>1. reply[h] \in Reply /\ reply[h].xcache # "HIT"
        BY <2>1 DEF AskUpstream, Fail
      <4> QED  BY <2>1, <4>1 DEF AskUpstream, Fail, Reply
    <3> QED  BY <2>1, <3>1, <3>2 DEF AskUpstream
  <2>2. CASE FollowRedirect(h)
    <3>1. \A g \in Handler \ {h} : pc'[g] = pc[g] /\ reply'[g] = reply[g]
      BY <2>2 DEF FollowRedirect, Fail
    <3>2. reply'[h].xcache # "HIT" /\ pc'[h] \notin {"record", "append", "stat", "open", "hit"}
      <4>1. reply[h] \in Reply /\ reply[h].xcache # "HIT"
        BY <2>2 DEF FollowRedirect, Fail
      <4> QED  BY <2>2, <4>1 DEF FollowRedirect, Fail, Reply
    <3> QED  BY <2>2, <3>1, <3>2 DEF FollowRedirect
  <2>3. CASE CopyChunk(h)
    BY <2>3 DEF CopyChunk, AfterError
  <2>4. CASE CopyFails(h)
    BY <2>4 DEF CopyFails, AfterError
  <2>5. CASE CopyEnds(h)
    BY <2>5 DEF CopyEnds
  <2>6. CASE RelayManifest(h)
    BY <2>6 DEF RelayManifest
  <2>7. CASE SendHit(h)
    <3>1. file[h].good = TRUE /\ reply \in [Handler -> Reply]
      BY <2>7 DEF SendHit, Whole
    <3>2. \E n \in 0 .. file[h].len :
             reply' = [reply EXCEPT ![h].sent = [len |-> n, good |-> file[h].good]]
      BY <2>7 DEF SendHit
    <3>3. reply'[h].xcache = reply[h].xcache /\ reply'[h].sent.good
      <4> HIDE DEF ProxyInv
      <4> QED  BY <3>1, <3>2 DEF Reply
    <3>4. \A g \in Handler \ {h} : reply'[g] = reply[g]
      BY <3>2
    <3> QED  BY <2>7, <3>3, <3>4 DEF SendHit
  <2>8. CASE StatsDone(h)
    BY <2>8 DEF StatsDone
  <2> QED  BY <1>3, <2>1, <2>2, <2>3, <2>4, <2>5, <2>6, <2>7, <2>8 DEF Remote
<1>4. CASE Crash
  BY <1>4 DEF Crash
<1>5. CASE UNCHANGED vars
  BY <1>5 DEF vars, diskVars, statsVars
<1>6. ASSUME NEW h \in Handler, HangsUp(h) PROVE HitsInPlace'
  BY <1>6 DEF HangsUp, Gone
<1> QED  BY <1>1, <1>2, <1>3, <1>4, <1>5, <1>6 DEF Next

\* The lock keeps what its holder has read true.
LEMMA LockNext == ProxyInv /\ [Next]_vars => LockInPlace'
<1> SUFFICES ASSUME ProxyInv, [Next]_vars PROVE LockInPlace'
    OBVIOUS
<1>t. pc \in [Handler -> PC]
    BY DEF ProxyInv, TypeOK
<1> USE <1>t
<1> USE ProxyAssumption DEF ProxyInv, LockInPlace, Goto, diskVars
<1>1. ASSUME NEW h \in Handler, Arrive(h) PROVE LockInPlace'
  <2>1. CASE ServeBlob(h)
    BY <2>1 DEF ServeBlob
  <2>2. CASE ServeManifest(h)
    BY <2>2 DEF ServeManifest
  <2>3. CASE ServeStats(h)
    BY <2>3 DEF ServeStats, DirEntries
  <2> QED  BY <1>1, <2>1, <2>2, <2>3 DEF Arrive
<1>2. ASSUME NEW h \in Handler, Local(h) PROVE LockInPlace'
  <2>1. CASE RecordRead(h)
    BY <2>1 DEF RecordRead, Lock, AfterNote
  <2>2. CASE RecordAppend(h)
    BY <2>2 DEF RecordAppend, Unlock, AfterNote
  <2>3. CASE Stat(h)
    BY <2>3 DEF Stat, Cached
  <2>4. CASE Open(h)
    BY <2>4 DEF Open
  <2>5. CASE CreateTemp(h)
    BY <2>5 DEF CreateTemp, Fail
  <2>6. CASE Verify(h)
    BY <2>6 DEF Verify
  <2>7. CASE Commit(h)
    BY <2>7 DEF Commit
  <2>8. CASE RemoveTemp(h)
    BY <2>8 DEF RemoveTemp, Removed
  <2>9. CASE StatsInfo(h)
    BY <2>9 DEF StatsInfo
  <2> QED  BY <1>2, <2>1, <2>2, <2>3, <2>4, <2>5, <2>6, <2>7, <2>8, <2>9 DEF Local
<1>3. ASSUME NEW h \in Handler, Remote(h) PROVE LockInPlace'
  <2>1. CASE AskUpstream(h)
    BY <2>1 DEF AskUpstream, Fail
  <2>2. CASE FollowRedirect(h)
    BY <2>2 DEF FollowRedirect, Fail
  <2>3. CASE CopyChunk(h)
    BY <2>3 DEF CopyChunk, AfterError
  <2>4. CASE CopyFails(h)
    BY <2>4 DEF CopyFails, AfterError
  <2>5. CASE CopyEnds(h)
    BY <2>5 DEF CopyEnds
  <2>6. CASE RelayManifest(h)
    BY <2>6 DEF RelayManifest
  <2>7. CASE SendHit(h)
    BY <2>7 DEF SendHit
  <2>8. CASE StatsDone(h)
    BY <2>8 DEF StatsDone
  <2> QED  BY <1>3, <2>1, <2>2, <2>3, <2>4, <2>5, <2>6, <2>7, <2>8 DEF Remote
<1>4. CASE Crash
  BY <1>4, ProxyAssumption DEF Crash
<1>5. CASE UNCHANGED vars
  BY <1>5 DEF vars, diskVars, statsVars
<1>6. ASSUME NEW h \in Handler, HangsUp(h) PROVE LockInPlace'
  BY <1>6 DEF HangsUp, Gone
<1> QED  BY <1>1, <1>2, <1>3, <1>4, <1>5, <1>6 DEF Next

\* Only the holder of the lock appends, a line that is not there.
LEMMA DedupNext == ProxyInv /\ [Next]_vars => SidecarDeduped'
<1> SUFFICES ASSUME ProxyInv, [Next]_vars PROVE SidecarDeduped'
    OBVIOUS
<1> USE DEF ProxyInv, SidecarDeduped, diskVars
<1>1. ASSUME NEW h \in Handler, Arrive(h) PROVE SidecarDeduped'
  <2>1. CASE ServeBlob(h)
    BY <2>1 DEF ServeBlob
  <2>2. CASE ServeManifest(h)
    BY <2>2 DEF ServeManifest
  <2>3. CASE ServeStats(h)
    BY <2>3 DEF ServeStats, DirEntries
  <2> QED  BY <1>1, <2>1, <2>2, <2>3 DEF Arrive
<1>2. ASSUME NEW h \in Handler, Local(h) PROVE SidecarDeduped'
  <2>1. CASE RecordRead(h)
    BY <2>1 DEF RecordRead, Lock
  <2>2. CASE RecordAppend(h)
    <3> DEFINE f == File(req[h])
    <3>1. f \in Sidecar /\ sidecar[f] \in Seq(Repo \cup Ref) /\ req[h].line \in Repo \cup Ref
      BY <2>2 DEF RecordAppend, Unlock, Goto, TypeOK, ReqInPlace, Note, BlobNote, TagNote, File, Sidecar
    <3>2. req[h].line \notin Lines(sidecar[f])
      BY <2>2 DEF RecordAppend, Unlock, Goto, LockInPlace
    <3>3. \/ sidecar' = sidecar
          \/ sidecar' = [sidecar EXCEPT ![f] = Append(sidecar[f], req[h].line)]
      BY <2>2 DEF RecordAppend, Unlock
    <3>4. \A i, j \in DOMAIN Append(sidecar[f], req[h].line) :
            Append(sidecar[f], req[h].line)[i] = Append(sidecar[f], req[h].line)[j] => i = j
      BY <3>1, <3>2 DEF Lines
    <3> HIDE DEF f
    <3> QED  BY <3>1, <3>3, <3>4 DEF TypeOK
  <2>3. CASE Stat(h)
    BY <2>3 DEF Stat, Cached
  <2>4. CASE Open(h)
    BY <2>4 DEF Open
  <2>5. CASE CreateTemp(h)
    BY <2>5 DEF CreateTemp
  <2>6. CASE Verify(h)
    BY <2>6 DEF Verify
  <2>7. CASE Commit(h)
    BY <2>7 DEF Commit
  <2>8. CASE RemoveTemp(h)
    BY <2>8 DEF RemoveTemp, Removed
  <2>9. CASE StatsInfo(h)
    BY <2>9 DEF StatsInfo
  <2> QED  BY <1>2, <2>1, <2>2, <2>3, <2>4, <2>5, <2>6, <2>7, <2>8, <2>9 DEF Local
<1>3. ASSUME NEW h \in Handler, Remote(h) PROVE SidecarDeduped'
  <2>1. CASE AskUpstream(h)
    BY <2>1 DEF AskUpstream
  <2>2. CASE FollowRedirect(h)
    BY <2>2 DEF FollowRedirect
  <2>3. CASE CopyChunk(h)
    BY <2>3 DEF CopyChunk, AfterError
  <2>4. CASE CopyFails(h)
    BY <2>4 DEF CopyFails, AfterError
  <2>5. CASE CopyEnds(h)
    BY <2>5 DEF CopyEnds
  <2>6. CASE RelayManifest(h)
    BY <2>6 DEF RelayManifest
  <2>7. CASE SendHit(h)
    BY <2>7 DEF SendHit
  <2>8. CASE StatsDone(h)
    BY <2>8 DEF StatsDone
  <2> QED  BY <1>3, <2>1, <2>2, <2>3, <2>4, <2>5, <2>6, <2>7, <2>8 DEF Remote
<1>4. CASE Crash
  BY <1>4 DEF Crash
<1>5. CASE UNCHANGED vars
  BY <1>5 DEF vars, diskVars, statsVars
<1>6. ASSUME NEW h \in Handler, HangsUp(h) PROVE SidecarDeduped'
  BY <1>6 DEF HangsUp, Gone
<1> QED  BY <1>1, <1>2, <1>3, <1>4, <1>5, <1>6 DEF Next

\* The inductive invariant holds at the start.
LEMMA ProxyInit == Init => ProxyInv
<1> SUFFICES ASSUME Init PROVE ProxyInv
    OBVIOUS
<1> USE DEF Init
<1>1. TypeOK
  <2>1. << >> \in Seq(Repo \cup Ref) /\ 0 \in 0 .. MaxCrashes
    BY ProxyAssumption
  <2> QED  BY <2>1, Values DEF TypeOK, PC
<1>2. StoreVerified /\ ReqInPlace
  BY DEF StoreVerified, Stored, ReqInPlace, BlobPC, Streaming
<1>3. TempsInPlace /\ LockInPlace
  BY ProxyAssumption DEF TempsInPlace, LockInPlace, Streaming
<1>4. HitsInPlace
  BY DEF HitsInPlace, NoReply, Empty
<1>5. SidecarDeduped
  BY DEF SidecarDeduped
<1> QED  BY <1>1, <1>2, <1>3, <1>4, <1>5 DEF ProxyInv

\* The proxy is in place between any two steps, for any number of handlers,
\* digests and repositories, bodies of any length and any mix of faults.
THEOREM ProxyInvariant == Spec => []ProxyInv
<1>1. ProxyInv /\ [Next]_vars => ProxyInv'
  <2> SUFFICES ASSUME ProxyInv, [Next]_vars PROVE ProxyInv'
      OBVIOUS
  <2>1. TypeOK' /\ StoreVerified' /\ ReqInPlace'
    BY TypeNext, StoreNext, ReqNext
  <2>2. TempsInPlace' /\ HitsInPlace' /\ LockInPlace' /\ SidecarDeduped'
    BY TempsNext, HitsNext, LockNext, DedupNext
  <2> QED  BY <2>1, <2>2 DEF ProxyInv
<1> QED  BY ProxyInit, <1>1, PTL DEF Spec

\* The state keeps its types.
THEOREM TypeCorrect == Spec => []TypeOK
<1>1. ProxyInv => TypeOK
  BY DEF ProxyInv
<1> QED  BY <1>1, ProxyInvariant, PTL

\* No stream that broke, was wrong or was abandoned, and no death of the
\* process, leaves anything under a digest's name but that blob.
THEOREM StoreIsVerified == Spec => []StoreVerified
<1>1. ProxyInv => StoreVerified
  BY DEF ProxyInv
<1> QED  BY <1>1, ProxyInvariant, PTL

\* A HIT advertises and serves the whole blob and nothing else.
THEOREM HitsAreWhole == Spec => []HitWhole
<1>1. ProxyInv => HitWhole
  BY DEF ProxyInv, HitsInPlace, HitWhole
<1> QED  BY <1>1, ProxyInvariant, PTL

\* No sidecar file ever has a line twice.
THEOREM SidecarsDeduped == Spec => []SidecarDeduped
<1>1. ProxyInv => SidecarDeduped
  BY DEF ProxyInv
<1> QED  BY <1>1, ProxyInvariant, PTL

\* Nothing but a commit touches the store, and it adds the verified blob.
LEMMA BlobsStep ==
    ASSUME ProxyInv, [Next]_vars
    PROVE  blobs' = blobs \/ \E h \in Handler : /\ Commit(h) /\ req[h].key \in Digest
                                              /\ blobs' = [blobs EXCEPT ![req[h].key] = Whole]
<1>1. ASSUME NEW h \in Handler, Arrive(h) PROVE blobs' = blobs
  BY <1>1 DEF Arrive, ServeBlob, ServeManifest, ServeStats, DirEntries, diskVars
<1>2. ASSUME NEW h \in Handler, Remote(h) PROVE blobs' = blobs
  BY <1>2 DEF Remote, AskUpstream, FollowRedirect, CopyChunk, CopyFails, AfterError, CopyEnds,
       RelayManifest, SendHit, StatsDone, diskVars
<1>3. ASSUME NEW h \in Handler, Commit(h)
      PROVE  /\ req[h].key \in Digest
             /\ blobs' = blobs \/ blobs' = [blobs EXCEPT ![req[h].key] = Whole]
  <2>1. req[h].key \in Digest
    BY <1>3 DEF Commit, Goto, ProxyInv, ReqInPlace, BlobPC, Streaming, BlobNote
  <2>2. temps[tmp[h]] = Whole
    BY <1>3 DEF Commit, Goto, ProxyInv, TempsInPlace
  <2> QED  BY <1>3, <2>1, <2>2 DEF Commit
<1>4. ASSUME NEW h \in Handler, Local(h), ~Commit(h) PROVE blobs' = blobs
  BY <1>4 DEF Local, RecordRead, Lock, RecordAppend, Unlock, Stat, Cached, Open, CreateTemp,
       Verify, RemoveTemp, Removed, StatsInfo, diskVars
<1>5. Crash \/ UNCHANGED vars \/ (\E h \in Handler : HangsUp(h)) => blobs' = blobs
  BY DEF Crash, HangsUp, vars, diskVars
<1> QED  BY <1>1, <1>2, <1>3, <1>4, <1>5 DEF Next

\* A cached blob is never removed and never replaced by other bytes.
THEOREM BlobsStay == Spec => BlobsAreForever
<1>1. ProxyInv /\ [Next]_vars => [\A d \in Stored : blobs'[d] = blobs[d]]_vars
  <2> SUFFICES ASSUME ProxyInv, [Next]_vars PROVE \A d \in Stored : blobs'[d] = blobs[d]
      OBVIOUS
  <2>1. \A d \in Stored : blobs[d] = Whole
    BY DEF ProxyInv, StoreVerified
  <2>2. blobs \in [Digest -> Content \cup {None}]
    BY DEF ProxyInv, TypeOK
  <2> QED  BY <2>1, <2>2, BlobsStep DEF Stored
<1> QED  BY <1>1, ProxyInvariant, PTL DEF Spec, BlobsAreForever

-----------------------------------------------------------------------------
(* The proxy implements BlobStore. *)

\* What a request shows of itself in BlobStore.
Same(g) == AskedOf(g)' = AskedOf(g) /\ HitOf(g)' = HitOf(g)
SameBut(h) == \A g \in Handler \ {h} : Same(g)

\* Steps that BlobStore does not see.
LEMMA Stutter ==
    ASSUME blobs' = blobs, \A g \in Handler : Same(g)
    PROVE  UNCHANGED Store!vars
  BY DEF Same, Store!vars

\* Steps that arrive, that finish, and that turn into a HIT.
LEMMA AskStep ==
    ASSUME NEW h \in Handler, SameBut(h), blobs' = blobs, AskedOf(h) = None,
           AskedOf(h)' \in Digest \cup {None}, HitOf(h)' = "no"
    PROVE  Store!Next
<1>1. Store!Ask(h, AskedOf(h)')
  BY DEF SameBut, Same, Store!Ask
<1> QED  BY <1>1 DEF Store!Next

LEMMA DoneStep ==
    ASSUME NEW h \in Handler, SameBut(h), blobs' = blobs, AskedOf(h) # None,
           AskedOf(h)' = None, HitOf(h)' = HitOf(h)
    PROVE  Store!Next
<1>1. Store!Done(h)
  BY DEF SameBut, Same, Store!Done
<1> QED  BY <1>1 DEF Store!Next

LEMMA HitStep ==
    ASSUME NEW h \in Handler, SameBut(h), blobs' = blobs, AskedOf(h) # None,
           AskedOf(h) \in Digest, StoreOf(blobs[AskedOf(h)]) = "whole",
           AskedOf(h)' = AskedOf(h), HitOf(h)' = "yes"
    PROVE  Store!Next
<1>1. Store!Hit(h)
  BY DEF SameBut, Same, Store!Hit
<1> QED  BY <1>1 DEF Store!Next

LEMMA FillStep ==
    ASSUME blobs \in [Digest -> Content \cup {None}], NEW h \in Handler, \A g \in Handler : Same(g),
           AskedOf(h) \in Digest, AskedOf(h) # None,
           blobs' = [blobs EXCEPT ![AskedOf(h)] = Whole]
    PROVE  Store!Next
<1>1. \A d \in Digest : StoreOf(blobs[d])' = IF d = AskedOf(h) THEN "whole" ELSE StoreOf(blobs[d])
  BY Values, ProxyAssumption DEF StoreOf
<1>2. Store!Fill(h)
  BY <1>1 DEF Same, Store!Fill
<1> QED  BY <1>2 DEF Store!Next

\* A handler's request shows only its own slot.
LEMMA OthersSame ==
    ASSUME pc \in [Handler -> PC], req \in [Handler -> Note \cup {None}], reply \in [Handler -> Reply],
           NEW h \in Handler,
           \A g \in Handler \ {h} : pc'[g] = pc[g] /\ req'[g] = req[g] /\ reply'[g] = reply[g]
    PROVE  SameBut(h)
  BY DEF SameBut, Same, AskedOf, HitOf

\* Every step is one of BlobStore or is not seen by it.
LEMMA StoreStep == ASSUME ProxyInv, [Next]_vars PROVE Store!Next \/ UNCHANGED Store!vars
<1>t. /\ pc \in [Handler -> PC] /\ req \in [Handler -> Note \cup {None}] /\ reply \in [Handler -> Reply]
      /\ blobs \in [Digest -> Content \cup {None}]
    BY DEF ProxyInv, TypeOK
<1> USE <1>t, ProxyAssumption DEF Goto, diskVars
<1>a. ASSUME NEW h \in Handler, Arrive(h) PROVE Store!Next
  <2>1. SameBut(h) /\ blobs' = blobs /\ AskedOf(h) = None
    <3>1. \A g \in Handler \ {h} : pc'[g] = pc[g] /\ req'[g] = req[g] /\ reply'[g] = reply[g]
      BY <1>a DEF Arrive, ServeBlob, ServeManifest, ServeStats, DirEntries
    <3> QED  BY <1>a, <3>1, OthersSame DEF Arrive, ServeBlob, ServeManifest, ServeStats, DirEntries, AskedOf
  <2>2. HitOf(h)' = "no"
    BY <1>a DEF Arrive, ServeBlob, ServeManifest, ServeStats, DirEntries, HitOf, NoReply
  <2>3. AskedOf(h)' \in Digest \cup {None}
    BY <1>a DEF Arrive, ServeBlob, ServeManifest, ServeStats, DirEntries, AskedOf, BlobNote, TagNote
  <2> QED  BY <2>1, <2>2, <2>3, AskStep
<1>b. ASSUME NEW h \in Handler, Local(h) \/ Remote(h) \/ HangsUp(h) PROVE SameBut(h)
  <2>1. \A g \in Handler \ {h} : pc'[g] = pc[g] /\ req'[g] = req[g] /\ reply'[g] = reply[g]
    <3>1. CASE RecordRead(h) \/ RecordAppend(h) \/ Stat(h) \/ Open(h)
      BY <3>1 DEF RecordRead, Lock, RecordAppend, Unlock, Stat, Cached, Open, Answer
    <3>2. CASE CreateTemp(h) \/ Verify(h) \/ Commit(h) \/ RemoveTemp(h) \/ StatsInfo(h)
      BY <3>2 DEF CreateTemp, Verify, Commit, RemoveTemp, Removed, StatsInfo, Answer, Fail
    <3>3. CASE AskUpstream(h) \/ FollowRedirect(h) \/ CopyChunk(h) \/ CopyFails(h) \/ CopyEnds(h)
      BY <3>3 DEF AskUpstream, FollowRedirect, CopyChunk, CopyFails, AfterError, CopyEnds, Answer, Fail
    <3>4. CASE RelayManifest(h) \/ SendHit(h) \/ StatsDone(h)
      BY <3>4 DEF RelayManifest, SendHit, StatsDone, Answer
    <3>5. CASE HangsUp(h)
      BY <3>5 DEF HangsUp
    <3> QED  BY <1>b, <3>1, <3>2, <3>3, <3>4, <3>5 DEF Local, Remote
  <2> QED  BY <2>1, OthersSame
<1>c. ASSUME NEW h \in Handler, pc[h] \in BlobPC
      PROVE  AskedOf(h) = req[h].key /\ AskedOf(h) \in Digest /\ AskedOf(h) # None
  BY <1>c DEF ProxyInv, ReqInPlace, BlobPC, Streaming, AskedOf, BlobNote
<1>d. ASSUME NEW h \in Handler, SameBut(h), blobs' = blobs, Same(h) PROVE UNCHANGED Store!vars
  BY <1>d, Stutter DEF SameBut
<1>r. ASSUME NEW h \in Handler, RecordRead(h) \/ RecordAppend(h) PROVE UNCHANGED Store!vars
  <2>1. blobs' = blobs /\ SameBut(h)
    BY <1>r, <1>b DEF Local, RecordRead, Lock, RecordAppend, Unlock
  <2>2. Same(h)
    BY <1>r DEF RecordRead, Lock, RecordAppend, Unlock, AfterNote, Same, AskedOf, HitOf
  <2> QED  BY <2>1, <2>2, <1>d
<1>m. ASSUME NEW h \in Handler, RelayManifest(h) PROVE UNCHANGED Store!vars
  <2>1. blobs' = blobs /\ SameBut(h)
    BY <1>m, <1>b DEF Remote, RelayManifest
  <2>2. Same(h)
    <3>1. req[h].dir = "tags" /\ reply[h].xcache # "HIT"
      BY <1>m DEF RelayManifest, ProxyInv, ReqInPlace, HitsInPlace, TagNote
    <3> QED  BY <1>m, <3>1 DEF RelayManifest, Answer, Reply, Same, AskedOf, HitOf
  <2> QED  BY <2>1, <2>2, <1>d
<1>s. ASSUME NEW h \in Handler, Stat(h) \/ Verify(h) \/ StatsInfo(h) \/ StatsDone(h) \/ CopyFails(h) \/ CopyEnds(h)
      PROVE UNCHANGED Store!vars
  <2>1. blobs' = blobs /\ SameBut(h)
    BY <1>s, <1>b DEF Local, Remote, Stat, Cached, Verify, StatsInfo, StatsDone, CopyFails, AfterError, CopyEnds
  <2>2. Same(h)
    BY <1>s DEF Stat, Cached, Verify, StatsInfo, StatsDone, CopyFails, AfterError, CopyEnds, Same, AskedOf, HitOf
  <2> QED  BY <2>1, <2>2, <1>d
<1>o. ASSUME NEW h \in Handler, Open(h) PROVE Store!Next \/ UNCHANGED Store!vars
  <2>1. blobs' = blobs /\ SameBut(h) /\ pc[h] = "open"
    BY <1>o, <1>b DEF Local, Open
  <2>2. AskedOf(h)' = AskedOf(h)
    BY <1>o DEF Open, AskedOf
  <2>3. CASE pc'[h] = "hit"
    <3>1. reply'[h].xcache = "HIT" /\ reply'[h].sent.good
      BY <1>o, <2>1, <2>3 DEF Open, Answer, Reply, ProxyInv, HitsInPlace
    <3>2. AskedOf(h) \in Digest /\ AskedOf(h) # None /\ blobs[AskedOf(h)] = Whole
      BY <1>c, <2>1 DEF BlobPC, ProxyInv, HitsInPlace, StoreVerified
    <3>3. HitOf(h)' = "yes"
      BY <3>1 DEF HitOf
    <3>4. StoreOf(blobs[AskedOf(h)]) = "whole"
      BY <3>2, Values DEF StoreOf
    <3> QED  BY <2>1, <2>2, <3>2, <3>3, <3>4, HitStep
  <2>4. CASE pc'[h] # "hit"
    <3>1. Same(h)
      BY <1>o, <2>2, <2>4 DEF Open, Same, HitOf
    <3> QED  BY <2>1, <3>1, <1>d
  <2> QED  BY <2>3, <2>4
<1>h. ASSUME NEW h \in Handler, SendHit(h) PROVE Store!Next
  <2>1. blobs' = blobs /\ SameBut(h) /\ pc[h] = "hit"
    BY <1>h, <1>b DEF Remote, SendHit
  <2>2. AskedOf(h) # None /\ AskedOf(h)' = None
    BY <1>h, <1>c, <2>1 DEF SendHit, BlobPC, AskedOf
  <2>3. HitOf(h)' = HitOf(h)
    <3>1. file[h].good = TRUE
      BY <2>1 DEF ProxyInv, HitsInPlace, Whole
    <3>2. PICK n \in 0 .. file[h].len :
             reply' = [reply EXCEPT ![h].sent = [len |-> n, good |-> file[h].good]]
      BY <1>h DEF SendHit
    <3>3. reply'[h].xcache = reply[h].xcache /\ reply'[h].sent.good
      BY <3>1, <3>2 DEF Reply
    <3>4. reply[h].xcache = "HIT" => reply[h].sent.good
      BY DEF ProxyInv, HitsInPlace
    <3> QED  BY <3>3, <3>4 DEF HitOf
  <2> QED  BY <2>1, <2>2, <2>3, DoneStep
<1>n. ASSUME NEW h \in Handler, CreateTemp(h) \/ AskUpstream(h) \/ FollowRedirect(h)
      PROVE  Store!Next \/ UNCHANGED Store!vars
  <2>1. blobs' = blobs /\ SameBut(h) /\ pc[h] \in {"ask", "follow", "temp"}
    BY <1>n, <1>b DEF Local, Remote, CreateTemp, AskUpstream, FollowRedirect, Fail
  <2>2. HitOf(h) = "no" /\ HitOf(h)' = "no"
    <3>1. reply[h].xcache # "HIT" /\ reply[h] \in Reply
      BY <2>1 DEF ProxyInv, HitsInPlace
    <3>2. reply'[h].xcache # "HIT"
      BY <1>n, <3>1 DEF CreateTemp, AskUpstream, FollowRedirect, Fail, Answer, Reply
    <3> QED  BY <3>1, <3>2 DEF HitOf
  <2>3. CASE pc'[h] = "idle"
    <3>1. AskedOf(h) # None /\ AskedOf(h)' = None
      BY <1>c, <2>1, <2>3 DEF BlobPC, AskedOf
    <3> QED  BY <2>1, <2>2, <3>1, DoneStep
  <2>4. CASE pc'[h] # "idle"
    <3>1. AskedOf(h)' = AskedOf(h)
      BY <1>n, <2>4 DEF CreateTemp, AskUpstream, FollowRedirect, Fail, AskedOf
    <3> QED  BY <2>1, <2>2, <3>1, <1>d DEF Same
  <2> QED  BY <2>3, <2>4
<1>y. ASSUME NEW h \in Handler, CopyChunk(h) PROVE UNCHANGED Store!vars
  <2>1. blobs' = blobs /\ SameBut(h) /\ pc[h] = "stream"
    BY <1>y, <1>b DEF Remote, CopyChunk, AfterError
  <2>2. reply[h].xcache # "HIT"
    BY <2>1 DEF ProxyInv, HitsInPlace
  <2>3. reply'[h].xcache = reply[h].xcache
    <3>1. reply' = reply \/ \E c : reply' = [reply EXCEPT ![h].sent = c]
      BY <1>y DEF CopyChunk, AfterError
    <3> QED  BY <3>1 DEF Reply
  <2>4. Same(h)
    BY <1>y, <2>1, <2>2, <2>3 DEF CopyChunk, AfterError, Same, AskedOf, HitOf
  <2> QED  BY <2>1, <2>4, <1>d
<1>g. ASSUME NEW h \in Handler, HangsUp(h) PROVE UNCHANGED Store!vars
  <2>1. blobs' = blobs /\ SameBut(h)
    BY <1>g, <1>b DEF HangsUp
  <2>2. Same(h)
    BY <1>g DEF HangsUp, Gone, Same, AskedOf, HitOf
  <2> QED  BY <2>1, <2>2, <1>d
<1>z. ASSUME NEW h \in Handler, Commit(h) PROVE Store!Next \/ UNCHANGED Store!vars
  <2>1. SameBut(h) /\ pc[h] = "commit"
    BY <1>z, <1>b DEF Local, Commit
  <2>2. Same(h)
    BY <1>z DEF Commit, Same, AskedOf, HitOf
  <2>3. AskedOf(h) = req[h].key /\ AskedOf(h) \in Digest /\ AskedOf(h) # None
    BY <1>c, <2>1 DEF BlobPC, Streaming
  <2>4. blobs' = blobs \/ blobs' = [blobs EXCEPT ![AskedOf(h)] = Whole]
    BY <1>z, <2>1, <2>3 DEF Commit, ProxyInv, TempsInPlace
  <2> QED  BY <2>1, <2>2, <2>3, <2>4, <1>d, FillStep DEF SameBut
<1>e. ASSUME NEW h \in Handler, RemoveTemp(h) PROVE Store!Next
  <2>1. blobs' = blobs /\ SameBut(h) /\ pc[h] = "cleanup"
    BY <1>e, <1>b DEF Local, RemoveTemp, Removed
  <2>2. AskedOf(h) # None /\ AskedOf(h)' = None /\ HitOf(h)' = HitOf(h)
    BY <1>e, <1>c, <2>1 DEF RemoveTemp, Removed, BlobPC, Streaming, AskedOf, HitOf
  <2> QED  BY <2>1, <2>2, DoneStep
<1>k. CASE Crash
  <2>1. Store!Restart
    BY <1>k DEF Crash, Store!Restart, AskedOf, HitOf, NoReply
  <2> QED  BY <2>1 DEF Store!Next
<1>u. CASE UNCHANGED vars
  <2>1. blobs' = blobs /\ \A g \in Handler : Same(g)
    BY <1>u DEF vars, Same, AskedOf, HitOf
  <2> QED  BY <2>1, Stutter
<1> QED
  BY <1>a, <1>r, <1>m, <1>s, <1>o, <1>h, <1>n, <1>y, <1>g, <1>z, <1>e, <1>k, <1>u DEF Next, Local, Remote

\* Whatever the handlers, the network, the disk and crashes do, the clients see
\* the cache that BlobStore promises.
THEOREM ProxyImplementsStore == Spec => ImplementsStore
<1>1. Init => Store!Init
  BY DEF Init, Store!Init, StoreOf, AskedOf, HitOf, NoReply
<1>2. ProxyInv /\ [Next]_vars => [Store!Next]_(Store!vars)
  BY StoreStep
<1> QED  BY <1>1, <1>2, ProxyInvariant, PTL DEF Spec, ImplementsStore, Store!Spec
=============================================================================
