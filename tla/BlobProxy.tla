------------------------------ MODULE BlobProxy ------------------------------
(***************************************************************************)
(* The blob-caching reverse proxy of internal/blobcache/blobcache.go.      *)
(*                                                                         *)
(* Each request runs in a goroutine of its own (a Handler here); what they *)
(* share is the cache directory and one mutex.  A step of this module is   *)
(* one system call, one lock or one exchange with the network, because     *)
(* that is where the goroutines interleave and where the process can die.  *)
(*                                                                         *)
(* A blob's bytes are a Content: how many chunks of it there are and       *)
(* whether they are the first chunks of the blob the digest names.  Its    *)
(* sha256 is the digest exactly when the content is Whole.                 *)
(***************************************************************************)
EXTENDS Naturals, Sequences, FiniteSets

CONSTANTS
    Handler,     \* request slots: at most so many requests at a time
    Digest,      \* blob digests clients ask for
    Repo,        \* repository names in request paths
    Ref,         \* manifest references: tags and digests
    TempName,    \* names os.CreateTemp can pick
    Chunks,      \* how many reads of an upstream body make a blob
    Kinds,       \* which requests arrive: "blob", "manifest", "stats"
    Faults,      \* what can go wrong: "upstream", "client", "disk", "crash"
    MaxCrashes,  \* bound on how often the process dies
    None         \* no handler, no file name, no file

Content == [len : 0 .. Chunks + 1, good : BOOLEAN]
Empty   == [len |-> 0, good |-> TRUE]
Whole   == [len |-> Chunks, good |-> TRUE]

ASSUME ProxyAssumption ==
    /\ Chunks \in Nat \ {0}
    /\ MaxCrashes \in Nat
    /\ None \notin Handler \cup Digest \cup TempName \cup Content
    /\ Digest \cap TempName = {}   \* hex digests against names that start with "dl-"

\* What a request asks to be noted: a line of the sidecar file dir/key.
BlobNote == [dir : {"repos"}, key : Digest, line : Repo]
TagNote  == [dir : {"tags"}, key : Repo, line : Ref]
Note     == BlobNote \cup TagNote
Sidecar  == ({"repos"} \X Digest) \cup ({"tags"} \X Repo)
\* (Variant: recordRepo writes where the tags are.)
FileOfTags(n) == <<"tags", IF n.dir = "tags" THEN n.key ELSE n.line>>
File(n) == <<n.dir, n.key>>

Entry == [digest : Digest \cup TempName, size : 0 .. Chunks + 1, repos : SUBSET (Repo \cup Ref)]

\* Requests are served a few at a time; only the count of leftovers needs it.
ASSUME FiniteHandlers == IsFiniteSet(Handler)

VARIABLES
    blobs,    \* blobs/<digest>: committed content, or None
    temps,    \* blobs/dl-*: content of downloads under way or left behind, or None
    sidecar,  \* repos/<digest> and tags/<repo>: the lines of each file
    mu,       \* who holds Proxy.mu, or None
    pc,       \* where each handler is
    req,      \* what it noted: the digest and repo, or repo and reference
    size,     \* what Stat said, which becomes the Content-Length
    file,     \* the content of the file it opened for a HIT
    tmp,      \* the name of its temp file, or None
    hash,     \* what its sha256 state has absorbed
    reply,    \* the X-Cache verdict and the body written to the client so far: it
              \* gets all of it unless it hangs up
    todo,     \* directory entries a stats request has yet to look at
    listed,   \* the BlobInfo entries it has produced
    crashes

diskVars  == <<blobs, temps, sidecar>>
statsVars == <<todo, listed>>
vars == <<diskVars, mu, pc, req, size, file, tmp, hash, reply, statsVars, crashes>>

PC == {"idle", "record", "append", "stat", "open", "hit", "ask", "follow", "temp",
       "stream", "verify", "commit", "cleanup", "relay", "info"}
Verdict == {"none", "HIT", "MISS", "gone", "error", "relayed"}
Reply   == [xcache : Verdict, sent : Content]
NoReply == [xcache |-> "none", sent |-> Empty]
Gone    == [xcache |-> "gone", sent |-> Empty]

\* The keys of the state are in place and every value is of its kind.
TypeOK ==
    /\ blobs \in [Digest -> Content \cup {None}]
    /\ temps \in [TempName -> Content \cup {None}]
    /\ sidecar \in [Sidecar -> Seq(Repo \cup Ref)]
    /\ mu \in Handler \cup {None}
    /\ pc \in [Handler -> PC]
    /\ req \in [Handler -> Note \cup {None}]
    /\ size \in [Handler -> 0 .. Chunks + 1]
    /\ file \in [Handler -> Content \cup {None}]
    /\ tmp \in [Handler -> TempName \cup {None}]
    /\ hash \in [Handler -> Content]
    /\ reply \in [Handler -> Reply]
    /\ todo \in [Handler -> SUBSET (Digest \cup TempName)]
    /\ listed \in [Handler -> SUBSET Entry]
    /\ crashes \in 0 .. MaxCrashes

Init ==
    /\ blobs = [d \in Digest |-> None]
    /\ temps = [t \in TempName |-> None]
    /\ sidecar = [f \in Sidecar |-> <<>>]
    /\ mu = None
    /\ pc = [h \in Handler |-> "idle"]
    /\ req = [h \in Handler |-> None]
    /\ size = [h \in Handler |-> 0]
    /\ file = [h \in Handler |-> None]
    /\ tmp = [h \in Handler |-> None]
    /\ hash = [h \in Handler |-> Empty]
    /\ reply = [h \in Handler |-> NoReply]
    /\ todo = [h \in Handler |-> {}]
    /\ listed = [h \in Handler |-> {}]
    /\ crashes = 0

-----------------------------------------------------------------------------
(* Helpers *)

Lines(s) == {s[i] : i \in DOMAIN s}
Stored   == {d \in Digest : blobs[d] # None}
Goto(h, from, to) == pc[h] = from /\ pc' = [pc EXCEPT ![h] = to]

\* (Variants: only the length is compared; the hex sum is compared with the
\* digest's "sha256:" still on it.)
MatchesLength(c) == c.len = Chunks
MatchesNothing(c) == FALSE

\* The sha256 of the content is the digest that was asked for.
Matches(c) == c = Whole

\* (Variant: a chunk is counted twice.)
GrowTwice(c, right) == [len |-> c.len + 2, good |-> c.good /\ right]

\* One more chunk, the right next one or not.
Grow(c, right) == [len |-> c.len + 1, good |-> c.good /\ right]

Answer(h, verdict) == reply' = [reply EXCEPT ![h].xcache = verdict]

-----------------------------------------------------------------------------
(* ServeHTTP: which handler a request gets.  The answer to the previous    *)
(* request of the slot is forgotten.                                       *)

ServeBlob(h) ==
    /\ "blob" \in Kinds
    /\ Goto(h, "idle", "record")
    /\ \E n \in BlobNote : req' = [req EXCEPT ![h] = n]
    /\ reply' = [reply EXCEPT ![h] = NoReply]
    /\ listed' = [listed EXCEPT ![h] = {}]
    /\ UNCHANGED <<diskVars, mu, size, file, tmp, hash, todo, crashes>>

ServeManifest(h) ==
    /\ "manifest" \in Kinds
    /\ Goto(h, "idle", "record")
    /\ \E n \in TagNote : req' = [req EXCEPT ![h] = n]
    /\ reply' = [reply EXCEPT ![h] = NoReply]
    /\ listed' = [listed EXCEPT ![h] = {}]
    /\ UNCHANGED <<diskVars, mu, size, file, tmp, hash, todo, crashes>>

\* (Variant: the downloads under way are not skipped.)
AllEntries == Stored \cup {t \in TempName : temps[t] # None}

\* ReadDir of blobs/ less the names that start with "dl-"
DirEntries == Stored

ServeStats(h) ==
    /\ "stats" \in Kinds
    /\ Goto(h, "idle", "info")
    /\ todo' = [todo EXCEPT ![h] = DirEntries]
    /\ listed' = [listed EXCEPT ![h] = {}]
    /\ req' = [req EXCEPT ![h] = None]
    /\ reply' = [reply EXCEPT ![h] = NoReply]
    /\ UNCHANGED <<diskVars, mu, size, file, tmp, hash, crashes>>

\* One entry of the listing: its size from Info, its names from readRepos,
\* which takes no lock.  An entry that is gone by now is skipped.
StatsInfo(h) ==
    /\ pc[h] = "info"
    /\ \E e \in todo[h] :
        LET c == IF e \in Digest THEN blobs[e] ELSE temps[e]
            names == IF e \in Digest THEN Lines(sidecar[<<"repos", e>>]) ELSE {}
        IN /\ todo' = [todo EXCEPT ![h] = @ \ {e}]
           /\ listed' = IF c = None THEN listed ELSE
                [listed EXCEPT ![h] = @ \cup {[digest |-> e, size |-> c.len, repos |-> names]}]
    /\ UNCHANGED <<diskVars, mu, pc, req, size, file, tmp, hash, reply, crashes>>

StatsDone(h) ==
    /\ Goto(h, "info", "idle")
    /\ todo[h] = {}
    /\ UNCHANGED <<diskVars, mu, req, size, file, tmp, hash, reply, statsVars, crashes>>

-----------------------------------------------------------------------------
(* recordRepo and recordTag: note one line in one sidecar file, under mu.  *)

AfterNote(h) == IF req[h].dir = "repos" THEN "stat" ELSE "relay"

\* (Variants: no lock is taken; the lock is never given back.)
NoLock == TRUE
Lock == mu = None
NoUnlock == mu' = mu
Unlock == mu' = None

\* Take the lock and read the file; a line that is there already ends it.
RecordRead(h) ==
    /\ pc[h] = "record"
    /\ Lock
    /\ IF req[h].line \in Lines(sidecar[File(req[h])])
       THEN Goto(h, "record", AfterNote(h)) /\ mu' = mu
       ELSE Goto(h, "record", "append") /\ mu' = h
    /\ UNCHANGED <<diskVars, req, size, file, tmp, hash, reply, statsVars, crashes>>

\* Append the line; a failure to create the directory, to open or to write
\* the file is dropped silently.  Unlock.
RecordAppend(h) ==
    /\ Goto(h, "append", AfterNote(h))
    /\ \/ sidecar' = [sidecar EXCEPT ![File(req[h])] = Append(@, req[h].line)]
       \/ "disk" \in Faults /\ sidecar' = sidecar
    /\ Unlock
    /\ UNCHANGED <<blobs, temps, req, size, file, tmp, hash, reply, statsVars, crashes>>

\* The transparent passthrough: a manifest is relayed and nothing of it kept.
RelayManifest(h) ==
    /\ Goto(h, "relay", "idle")
    /\ Answer(h, "relayed")
    /\ UNCHANGED <<diskVars, mu, req, size, file, tmp, hash, statsVars, crashes>>

-----------------------------------------------------------------------------
(* serveBlob *)

\* (Variant: a cached blob is checked with the upstream first.)
AlwaysAsk(d) == FALSE
Cached(d) == blobs[d] # None

Stat(h) ==
    /\ pc[h] = "stat"
    /\ IF Cached(req[h].key)
       THEN Goto(h, "stat", "open") /\ size' = [size EXCEPT ![h] = blobs[req[h].key].len]
       ELSE Goto(h, "stat", "ask") /\ size' = size
    /\ UNCHANGED <<diskVars, mu, req, file, tmp, hash, reply, statsVars, crashes>>

\* Whatever the path names by now is opened; if that fails it is a MISS.
Open(h) ==
    /\ pc[h] = "open"
    /\ \/ /\ Goto(h, "open", "hit")
          /\ file' = [file EXCEPT ![h] = blobs[req[h].key]]
          /\ size' = size
          /\ Answer(h, "HIT")
       \/ /\ "disk" \in Faults \/ blobs[req[h].key] = None
          /\ Goto(h, "open", "ask")
          /\ size' = [size EXCEPT ![h] = 0]
          /\ UNCHANGED <<file, reply>>
    /\ UNCHANGED <<diskVars, mu, req, tmp, hash, statsVars, crashes>>

\* io.Copy(w, f) and the flush of its tail: the opened file, or as much of it as
\* the client stays for.  A client that reads nothing holds it up for ever.
SendHit(h) ==
    /\ Goto(h, "hit", "idle")
    /\ \E n \in 0 .. file[h].len :
        /\ n = file[h].len \/ "client" \in Faults
        /\ reply' = [reply EXCEPT ![h].sent = [len |-> n, good |-> file[h].good]]
    /\ file' = [file EXCEPT ![h] = None]
    /\ size' = [size EXCEPT ![h] = 0]
    /\ UNCHANGED <<diskVars, mu, req, tmp, hash, statsVars, crashes>>

\* 502: upstream unreachable, redirect without Location, context cancelled
Fail(h, from) == Goto(h, from, "idle") /\ Answer(h, "error")

\* upClient.Do with the client's own credentials, redirects not followed.
AskUpstream(h) ==
    /\ \/ Goto(h, "ask", "temp") /\ UNCHANGED reply
       \/ Goto(h, "ask", "follow") /\ UNCHANGED reply
       \/ Goto(h, "ask", "idle") /\ Answer(h, "relayed")   \* not a 200: relayed
       \/ Faults \cap {"upstream", "client"} # {} /\ Fail(h, "ask")
    /\ UNCHANGED <<diskVars, mu, req, size, file, tmp, hash, statsVars, crashes>>

\* dlClient.Do on the Location, without credentials.
FollowRedirect(h) ==
    /\ \/ Goto(h, "follow", "temp") /\ UNCHANGED reply
       \/ Goto(h, "follow", "idle") /\ Answer(h, "relayed")
       \/ Faults \cap {"upstream", "client"} # {} /\ Fail(h, "follow")
    /\ UNCHANGED <<diskVars, mu, req, size, file, tmp, hash, statsVars, crashes>>

-----------------------------------------------------------------------------
(* streamAndCache, from a 200 on *)

\* os.CreateTemp: a name no file has.  Its random suffix does not come up
\* again while a handler still remembers the name.
FreshNames == {t \in TempName : temps[t] = None /\ \A h \in Handler : tmp[h] # t}

\* With the temp file there, the 200 and X-Cache: MISS are written: they may wait
\* in the server's buffer, as what is copied after them.
CreateTemp(h) ==
    /\ \/ \E t \in FreshNames :
            /\ Goto(h, "temp", "stream")
            /\ temps' = [temps EXCEPT ![t] = Empty]
            /\ tmp' = [tmp EXCEPT ![h] = t]
            /\ Answer(h, "MISS")
       \/ /\ "disk" \in Faults
          /\ Fail(h, "temp")
          /\ UNCHANGED <<temps, tmp>>
    /\ UNCHANGED <<blobs, sidecar, mu, req, size, file, hash, statsVars, crashes>>

\* (Variant: the error of io.Copy is ignored and the temp file renamed.)
CommitAnyway == "commit"
AfterError == "cleanup"

\* One turn of io.Copy into MultiWriter(w, tmp, h): the client's connection, then
\* the temp file, then the hash; the first of them to fail ends the copy.  A write
\* to a client that has hung up may still succeed, into the server's buffer.
CopyChunk(h) ==
    /\ pc[h] = "stream"
    /\ hash[h].len <= Chunks
    /\ \E right \in BOOLEAN :
        LET next == Grow(hash[h], right)
        IN /\ right \/ "upstream" \in Faults
           /\ right => hash[h].len < Chunks
           /\ reply' = IF reply[h] = Gone THEN reply ELSE [reply EXCEPT ![h].sent = next]
           /\ \/ /\ temps' = [temps EXCEPT ![tmp[h]] = Grow(@, right)]
                 /\ hash' = [hash EXCEPT ![h] = next]
                 /\ pc' = pc
              \/ /\ "disk" \in Faults
                 /\ pc' = [pc EXCEPT ![h] = AfterError]
                 /\ UNCHANGED <<temps, hash>>
    /\ UNCHANGED <<blobs, sidecar, mu, req, size, file, tmp, statsVars, crashes>>

\* The client of a MISS hangs up and loses what the server still has buffered; how
\* much it has got by then is of no consequence and is left out.  It can do so when
\* all has been written, which the handler need not notice.
HangsUp(h) ==
    /\ "client" \in Faults
    /\ pc[h] \in {"stream", "verify", "commit"}
    /\ reply[h].xcache = "MISS"
    /\ reply' = [reply EXCEPT ![h] = Gone]
    /\ UNCHANGED <<diskVars, mu, pc, req, size, file, tmp, hash, statsVars, crashes>>

\* A write to a client that has hung up fails, or the request's context is
\* cancelled with it; or the upstream breaks off.
CopyFails(h) ==
    /\ reply[h] = Gone \/ "upstream" \in Faults
    /\ Goto(h, "stream", AfterError)
    /\ UNCHANGED <<diskVars, mu, req, size, file, tmp, hash, reply, statsVars, crashes>>

\* The body ends with no error.  One without a Content-Length can end early.
CopyEnds(h) ==
    /\ hash[h].len >= Chunks \/ "upstream" \in Faults
    /\ Goto(h, "stream", "verify")
    /\ UNCHANGED <<diskVars, mu, req, size, file, tmp, hash, reply, statsVars, crashes>>

\* Compare the sha256 of what was streamed with the digest asked for.
Verify(h) ==
    /\ IF Matches(hash[h]) THEN Goto(h, "verify", "commit") ELSE Goto(h, "verify", "cleanup")
    /\ UNCHANGED <<diskVars, mu, req, size, file, tmp, hash, reply, statsVars, crashes>>

\* os.Rename onto the blob's path.
Commit(h) ==
    /\ \/ /\ Goto(h, "commit", "cleanup")
          /\ blobs' = [blobs EXCEPT ![req[h].key] = temps[tmp[h]]]
          /\ temps' = [temps EXCEPT ![tmp[h]] = None]
       \/ /\ "disk" \in Faults
          /\ Goto(h, "commit", "cleanup")
          /\ UNCHANGED <<blobs, temps>>
    /\ UNCHANGED <<sidecar, mu, req, size, file, tmp, hash, reply, statsVars, crashes>>

\* (Variant: the deferred os.Remove is missing.)
LeftThere(c) == c
Removed(c) == None

\* The deferred os.Remove: a no-op once the file has been renamed away.
RemoveTemp(h) ==
    /\ Goto(h, "cleanup", "idle")
    /\ temps' = [temps EXCEPT ![tmp[h]] = Removed(@)]
    /\ tmp' = [tmp EXCEPT ![h] = None]
    /\ hash' = [hash EXCEPT ![h] = Empty]
    /\ UNCHANGED <<blobs, sidecar, mu, req, size, file, reply, statsVars, crashes>>

-----------------------------------------------------------------------------
\* The container dies and is restarted; what is on disk stays as it is.
Crash ==
    /\ "crash" \in Faults
    /\ crashes < MaxCrashes
    /\ crashes' = crashes + 1
    /\ mu' = None
    /\ pc' = [h \in Handler |-> "idle"]
    /\ req' = [h \in Handler |-> None]
    /\ size' = [h \in Handler |-> 0]
    /\ file' = [h \in Handler |-> None]
    /\ tmp' = [h \in Handler |-> None]
    /\ hash' = [h \in Handler |-> Empty]
    /\ reply' = [h \in Handler |-> NoReply]
    /\ todo' = [h \in Handler |-> {}]
    /\ listed' = [h \in Handler |-> {}]
    /\ UNCHANGED diskVars

\* A new request of the slot.
Arrive(h) == ServeBlob(h) \/ ServeManifest(h) \/ ServeStats(h)

\* What a handler does on its own: locks, files, its own memory.
Local(h) ==
    \/ RecordRead(h) \/ RecordAppend(h)
    \/ Stat(h) \/ Open(h)
    \/ CreateTemp(h) \/ Verify(h) \/ Commit(h) \/ RemoveTemp(h)
    \/ StatsInfo(h)

\* What it needs the network for: the upstream's answers and its bytes, and a
\* client that takes what is written to it.
Remote(h) ==
    \/ AskUpstream(h) \/ FollowRedirect(h)
    \/ CopyChunk(h) \/ CopyFails(h) \/ CopyEnds(h)
    \/ RelayManifest(h) \/ SendHit(h) \/ StatsDone(h)

Next == (\E h \in Handler : Arrive(h) \/ Local(h) \/ Remote(h) \/ HangsUp(h)) \/ Crash

Spec == Init /\ [][Next]_vars
-----------------------------------------------------------------------------
(* Fairness: goroutines are scheduled and sync.Mutex does not starve a     *)
(* waiter; nothing is assumed of the network, neither of the upstream nor  *)
(* of the clients: the code sets no timeout on either side.                *)

Scheduled(h) == WF_vars(Local(h)) /\ SF_vars(RecordRead(h))

\* Whoever holds the lock appends.  (Implied by Scheduled, as the holder does
\* not change before it has; the proofs cannot take it from there.)
Appends == \E h \in Handler : RecordAppend(h)

Fairness == \A h \in Handler : Scheduled(h)
FairSpec == Spec /\ Fairness /\ WF_vars(Appends)

-----------------------------------------------------------------------------
(* Properties *)

\* Whatever truncated, wrong or abandoned streams there were, and whenever the
\* process died, a file under a digest's name holds exactly that blob
\* (streamAndCache: "A client disconnect or digest mismatch leaves the cache
\* untouched").
StoreVerified == \A d \in Stored : blobs[d] = Whole

\* The Content-Length of a HIT comes from Stat and its bytes from a later Open,
\* with other handlers renaming onto that path in between: they are of one
\* blob, whole, and the client never gets a byte that is not the blob's.
HitWhole ==
    \A h \in Handler :
        /\ pc[h] = "hit" => file[h] = Whole /\ size[h] = Chunks
        /\ reply[h].xcache = "HIT" => reply[h].sent.good /\ req[h].key \in Stored

\* recordRepo and recordTag read the file and append to it later: the mutex
\* keeps two requests from adding the same line twice.
SidecarDeduped ==
    \A f \in Sidecar : \A i, j \in DOMAIN sidecar[f] : sidecar[f][i] = sidecar[f][j] => i = j

\* A cached blob has a name to be listed by: the repo is recorded before the
\* blob is fetched, so no death of the process falls in between (the disk must
\* take the line: a failed append is ignored).
StoredIsNamed == "disk" \notin Faults => \A d \in Stored : sidecar[<<"repos", d>>] # <<>>

\* Each way out of streamAndCache renames or removes its temp file: a dl- file
\* that no request is writing was left by a process that died, at most one per
\* request it was serving (nothing ever removes those).
Orphans == {t \in TempName : temps[t] # None /\ \A h \in Handler : tmp[h] # t}
OnlyCrashesOrphan == Cardinality(Orphans) <= crashes * Cardinality(Handler)

\* stats reads the directory, the sizes and the names at different moments with
\* no lock: still it lists whole blobs only, never a download under way.
StatsWhole == \A h \in Handler : \A e \in listed[h] : e.digest \in Stored /\ e.size = Chunks

\* A cached blob is never removed and never replaced by other bytes.
BlobsAreForever == [][\A d \in Stored : blobs'[d] = blobs[d]]_vars

\* No handler is ever stuck at what needs nobody else: one that waits for the
\* lock can take it unless another is about to append and give it back, and at
\* each of these places there is a step to take whatever the others did to the
\* disk meanwhile (a blob that appeared, a listed entry that is gone).
OwnPlaces == {"append", "stat", "open", "verify", "commit", "cleanup"}
NobodyIsStuck ==
    /\ \A h \in Handler :
        /\ pc[h] = "record" => ENABLED <<RecordRead(h)>>_vars \/ \E g \in Handler : pc[g] = "append"
        /\ pc[h] \in OwnPlaces \/ todo[h] # {} => ENABLED <<Local(h)>>_vars
    /\ (\E h \in Handler : pc[h] = "append") => ENABLED <<Appends>>_vars

\* What becomes cached has just been written, whole and as a MISS, to the client
\* that asked for it, so that it has all of it or gets it yet unless it hangs up:
\* no stream that a client is left with in part, or that was of other bytes, is
\* kept (streamAndCache: "serve what we sent, cache nothing").
Misses(h, d) == req[h] \in BlobNote /\ req[h].key = d
Delivers(h, d) == Misses(h, d) /\ reply[h] = [xcache |-> "MISS", sent |-> Whole]
CachedWasDelivered ==
    [][\A d \in Stored' \ Stored : \E h \in Handler :
            \/ Delivers(h, d)
            \/ Misses(h, d) /\ reply[h] = Gone /\ pc[h] = "commit"]_vars

\* streamAndCache: "A client disconnect or digest mismatch leaves the cache
\* untouched".  It does not: a client that hangs up while the server still has
\* its last bytes buffered is not noticed, and the blob is renamed all the same.
HangUpLeavesCache == [][\A d \in Stored' \ Stored : \E h \in Handler : Delivers(h, d)]_vars

\* A note is made whatever the network does to the other requests: no handler
\* holds the mutex while it waits for anything but the disk.
NotesDoNotWait == \A h \in Handler : pc[h] = "record" ~> pc[h] \notin {"record", "append"}

\* A request for a cached blob gets to where its bytes are sent, whatever the
\* upstream does, even when it never answers (README: HIT from disk).  From there
\* on it is in the client's hands.
HitNeedsNoUpstream ==
    Faults \cap {"disk", "crash"} = {} =>
        \A h \in Handler, d \in Digest :
            pc[h] = "record" /\ req[h].dir = "repos" /\ req[h].key = d /\ d \in Stored ~> pc[h] = "hit"

\* A body that was whole is cached, unless the disk fails or the process dies.
VerifiedIsCached ==
    Faults \cap {"disk", "crash"} = {} =>
        \A h \in Handler, d \in Digest :
            pc[h] = "verify" /\ hash[h] = Whole /\ req[h].key = d ~> d \in Stored

-----------------------------------------------------------------------------
(* The inductive invariant behind StoreVerified, HitWhole, SidecarDeduped   *)
(* and the refinement.                                                     *)

Streaming == {"stream", "verify", "commit", "cleanup"}
BlobPC    == {"stat", "open", "hit", "ask", "follow", "temp"} \cup Streaming

\* A handler is where its request can bring it.
ReqInPlace ==
    \A h \in Handler :
        /\ pc[h] \in {"record", "append"} => req[h] \in Note
        /\ pc[h] = "relay" => req[h] \in TagNote
        /\ pc[h] \in BlobPC => req[h] \in BlobNote

\* A temp file has one writer, and holds what that writer has hashed.
TempsInPlace ==
    /\ \A h \in Handler :
        /\ pc[h] \in Streaming => tmp[h] \in TempName
        /\ pc[h] \notin Streaming => tmp[h] = None /\ hash[h] = Empty
        /\ pc[h] \in {"stream", "verify", "commit"} => temps[tmp[h]] = hash[h]
        /\ pc[h] = "commit" => hash[h] = Whole
    /\ \A g, h \in Handler : tmp[g] = tmp[h] => g = h \/ tmp[g] = None

\* A HIT is under way only for a blob that is stored, with its true length.
HitsInPlace ==
    \A h \in Handler :
        /\ pc[h] \in {"record", "append", "stat", "open"} => reply[h].sent.good
        /\ pc[h] = "open" => req[h].key \in Stored /\ size[h] = Chunks
        /\ pc[h] = "hit" => file[h] = Whole /\ size[h] = Chunks
        /\ reply[h].xcache = "HIT" =>
            /\ pc[h] \in {"hit", "idle"}
            /\ req[h] \in BlobNote
            /\ req[h].key \in Stored
            /\ reply[h].sent.good

\* The handler about to append holds the lock, and its line is not there yet.
LockInPlace ==
    \A h \in Handler :
        /\ pc[h] = "append" <=> mu = h
        /\ pc[h] = "append" => req[h].line \notin Lines(sidecar[File(req[h])])

\* All that holds between any two steps of the proxy: the store is verified,
\* and each handler's request, temp file, lock and answer agree with where it is.
ProxyInv ==
    /\ TypeOK
    /\ StoreVerified
    /\ ReqInPlace
    /\ TempsInPlace
    /\ HitsInPlace
    /\ LockInPlace
    /\ SidecarDeduped

-----------------------------------------------------------------------------
(* The proxy implements BlobStore: what is on disk under a digest is the   *)
(* store, a request is waiting from the moment it arrives, and a HIT counts *)
(* as one only while everything sent is the blob's own bytes.              *)

StoreOf(c) == IF c = None THEN "absent" ELSE IF c = Whole THEN "whole" ELSE "broken"
AskedOf(h) == IF pc[h] \in {"idle", "info"} \/ req[h].dir = "tags" THEN None ELSE req[h].key
HitOf(h) == IF reply[h].xcache # "HIT" THEN "no" ELSE IF reply[h].sent.good THEN "yes" ELSE "corrupt"

Store == INSTANCE BlobStore WITH
    Client <- Handler,
    store  <- [d \in Digest |-> StoreOf(blobs[d])],
    asked  <- [h \in Handler |-> AskedOf(h)],
    hit    <- [h \in Handler |-> HitOf(h)]

\* Every behaviour of the handlers is one of the cache that BlobStore promises.
ImplementsStore == Store!Spec
=============================================================================
