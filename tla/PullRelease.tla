----------------------------- MODULE PullRelease -----------------------------
(***************************************************************************)
(* `pull-release` (internal/cache/release.go and pull.go): read the list   *)
(* of payload images out of a release image, warm them all through the     *)
(* caches with a pool of workers, count what is on disk, and warm again    *)
(* what is missing.                                                        *)
(*                                                                         *)
(* An Item is a manifest or a blob of one repository in one cache: what    *)
(* seenKey names.  An image is the sequence of items warmImage asks for.   *)
(* The registry proxy is external and as the comment in PullRelease tells  *)
(* it: a blob that another client is fetching is served but not stored,    *)
(* and if that client hangs up nobody stores it.                           *)
(***************************************************************************)
EXTENDS Naturals, Sequences, FiniteSets

CONSTANTS
    Worker,      \* as many as -j says
    Manifest, Blob,
    Image,
    Release,     \* the release image
    Payload,     \* the payload images it lists, a sequence
    Plan,        \* image -> its items, in the order warmImage asks for them
    ReadPlan,    \* the release's items for one platform: manifests, config, layers
    LayersFrom,  \* where the layers begin in ReadPlan
    FileAt,      \* the layer of ReadPlan that holds image-references; 0: none
    Unserved,    \* images of hosts with no cache that pull warms
    Childless,   \* indexes with no child for the platform asked for
    AnyPlatform, \* the platform is ""
    Faults,      \* what can go wrong: "fetch", "store"
    Kept,        \* what the caches have on disk when it starts
    MaxForeign,  \* bound on the fetches other clients start
    None

VerifyRounds == 2
Item == Manifest \cup Blob
Payloads == {Payload[k] : k \in DOMAIN Payload}
All == <<Release>> \o Payload

ASSUME PullAssumption ==
    /\ Worker # {}                        \* -j below 1 is refused
    /\ Manifest \cap Blob = {}
    /\ IsFiniteSet(Image)
    /\ Release \in Image \ Payloads      \* no image lists itself
    /\ Payload \in Seq(Image) /\ Payload # <<>>
    /\ \A j, k \in DOMAIN Payload : Payload[j] = Payload[k] => j = k
    /\ Plan \in [Image -> Seq(Item)]
    /\ ReadPlan \in Seq(Item)
    /\ LayersFrom \in 1 .. Len(ReadPlan) + 1
    /\ FileAt \in {0} \cup LayersFrom .. Len(ReadPlan)
    /\ \A k \in 1 .. Len(ReadPlan) : k >= LayersFrom => ReadPlan[k] \in Blob
    /\ Unserved \subseteq Image /\ Childless \subseteq Image
    /\ Kept \subseteq Item
    /\ MaxForeign \in Nat
    /\ None \notin Image \cup Item

VARIABLES
    main,     \* where PullRelease is
    pos,      \* its place in ReadPlan
    batch,    \* the images warmAll was called with, in the order of All
    sent,     \* how far in All it has handed them to workers
    round,    \* re-warm rounds so far
    seen,     \* the sync.Map: blobs fetched or being fetched
    wpc,      \* where each worker is
    img,      \* the image it warms, or None
    at,       \* its place in that image's plan
    mode,     \* how the proxy answers its request: "hit", "store" or "stream"
    result,   \* image -> what warmAll has for it in this pass
    warmErr,  \* images whose last warming failed
    report,   \* what PullRelease returned
    store,    \* items on disk
    foreign,  \* blobs that other clients are fetching and the proxy will store
    started,  \* how many such fetches there were
    served,   \* items some request of this run got in full
    calm      \* nothing failed and nobody interfered since this pass began

mainVars   == <<main, pos, batch, sent, round, warmErr, report>>
workerVars == <<wpc, img, at, mode, result>>
proxyVars  == <<store, foreign, started>>
vars == <<mainVars, workerVars, proxyVars, seen, served, calm>>

NoReport == [verdict |-> "none", verified |-> FALSE, count |-> 0]
Report == [verdict : {"none", "ok", "failed", "error"}, verified : BOOLEAN,
           count : 0 .. Cardinality(Image)]

\* Every variable has its type.
TypeOK ==
    /\ main \in {"manifest", "layers", "own", "send", "wait", "verify", "done"}
    /\ pos \in 0 .. Len(ReadPlan) + 1
    /\ batch \subseteq Image
    /\ sent \in 0 .. Len(All)
    /\ round \in 0 .. VerifyRounds
    /\ seen \subseteq Blob
    /\ wpc \in [Worker -> {"recv", "next", "fetch", "exit"}]
    /\ img \in [Worker -> Image \cup {None}]
    /\ at \in [Worker -> Nat]
    /\ mode \in [Worker -> {"hit", "store", "stream"}]
    /\ result \in [Image -> {"none", "ok", "err"}]
    /\ warmErr \subseteq Image
    /\ report \in Report
    /\ store \subseteq Item
    /\ foreign \subseteq Blob
    /\ started \in 0 .. MaxForeign
    /\ served \subseteq Item
    /\ calm \in BOOLEAN

Init ==
    /\ main = "manifest" /\ pos = 1
    /\ batch = {} /\ sent = 0 /\ round = 0
    /\ seen = {} /\ warmErr = {}
    /\ wpc = [w \in Worker |-> "exit"]
    /\ img = [w \in Worker |-> None]
    /\ at = [w \in Worker |-> 0]
    /\ mode = [w \in Worker |-> "hit"]
    /\ result = [i \in Image |-> "none"]
    /\ report = NoReport
    /\ store = Kept
    /\ foreign = {} /\ started = 0
    /\ served = {} /\ calm = FALSE

-----------------------------------------------------------------------------
(* Helpers *)

Wanted(i) == {Plan[i][k] : k \in DOMAIN Plan[i]}

\* imageOnDisk, and missingOnDisk's own conditions before it
OnDisk(i) == i \notin Unserved \cup Childless /\ Wanted(i) \subseteq store

\* LoadOrStore and Delete of a blob's key; manifests have none.
\* (Variants: manifests are skipped too; a blob is not marked while it is being
\* fetched; a failed fetch leaves its mark.)
ClaimedAny(x) == seen \cup {x}
ClaimedLater(x) == seen
Claimed(x) == seen \cup ({x} \cap Blob)
NotReleased(x) == seen
Released(x) == seen \ {x}

Fetching(w) == IF wpc[w] = "fetch" THEN Plan[img[w]][at[w]] ELSE None

\* How the proxy answers a request for x that comes now.
ModeOf(x) == IF x \in store THEN "hit" ELSE IF x \in foreign THEN "stream" ELSE "store"

\* warmAll is called: a fresh pass over some of the images.
StartPass(images, seenNow) ==
    /\ batch' = images
    /\ sent' = 0
    /\ seen' = seenNow
    /\ wpc' = [w \in Worker |-> "recv"]
    /\ result' = [i \in Image |-> "none"]
    /\ main' = "send"

Return(verdict, verified, n) ==
    /\ main' = "done"
    /\ report' = [verdict |-> verdict, verified |-> verified, count |-> n]

-----------------------------------------------------------------------------
(* PullRelease reads the release image: its manifests, then its layers     *)
(* from the top down to the one with the list, then the rest of it.        *)

\* One request of the main goroutine for x, in full or failed.
MainGets(x) ==
    /\ store' = IF ModeOf(x) = "store" THEN store \cup {x} ELSE store
    /\ served' = served \cup {x}

Abort == "fetch" \in Faults /\ Return("error", FALSE, 0)

ReadManifests ==
    /\ main = "manifest"
    /\ \/ /\ main' = "layers" /\ pos' = Len(ReadPlan)
          /\ store' = store \cup ({ReadPlan[k] : k \in DOMAIN ReadPlan} \cap Manifest)
          /\ served' = served \cup ({ReadPlan[k] : k \in DOMAIN ReadPlan} \cap Manifest)
          /\ UNCHANGED report
       \/ Abort /\ UNCHANGED <<pos, store, served>>
    /\ UNCHANGED <<batch, sent, round, warmErr, workerVars, foreign, started, seen, calm>>

\* findFileInLayers: each layer is drained, and marked seen only then.
ReadLayer ==
    /\ main = "layers"
    /\ IF pos < LayersFrom
       THEN Return("error", FALSE, 0) /\ UNCHANGED <<pos, store, served, seen>>
       ELSE \/ /\ MainGets(ReadPlan[pos])
               /\ seen' = Claimed(ReadPlan[pos])
               /\ IF pos = FileAt THEN main' = "own" /\ pos' = 1
                                  ELSE main' = main /\ pos' = pos - 1
               /\ UNCHANGED report
            \/ Abort /\ UNCHANGED <<pos, store, served, seen>>
    /\ UNCHANGED <<batch, sent, round, warmErr, workerVars, foreign, started, calm>>

\* warmManifestBlobs on the release image itself, then the first warmAll.
WarmOwn ==
    /\ main = "own"
    /\ IF pos > Len(ReadPlan)
       THEN /\ StartPass(Payloads, seen)
            /\ calm' = (foreign = {})
            /\ UNCHANGED <<pos, report, store, served>>
       ELSE /\ \/ /\ ReadPlan[pos] \in seen \cup Manifest
                  /\ pos' = pos + 1
                  /\ UNCHANGED <<main, report, store, served, seen>>
               \/ /\ ReadPlan[pos] \notin seen \cup Manifest
                  /\ MainGets(ReadPlan[pos])
                  /\ seen' = Claimed(ReadPlan[pos])
                  /\ pos' = pos + 1
                  /\ UNCHANGED <<main, report>>
               \/ /\ ReadPlan[pos] \notin seen \cup Manifest
                  /\ Abort
                  /\ UNCHANGED <<pos, store, served, seen>>
            /\ UNCHANGED <<batch, sent, wpc, result, calm>>
    /\ UNCHANGED <<round, warmErr, img, at, mode, foreign, started>>

-----------------------------------------------------------------------------
(* warmAll: the main goroutine hands out the images one by one over an     *)
(* unbuffered channel, closes it and waits for the workers to leave.       *)

Due == {k \in sent + 1 .. Len(All) : All[k] \in batch}

Send(w) ==
    /\ main = "send"
    /\ wpc[w] = "recv"
    /\ \E k \in Due :
        /\ \A j \in Due : k <= j
        /\ sent' = k
        /\ img' = [img EXCEPT ![w] = All[k]]
    /\ wpc' = [wpc EXCEPT ![w] = "next"]
    /\ at' = [at EXCEPT ![w] = 1]
    /\ UNCHANGED <<main, pos, batch, round, warmErr, report, mode, result, proxyVars, seen, served, calm>>

CloseWork ==
    /\ main = "send"
    /\ Due = {}
    /\ main' = "wait"
    /\ UNCHANGED <<pos, batch, sent, round, warmErr, report, workerVars, proxyVars, seen, served, calm>>

\* (Variants: a worker leaves after an image; a failed request is passed over;
\* nobody waits for the workers.)
LeaveAfterImage == "exit"
AfterImage == "recv"
PassedOver == "ok"
Failure == "err"
NotWaited == TRUE
PoolGone == \A w \in Worker : wpc[w] = "exit"

\* warmRef returns: the result is in and the worker receives again.
Finish(w, verdict) ==
    /\ result' = [result EXCEPT ![img[w]] = verdict]
    /\ wpc' = [wpc EXCEPT ![w] = AfterImage]
    /\ img' = [img EXCEPT ![w] = None]
    /\ at' = [at EXCEPT ![w] = 0]

\* What warmRef returns when no request has failed: some images have nothing
\* to warm.
Outcome(i) == IF i \in Unserved \/ (i \in Childless /\ ~AnyPlatform) THEN "err" ELSE "ok"

\* warmImage at the item it has come to.
WarmNext(w) ==
    /\ wpc[w] = "next"
    /\ LET i == img[w]
           x == Plan[i][at[w]]
           more == i \notin Unserved /\ at[w] <= Len(Plan[i])
       IN \/ /\ ~more
             /\ Finish(w, Outcome(i))
             /\ UNCHANGED <<mode, seen>>
          \/ /\ more /\ x \in seen    \* another reference has it, or is at it
             /\ at' = [at EXCEPT ![w] = @ + 1]
             /\ UNCHANGED <<wpc, img, mode, result, seen>>
          \/ /\ more /\ x \notin seen
             /\ wpc' = [wpc EXCEPT ![w] = "fetch"]
             /\ mode' = [mode EXCEPT ![w] = ModeOf(x)]
             /\ seen' = Claimed(x)
             /\ UNCHANGED <<img, at, result>>
    /\ UNCHANGED <<mainVars, proxyVars, served, calm>>

\* getManifest or warmBlob has its answer in full.
Fetched(w) ==
    /\ wpc[w] = "fetch"
    /\ wpc' = [wpc EXCEPT ![w] = "next"]
    /\ at' = [at EXCEPT ![w] = @ + 1]
    /\ store' = IF mode[w] = "store" THEN store \cup {Fetching(w)} ELSE store
    /\ served' = served \cup {Fetching(w)}
    /\ UNCHANGED <<mainVars, img, mode, result, foreign, started, seen, calm>>

\* It has failed: another reference to the blob may try again.
FetchFails(w) ==
    /\ "fetch" \in Faults
    /\ wpc[w] = "fetch"
    /\ seen' = Released(Fetching(w))
    /\ calm' = FALSE
    /\ Finish(w, Failure)
    /\ UNCHANGED <<mainVars, mode, proxyVars, served>>

\* The channel is closed.
WorkerExits(w) ==
    /\ main = "wait"
    /\ wpc[w] = "recv"
    /\ wpc' = [wpc EXCEPT ![w] = "exit"]
    /\ UNCHANGED <<mainVars, img, at, mode, result, proxyVars, seen, served, calm>>

\* wg.Wait returns, and PullRelease takes the results over into warmErr.
Collect ==
    /\ main = "wait"
    /\ PoolGone
    /\ main' = "verify"
    /\ warmErr' = {i \in Image : IF result[i] = "none" THEN i \in warmErr ELSE result[i] = "err"}
    /\ UNCHANGED <<pos, batch, sent, round, report, workerVars, proxyVars, seen, served, calm>>

-----------------------------------------------------------------------------
(* missingOnDisk and what PullRelease makes of it                          *)

\* (Variant: the re-warm pass shares the sync.Map of the first.)
SameSeen == seen
FreshSeen == {}

AllOnDisk == \A i \in {Release} \cup Payloads : OnDisk(i)

Missing == {i \in {Release} \cup Payloads : ~OnDisk(i)}

\* The store cannot be read: report what the warming itself saw.
VerifyFails ==
    /\ main = "verify"
    /\ "store" \in Faults
    /\ Return(IF warmErr = {} THEN "ok" ELSE "failed", FALSE, Cardinality(warmErr))
    /\ UNCHANGED <<pos, batch, sent, round, warmErr, workerVars, proxyVars, seen, served, calm>>

VerifyEnds ==
    /\ main = "verify"
    /\ AllOnDisk \/ round = VerifyRounds
    /\ Return(IF AllOnDisk THEN "ok" ELSE "failed", TRUE, Cardinality(Missing))
    /\ UNCHANGED <<pos, batch, sent, round, warmErr, workerVars, proxyVars, seen, served, calm>>

ReWarm ==
    /\ main = "verify"
    /\ ~AllOnDisk
    /\ round < VerifyRounds
    /\ round' = round + 1
    /\ StartPass(Missing, FreshSeen)
    /\ calm' = (foreign = {})
    /\ UNCHANGED <<pos, warmErr, report, img, at, mode, proxyVars, served>>

-----------------------------------------------------------------------------
(* Other clients of the proxy, external: nodes that pull the same blobs.   *)

ForeignStarts(b) ==
    /\ started < MaxForeign
    /\ b \notin store \cup foreign
    /\ \A w \in Worker : ~(Fetching(w) = b /\ mode[w] = "store")
    /\ foreign' = foreign \cup {b}
    /\ started' = started + 1
    /\ calm' = FALSE
    /\ UNCHANGED <<mainVars, workerVars, store, seen, served>>

\* It ends in full and the proxy stores the blob, or its client hangs up.
ForeignEnds(b) ==
    /\ b \in foreign
    /\ foreign' = foreign \ {b}
    /\ store' \in {store, store \cup {b}}
    /\ UNCHANGED <<mainVars, workerVars, started, seen, served, calm>>

-----------------------------------------------------------------------------
Main == ReadManifests \/ ReadLayer \/ WarmOwn \/ CloseWork \/ Collect \/ VerifyFails \/ VerifyEnds \/ ReWarm
Pool == \E w \in Worker : Send(w) \/ WarmNext(w) \/ Fetched(w) \/ FetchFails(w) \/ WorkerExits(w)
Others == \E b \in Blob : ForeignStarts(b) \/ ForeignEnds(b)

Next == Main \/ Pool \/ Others

Spec == Init /\ [][Next]_vars

\* The goroutines run, and the cache on localhost answers or fails each
\* request: the code sets no timeout of its own.
FairSpec == Spec /\ WF_vars(Main \/ Pool)

-----------------------------------------------------------------------------
(* Properties *)

\* No two workers ever fetch the same blob of the same repository at once
\* ("concurrent warmers never pull the same cold blob at once", pull.go:255).
OneFetcher ==
    \A v, w \in Worker : Fetching(v) \in Blob /\ Fetching(v) = Fetching(w) => v = w

\* A blob that later references skip was served in full or is being fetched:
\* the claim of a fetch that failed is given back.
SeenIsServed == \A b \in seen : b \in served \/ \E w \in Worker : Fetching(w) = b

\* A success, also one that could not be verified, means that each item of each
\* payload image was served in full to a request of this run or is in the store:
\* an image that skips a blob another worker is fetching may be called warmed, but
\* if that fetch fails the other worker's image is reported.  And each image had
\* something to warm.
OkIsServed ==
    report.verdict = "ok" =>
        \A i \in Payloads : /\ Wanted(i) \subseteq served \cup store
                            /\ i \notin Unserved
                            /\ i \in Childless => AnyPlatform

\* A re-warm pass with nobody in the way and no failure leaves nothing of its
\* images missing: it fetches them again, though the first pass has seen them.
CalmPassStores ==
    main = "verify" /\ round > 0 /\ calm =>
        \A i \in batch \ Unserved : Wanted(i) \subseteq store

\* When the workers are gone every image of the pass has a result.
AllResultsIn == main = "verify" => \A i \in batch : result[i] # "none"

\* pull-release returns, if the cache answers: no send blocks for want of a
\* worker, no worker waits for a channel nobody closes, the rounds end.
Terminates == <>(main = "done")

\* What the summary line says, "%d of %d payload images" (release.go:149): the
\* number that failed is not above the number there are.
CountWithinTotal == report.verdict = "failed" => report.count <= Len(Payload)

-----------------------------------------------------------------------------
(* PullRelease implements Flights: a blob that is marked and that no worker *)
(* is fetching counts as landed.                                            *)

Job(w) == IF Fetching(w) \in Blob THEN Fetching(w) ELSE None

Flight == INSTANCE Flights WITH
    job       <- [w \in Worker |-> Job(w)],
    landed    <- seen \ {Fetching(w) : w \in Worker},
    delivered <- served \cap Blob

\* Every behaviour of the pool and of the main goroutine is one of the shared map
\* that Flights promises: within a pass a blob is fetched by one at a time, and
\* never again once it was answered in full.
ImplementsFlights == Flight!Spec
=============================================================================
