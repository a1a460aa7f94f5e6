# A verification of regcachectl

TLA+ models of regcachectl, the TLC runs that check them on small instances, and TLAPS proofs of
what matters most. Sources are named relative to the repository (`blobcache.go` is
`internal/blobcache/blobcache.go`, the rest of the Go files are in `internal/cache/`).

## The system

regcachectl keeps a fleet of registry caches on one host: containers that a command line program
creates, starts, stops and fills, and from which clusters pull their images.

| Component | State it keeps | Operations |
|---|---|---|
| blob cache proxy (`blobcache.go`) | `blobs/`, `repos/`, `tags/` on disk, one mutex, a goroutine per request | serve a blob (HIT or MISS), relay a manifest, note names, list |
| pull-release, pull (`release.go`, `pull.go`) | a pool of workers, the shared map `seen`, results, `warmErr` | read the release, warm its images, verify on disk, warm again |
| fleet lifecycle (`cache.go`) | none of its own: the containers, volumes and ports of the runtime | up, down, gc, status, port discovery |
| export, import (`transfer.go`) | a bundle file, a helper container | pack and unpack the volumes |
| release coverage (`coverage.go`) | a view of one cache's store | is an image completely on disk |
| listing (`list.go`), rendering (`registries.go`) | none | names and sizes; k3s, CRI-O and OKD configuration |
| authentication (`pull.go`) | one bearer token per client | mint a token on a 401 |
| command line (`main.go`), unit (`systemd.go`) | a context cancelled by SIGINT | dispatch |

**How they interact.** The commands reach the containers only by calling the runtime's command line,
one call after the other, with no lock between two invocations: the fleet is shared state. pull and
pull-release talk HTTP to the caches on localhost; pull-release also reads a cache's store by `exec`.
The blob cache is this program too, in a container: its requests share a directory and a mutex. The
registry:3 caches are not this program; nodes pull through them while the commands run. export and
import read and write the volumes of caches that are serving; `list` and the verification of
pull-release look into the store of a cache that is fetching, or that gc is about to stop.

**What is hard.** Concurrent misses of one digest; streams that break off on either side; a process
that dies with files open; workers that skip what another worker is still fetching; a 200 that does
not mean that anything was stored; two commands on one fleet; an interrupt between the stop of a
container and its start; ports read from some containers and computed for others; a tar that replaces
files under a serving cache, and goes on when its command is killed; a client that hangs up while the
server still has its bytes buffered; a store that is read in several looks while pulls fill it and gc empties
it; tokens that expire in the middle of a pull that has filled half the cache.

## Modules

| Module | What it is |
|---|---|
| `BlobProxy` | the blob cache: each request a process, each step one system call, lock or exchange |
| `BlobStore` | what the blob cache promises, without its machinery |
| `BlobProxyProofs` | the inductive invariant of `BlobProxy`, what follows from it, and the refinement |
| `BlobDirProofs` | names before blobs, the listing, what a crash leaves behind, and liveness up to ENABLED |
| `MCBlobProxy` | small sets for TLC |
| `PullRelease` | one run of pull-release against a proxy that other clients use too |
| `Flights` | what the map that warmers share promises, without images, channels or the proxy |
| `PullReleaseProofs` | exclusive fetches, and marks that are earned |
| `PassProofs` | the types of a run, what its report rests on, and that `PullRelease` implements `Flights` |
| `MCPullRelease` | a release of two images that share blobs |
| `Fleet` | up, down, gc, export, import and print-registries as processes on one runtime |
| `FleetProofs` | types, discovered ports, and what up, gc and purge achieve when they are alone |
| `MCFleet` | which commands run beside each other |
| `Transfer` | export of one host, the bundle, import on a second host, serving caches beside both |
| `TransferProofs` | the inductive invariant of `Transfer` and five properties |
| `MCTransfer` | three files in two caches |
| `Registry` | a pull-through registry cache as the clients use it, and a gc of it (external) |
| `Pull` | pull: image after image over a client with one bearer token |
| `Coverage` | the two readers of the store, releaseCoverage and missingOnDisk |
| `Listing` | `list --objects` of a registry cache |
| `Inventory` | the composition of the last four on one cache |
| `Stock` | what a cache promises to those who share it, without manifests, links or tokens |
| `InventoryProofs` | the inductive invariant of `Inventory`, and what its readers may rely on |
| `CalmProofs` | what a pull achieves while nothing goes wrong, what a quiet reading counts and lists, and that `Inventory` implements `Stock` |
| `MCInventory` | a release with three payload images |

### BlobProxy

A `Handler` is a slot for a request; `pc` is where its goroutine is. `blobs` and `temps` are the files
under `blobs/`, `sidecar` the files under `repos/` and `tags/`, `mu` the mutex. A blob's bytes are a
`Content`: a number of chunks and whether they are the right ones, so a digest matches exactly when
the content is `Whole`. The steps are the code's: `RecordRead` and `RecordAppend` (lock, read, append,
unlock), `Stat`, `Open`, `SendHit`, `AskUpstream`, `FollowRedirect`, `CreateTemp`, one `CopyChunk` per
turn of `io.Copy`, `Verify`, `Commit`, `RemoveTemp`; and `Crash`, after which the container restarts
on the same disk. `StatsInfo` reads one directory entry at a time. `Faults` says which failures occur.

What a handler writes goes into the server's buffer, and the rest of it is flushed after the handler has
returned; `reply.sent` is what was written, not what the client has got. `HangsUp` takes the client away
at any time until the blob is stored: the handler notices when a write fails (`CopyFails`), or never, when
all has been written or the writes still succeed (`CopyChunk` with a client that is `Gone`). So a blob may
be stored although its client has not got it, against the comment on `streamAndCache` (finding 6).

Abstractions: `recordRepo` and `recordTag` are one pair of actions on different files; appends are of
whole lines; the random suffix of a temp file does not come up again while a request still has the
name; a failing `os.Remove` is ignored, as in the code; the tags map of the listing is left out; the
disk keeps what was written, so power loss is not a crash.

### PullRelease

`main` is where `PullRelease` is, `wpc`/`img`/`at` where each worker is. An `Item` is what `seenKey`
names; `Plan` gives the items an image makes `warmImage` ask for, in order. `All` is the order in which the
feeder hands out images (the release first, which is not in its own payload), `sent` how far it has come,
`batch` the images of this pass, all of them or the missing ones. `seen` is the `sync.Map`:
`Claimed` is `LoadOrStore`, `Released` is `Delete`. The proxy is external, and as the comment in
`PullRelease` describes it: the first fetch of a blob stores it, a fetch beside another one is
streamed and not stored, and an abandoned fetch stores nothing (`ForeignStarts`, `ForeignEnds`).

Abstractions: the manifests of the release image are one step and each of its layers another; the
store is read in one step; an image of a host no cache serves (or the blob cache does) is `Unserved`;
an index with no child of the platform is `Childless`; the pause before a re-warm round is left out.

`Flights` is what `pullClient.seen` is for: one fetches, the others pass the blob by, a failed fetch
leaves it to the next, and a re-warm round starts with an empty map. `ImplementsFlights` maps a marked blob
that no worker is fetching to one that has `landed`. That `seen` is marked before the fetch (`pull.go:313`) and
unmarked after a failure (`pull.go:319`), two steps apart, is what has to be shown harmless.

### Fleet

Each invocation is a `Proc`; a step is one call of the runtime's command line. `Call` gives a call its
three outcomes: done; not made, under a cancelled context; and interrupted, where SIGINT kills the command
line and the runtime has done what it was asked or has not. The container runtime is external: `Starts`,
`Creates`, `Stops`, `Removes`, `Mounts` say what its commands do, a published port excludes another, and a
helper container may outlive the command line that waits for it. `GcRestart` runs under a context of its
own, as the deferred start does, but a SIGINT typed at the terminal reaches its command line as well, as
both are in one process group. A command line that is left when regcachectl is killed may reach the
runtime later than the next command does; the model lets it act at the kill or not at all. Queries whose
answer nothing later depends on (the image of a container, its drift, the helper image) are left out.
`alone` and, for gc, `found` record history for the properties.

### Transfer

A `File` is a blob in the volume of one cache of a host; it is absent, there in part, or whole. The caches
are external: they fetch what is missing and rename it into place (`BlobStore` says that of the blob
cache), and never fetch what is there. Export asks for the volumes (a query that fails counts as no
volume, as in `volumeExists`; `unseen` remembers them), gets its helper, creates the bundle, and tar packs
file by file, also files that appear meanwhile. Import takes the bundle of any export command that is
over, makes the volumes, and has tar replace file by file: remove, create exclusively, write. A cache may
store the file between the first two, and tar fails; or rename its own over the one being written, which
`mine` remembers. What is copied to the other host is the bundle as it lies there then, also the part that
a killed export left.

Each import starts a tar of its own (`Tar`, with `tar`, `todo`, `ends`, `cur` and `mine` for each): a
process in a helper container, whose input is the bundle that the runtime's command line has inherited
(`transfer.go:118-121`). `ImportReturns` waits for it. `ImportInterrupted` kills the command line, and tar
goes on with what it has been passed, or breaks off sooner or later (`Breaks`). `ImportKilled` leaves both
at work, and tar may unpack all of it. So the next import may have the tars of earlier ones beside it,
which `orphans` remembers: each removes and writes the other's files. Likewise the tar of a killed export
goes on packing.

Abstractions: contents are a matter of there, part or whole, as names are digests; tags, links and the
blob cache's sidecars, where the last writer wins (`transfer.go:70-71`), are not files here; tar fails
when a temp file it has seen is renamed, which is `PackingFails`; a write of tar to a file is one step, after
which it is whole.

### Registry, Pull, Coverage, Listing, Inventory

`Registry` is the cache: `data` are the digests on disk, `linked` what each repository links, `tagged`
the images whose tag is on disk. A digest is answered from disk only where it is linked, a tag is
resolved upstream every time, and the blob cache (`Relayed`) keeps blobs and relays manifests. `Sweep`
deletes what no linked manifest lists, which is gc's default, and gc stops the cache around it. Cached
content does not expire, as under the default `--proxy-ttl 0`.

`Pull` is `pullOne` in a loop and again after a failure. `todo` is what `warmImage` has yet to ask
for; `Gets`, `Challenged`, `Mints`, `RequestFails` are what one request can end in. Blobs are streamed
without being stored beside another fetch, or when storing them times out (`"stream"` of `Faults`).

`Coverage` takes a step per exec or request: the blobs when the store is opened (`snap`), the links of a
repository when first asked for (`links`, also when the exec fails: then none), the manifests through the
cache; a child for another platform is passed over (`Skips`). `reader` says whether it is
`releaseCoverage`, which reads the list out of the release image, or `missingOnDisk`, which is given it.
`Listing` is `fillRegistry2` and `primaryRevisions`. The catalog names `Page` repositories, any of those
there are, and the next page is not asked for (`list.go:79`). `Mentions` are the manifests in whose
content the text of an index's type occurs (`list.go:128`): an OCI index need not have it, and a manifest
that is not an index may. `LooksInto` goes by `Mentions`, what is an index by `Index`. `rcalm` and `lcalm`
remember whether the store changed while it was read, `pcalm` whether anything went wrong in the pull.

`Inventory` interleaves them on one cache. `list` and `list --okd-release` exclude each other there,
as they share nothing but the cache. An index within an index is excluded by `RegistryAssumption`: the
specification of registries allows it, and `blobsOnDisk` would take the inner one for a manifest
without blobs.

`Stock` forgets all of that: images are whole, complete for the platform asked for, or neither; readers
tell, a pull brings. `ImplementsStock` says that no interleaving of pull, gc and readers does more than gain,
tell what is so, or bring what was asked for. It is the promise that makes looking into a cache in use
meaningful, and repeating a pull that broke off.

## Runs

| Run | Checks | What it shows |
|---|---|---|
| `proxy_safety` | `TypeOK` `StoreVerified` `HitWhole` `SidecarDeduped` `OnlyCrashesOrphan` `CachedWasDelivered` `ImplementsStore` | every fault at once, two requests, a crash: only whole, right blobs are stored or served as a HIT, each when it has been written to a client in full, only a crash leaves temp files, and the handlers implement `BlobStore` |
| `proxy_hangup` | `HangUpLeavesCache` (violated) | a client that hangs up when all has been written is not noticed, and the blob is stored |
| `proxy_live` | `StoredIsNamed` `StatsWhole` `NobodyIsStuck` `NotesDoNotWait` `HitNeedsNoUpstream` `VerifiedIsCached` | no handler is without a step that fairness promises it; a hung upstream or a client that does not read holds up nothing but its own request; the unlocked listing has whole blobs, and each has a name |
| `pull_run` | `TypeOK` `OneFetcher` `OkIsServed` `CalmPassStores` `AllResultsIn` `Terminates` `ImplementsFlights` | what the report says is so, whatever fails and whoever interferes; a blob is skipped only on a fetch that is under way or was answered; neither the pool nor the rounds block or go on for ever |
| `pull_count` | `CountWithinTotal` (violated) | "4 of 3 payload images" |
| `fleet_repair` | `TypeOK` `UpRepairs` `EndpointsTrue` `GcLosesAtMostOne` `GcSweepsStopped` `PurgedIsGone` | up recovers from what any two commands, interrupted or killed anywhere, leave behind; ports are discovered right whatever bases the ups used; a gc that is interrupted anywhere leaves at most one cache stopped, and by itself it sweeps stopped caches only; a purge deletes the volumes unless a helper that was left has one |
| `fleet_gc_beside_up` | `GcAlone` (violated) | up starts the cache gc has stopped |
| `fleet_gc_interrupted` | `GcRestarts` (violated) | SIGINT during the stop leaves the cache stopped |
| `fleet_ports` | `EndpointsDistinct` (violated) | two upstreams with one endpoint |
| `transfer_run` | `TypeOK` `NoPartialBundle` `RoundTrip` `ImportIsUnion` `LosesAtMostOne` | an export and two imports with every fault, beside serving caches, the second import also beside the tar that the first has left: a bundle is whole or gone; what the volumes held that export could ask for arrives; what an import misses when it says that it is done is at most where the other tar is; each tar costs at most one file |
| `transfer_clobber` | `KeepsBlobs` (violated) | an interrupted import damages a file that was there |
| `inventory` | `TypeOK` `CalmPullSucceeds` `FullIsStored` `CalmCountIsExact` `ReadsAreLocal` `CalmListIsTrue` `PullReturns` `ImplementsStock` | a failed pull can be repeated and then completes; an image counted as full is on disk, though the look is of several moments beside pulls and gc; readers fetch nothing; nothing takes an image that is there; a pull returns however tokens expire |

**Bounds.** Two requests are what every hazard of the proxy needs: two misses of one digest, a HIT beside
a commit, two appends to one sidecar; three temp names are a file of each and one left by a crash; a body
of two chunks can be cut, wrong at either place or too long; one crash with both requests in flight leaves
the most orphans. The proofs remove these bounds. For pull-release two workers and two images that share
two blobs in opposite order give each way of skipping a blob under way; one foreign fetch is enough to
leave a blob unstored in a pass, and the two re-warm rounds are the code's. The fleet has two caches, both
of which gc stops, so that it could lose both, and at most three commands: two that leave something behind
and one that is judged; `fleet_ports` has three caches, one of them the blob cache without its image,
which up skips. Handlers and temp names are symmetric in `proxy_safety`; the others have no symmetry.
`pull_run` has only images that a cache serves; those that none serves (`Unserved`) and indexes without
the platform (`Childless`) occur in `pull_count`.

Transfer has a cache with two files and one with one, so that a bundle can overwrite, add, and leave
alone. `transfer_run` has two imports, so that one can run beside the tar of another, and one fetch of a
cache, which races with either tar. The proofs remove these bounds, and have any number of both. Inventory
has a release by tag and by digest, an image by digest that another image has as a child in another
repository, an index of a private repository by tag with a child for another platform, an image at the
blob cache, and a blob left over: each way for a digest to be on disk and not to count. A page of the
catalog is one repository there, so that the page matters, and one of two indexes says its type. A pull, a
reader and a gc at once, gc any number of times.

**Fairness.** `BlobProxy!FairSpec` lets each handler take its local steps (goroutines are scheduled) and,
strongly, get the mutex (Go's `sync.Mutex` hands over to a waiter it has starved). Nothing is assumed of
the network, neither of the upstream nor of the clients, as the code sets no timeout on either side: what
needs them (`Remote`: the relay of a manifest and each write to a client among it) is not fair, so that
`HitNeedsNoUpstream` ends where the bytes of the blob are sent, and `NobodyIsStuck` speaks of the other
places. That `Appends`, the steps of whoever has the mutex, go on follows from the fairness of each
handler; it is a conjunct of its own because the proofs need it of whichever handler it is.
`PullRelease!FairSpec` says that the program as a whole goes on: its goroutines run and each request to
the cache on localhost is answered or fails; nothing is assumed of other clients. `Inventory!FairSpec`
says the same of a pull (`WF` on `PullStep`), and nothing of the readers, of gc or of tokens, which may
expire before each use: `PullReturns` holds because a manifest is asked for twice at most.

**Deadlock** is checked for the proxy. The commands are programs that end, so
the other runs do not check it; `Terminates` and `AllResultsIn` say that the pool ends as it should,
`PullReturns` that a pull does.

## Findings

1. `pull-release` counts the release image among the failures but not in the total (`release.go:124`).
2. `up` beside `gc` starts the cache that is being swept (`cache.go:271`).
3. `gc` interrupted during `stop` returns before its deferred start exists (`cache.go:471`).
4. With some containers absent, a default port may be another cache's discovered one
   (`cache.go:152`): `up --port-base 5001` without the blob-cache image puts quay on 5003, which
   `print-registries` then gives for repo.f5.com too.

5. An `import` that is interrupted, or whose helper fails, leaves the file that tar was at missing or
   cut short (`transfer.go:95`), where the comment promises not to clobber blobs. The blob cache then
   serves the cut file as a HIT, as it never looks at a stored blob again; running the import again
   repairs it (`ImportIsUnion`, when no tar is left at work).
6. A client that hangs up when its last bytes are written, but not yet flushed, leaves the blob cached
   (`blobcache.go:294`, `303`), where the comment says that it leaves the cache untouched. The blob is the right one
   all the same (`StoreVerified`).
More behaviours are known and not stated as properties:

- The listing names repositories that a blob was only asked for under (`blobcache.go:201`).
- A killed `import` leaves its tar at work (`transfer.go:118`), and the next one can say that it is done while that
  tar has removed a file to write it anew: "the unpack is a safe union" but for that file (`OrphanAt`).
- `export` leaves out a volume that it could not ask for and succeeds (`transfer.go:131`): `unseen`.
- `down --purge` says "volume purged" whatever `volume rm` answers (`cache.go:374`), for example while the
  helper of a killed export still has the volume: `LeavesHelper`.
- An interrupted `gc` starts its cache again (`cache.go:474`) although the helper whose command line was killed may still
  sweep: `GcSweepsStopped` leaves interrupts out.
- `list` reads one page of a cache's catalog (`list.go:79`); the registry's default page is 100 repositories.
- `list` takes a manifest for an index by the text of its type (`list.go:128`), which an OCI index need not have;
  it is then listed with its children: `Told`.
- An `up` on another port base, after one that was interrupted, can meet a port of a cache of the
  first base and then fails however often it is repeated; `UpRepairs` leaves such conflicts out.
- `export` truncates the bundle that was there before it has packed anything (`transfer.go:48`).
- A blob's 401 is an error (`pull.go:342`). A private image pulled by digest whose manifests are on disk and one of
  whose blobs is not fails each time: the manifests are answered without a challenge, so no
  token is minted. `Challengeable` leaves such images out of `CalmPullSucceeds`.
- `list --okd-release` never counts a payload image by tag (`coverage.go:110`), the verification does.
- `list` of a repository with a tag hides what was pulled from it by digest, and `primaryRevisions`
  hides a single-platform image beside an index (`list.go:132`).
- `gc --delete-untagged` beside a reader can make its counts too high: the view is from before.
  The default gc cannot, as it keeps what a manifest lists (`FullIsStored`).

## Proofs

All proofs are for every value of the constants that satisfies the named assumptions
(`ProxyAssumption`, `FiniteHandlers`, `PullRelease!PullAssumption`, `FleetAssumption`, `TransferAssumption`,
and for the inventory
`RegistryAssumption`, `Pull!PullAssumption`, `CoverageAssumption`); TLC evaluates these in each run.

**BlobProxyProofs.** `StoreVerified` is not inductive: that a rename is right depends on the temp file
holding what was hashed. `ProxyInv` adds the link: each handler's request fits its place (`ReqInPlace`), a temp
file has one writer and holds what that writer has hashed, and is `Whole` before the rename
(`TempsInPlace`), a HIT under way is of a stored blob (`HitsInPlace`), and the handler about to append
has the lock and its line is not there (`LockInPlace`). One lemma per action shows that it is kept;
`ProxyInvariant` gives `TypeCorrect`, `StoreIsVerified`, `HitsAreWhole` and `SidecarsDeduped`,
and with it `BlobsStay` (an action property: what is stored is never removed or changed; the run
`proxy_safety` has it as part of `ImplementsStore`). `ProxyImplementsStore` maps each step to a step of
`BlobStore` or to a stutter: arrivals to `Ask`, `Open` to `Hit`, `Commit` to `Fill`, whatever ends a request to
`Done`, a crash to `Restart`.

**BlobDirProofs** goes on from `ProxyInv`. `NamedInv`: a request that is on its way to a blob has noted a
name for it, and lines are only added (`LinesStay`); hence `CachedIsNamed`, for a disk that takes the
lines. `ListedInv`: what a listing has read and what it has yet to look at is stored, and stored blobs
stay; hence `ListingIsWhole`, though the listing takes no lock. `OrphanInv` counts the temp files without
a writer: only `Crash` adds to them, and not more than there are requests, as each has one temp file (a
surjection from the requests); hence `LeftoversAreOfCrashes`, which needs finitely many requests at a time
(`FiniteHandlers`). `DeliveredInv`: the reply of a request about to rename says MISS and is the whole
blob; hence `CachedIsDelivered`, an action property: what is stored has just been written in full to a
client, which has it or gets it yet unless it has hung up.

`HandlersGoOn` is what of `NobodyIsStuck` can be said without ENABLED, and needs no hypothesis: a note waits for
the mutex only while another handler is about to append and give it back, and what the next step of
a handler needs is there: the blob that Stat found, the temp file to be renamed, which is nobody else's, the
entry that the listing has yet to size. Each other place has a step whose guard is the place alone.

The three liveness properties of the proxy are proved up to ENABLED, which the prover cannot expand:
fairness speaks of
steps that are enabled, so that they are is a hypothesis, `[]NobodyIsStuck`, and the run `proxy_live` checks it
(a mutex that is not given back breaks it). `NotesAreMade`: the mutex is freed by the handler that has it
(`LockIsFreed`), so it is free again and again, and strong fairness gives it to each one that waits.
`HitsAreSent` and `VerifiedBlobsAreCached` lead from place to place by local steps; a blob that was
found stays (`BlobsStay`), and so does the body that was hashed.

**PullReleaseProofs.** `PoolInv` says that what a worker fetches is marked, and that no worker runs
while the release image is read; without it neither property below is inductive. `Claims` states the
relation between fetches, marks and answers for any function from workers to items, so that its two
lemmas (a worker claims and fetches; a fetch ends) carry all the steps. From these `FetchedByOne` and
`SkippedIsServed`. That a verified success is of a release on disk is the guard of `VerifyEnds`, and no theorem.

**PassProofs** builds on these. `RunTypes` is the types, and at which places a worker has an image and where
in its plan it is: without the places even `TypeOK` is not inductive. `HandsInv` follows the images of a pass:
each that was handed out has one worker or one result and not both, since `All` repeats nothing. Hence
`NoResultIsLost`, and a result is never overwritten. `ServedInv` is about what a skip relies on: while no
image of the pass has failed, each item that a worker is past, or that an `ok` image needs, is served or
under way at another worker (`Got`), so that when the pass is over and no worker is left it is served; an
image outside the batch of a re-warm was found on disk before. Hence `UnverifiedIsEarned`. `CalmInv` says
the same of the store for a pass with no other client, in which each fetch stores or is a hit; hence
`CalmPassesStore`. `Progress` relates marks, fetches and what there is for any set that only grows, so that
its lemmas serve what is served and what is stored. `RunInvariant` has one step per action.

`CountInv` adds that only images of this run are counted (`ImagesInAll`: a surjection from the places in
`All`); hence `FailuresAreCounted`, what is left of `CountWithinTotal`: the count is too high by one at
most, and 0 only when nothing failed. `Terminates` is proved in two halves. `RunsAreFinite`: each step of
the run goes up in an order of rounds, stages, places in the plans and places of the workers, each of them
bounded, and other clients never set it back. `RunsDoNotStick`: no worker leaves while images are handed
out, so each send has a worker to take it or one that is busy, and somebody is always at a step whose
guard holds. That a fair run therefore ends is induction over that order under `[]`, and ENABLED, and
stays with TLC.

`PoolImplementsFlights` maps each step of a run to one of `Flights` or to a stutter. A claim is `Starts`,
because what a worker fetches is marked, so an unmarked blob is nobody's (`PoolInv`); an answer is `Lands` and
a failure `Fails` for this worker alone, because no other fetches the same (`OneFetcher`); what the main
goroutine reads and the new map of a round (`Reads`, `Anew`) find no worker at a fetch, which is why the pool
must be gone first. `FlightStands` is the stutter, `WorkerFlight` and `MainFlight` have a case per action.
That what is passed by was served follows in `PullReleaseProofs` (`SkippedIsServed`).

**FleetProofs.** What a command achieves depends on what it finds, which any commands before it may have
left, so the properties are about commands that run alone; `AloneStep` says that nothing but its own steps
changes the fleet under such a command. `FleetInv` has the types and places (`PlaceInv`), that commands
that are over hold nothing (`RestInv`), when a command is alone (`AloneInv`) and that running containers
have distinct ports (`PortsInv`): the port of a cache that gc has stopped is still free when gc starts it
again. On top of it stand one invariant per command. `LookInv`: the ports discovered so far are the
containers', hence `EndpointsAreTrue` and, as running containers have distinct ports,
`EndpointsOfRunningDiffer`: what holds of `EndpointsDistinct`, so only a cache that does not run can be
given another's endpoint. `UpAt`: the caches that up has passed are up (`Brought`) unless two are left
with one port (`Conflict`), hence `UpRepairsFleet`. `GcAt`: only the cache gc is at may be stopped by it,
hence `GcLosesOneOnly`, for a gc that is interrupted anywhere, and `GcStartsAgain`, without interrupts.
`SweepAt`: the cache being swept does not serve, hence `GcSweepsStoppedCaches` for a gc that is alone, and
`GcSweepsAlone` beside other commands under `SingleGc`: one gc, no up, no interrupt. `HelperAt`: a helper
outlives only a command that was killed or interrupted. `PurgeAt`: the volumes passed are gone, hence
`PurgeDeletes`, unless such a command came before, whose helper may have one. The violating runs
`fleet_gc_beside_up` and `fleet_gc_interrupted` show that the hypotheses about up and interrupts are
needed.

**TransferProofs.** None of the properties is inductive: that a finished import is complete depends on
each file it has passed, on the file it is at, and on what the tars of earlier imports are doing to the
same files. `Holds` says that a tar answers for a file: it has removed it and has not made it whole again,
and nobody else has taken its name since (`mine`). `ImportInv` says that whatever was there when the
import began, and whatever its tar has passed, is whole or held by a tar that was at work since (`Since`:
the import's own or an orphan); `TarInv` where each tar is, and that it has at most one file (`cur`);
`ExportInv` that the bundle is whole or none until tar begins; `FillInv` that caches fetch into volumes
that exist, which the type invariant needs. `CacheStep`, `ExportStep`, `ImportStep` and `TarStep` carry
the parts through the steps of the four kinds of actors; `TransferInvariant` gives `TransferTypes`,
`NoPartOfABundle`, `ImportsAreUnions` (the import's own tar is over then, and holds nothing) and
`AtMostOneIsLost` (each missing file is the one that a tar of these is at, and each tar is at one).
`PackInv` adds that what an export is about is packed or still to be packed, or of a volume that could not
be asked for, whatever imports and caches do, hence with `ImportInv` `BundlesArriveWhole`. The two
exceptions, `OrphanAt` and `unseen`, are the code's: without them the code breaks both properties.

**InventoryProofs.** A reader looks at the blobs first, at links later and at manifests last, while pulls
store and gc deletes; that what it has put together is true in the end rests on one fact about the
store, `LinkedInv`: each manifest on disk is linked somewhere, so gc keeps it and what it lists. `StoreStep`
is all that any actor does to the store: it links something new, or it takes what no linked manifest lists
(`StoreIsKept`, `FullStays`: an image that is all there stays all there). About the reader, `SnapInv` and
`LinksInv` say that a manifest it saw is still there with whatever it lists that was seen too, and that
the links it remembers still exist, `PlaceInv` where it is,
`CheckInv` that what it has yet to look for comes from manifests it has found, `ReadInv` that what it is
about to read is linked, hence `ReadsAreLocal`, and `ImageInv` that each thing its image needs has been
found or is still to be looked for (`Accounted`), so that an empty list means all of it, hence
`FullIsStored`. There is a lemma for each step of the reader, and `ViewBeside` for what others do
meanwhile. `ReleasePath` must list layers after the manifest they belong to, as
`CoverageAssumption` says and the code does.

**CalmProofs** goes on from `InventoryInv` to what a pull achieves. `Held` is what the store has and no gc
takes: something linked that is a manifest, or that a manifest on disk lists, or that is the blob cache's.
`WarmInv`: each part of an image is held or is still to be asked for (`GotOrAwaited`), and a blob is asked
for after the manifest that lists it was stored (`Grounded`), without which a gc between two requests
could take it; hence `PulledImagesAreWhole`. `TokenInv`: while nothing goes wrong a request that needs a
token has one, or is a manifest asked for the first time; hence `CalmPullsSucceed`. About the readers,
`CountInv`: while nothing happens each verdict so far is the right one (`Right`), and only what the image
needs is looked for (`Needing`), so that the first thing that is not there settles it; hence
`CalmCountsAreExact`. Two results are about steps. `WholeImagesStay`: no step of a pull, a reader or gc
takes anything from an image that is whole on disk. `PullsAreFinite`: each step of a pull goes down in an
order of images left, indexes, manifests and items still to get, and tries at one (`PullGoesOn`), and no
other step but the start of a new pull changes these: the part of `PullReturns` that is not about
fairness. `ListInv`: a repository that the catalog names is still to be listed, or its lines are there,
and none for a child of an index where the indexes can be told (`Told`); it rests on `StoredInv` (a linked
manifest is on disk) and `TagInv` (a tag comes with a link); hence `CalmListsAreTrue`. That nothing of the
blob cache's repositories is warm is assumed (`RegistryAssumption`), as it relays manifests.

`CacheImplementsStock` puts these together: a change of the store is `Gain`, as it takes nothing of an
image that is there in all its platforms (`ImagesStay`) or for the one asked for (`StoreStep`); a reader's
verdict is `Tell` only of an image that is complete, which is `FullIsStored` after the step
(`ReaderJudges`), and of a store that the reader does not change; the end of a calm pull is `Bring`, by
`PulledIsWhole` after it (`PullBrings`). No two parts of the state change in one step, so that each
concrete step is one abstract step.

**What stays with TLC.** Every safety property that a passing run checks is proved, and all three
refinements (`ImplementsStore`, `ImplementsFlights`, `ImplementsStock`), but for `NobodyIsStuck`, which is
about ENABLED; `HandlersGoOn` is its part without. Of liveness, the three properties of the proxy are
proved from it. `Terminates` and `PullReturns` are only model-checked, as they need induction over a
well-founded order under `[]`: of them the theorems about single steps above can be proved. Induction over
data is beyond the prover too; the modules with theorems use no RECURSIVE operator.

## Not modelled, and the plan

- Formatting, logging, argument parsing, the systemd unit: no state.
- Power loss: the blob cache renames data that it never synced; the model's disk keeps what was
  written. It would need a model of the filesystem that the repository says nothing about.
- The tags map of the blob cache's listing and `fillBlobcache`, which groups the answer under names:
  a pure rendering of what `BlobProxy` has.
- `registries.go` renders text from the engine's ports; `Fleet` has the ports.
- Parsing (refs, challenges, manifests, the list of a release), and a cache whose content expires
  (`--proxy-ttl` other than 0).
- Next: gc of a registry cache beside pull-release with several workers. The composition `Inventory` has one
  sequential pull.
