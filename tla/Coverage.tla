------------------------------ MODULE Coverage ------------------------------
(***************************************************************************)
(* The two readers of a registry cache's store (internal/cache/coverage.go *)
(* and missingOnDisk in release.go): releaseCoverage, which is             *)
(* `list --okd-release`, and the verification of pull-release.  They look  *)
(* at the store by exec while the cache serves: the blobs once, when it is *)
(* opened, the links of a repository when one is first needed, a manifest  *)
(* through the cache.                                                      *)
(***************************************************************************)
EXTENDS Registry

CONSTANTS
    Release,      \* the release image
    ReleasePath,  \* what is read of it below its topmost manifest, down to the list
    Payload,      \* the images on that list, a sequence
    Matching,     \* the children that are for the platform asked for
    Unread

ASSUME CoverageAssumption ==
    /\ Release \in Image /\ ReleasePath \in Seq(Item)
    /\ \A k \in DOMAIN ReleasePath :   \* its layers are those of a manifest read before
        \/ ReleasePath[k] \in Manifest \cup Listed(Top[Release])
        \/ \E j \in 1 .. k - 1 : ReleasePath[j] \in Manifest /\ ReleasePath[k] \in Listed(ReleasePath[j])
    /\ Payload \in Seq(Image)
    /\ Matching \subseteq Manifest

VARIABLES
    reader,     \* which of the two it is
    rpc,        \* where it is
    snap,       \* the view: the digests on disk when it was opened
    links,      \* repository -> the blobs and manifests it links, or Unread
    nthImage,   \* its place in the images; 0 while the release is read
    check,      \* what it has yet to look for, in order
    counted,    \* image -> what it was counted as
    rsays,      \* how it ended
    wentUp,     \* something it read was not on disk
    rcalm       \* the store has not changed, and no exec failed, since it began

coverageVars == <<reader, rpc, snap, links, nthImage, check, counted, rsays, wentUp>>

Counts == {"none", "full", "manifest", "missing", "elsewhere"}
Images == IF reader = "verify" THEN <<Release>> \o Payload ELSE Payload

CoverageTypeOK ==
    /\ reader \in {"coverage", "verify"}
    /\ rpc \in {"idle", "open", "release", "image", "tag", "has", "read", "done"}
    /\ snap \in SUBSET Item
    /\ links \in [Repo -> [m : (SUBSET Manifest) \cup {Unread}, b : (SUBSET Blob) \cup {Unread}]]
    /\ nthImage \in 0 .. Len(Payload) + 2
    /\ check \in Seq(Item)
    /\ rpc = "read" => check # <<>> /\ Head(check) \in snap
    /\ counted \in [Image -> Counts]
    /\ rsays \in {"none", "ok", "error"}
    /\ wentUp \in BOOLEAN /\ rcalm \in BOOLEAN

NothingRead == [r \in Repo |-> [m |-> Unread, b |-> Unread]]

CoverageInit ==
    /\ reader = "coverage" /\ rpc = "idle"
    /\ snap = {} /\ links = NothingRead
    /\ nthImage = 0 /\ check = <<>>
    /\ counted = [i \in Image |-> "none"]
    /\ rsays = "none" /\ wentUp = FALSE /\ rcalm = FALSE

-----------------------------------------------------------------------------
ReaderEnds(how) == rpc' = "done" /\ rsays' = how
ExecFails == state # "up" \/ "exec" \in Faults

ReaderBegins(which) ==
    /\ rpc = "idle"
    /\ reader' = which /\ rpc' = "open"
    /\ rcalm' = TRUE
    /\ UNCHANGED <<snap, links, nthImage, check, counted, rsays, wentUp, registryVars>>

\* openStore: the container runs and its blobs can be listed.
Opens ==
    /\ rpc = "open"
    /\ \/ /\ state = "up" /\ snap' = data /\ UNCHANGED <<rsays, rcalm>>
          /\ rpc' = IF reader = "coverage" THEN "release" ELSE "image"
          /\ nthImage' = IF reader = "coverage" THEN 0 ELSE 1
       \/ ExecFails /\ ReaderEnds("error") /\ rcalm' = FALSE /\ UNCHANGED <<snap, nthImage>>
    /\ UNCHANGED <<reader, links, check, counted, wentUp, registryVars>>

\* releaseCoverage reads the list out of the release image.
ResolvesRelease ==
    /\ rpc = "release"
    /\ \/ /\ Release \in ByTag => state = "up" /\ Release \in tagged
          /\ rpc' = "has" /\ check' = <<Top[Release]>> \o ReleasePath
          /\ UNCHANGED <<rsays, rcalm>>
       \/ /\ Release \in ByTag
          /\ ExecFails \/ Release \notin tagged
          /\ ReaderEnds("error") /\ UNCHANGED check
          /\ rcalm' = (rcalm /\ state = "up" /\ Release \notin tagged)
    /\ UNCHANGED <<reader, snap, links, nthImage, counted, wentUp, registryVars>>

\* On to the next image; a tag is resolved by the verification only.
NextImage ==
    /\ rpc = "image"
    /\ IF nthImage > Len(Images)
       THEN ReaderEnds("ok") /\ snap' = {} /\ links' = NothingRead /\ check' = <<>> /\ UNCHANGED <<nthImage, counted>>
       ELSE LET i == Images[nthImage]
                Skipped(as) == /\ counted' = [counted EXCEPT ![i] = as]
                               /\ nthImage' = nthImage + 1
                               /\ UNCHANGED <<rpc, check>>
                Looked(at) == /\ rpc' = at /\ check' = <<Top[i]>>
                              /\ UNCHANGED <<nthImage, counted>>
            IN /\ IF RepoOf[i] \in Relayed THEN Skipped(IF reader = "coverage" THEN "elsewhere" ELSE "missing")
                  ELSE IF i \notin ByTag THEN Looked("has")
                  ELSE IF reader = "coverage" THEN Skipped("missing") ELSE Looked("tag")
               /\ UNCHANGED <<snap, links, rsays>>
    /\ UNCHANGED <<reader, wentUp, rcalm, registryVars>>

Looking == IF nthImage = 0 THEN Release ELSE Images[nthImage]
At == RepoOf[Looking]

\* imageOnDisk returns, or the reading of the release image fails.
Judged(as) ==
    IF nthImage = 0 THEN ReaderEnds("error") /\ UNCHANGED <<nthImage, counted>>
    ELSE /\ counted' = [counted EXCEPT ![Looking] = as]
         /\ nthImage' = nthImage + 1
         /\ rpc' = "image"
         /\ UNCHANGED rsays

\* tagDigest, in missingOnDisk
ResolvesTag ==
    /\ rpc = "tag"
    /\ \/ state = "up" /\ Looking \in tagged /\ rpc' = "has" /\ UNCHANGED <<nthImage, counted, rsays, rcalm>>
       \/ Looking \notin tagged /\ Judged("missing") /\ UNCHANGED rcalm
       \/ ExecFails /\ Judged("missing") /\ rcalm' = FALSE
    /\ UNCHANGED <<reader, snap, links, check, wentUp, registryVars>>

\* links: what of the digests' kind the repository links, listed once; an exec
\* that fails counts as an empty list.
Known(d) == IF d \in Manifest THEN links[At].m ELSE links[At].b
Truly(d) == linked[At] \cap (IF d \in Manifest THEN Manifest ELSE Blob)
LinkedThere(d) ==
    IF Known(d) # Unread THEN {Known(d)}
    ELSE (IF state = "up" THEN {Truly(d)} ELSE {}) \cup (IF ExecFails THEN {{}} ELSE {})

\* What imageOnDisk goes through after manifest m: the children, or the config
\* and layers.
\* (Variants: it trusts the index; a layer counts that only another repository
\* links.)
IndexIsEnough(m) == IF m \in Index THEN <<>> ELSE Lists[m]
Needed(m) == Lists[m]
StoredAnywhere(d, there) == d \in snap
StoredHere(d, there) == d \in snap /\ d \in there

\* Goes on with rest: a release is read to its end, an image is full.
GoesOn(rest) ==
    /\ check' = rest
    /\ IF rest # <<>> THEN rpc' = "has" /\ UNCHANGED <<nthImage, counted, rsays>>
       ELSE IF nthImage = 0 THEN rpc' = "image" /\ nthImage' = 1 /\ UNCHANGED <<counted, rsays>>
       ELSE Judged("full")

\* A child for another platform is passed over.
OtherPlatform == nthImage # 0 /\ Head(check) \in Manifest \ (Matching \cup {Top[Looking]})

Skips ==
    /\ rpc = "has" /\ OtherPlatform
    /\ GoesOn(Tail(check))
    /\ UNCHANGED <<reader, snap, links, wentUp, rcalm, registryVars>>

\* hasManifest, hasBlob
Has ==
    /\ rpc = "has" /\ ~OtherPlatform
    /\ LET d == Head(check)
           first == nthImage # 0 /\ d = Top[Looking]
       IN \E there \in IF d \in snap THEN LinkedThere(d) ELSE {{}} :
            /\ links' = IF d \notin snap THEN links
                        ELSE IF d \in Manifest THEN [links EXCEPT ![At].m = there]
                        ELSE [links EXCEPT ![At].b = there]
            /\ rcalm' = (rcalm /\ (d \in snap => there = Truly(d)))
            /\ IF ~StoredHere(d, there)
               THEN Judged(IF first THEN "missing" ELSE "manifest") /\ UNCHANGED check
               ELSE IF d \in Manifest \/ nthImage = 0
               THEN rpc' = "read" /\ UNCHANGED <<nthImage, check, counted, rsays>>
               ELSE GoesOn(Tail(check))
    /\ UNCHANGED <<reader, snap, wentUp, registryVars>>

\* readManifest, openBlob: through the cache, which has it on disk or fetches it.
Reads ==
    /\ rpc = "read"
    /\ LET d == Head(check)
           local == Local(At, d)
       IN /\ wentUp' = (wentUp \/ ~local)
          /\ \/ /\ state = "up"
                /\ IF local THEN UNCHANGED <<data, linked>> ELSE Puts(At, d)
                /\ IF nthImage = 0 THEN GoesOn(Tail(check))
                   ELSE IF d \in Index /\ Listed(d) \cap Matching = {} THEN Judged("manifest") /\ UNCHANGED check
                   ELSE GoesOn(Needed(d) \o Tail(check))
                /\ UNCHANGED rcalm
             \/ /\ state # "up" \/ "fetch" \in Faults
                /\ Judged("manifest")
                /\ rcalm' = FALSE
                /\ UNCHANGED <<data, linked, check>>
    /\ UNCHANGED <<reader, snap, links, tagged, state>>

CoverageStep ==
    \/ ReaderBegins("coverage") \/ ReaderBegins("verify")
    \/ Opens \/ ResolvesRelease \/ NextImage \/ ResolvesTag \/ Skips \/ Has \/ Reads

-----------------------------------------------------------------------------
(* Properties *)

\* What an image consists of for the platform asked for
Needs == [i \in Image |->
    LET m == Top[i]
        children == Listed(m) \cap Matching
    IN IF m \in Index THEN {m} \cup children \cup UNION {Listed(c) : c \in children}
                      ELSE {m} \cup Listed(m)]
NeededOf(i) == Needs[i]

Complete(i) ==
    /\ NeededOf(i) \subseteq data /\ NeededOf(i) \subseteq linked[RepoOf[i]]
    /\ Top[i] \in Index => Listed(Top[i]) \cap Matching # {}

\* An image counted as full is completely on disk, although the view is old
\* when it is used: neither pulls nor a gc while it is read can make the count
\* too high, and it stays right afterwards.
FullIsStored == \A i \in Image : counted[i] = "full" => Complete(i)

\* When nothing happens while the store is read, both readers count exactly the
\* images that are there.  (list --okd-release never counts an image the list
\* names by tag.)
CalmCountIsExact ==
    rsays = "ok" /\ rcalm =>
        \A k \in DOMAIN Images : LET i == Images[k] IN
            RepoOf[i] \notin Relayed /\ (i \in ByTag => reader = "verify") =>
                counted[i] =
                    IF (i \in ByTag => i \in tagged) /\ Complete(i) THEN "full"
                    ELSE IF (i \in ByTag => i \in tagged) /\ Local(RepoOf[i], Top[i]) THEN "manifest"
                    ELSE "missing"

\* read* fetch "only what has* confirmed is on disk, so the proxy answers locally
\* and never goes upstream" (storeView), also beside a gc.
ReadsAreLocal == ~wentUp

(* What makes these true, inductively.  A manifest of the view is linked        *)
(* somewhere, so no gc takes it or what it lists; links once seen stay; and     *)
(* whatever is looked for below a manifest is looked for after it.              *)

Found(d) == d \in snap /\ d \in linked[At]

SnapInv ==
    \A m \in snap \cap Manifest : m \in data /\ Listed(m) \cap snap \subseteq data

LinksInv ==
    \A r \in Repo : /\ links[r].m # Unread => links[r].m \subseteq linked[r]
                    /\ links[r].b # Unread => links[r].b \subseteq linked[r]

\* The reader is at an image, and has something to look for there.
PlaceInv ==
    /\ rpc \in {"idle", "open", "release"} => nthImage = 0
    /\ rpc = "image" => nthImage \in 1 .. Len(Images) + 1
    /\ rpc = "tag" => nthImage # 0
    /\ rpc \in {"tag", "has", "read"} => nthImage <= Len(Images) /\ check # <<>>

\* Each blob it has yet to look for is listed by a manifest it has found or, in
\* the release image, looks for before.
Justified(q) ==
    \A k \in DOMAIN q :
        \/ q[k] \in Manifest
        \/ \E m \in Manifest :
            /\ q[k] \in Listed(m)
            /\ m \in snap \/ (nthImage = 0 /\ \E j \in 1 .. k - 1 : q[j] = m)

CheckInv == rpc \in {"tag", "has", "read"} => Justified(check)

ReadInv ==
    rpc = "read" => Found(Head(check)) /\ (nthImage # 0 => Head(check) \in Manifest)

\* Whatever belongs to the image has been found or is still to be looked for.
Pending(q, d) ==
    \E k \in DOMAIN q : d = q[k] \/ (q[k] \in Matching /\ d \in Listed(q[k]))

Accounted(q) ==
    /\ Top[Looking] \in Index => Listed(Top[Looking]) \cap Matching # {}
    /\ \A d \in NeededOf(Looking) : Found(d) \/ Pending(q, d)
    /\ \A k \in DOMAIN q : q[k] \notin Index

ImageInv ==
    rpc \in {"tag", "has", "read"} /\ nthImage # 0 =>
        check = <<Top[Looking]>> \/ (rpc # "tag" /\ Accounted(check))

ViewInv ==
    /\ SnapInv /\ LinksInv /\ PlaceInv /\ CheckInv /\ ReadInv /\ ImageInv
    /\ FullIsStored /\ ReadsAreLocal
=============================================================================
