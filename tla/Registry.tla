------------------------------ MODULE Registry ------------------------------
(***************************************************************************)
(* A pull-through registry cache, external, as the clients in pull.go,     *)
(* coverage.go and list.go use it: what it has on disk, what it answers    *)
(* from there, and a gc of it.  A digest is stored once and linked into    *)
(* each repository it was fetched through; it is answered from disk only   *)
(* in a repository that links it.  A tag is resolved upstream every time.  *)
(* The repositories in Relayed are the blob cache's, which keeps blobs     *)
(* and relays manifests.                                                   *)
(***************************************************************************)
EXTENDS Naturals, Sequences, FiniteSets

CONSTANTS
    Repo,
    Relayed,         \* repositories of the blob cache
    Private,         \* repositories whose upstream wants a token
    Manifest, Blob,
    Index,           \* the manifests that are indexes
    Lists,           \* manifest -> the children, or config and layers, it lists
    Image,
    RepoOf, Top,     \* image -> its repository, its topmost manifest
    ByTag,           \* images whose ref is a tag
    Warm,            \* sets of images that may be cached when it starts
    Orphans,         \* repository -> blobs left over in it
    Faults           \* "fetch", "exec", "stream", "expire", "gc"

Item == Manifest \cup Blob

ASSUME RegistryAssumption ==
    /\ Relayed \subseteq Repo /\ Private \subseteq Repo
    /\ Manifest \cap Blob = {} /\ Index \subseteq Manifest
    /\ Lists \in [Manifest -> Seq(Item)]
    /\ \A m \in Manifest : \A k \in DOMAIN Lists[m] :   \* no index is within an index
        Lists[m][k] \in (IF m \in Index THEN Manifest \ Index ELSE Blob)
    /\ RepoOf \in [Image -> Repo] /\ Top \in [Image -> Manifest]
    /\ ByTag \subseteq Image
    /\ Warm \subseteq SUBSET Image /\ Orphans \in [Repo -> SUBSET Blob]
    /\ \A warm \in Warm : \A i \in warm : RepoOf[i] \notin Relayed   \* whose manifests are relayed

VARIABLES
    data,    \* digests whose content is on disk
    linked,  \* repository -> digests it links
    tagged,  \* images by tag whose tag is on disk
    state    \* "up", or stopped by a gc: "stopped" before the sweep, "swept" after it

store == <<data, linked, tagged>>
registryVars == <<store, state>>

Listed(m) == {Lists[m][k] : k \in DOMAIN Lists[m]}

\* Everything an image of all platforms consists of
All(i) ==
    LET children == Listed(Top[i]) \cap Manifest
    IN {Top[i]} \cup Listed(Top[i]) \cup UNION {Listed(c) : c \in children}

Keeps(r, d) == ~(r \in Relayed /\ d \in Manifest)
Local(r, d) == d \in data /\ d \in linked[r]

RegistryTypeOK ==
    /\ data \in SUBSET Item
    /\ linked \in [Repo -> SUBSET Item]
    /\ tagged \in SUBSET ByTag
    /\ state \in {"up", "stopped", "swept"}

\* A manifest that is on disk is linked, so gc keeps it.
LinkedInv == data \cap Manifest \subseteq UNION {linked[r] : r \in Repo}

RegistryInit ==
    /\ \E warm \in Warm :
        /\ linked = [r \in Repo |-> Orphans[r] \cup UNION {All(i) : i \in {j \in warm : RepoOf[j] = r}}]
        /\ data = UNION {linked[r] : r \in Repo}
        /\ tagged = warm \cap ByTag
    /\ state = "up"

\* The cache stores d, fetched through r.
Puts(r, d) ==
    /\ data' = data \cup {d}
    /\ linked' = [linked EXCEPT ![r] = @ \cup {d}]

Serving(r) == r \in Relayed \/ state = "up"

\* gc, which by default keeps what a linked manifest lists, and which the blob
\* cache is spared.
Marked ==
    LET here == data \cap Manifest \cap UNION {linked[r] : r \in Repo}
    IN here \cup (UNION {Listed(m) : m \in here}) \cup (UNION {linked[r] : r \in Relayed})

Stop  == "gc" \in Faults /\ state = "up" /\ state' = "stopped" /\ UNCHANGED store
Sweep == state = "stopped" /\ state' = "swept" /\ data' = data \cap Marked /\ UNCHANGED <<linked, tagged>>
Start == state # "up" /\ state' = "up" /\ UNCHANGED store

Gc == Stop \/ Sweep \/ Start
=============================================================================
