-------------------------------- MODULE Pull --------------------------------
(***************************************************************************)
(* `pull` (internal/cache/pull.go): warm the cache with each image in      *)
(* turn, every platform of it, over a client of its own that holds one     *)
(* bearer token.  A 401 for a manifest makes the client mint a token and   *)
(* ask once more; a 401 for a blob is an error.  Tokens expire.  A pull    *)
(* that has failed may be repeated.                                        *)
(***************************************************************************)
EXTENDS Registry

CONSTANTS
    Refs,      \* the images to pull, a sequence
    Creds,     \* whether the credentials are good: a set of BOOLEANs
    NeedsKey   \* images of nvcr.io, which are refused without credentials

ASSUME PullAssumption ==
    /\ Refs \in Seq(Image) /\ Creds \subseteq BOOLEAN /\ NeedsKey \subseteq Image

VARIABLES
    ppc,      \* where Pull is
    creds,    \* it has good credentials
    nth,      \* its place in Refs
    todo,     \* what warmImage has yet to ask for, in order
    atTop,    \* the next thing is the ref itself
    retried,  \* and it was asked for before
    token,    \* the client's token
    psays,    \* how Pull ended
    pcalm     \* no request failed, no token expired, and each blob was stored, so far

pullVars == <<ppc, creds, nth, todo, atTop, retried, token, psays, pcalm>>

PullTypeOK ==
    /\ ppc \in {"idle", "client", "ask", "mint", "done"}
    /\ creds \in BOOLEAN
    /\ nth \in 1 .. Len(Refs) + 1
    /\ todo \in Seq(Item)
    /\ ppc \in {"ask", "mint"} => nth <= Len(Refs) /\ todo # <<>>
    /\ ppc = "mint" => Head(todo) \in Manifest
    /\ atTop \in BOOLEAN /\ retried \in BOOLEAN /\ pcalm \in BOOLEAN
    /\ token \in {"none", "valid", "expired"}
    /\ psays \in {"none", "ok", "error"}

PullInit ==
    /\ ppc = "idle" /\ creds \in Creds /\ nth = 1 /\ todo = <<>>
    /\ atTop = FALSE /\ retried = FALSE /\ token = "none"
    /\ psays = "none" /\ pcalm = FALSE

-----------------------------------------------------------------------------
request == <<nth, todo, atTop, retried, token>>

\* The client and its token go with it.
PullEnds(how) ==
    /\ ppc' = "done" /\ psays' = how
    /\ nth' = 1 /\ todo' = <<>> /\ atTop' = FALSE /\ retried' = FALSE /\ token' = "none"

\* Pull, also after one that has failed.
PullBegins ==
    /\ ppc = "idle" \/ (ppc = "done" /\ psays = "error")
    /\ ppc' = "client" /\ psays' = "none" /\ pcalm' = TRUE
    /\ UNCHANGED <<creds, request, registryVars>>

\* pullOne: a client without a token for the next image.
NewClient ==
    /\ ppc = "client"
    /\ IF nth > Len(Refs) THEN PullEnds("ok")
       ELSE IF Refs[nth] \in NeedsKey /\ ~creds THEN PullEnds("error")
       ELSE /\ ppc' = "ask" /\ todo' = <<Top[Refs[nth]]>> /\ atTop' = TRUE /\ token' = "none"
            /\ UNCHANGED <<psays, nth, retried>>
    /\ UNCHANGED <<creds, pcalm, registryVars>>

\* What the cache does with the request for the head of todo.
Asked == Head(todo)
Here == RepoOf[Refs[nth]]
AskedByTag == atTop /\ Refs[nth] \in ByTag
FromDisk == Local(Here, Asked) /\ Keeps(Here, Asked) /\ ~AskedByTag
Permitted == Here \notin Private \/ token = "valid"

\* What a manifest makes warmImage ask for next: the children of an index, of
\* every platform, or a config and layers.
\* (Variant: the last one is forgotten.)
AllButLast(m) == IF m \in Manifest THEN SubSeq(Lists[m], 1, Len(Lists[m]) - 1) ELSE <<>>
Follows(m) == IF m \in Manifest THEN Lists[m] ELSE <<>>

\* getManifest answers a challenge, once; warmBlob does not.
\* (Variants: as often as it takes; for blobs too; never.)
AsOftenAsItTakes == Asked \in Manifest
ForAnything == ~retried
Never == FALSE
AsksAgain == Asked \in Manifest /\ ~retried

\* 200, in full: the cache keeps it, unless another client is fetching it.
Gets ==
    /\ ppc = "ask" /\ Serving(Here)
    /\ FromDisk \/ Permitted
    /\ LET rest == Follows(Asked) \o Tail(todo)
       IN /\ todo' = rest
          /\ IF rest = <<>> THEN ppc' = "client" /\ nth' = nth + 1 ELSE UNCHANGED <<ppc, nth>>
    /\ atTop' = FALSE /\ retried' = FALSE
    /\ \/ /\ FromDisk \/ ~Keeps(Here, Asked)
          /\ UNCHANGED <<store, pcalm>>
       \/ /\ ~FromDisk /\ Keeps(Here, Asked)
          /\ Puts(Here, Asked)
          /\ tagged' = IF AskedByTag THEN tagged \cup {Refs[nth]} ELSE tagged
          /\ UNCHANGED pcalm
       \/ /\ "stream" \in Faults
          /\ ~FromDisk /\ Asked \in Blob
          /\ pcalm' = FALSE
          /\ UNCHANGED store
    /\ UNCHANGED <<creds, token, psays, state>>

\* 401: only a manifest is asked for again, and once.
Challenged ==
    /\ ppc = "ask" /\ Serving(Here)
    /\ ~FromDisk /\ ~Permitted
    /\ IF AsksAgain THEN ppc' = "mint" /\ UNCHANGED <<request, psays>>
                    ELSE PullEnds("error")
    /\ UNCHANGED <<creds, pcalm, registryVars>>

\* authenticate: the upstream's realm gives a token for the credentials.
Mints ==
    /\ ppc = "mint"
    /\ IF creds
       THEN token' = "valid" /\ retried' = TRUE /\ ppc' = "ask" /\ UNCHANGED <<psays, nth, todo, atTop>>
       ELSE PullEnds("error")
    /\ UNCHANGED <<creds, pcalm, registryVars>>

\* A request fails: for the cache or the realm, or because gc has stopped it.
RequestFails ==
    /\ \/ ppc = "ask" /\ ~Serving(Here)
       \/ ppc \in {"ask", "mint"} /\ "fetch" \in Faults
    /\ PullEnds("error")
    /\ pcalm' = FALSE
    /\ UNCHANGED <<creds, registryVars>>

Expires ==
    /\ "expire" \in Faults
    /\ ppc = "ask" /\ token = "valid"
    /\ token' = "expired"
    /\ pcalm' = FALSE
    /\ UNCHANGED <<ppc, creds, nth, todo, atTop, retried, psays, registryVars>>

PullStep == NewClient \/ Gets \/ Challenged \/ Mints \/ RequestFails

-----------------------------------------------------------------------------
(* Properties *)

\* Images whose pull meets a challenge before it needs a token: for the others
\* the manifests may be on disk and answered without one.
Challengeable(i) == RepoOf[i] \notin Private \/ RepoOf[i] \in Relayed \/ i \in ByTag

\* A pull with good credentials in which nothing goes wrong succeeds, whatever
\* earlier pulls that broke off have left in the cache: a failed pull can simply
\* be repeated.
CalmPullSucceeds ==
    ppc = "done" /\ pcalm /\ creds /\ (\A k \in DOMAIN Refs : Challengeable(Refs[k]))
        => psays = "ok"

\* All platforms of image i are on disk, as far as its cache keeps them.
KeptOf == [i \in Image |-> {d \in All(i) : Keeps(RepoOf[i], d)}]
WholeHere(i) == KeptOf[i] \subseteq data /\ KeptOf[i] \subseteq linked[RepoOf[i]]

\* After such a pull "the cache ends up holding the complete multi-arch image"
\* (Pull), and no gc takes any of it away.
PulledIsWhole == psays = "ok" /\ pcalm => \A k \in DOMAIN Refs : WholeHere(Refs[k])

\* No pull asks for ever, however short-lived the tokens are: each one that is
\* begun is over at some time.
PullReturns == []<>(ppc \in {"idle", "done"})
=============================================================================
