------------------------------- MODULE Listing -------------------------------
(***************************************************************************)
(* `list --objects` of a registry cache (fillRegistry2 and                 *)
(* primaryRevisions in internal/cache/list.go): the tags on disk of each   *)
(* repository, or the manifests it links when it has none.                 *)
(***************************************************************************)
EXTENDS Registry

CONSTANTS
    Mentions,  \* the manifests in whose content the type of an index occurs
    Page       \* how many repositories the catalog names at once

ASSUME ListingAssumption == Mentions \subseteq Manifest /\ Page \in Nat

VARIABLES
    lpc,     \* where it is
    catalog, \* the repositories that the cache has named
    repos,   \* those it has yet to list
    repo,    \* the one it is at
    revs,    \* that one's revisions
    unread,  \* the revisions it has yet to look into
    indexes, \* those it has taken for indexes
    shown,   \* the lines: a repository with an image, a manifest or nothing
    lcalm    \* the store has not changed, and no exec failed, since it began

listingVars == <<lpc, catalog, repos, repo, revs, unread, indexes, shown>>

ListingTypeOK ==
    /\ lpc \in {"idle", "repos", "tags", "revs", "look", "done"}
    /\ catalog \in SUBSET Repo /\ repos \in SUBSET Repo /\ repo \in Repo
    /\ revs \in SUBSET Manifest /\ unread \in SUBSET revs /\ indexes \in SUBSET (revs \cap Mentions)
    /\ \A line \in shown : line[1] \in Repo /\ line[2] \subseteq Image \cup Manifest
    /\ lcalm \in BOOLEAN

ListingInit ==
    /\ lpc = "idle" /\ catalog = {} /\ repos = {} /\ repo \in {CHOOSE r \in Repo : TRUE}
    /\ revs = {} /\ unread = {} /\ indexes = {} /\ shown = {} /\ lcalm = FALSE

-----------------------------------------------------------------------------
ListExecFails == state # "up" \/ "exec" \in Faults
TagsOf(r) == {i \in tagged : RepoOf[i] = r}
RevsOf(r) == linked[r] \cap Manifest

\* The catalog names the first Page of the repositories, in the order of their
\* names, which is left open here.
Cached == {r \in Repo \ Relayed : linked[r] # {}}
Pages(R) == IF Cardinality(R) <= Page THEN {R} ELSE {S \in SUBSET R : Cardinality(S) = Page}

\* It is asked once, and not for the pages that follow.
ListBegins ==
    /\ lpc = "idle"
    /\ \/ /\ state = "up" /\ lpc' = "repos" /\ lcalm' = TRUE
          /\ catalog' \in Pages(Cached)
          /\ repos' = catalog'
       \/ /\ ListExecFails /\ lpc' = "done" /\ UNCHANGED <<catalog, repos, lcalm>>
    /\ UNCHANGED <<repo, revs, unread, indexes, shown, registryVars>>

NextRepo ==
    /\ lpc = "repos"
    /\ IF repos = {} THEN lpc' = "done" /\ UNCHANGED <<repos, repo>>
       ELSE \E r \in repos : repo' = r /\ repos' = repos \ {r} /\ lpc' = "tags"
    /\ revs' = {} /\ unread' = {} /\ indexes' = {}
    /\ UNCHANGED <<catalog, shown, lcalm, registryVars>>

Show(lines) == shown' = shown \cup {<<repo, {x}>> : x \in lines}

ListsTags ==
    /\ lpc = "tags"
    /\ \/ /\ state = "up" /\ UNCHANGED lcalm
          /\ IF TagsOf(repo) # {} THEN Show(TagsOf(repo)) /\ lpc' = "repos"
                                  ELSE lpc' = "revs" /\ UNCHANGED shown
       \/ ListExecFails /\ lpc' = "revs" /\ lcalm' = FALSE /\ UNCHANGED shown
    /\ UNCHANGED <<catalog, repos, repo, revs, unread, indexes, registryVars>>

ListsRevisions ==
    /\ lpc = "revs"
    /\ \E found \in (IF state = "up" THEN {RevsOf(repo)} ELSE {}) \cup (IF ListExecFails THEN {{}} ELSE {}) :
        /\ revs' = found /\ unread' = found /\ indexes' = {}
        /\ lcalm' = (lcalm /\ found = RevsOf(repo))
        /\ IF found = {} THEN shown' = shown \cup {<<repo, {}>>} /\ lpc' = "repos"
                         ELSE lpc' = "look" /\ UNCHANGED shown
    /\ UNCHANGED <<catalog, repos, repo, registryVars>>

\* primaryRevisions: one revision is taken for an index when the type of one occurs
\* in its content.  An index need not say its type, another manifest may (of what
\* it is attached to); one that cannot be read counts as none.
LooksInto(d) ==
    /\ lpc = "look" /\ d \in unread
    /\ unread' = unread \ {d}
    /\ \/ /\ state = "up" /\ UNCHANGED lcalm
          /\ indexes' = IF d \in Mentions \cap data THEN indexes \cup {d} ELSE indexes
       \/ ListExecFails /\ lcalm' = FALSE /\ UNCHANGED indexes
    /\ UNCHANGED <<lpc, catalog, repos, repo, revs, shown, registryVars>>

\* (Variant: the indexes are what is left out.)
AllButIndexes == IF revs \ indexes # {} THEN revs \ indexes ELSE revs
Primary == IF indexes # {} THEN indexes ELSE revs

ShowsRevisions ==
    /\ lpc = "look" /\ unread = {}
    /\ Show(Primary)
    /\ lpc' = "repos"
    /\ UNCHANGED <<catalog, repos, repo, revs, unread, indexes, lcalm, registryVars>>

ListingStep ==
    \/ ListBegins \/ NextRepo \/ ListsTags \/ ListsRevisions \/ ShowsRevisions
    \/ \E d \in Manifest : LooksInto(d)

-----------------------------------------------------------------------------
(* Properties *)

Shown(r, x) == <<r, {x}>> \in shown

\* In repository r the indexes, and no other manifests, say that they are indexes.
Told(r) == RevsOf(r) \cap Mentions = RevsOf(r) \cap Index

\* Of m and a child c of it, c has no line.
NoLineBelow(r) ==
    \A m, c \in RevsOf(r) : Shown(r, m) /\ m \in Index /\ c \in Listed(m) => ~Shown(r, c)

\* A listing during which nothing happens shows, of each repository that the cache
\* names, each image on disk that was pulled by tag, and where there is none the
\* manifests that say they are indexes, or all of them; and no line for the children
\* of what it shows, where the indexes can be told.  The cache names every
\* repository, if it names that many at once.
CalmListIsTrue ==
    lpc = "done" /\ lcalm =>
        /\ Cardinality(Cached) <= Page => catalog = Cached
        /\ \A r \in catalog :
            /\ \A i \in TagsOf(r) : Shown(r, i)
            /\ TagsOf(r) = {} =>
                /\ \A m \in RevsOf(r) \cap data :
                    m \in Mentions \/ RevsOf(r) \cap Mentions = {} => Shown(r, m)
                /\ Told(r) => NoLineBelow(r)
=============================================================================
