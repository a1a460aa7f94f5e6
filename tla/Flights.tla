------------------------------- MODULE Flights -------------------------------
(***************************************************************************)
(* What the map that warmers share promises (pullClient.seen, pull.go):    *)
(* whoever reaches a blob first fetches it, and while that fetch is under  *)
(* way, or once one has been answered in full, the others pass the blob    *)
(* by.  A fetch that fails leaves the blob to the next who reaches it, and *)
(* a new map knows of nothing.  There are no images, plans, channels or    *)
(* proxies here.                                                           *)
(***************************************************************************)
CONSTANTS Worker, Blob, None

VARIABLES
    job,        \* worker -> the blob it is fetching, or None
    landed,     \* the blobs that are passed by because a fetch was answered
    delivered   \* the blobs that some fetch was ever answered for in full

vars == <<job, landed, delivered>>

NobodyFlies == \A w \in Worker : job[w] = None

Init ==
    /\ job = [w \in Worker |-> None]
    /\ landed = {}
    /\ delivered = {}

\* Worker w is the first to reach b.
Starts(w, b) ==
    /\ job[w] = None
    /\ b \notin landed /\ \A v \in Worker : job[v] # b
    /\ job' = [job EXCEPT ![w] = b]
    /\ UNCHANGED <<landed, delivered>>

\* Its fetch is answered in full.
Lands(w) ==
    /\ job[w] # None
    /\ job' = [job EXCEPT ![w] = None]
    /\ landed' = landed \cup {job[w]}
    /\ delivered' = delivered \cup {job[w]}

\* Its fetch fails.
Fails(w) ==
    /\ job[w] # None
    /\ job' = [job EXCEPT ![w] = None]
    /\ UNCHANGED <<landed, delivered>>

\* Before there are workers, the main goroutine fetches b and marks it.
Reads(b) ==
    /\ NobodyFlies
    /\ landed' = landed \cup {b}
    /\ delivered' = delivered \cup {b}
    /\ UNCHANGED job

\* The map is replaced by an empty one, which no worker is using.
Anew ==
    /\ NobodyFlies
    /\ landed' = {}
    /\ UNCHANGED <<job, delivered>>

Next ==
    \/ \E w \in Worker : (\E b \in Blob : Starts(w, b)) \/ Lands(w) \/ Fails(w)
    \/ \E b \in Blob : Reads(b)
    \/ Anew

Spec == Init /\ [][Next]_vars
=============================================================================
