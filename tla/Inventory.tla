------------------------------ MODULE Inventory ------------------------------
(***************************************************************************)
(* A registry cache with its clients: one repeats a pull, one reads the    *)
(* store (list --okd-release, pull-release's verification, or list         *)
(* --objects), and an administrator runs gc.  They share the cache only.   *)
(***************************************************************************)
EXTENDS Pull, Coverage, Listing

vars == <<registryVars, pullVars, coverageVars, rcalm, listingVars, lcalm>>

TypeOK == RegistryTypeOK /\ PullTypeOK /\ CoverageTypeOK /\ ListingTypeOK

Init == RegistryInit /\ PullInit /\ CoverageInit /\ ListingInit

\* What a step does to readings it is not part of
Quiet == registryVars' = registryVars
CountsBeside == UNCHANGED coverageVars /\ rcalm' = (rcalm /\ Quiet)
ListsBeside  == UNCHANGED listingVars /\ lcalm' = (lcalm /\ Quiet)

Pulling  == (PullBegins \/ PullStep \/ Expires) /\ CountsBeside /\ ListsBeside
Counting == lpc = "idle" /\ CoverageStep /\ UNCHANGED pullVars /\ ListsBeside
Showing  == rpc = "idle" /\ ListingStep /\ UNCHANGED pullVars /\ CountsBeside
Cleaning == Gc /\ UNCHANGED pullVars /\ CountsBeside /\ ListsBeside

Next == Pulling \/ Counting \/ Showing \/ Cleaning

Spec == Init /\ [][Next]_vars

\* A pull does not stop between its steps: each request is answered or fails.
FairSpec == Spec /\ WF_vars(PullStep /\ CountsBeside /\ ListsBeside)

\* The inductive invariant of the cache and its readers
InventoryInv == TypeOK /\ LinkedInv /\ ViewInv

-----------------------------------------------------------------------------
(* Inventory implements Stock.                                             *)

Stocked == INSTANCE Stock WITH
    Ordered  <- {Refs[k] : k \in DOMAIN Refs},
    whole    <- [i \in Image |-> WholeHere(i)],
    complete <- [i \in Image |-> Complete(i)],
    told     <- {i \in Image : counted[i] = "full"},
    brought  <- psays = "ok" /\ pcalm

\* Whatever fails, and however a pull, a reader and a gc are interleaved, they see
\* a cache from which no image that is on disk is taken, in which only such an
\* image is called full, and which holds every image of a calm pull that ended well.
ImplementsStock == Stocked!Spec
=============================================================================
