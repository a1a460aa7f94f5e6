------------------------------ MODULE BlobStore ------------------------------
(***************************************************************************)
(* What the blob cache promises its clients, with none of the machinery:   *)
(* no temp files, sidecars, locks, hashes or upstreams.  The store only    *)
(* ever gains blobs, each while somebody asks for it, and a HIT is the     *)
(* blob.  A request that is not a HIT may end in any way.                  *)
(***************************************************************************)
CONSTANTS Client, Digest, None

VARIABLES
    store,   \* digest -> "absent" or "whole": nothing else is ever stored
    asked,   \* the digest a client is waiting for, or None
    hit      \* "yes" when the client's last answer is a HIT of the true blob

vars == <<store, asked, hit>>

Init ==
    /\ store = [d \in Digest |-> "absent"]
    /\ asked = [c \in Client |-> None]
    /\ hit = [c \in Client |-> "no"]

\* A client asks for a blob, or for something that is not a blob.
Ask(c, d) ==
    /\ asked[c] = None
    /\ asked' = [asked EXCEPT ![c] = d]
    /\ hit' = [hit EXCEPT ![c] = "no"]
    /\ UNCHANGED store

\* The blob is there and is being served.
Hit(c) ==
    /\ asked[c] # None
    /\ store[asked[c]] = "whole"
    /\ hit' = [hit EXCEPT ![c] = "yes"]
    /\ UNCHANGED <<store, asked>>

\* The blob somebody asked for is stored.
Fill(c) ==
    /\ asked[c] # None
    /\ store' = [store EXCEPT ![asked[c]] = "whole"]
    /\ UNCHANGED <<asked, hit>>

\* The answer is complete.
Done(c) ==
    /\ asked[c] # None
    /\ asked' = [asked EXCEPT ![c] = None]
    /\ UNCHANGED <<store, hit>>

\* The requests are lost, the store is not.
Restart ==
    /\ asked' = [c \in Client |-> None]
    /\ hit' = [c \in Client |-> "no"]
    /\ UNCHANGED store

Next ==
    \/ \E c \in Client : (\E d \in Digest \cup {None} : Ask(c, d)) \/ Hit(c) \/ Fill(c) \/ Done(c)
    \/ Restart

Spec == Init /\ [][Next]_vars
=============================================================================
