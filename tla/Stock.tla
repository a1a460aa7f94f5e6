-------------------------------- MODULE Stock --------------------------------
(***************************************************************************)
(* What a cache promises to those who share it: an image that is on disk,  *)
(* in all its platforms or for the one that is asked for, stays there; one *)
(* is called full only when it is there; and a pull that went well leaves  *)
(* the images it was for.  There are no manifests, blobs, links, tokens or *)
(* views here, and a gc is a step that takes no image.                     *)
(***************************************************************************)
CONSTANTS
    Image,
    Ordered     \* the images the pull is for

VARIABLES
    whole,      \* image -> whether it is on disk in all its platforms
    complete,   \* image -> whether it is on disk for the platform asked for
    told,       \* the images that a reader has called full
    brought     \* the pull has said that it went well, and nothing was lost

vars == <<whole, complete, told, brought>>

Init ==
    /\ whole \in [Image -> BOOLEAN] /\ complete \in [Image -> BOOLEAN]
    /\ told = {} /\ brought = FALSE

\* Something is stored, or what no image needs is removed.
Gain ==
    /\ UNCHANGED <<told, brought>>
    /\ \A i \in Image : (whole[i] => whole'[i]) /\ (complete[i] => complete'[i])

\* A reader has found all of image i.
Tell(i) ==
    /\ complete[i]
    /\ told' = told \cup {i}
    /\ UNCHANGED <<whole, complete, brought>>

\* It judges otherwise of an image that is on its list again.
Retract(i) ==
    /\ told' = told \ {i}
    /\ UNCHANGED <<whole, complete, brought>>

\* The pull ends, and it went well.
Bring ==
    /\ \A i \in Ordered : whole[i]
    /\ brought' = TRUE
    /\ UNCHANGED <<whole, complete, told>>

Next == Gain \/ Bring \/ \E i \in Image : Tell(i) \/ Retract(i)

Spec == Init /\ [][Next]_vars
=============================================================================
