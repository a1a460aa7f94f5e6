------------------------------- MODULE MCFleet -------------------------------
(***************************************************************************)
(* Fleet with two caches, or with three of which the last but one is the   *)
(* blob cache, and up to three commands.                                   *)
(***************************************************************************)
EXTENDS Fleet, TLC

CONSTANTS p1, p2, p3

\* Commands that leave things behind, then an up.
AnyThenUp == (p1 :> {"up"}) @@ (p2 :> {"down", "purge", "gc", "export"}) @@ (p3 :> {"up", "import", "print"})
GcAndUp   == (p1 :> {"gc"}) @@ (p2 :> {"up"})
OneGc     == (p1 :> {"gc"})
UpPrint   == (p1 :> {"up"}) @@ (p2 :> {"print"})
=============================================================================
