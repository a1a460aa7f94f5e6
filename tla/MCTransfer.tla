----------------------------- MODULE MCTransfer -----------------------------
(* Transfer with two caches of two files and one. *)
EXTENDS Transfer, TLC

CONSTANTS a1, a2, b1,  \* files
          ca, cb       \* caches

MCCacheOf == (a1 :> ca) @@ (a2 :> ca) @@ (b1 :> cb)
MCKept    == [src |-> {a1, b1}, dst |-> {a1, a2}]
MCAsks    == {{}, {ca}}
MCOld     == {{a2}}
=============================================================================
