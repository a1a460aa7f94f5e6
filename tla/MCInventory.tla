----------------------------- MODULE MCInventory -----------------------------
(***************************************************************************)
(* Inventory with a release of three payload images.  The release and imgB *)
(* are indexes, relD is the release by digest; imgA is the child of imgB   *)
(* that is for the platform, in another repository; imgF is an image at    *)
(* the blob cache.                                                         *)
(***************************************************************************)
EXTENDS Inventory, TLC

CONSTANTS rel, relD, imgA, imgB, imgF, \* images
          r1, r2, rF,             \* repositories
          mR, mC, mA, mB, mX, mF, \* manifests
          lt, s, f             \* blobs

MCLists == (mR :> <<mC>>) @@ (mC :> <<lt>>) @@ (mA :> <<s>>)
           @@ (mB :> <<mA, mX>>) @@ (mX :> <<s>>) @@ (mF :> <<f>>)
MCRepoOf == (rel :> r1) @@ (relD :> r1) @@ (imgA :> r1) @@ (imgB :> r2) @@ (imgF :> rF)
MCTop == (rel :> mR) @@ (relD :> mR) @@ (imgA :> mA) @@ (imgB :> mB) @@ (imgF :> mF)
MCWarm == {{rel}, {relD, imgA}}
MCOrphans == (r1 :> {s}) @@ (r2 :> {}) @@ (rF :> {})
MCReleasePath == <<mC, lt>>
MCRefs == <<imgB, imgF>>
MCPayload == <<imgA, imgB, imgF>>
=============================================================================
