---------------------------- MODULE MCPullRelease ----------------------------
(***************************************************************************)
(* PullRelease on a release of two payload images of one repository that   *)
(* share a blob.  The release image is an index: pull-release reads one    *)
(* child of it, and verifies the whole.  Or of one image and two odd ones: *)
(* one of a host that has no cache, and an index with nothing for the      *)
(* platform.                                                               *)
(***************************************************************************)
EXTENDS PullRelease, TLC

CONSTANTS rel, imgA, imgB, imgX, imgY,      \* images
          mR, mC, mA, mB,                   \* manifests
          top, base, shared                 \* blobs

MCImage    == {rel, imgA, imgB, imgX, imgY}
MCManifest == {mR, mC, mA, mB}
MCBlob     == {top, base, shared}
MCPayload  == <<imgA, imgB>>
MCOdd      == <<imgX, imgA, imgY>>

MCReadPlan == <<mR, mC, base, top>>
MCPlan ==
    (rel  :> <<mR, mC, base, top>>) @@ (imgA :> <<mA, shared, base>>) @@
    (imgB :> <<mB, base, shared>>)  @@ (imgX :> <<mB>>) @@
    (imgY :> <<mB>>)

=============================================================================
