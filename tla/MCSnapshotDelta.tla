-------------------------- MODULE MCSnapshotDelta --------------------------
(***************************************************************************)
(* Instances of SnapshotDelta for TLC.  The views have one entity or       *)
(* three: two come before the one of the first view, which has another     *)
(* value in the second.                                                    *)
(***************************************************************************)
EXTENDS SnapshotDelta, TLC

MCViews == {3 :> 0, 1 :> 0 @@ 2 :> 1 @@ 3 :> 1}
=============================================================================
