----------------------------- MODULE MCSvNetChan -----------------------------
(***************************************************************************)
(* Instance of SvNetChan for TLC.                                          *)
(***************************************************************************)
EXTENDS SvNetChan

MCLengths == {1, 2, 3, 4}
=============================================================================
