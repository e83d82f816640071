-------------------------- MODULE MCConfigstrings ---------------------------
(***************************************************************************)
(* Instances of Configstrings for TLC: beside CS_SYSTEMINFO, whose texts   *)
(* are short, there is one index with short and long texts.                *)
(***************************************************************************)
EXTENDS Configstrings

MCLengths == <<{"short", "long"}>>
=============================================================================
