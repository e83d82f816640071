-------------------------- MODULE MCServerCommands --------------------------
(***************************************************************************)
(* Instances of ServerCommands for TLC.                                    *)
(***************************************************************************)
EXTENDS ServerCommands

MCConfigStrings == {1}
=============================================================================
