-------------------------- MODULE MCClientCommands --------------------------
(***************************************************************************)
(* Instances of ClientCommands for TLC.                                    *)
(***************************************************************************)
EXTENDS ClientCommands
=============================================================================
