--------------------------- MODULE MCServerConnect ---------------------------
(***************************************************************************)
(* Instances of ServerConnect for TLC.                                     *)
(***************************************************************************)
EXTENDS ServerConnect

MCClients == {1}
MCOnePort == {11}
MCPorts == {11, 12}
MCNumbers == {21, 22, 23}
=============================================================================
