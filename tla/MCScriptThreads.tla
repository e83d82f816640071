-------------------------- MODULE MCScriptThreads --------------------------
(* One entity and a few threads. *)
EXTENDS ScriptThreads

CONSTANTS e1

MCEntities == {e1}
MCLabelLists == {<<"a">>, <<"a", "b">>}
=============================================================================
