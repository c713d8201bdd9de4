---------------------------- MODULE MCFSObject ----------------------------
(* FSObject with the clients of one server.                                *)
EXTENDS FSObject

CONSTANT a

OneHome == {<<a, a, a>>}
=============================================================================
