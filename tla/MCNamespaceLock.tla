-------------------------- MODULE MCNamespaceLock --------------------------
(* Finite instances of NamespaceLock.                                      *)
EXTENDS NamespaceLock
=============================================================================
