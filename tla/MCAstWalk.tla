------------------------------ MODULE MCAstWalk ------------------------------
(***************************************************************************)
(* AstWalk on every tree of a given number of nodes.                       *)
(***************************************************************************)
EXTENDS AstWalk, IdlTrees

=============================================================================
