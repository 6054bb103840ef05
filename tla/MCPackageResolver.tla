-------------------------- MODULE MCPackageResolver --------------------------
(***************************************************************************)
(* PackageResolver on every definition of every small tree.                *)
(***************************************************************************)
EXTENDS PackageResolver, IdlTrees

=============================================================================
