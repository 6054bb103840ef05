---------------------------- MODULE MCFileEmitter ----------------------------
(***************************************************************************)
(* FileEmitter on every kind of definition with up to two items; the       *)
(* members of a struct have every pair of types.                           *)
(***************************************************************************)
EXTENDS FileEmitter

UpToTwo == UNION {[1..n -> TypeKinds] : n \in 0..2}

=============================================================================
