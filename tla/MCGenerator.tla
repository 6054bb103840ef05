------------------------------ MODULE MCGenerator ------------------------------
(***************************************************************************)
(* Generator on small trees of structs, modules and typedefs.              *)
(***************************************************************************)
EXTENDS Generator, IdlTrees

MCNames == [Node -> {"a", "generated"}]
PlainNames == {<<"a", "b", "c", "d">>}

(* A module or more and two structs or more; and no syntax tree at all. *)
Crowded(t) ==
  /\ \E n \in Node : t.kind[n] = "module"
  /\ Cardinality({n \in Node : t.kind[n] = "struct"}) >= 2

Crowds == {t \in TreesOfSize(NumNodes, LeafKinds) : Crowded(t)}
MCSources == Crowds \cup {[t EXCEPT !.root = NULL] : t \in TreesOfSize(1, {"struct"})}

(* A struct outside of modules and, after it, one in a module of a module. *)
OutsideAndInside ==
  {t \in TreesOfSize(4, {"struct"}) :
     /\ t.kind = <<"struct", "module", "module", "struct">>
     /\ t.parent[3] = 2 /\ t.parent[4] = 3}

=============================================================================
