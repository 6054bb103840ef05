------------------------------- MODULE IdlTrees -------------------------------
(***************************************************************************)
(* For model checking: every tree of a given number of nodes, and every    *)
(* smaller one with nodes of all kinds.                                    *)
(***************************************************************************)
EXTENDS IdlTree

CONSTANTS
  LeafKinds,  \* what a node without definitions may be in the large trees
  SmallSize   \* how many nodes the trees with all kinds may have

(* Every node but the first hangs off exactly one earlier node, as its next
   sibling or as its first definition; numbers follow the source order. *)
Links(size) ==
  {link \in [2..size -> (1..size) \X {"next", "defs"}] :
     /\ \A m \in 2..size : link[m][1] < m
     /\ \A m \in 2..size : link[m][2] = "defs" => link[m][1] = m - 1
     /\ \A m, k \in 2..size : link[m] = link[k] => m = k}

Target(link, n, how) ==
  IF \E m \in DOMAIN link : link[m] = <<n, how>>
  THEN CHOOSE m \in DOMAIN link : link[m] = <<n, how>>
  ELSE NULL

ParentOf(link) ==
  LET parent[n \in Node] == IF n \notin DOMAIN link THEN NULL
                            ELSE IF link[n][2] = "defs" THEN link[n][1]
                            ELSE parent[link[n][1]]
  IN parent

(* In source order a node without definitions is followed at once by its
   sibling. *)
Preorder(next, defs) ==
  \A n \in Node : defs[n] = NULL => next[n] \in {NULL, n + 1}

(* The nodes a small tree does not use hang on nothing. *)
TreesOf(link, size, kinds) ==
  LET next == [n \in Node |-> Target(link, n, "next")]
      defs == [n \in Node |-> Target(link, n, "defs")]
      leaves == {n \in 1..size : defs[n] = NULL}
  IN IF Preorder(next, defs)
     THEN {[kind |-> [n \in Node |-> IF n > size THEN "other"
                                     ELSE IF n \in leaves THEN leaf[n]
                                     ELSE "module"],
            next |-> next, defs |-> defs, parent |-> ParentOf(link), root |-> 1] :
             leaf \in [leaves -> kinds]}
     ELSE {}

TreesOfSize(size, kinds) ==
  UNION {TreesOf(link, size, kinds) : link \in Links(size)}

FullTrees == TreesOfSize(NumNodes, LeafKinds)
                \cup UNION {TreesOfSize(size, Kinds) : size \in 1..SmallSize}

(* And without a root: there is no syntax tree. *)
MCTrees == FullTrees \cup {[t EXCEPT !.root = NULL] : t \in FullTrees}

=============================================================================
