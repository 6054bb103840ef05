------------------------------- MODULE IdlTree -------------------------------
(***************************************************************************)
(* The syntax tree that the IDL compiler's parser hands to the plugin.     *)
(* libidl owns it and no code of the plugin changes it, so a tree is a     *)
(* constant record.  Nodes are numbered in source order; a node has a      *)
(* `next' sibling, a module has a first definition `defs', and every node  *)
(* has a `parent'.  NULL stands for the null pointer.                      *)
(***************************************************************************)
EXTENDS Integers

CONSTANTS
  NumNodes,  \* how many nodes a tree may use
  Trees      \* the trees the parser may produce

Node == 1..NumNodes
NULL == 0
NodeOrNull == Node \cup {NULL}

(* The bits of idl_mask() that process_node tells apart. *)
DefinitionKinds == {"struct", "enum", "union", "bitmask", "typedef"}
Kinds == DefinitionKinds \cup {"module", "other"}

Tree == [kind   : [Node -> Kinds],
         next   : [Node -> NodeOrNull],
         defs   : [Node -> NodeOrNull],
         parent : [Node -> NodeOrNull],
         root   : NodeOrNull]

(***************************************************************************)
(* What the parser guarantees: siblings and definitions come later in the  *)
(* source than the node that points to them, only a module has             *)
(* definitions, the parent links agree with the other two, and the root    *)
(* has no parent.                                                          *)
(***************************************************************************)
WellFormed(t) ==
  /\ t \in Tree
  /\ \A n \in Node :
       t.next[n] # NULL => t.next[n] > n /\ t.parent[t.next[n]] = t.parent[n]
  /\ \A n \in Node :
       t.defs[n] # NULL => /\ t.kind[n] = "module"
                           /\ t.defs[n] > n
                           /\ t.parent[t.defs[n]] = n
  /\ \A n \in Node : t.parent[n] < n
  /\ t.root # NULL => t.parent[t.root] = NULL

ASSUME NumNodesAssumption == NumNodes \in Nat \ {0}
ASSUME TreesAssumption == \A t \in Trees : WellFormed(t)

(* A set of nodes that no pointer leaves. *)
Closed(t, S) == \A n \in S : {t.next[n], t.defs[n]} \ {NULL} \subseteq S

(* The nodes that can be reached from the root through next and defs. *)
Reachable(t) ==
  {n \in Node : \A S \in SUBSET Node :
                  {t.root} \ {NULL} \subseteq S /\ Closed(t, S) => n \in S}

(* The definitions of the tree: what the plugin has to generate a file for. *)
Definitions(t) == {n \in Reachable(t) : t.kind[n] \in DefinitionKinds}

=============================================================================
