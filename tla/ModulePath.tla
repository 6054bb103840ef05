------------------------------ MODULE ModulePath ------------------------------
(***************************************************************************)
(* The modules that make up the Java package of a node.                    *)
(***************************************************************************)
EXTENDS IdlTree, Sequences

CONSTANT MaxModules  \* the size of module_names[]: 20 in the code

ASSUME MaxModulesAssumption == MaxModules \in Nat \ {0}

(* The modules around m that are in named, innermost first. *)
Around(t, named, m) ==
  LET up[k \in NodeOrNull] ==
        IF k = NULL THEN <<>>
        ELSE IF k \in named /\ t.kind[k] = "module"
             THEN <<k>> \o up[t.parent[k]]
             ELSE up[t.parent[k]]
  IN up[m]

(* The innermost of them that module_names[] has room for, outermost first;
   empty outside of every module. *)
PackageModules(t, named, m) ==
  LET around == Around(t, named, m)
      kept == IF Len(around) < MaxModules THEN Len(around) ELSE MaxModules
  IN [k \in 1..kept |-> around[kept + 1 - k]]

=============================================================================
