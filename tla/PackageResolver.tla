--------------------------- MODULE PackageResolver ---------------------------
(***************************************************************************)
(* resolve_package() (src/src/package_resolver.c): the Java package of a   *)
(* definition, from the modules around it.  It collects the modules while  *)
(* it walks up the parents, adds the sizes of their names up, allocates a  *)
(* block of that size, fills it with strcat(), and puts the prefix of the  *)
(* command line in front.  Of a name only the length matters, and which    *)
(* module it is the name of.  Allocations succeed here; what a call makes  *)
(* of one that does not is the matter of FileEmitter.                      *)
(*                                                                         *)
(* A definition named X_Bug is X with a bug a change of the code might     *)
(* bring in; no specification uses it, it shows that a property can fail.  *)
(***************************************************************************)
EXTENDS ModulePath

CONSTANTS
  NameLengths,   \* how long a name may be; 0: the node has none
  PrefixLengths  \* how long the prefix may be; 0: none, or an empty one

ASSUME LengthsAssumption == NameLengths \subseteq Nat /\ PrefixLengths \subseteq Nat

VARIABLES
  ast, node,     \* the tree, and the definition the package is for
  name_len,      \* strlen of every module's identifier
  prefix_len,    \* strlen of the prefix
  pc,            \* walk, measure, build or done
  n,             \* where the walk is
  module_names,  \* the modules found, innermost first
  i,             \* how many of them are still to be measured or written
  total_len,     \* the size of the block for package_name
  measured,      \* history: total_len after each addition
  package_name,  \* the modules in the text, or <<GENERATED>>
  used,          \* strlen(package_name)
  full           \* the block with the prefix: its size and the strlen in it

inputs == <<ast, node, name_len, prefix_len>>
vars == <<inputs, pc, n, module_names, i, total_len, measured, package_name,
          used, full>>

GENERATED == NULL         \* stands for the name "generated"
GeneratedLen == 9

Init ==
  /\ ast \in Trees
  /\ node \in Definitions(ast)
  /\ name_len \in [Node -> NameLengths]
  /\ prefix_len \in PrefixLengths
  /\ pc = "walk"
  /\ n = node
  /\ module_names = <<>>
  /\ i = 0 /\ total_len = 0 /\ measured = <<>>
  /\ package_name = <<>> /\ used = 0
  /\ full = [size |-> 0, len |-> 0]

(* while (n && module_count < 20) *)
Walking_OneTooMany == n # NULL /\ Len(module_names) <= MaxModules
Walking == n # NULL /\ Len(module_names) < MaxModules

(* One turn of it: only a module that has a name counts. *)
Collect ==
  /\ pc = "walk" /\ Walking
  /\ module_names' = IF ast.kind[n] = "module" /\ name_len[n] > 0
                     THEN Append(module_names, n)
                     ELSE module_names
  /\ n' = ast.parent[n]
  /\ UNCHANGED <<inputs, pc, i, total_len, measured, package_name, used, full>>

(* Outside of every module: strdup("generated"). *)
UseGenerated ==
  /\ pc = "walk" /\ ~Walking /\ module_names = <<>>
  /\ package_name' = <<GENERATED>>
  /\ used' = GeneratedLen
  /\ total_len' = GeneratedLen + 1
  /\ pc' = "build"
  /\ UNCHANGED <<inputs, n, module_names, i, measured, full>>

StartMeasuring ==
  /\ pc = "walk" /\ ~Walking /\ module_names # <<>>
  /\ i' = Len(module_names)
  /\ pc' = "measure"
  /\ UNCHANGED <<inputs, n, module_names, total_len, measured, package_name,
                 used, full>>

(* Every name takes room for itself and for a dot or the terminator. *)
Room_NameOnly(m) == name_len[m]
Room(m) == name_len[m] + 1

Measure ==
  /\ pc = "measure" /\ i > 0
  /\ total_len' = total_len + Room(module_names[i])
  /\ measured' = Append(measured, total_len')
  /\ i' = i - 1
  /\ UNCHANGED <<inputs, pc, n, module_names, package_name, used, full>>

(* malloc(total_len) and an empty string in it. *)
Allocate ==
  /\ pc = "measure" /\ i = 0
  /\ i' = Len(module_names)
  /\ pc' = "build"
  /\ UNCHANGED <<inputs, n, module_names, total_len, measured, package_name,
                 used, full>>

(* strcat of a dot, except before the first name, and of the name. *)
Concatenate_InnermostFirst ==
  LET m == module_names[Len(module_names) - i + 1]
  IN /\ pc = "build" /\ i > 0
     /\ package_name' = Append(package_name, m)
     /\ used' = used + (IF i < Len(module_names) THEN 1 ELSE 0) + name_len[m]
     /\ i' = i - 1
     /\ UNCHANGED <<inputs, pc, n, module_names, total_len, measured, full>>

Concatenate ==
  LET m == module_names[i]
  IN /\ pc = "build" /\ i > 0
     /\ package_name' = Append(package_name, m)
     /\ used' = used + (IF i < Len(module_names) THEN 1 ELSE 0) + name_len[m]
     /\ i' = i - 1
     /\ UNCHANGED <<inputs, pc, n, module_names, total_len, measured, full>>

(* With a prefix: sprintf of "%s.%s" into another block. *)
Finish ==
  /\ pc = "build" /\ i = 0
  /\ full' = IF prefix_len > 0
             THEN [size |-> prefix_len + used + 2, len |-> prefix_len + 1 + used]
             ELSE full
  /\ pc' = "done"
  /\ UNCHANGED <<inputs, n, module_names, i, total_len, measured, package_name,
                 used>>

Next == \/ Collect \/ UseGenerated \/ StartMeasuring
        \/ Measure \/ Allocate \/ Concatenate \/ Finish

Spec == Init /\ [][Next]_vars

-----------------------------------------------------------------------------

(* The type of every variable; module_names[] is never overrun. *)
TypeOK ==
  /\ WellFormed(ast) /\ node \in Node
  /\ name_len \in [Node -> Nat] /\ prefix_len \in Nat
  /\ pc \in {"walk", "measure", "build", "done"}
  /\ n \in NodeOrNull
  /\ module_names \in Seq(Node) /\ Len(module_names) <= MaxModules
  /\ i \in Nat /\ total_len \in Nat /\ used \in Nat
  /\ measured \in Seq(Nat)
  /\ package_name \in Seq(NodeOrNull)
  /\ full \in [size : Nat, len : Nat]

(* No strcat writes beyond malloc(total_len), and at the end the text with
   its terminator fills the block to the last byte, as it does the block
   with the prefix: the two loops over module_names agree
   (src/src/package_resolver.c:107-121). *)
FillsBlock ==
  /\ pc \in {"build", "done"} => used + 1 <= total_len
  /\ pc = "done" => used + 1 = total_len
  /\ pc = "done" /\ prefix_len > 0 => full.len + 1 = full.size

(* The modules with a name. *)
Named == {m \in Node : name_len[m] > 0}

(* The package is the path of the modules around the definition, outermost
   first, as far as module_names[] has room for the innermost of them, and
   "generated" only where there are none (src/src/package_resolver.c:85-117).
   That more modules are not all in it is shown by ClassesInPlace of
   Generator. *)
PackageIsPath ==
  LET modules == PackageModules(ast, Named, node)
  IN pc = "done" =>
       package_name = IF modules = <<>> THEN <<GENERATED>> ELSE modules

-----------------------------------------------------------------------------
(***************************************************************************)
(* The inductive invariant behind FillsBlock: measured holds what the      *)
(* second loop will have written after as many turns.                      *)
(***************************************************************************)
Turn(k) == module_names[Len(module_names) + 1 - k]   \* the k-th turn's module

Sums ==
  /\ i <= Len(module_names)
  /\ Len(measured) <= Len(module_names)
  /\ \A k \in 1..Len(measured) :
       /\ measured[k] = (IF k = 1 THEN 0 ELSE measured[k-1]) + name_len[Turn(k)] + 1
       /\ measured[k] <= total_len

Phases ==
  /\ pc = "walk" => measured = <<>> /\ total_len = 0 /\ used = 0
  /\ pc = "measure" =>
       /\ module_names # <<>>
       /\ Len(measured) = Len(module_names) - i
       /\ total_len = IF measured = <<>> THEN 0 ELSE measured[Len(measured)]
       /\ used = 0
  /\ pc \in {"build", "done"} /\ module_names # <<>> =>
       /\ Len(measured) = Len(module_names)
       /\ total_len = measured[Len(measured)]
       /\ IF i = Len(module_names)
          THEN used = 0
          ELSE used + 1 = measured[Len(module_names) - i]
  /\ pc \in {"build", "done"} /\ module_names = <<>> =>
       used = GeneratedLen /\ total_len = GeneratedLen + 1
  /\ pc = "done" => i = 0 /\ (prefix_len > 0 => full.len + 1 = full.size)

PInv == TypeOK /\ Sums /\ Phases

(***************************************************************************)
(* The inductive invariant behind PackageIsPath: the modules found so far, *)
(* followed by those around the node the walk has come to, are the modules *)
(* around the definition, and the text has them from the outermost one on. *)
(***************************************************************************)
OnThePath ==
  /\ Around(ast, Named, node) = module_names \o Around(ast, Named, n)
  /\ pc # "walk" => ~Walking

Written ==
  /\ pc \in {"walk", "measure"} => package_name = <<>>
  /\ pc \in {"build", "done"} =>
       package_name = IF module_names = <<>>
                      THEN <<GENERATED>>
                      ELSE [k \in 1..(Len(module_names) - i) |-> Turn(k)]

PathInv == PInv /\ OnThePath /\ Written

=============================================================================
