------------------------------- MODULE Generator -------------------------------
(***************************************************************************)
(* Runs of the generator that follow one another into one output           *)
(* directory: the walk of AstWalk, the packages of PackageResolver and the *)
(* files of the generate_java_*() calls.  A run may be killed anywhere,    *)
(* and the files it leaves are those the next run finds.                   *)
(*                                                                         *)
(* A generate_java_*() call is one step, as FileUpdate allows it: 0 and a  *)
(* new file, whole or, for want of memory or disk, with text missing; 0    *)
(* and no file, for a typedef without a declared name; or -1 and the file  *)
(* as it was.  The prefix of the packages and the output directory are the *)
(* same for all of them and are left out; OutputPath says when they fit.   *)
(*                                                                         *)
(* A definition named X_Bug is X with a bug a change of the code might     *)
(* bring in; no specification uses it, it shows that a property can fail.  *)
(***************************************************************************)
EXTENDS AstWalk, ModulePath

CONSTANTS
  Names,    \* the identifiers the nodes may have
  MaxRuns   \* how many runs there are, to bound TLC

VARIABLES
  name,      \* every node's identifier
  path,      \* where the class of every definition goes that gets one
  files,     \* the file at every path: which class it holds, and if all of it
  killed,    \* the run was killed
  lossless,  \* history: no file this run has written lacks text
  runs       \* how many runs were started

source == <<name, path>>
run == <<source, killed, lossless, runs>>
allVars == <<vars, run, files>>

-----------------------------------------------------------------------------

(* The package resolve_package() returns for d, without the prefix. *)
Package(d) ==
  LET modules == PackageModules(ast, Node, d)
  IN IF modules = <<>> THEN <<"generated">>
     ELSE [k \in DOMAIN modules |-> name[modules[k]]]

(* <package>/<name>.java *)
Path(d) == [package |-> Package(d), class |-> name[d]]

Paths == {path[d] : d \in DOMAIN path}

(* No file, or one from a source there no longer is. *)
STRANGER == [of |-> NULL, whole |-> FALSE]

(* What the compiler has checked before: within modules of one name, a name
   is given to one definition and no module, or only to modules. *)
Unambiguous ==
  LET scopes(d) == Around(ast, Node, ast.parent[d])
      Same(d, e) == /\ name[d] = name[e]
                    /\ Len(scopes(d)) = Len(scopes(e))
                    /\ \A k \in DOMAIN scopes(d) :
                         name[scopes(d)[k]] = name[scopes(e)[k]]
      Named == {n \in Node : ast.kind[n] \in DefinitionKinds \cup {"module"}}
  IN \A d \in Definitions(ast), e \in Named : Same(d, e) => d = e

GeneratorInit ==
  /\ Init
  /\ name \in Names
  /\ Unambiguous
  /\ \E nameless \in SUBSET {d \in Definitions(ast) : ast.kind[d] = "typedef"} :
       path = [d \in Definitions(ast) \ nameless |-> Path(d)]
  /\ files = [p \in Paths |-> STRANGER]
  /\ killed = FALSE
  /\ lossless = TRUE
  /\ runs = 1

(* fopen(file_path, "w"), fputs(), fclose(). *)
Holding(d, whole) == [files EXCEPT ![path[d]] = [of |-> d, whole |-> whole]]

WriteClass_NeverOverwrites(whole) ==
  /\ ~killed
  /\ EmitDefinition(0)
  /\ Top.node \in DOMAIN path
  /\ files' = IF files[path[Top.node]] = STRANGER
              THEN Holding(Top.node, whole) ELSE files
  /\ lossless' = (lossless /\ whole)
  /\ UNCHANGED <<source, killed, runs>>

WriteClass_ByModuleEntered(whole) ==
  /\ ~killed
  /\ EmitDefinition(0)
  /\ Top.node \in DOMAIN path
  /\ LET p == [package |-> <<name[current_module_name]>>, class |-> name[Top.node]]
     IN files' = IF current_module_name = NULL
                 THEN Holding(Top.node, whole)
                 ELSE [files EXCEPT ![p] = [of |-> Top.node, whole |-> whole]]
  /\ lossless' = (lossless /\ whole)
  /\ UNCHANGED <<source, killed, runs>>

(* The call returns 0 and has written its file. *)
WriteClass(whole) ==
  /\ ~killed
  /\ EmitDefinition(0)
  /\ Top.node \in DOMAIN path
  /\ files' = Holding(Top.node, whole)
  /\ lossless' = (lossless /\ whole)
  /\ UNCHANGED <<source, killed, runs>>

(* The call returns 0 and writes nothing: a typedef that declares no name. *)
NothingWritten ==
  /\ ~killed
  /\ EmitDefinition(0)
  /\ ast.kind[Top.node] = "typedef" /\ Top.node \notin DOMAIN path
  /\ UNCHANGED <<run, files>>

ClassFails_FileEmptied ==
  /\ ~killed
  /\ EmitDefinition(-1)
  /\ Top.node \in DOMAIN path
  /\ files' = Holding(Top.node, FALSE)
  /\ UNCHANGED run

(* The call returns -1: no builder, or the file did not open. *)
ClassFails ==
  /\ ~killed
  /\ EmitDefinition(-1)
  /\ Top.node \in DOMAIN path
  /\ UNCHANGED <<run, files>>

(* Every other step of the walk leaves the files alone. *)
WalkOn ==
  /\ ~killed
  /\ \/ GenerateNothing \/ GenerateTypes \/ EnterModule \/ SkipNode
     \/ VisitDefinition \/ LeaveModule \/ VisitNextSibling \/ Return \/ Report
  /\ UNCHANGED <<run, files>>

(* The process dies, by its own fault or another's; if it dies between
   fopen() and fclose(), the file is empty or has a beginning of the text. *)
Kill ==
  /\ ~killed /\ pc # "done"
  /\ killed' = TRUE
  /\ \/ UNCHANGED files
     \/ /\ TopIs("body")
        /\ Top.node \in DOMAIN path
        /\ files' = Holding(Top.node, FALSE)
  /\ UNCHANGED <<vars, source, lossless, runs>>

(* Another process begins as the first did, with the files it finds. *)
Rerun ==
  /\ killed \/ pc = "done"
  /\ runs < MaxRuns
  /\ UNCHANGED <<ast, source, files>>
  /\ pc' = "generate" /\ stack' = <<>>
  /\ in_module' = FALSE /\ current_module_name' = NULL
  /\ struct_count' = 0 /\ enum_count' = 0 /\ errors' = 0 /\ ret' = 0
  /\ entered' = {} /\ attempts' = [n \in Node |-> 0] /\ written' = {}
  /\ killed' = FALSE
  /\ lossless' = TRUE
  /\ runs' = runs + 1

GeneratorNext ==
  \/ \E whole \in BOOLEAN : WriteClass(whole)
  \/ NothingWritten
  \/ ClassFails
  \/ WalkOn
  \/ Kill
  \/ Rerun

GeneratorSpec == GeneratorInit /\ [][GeneratorNext]_allVars

-----------------------------------------------------------------------------

(* The nodes that pointers lead to from those in S. *)
Onwards(S) ==
  {n \in Node : \A C \in SUBSET Node : S \subseteq C /\ Closed(ast, C) => n \in C}

(* d and the modules around it. *)
SelfAndAround(d) ==
  {a \in Node : \A C \in SUBSET Node :
                  /\ d \in C
                  /\ \A n \in C : ast.parent[n] \in C \cup {NULL}
                  => a \in C}

(* What comes after the definition d in the source. *)
Later(d) == Onwards({ast.next[a] : a \in SelfAndAround(d)} \ {NULL})

(* The type of every variable: a file holds a class that belongs there. *)
FilesTypeOK ==
  /\ DOMAIN files = Paths
  /\ \A p \in Paths :
       \/ files[p] = STRANGER
       \/ /\ files[p].of \in DOMAIN path /\ files[p].whole \in BOOLEAN
          /\ path[files[p].of] = p
  /\ killed \in BOOLEAN /\ lossless \in BOOLEAN
  /\ runs \in Nat

(* A run that returned 0 and lost no text leaves at every path the whole
   class of the last definition in the source that has this path, whatever
   earlier runs left there, however they ended, and however often the walk
   came back to a definition (src/src/package_resolver.c:96,
   src/src/generator.c:168, src/src/java_record.c:533). *)
LastOneStays ==
  pc = "done" /\ ret = 0 /\ ast.root # NULL /\ lossless =>
    \A p \in Paths :
      /\ files[p].whole
      /\ files[p].of \in DOMAIN path
      /\ path[files[p].of] = p
      /\ \A e \in Later(files[p].of) \cap DOMAIN path : path[e] # p

(* The runs keep what ClassFiles promises: success is reported only when
   this run has written every file, a file changes only to a class that
   belongs there, and a failed call changes none
   (src/src/java_record.c:533-543, src/src/generator.c:76). *)
FilesPromise == INSTANCE ClassFiles WITH
  fresh  <- {path[d] : d \in written \cap DOMAIN path},
  status <- IF killed THEN "killed"
            ELSE IF pc # "done" THEN "running"
            ELSE IF ret = 0 THEN "success" ELSE "failure"

FilesKept == FilesPromise!Spec

(* How the class of d names another one: by its identifier alone, and the
   class imports nothing but what the library offers. *)
Referred(d, r) == [package |-> Package(d), class |-> name[r]]

(* Every module around d, "Build full module path by walking up the parent
   chain" (src/src/package_resolver.c:80). *)
FullPackage(d) ==
  LET around == Around(ast, Node, d)
  IN IF around = <<>> THEN <<"generated">>
     ELSE [k \in DOMAIN around |-> name[around[Len(around) + 1 - k]]]

(* A class is where its modules say and is found from there: it lies in the
   package of its full module path, and the name by which a later class
   refers to it finds it, "References to types in other modules work
   seamlessly" (src/README.md:19).
   Violated on both counts: of more than MaxModules modules the outermost are
   dropped, and Java looks for the name in the package of the later class. *)
ClassesInPlace ==
  pc = "done" /\ ret = 0 /\ lossless =>
    \A r \in DOMAIN path :
      /\ path[r].package = FullPackage(r)
      /\ \A d \in DOMAIN path :
           r < d => /\ Referred(d, r) \in Paths
                    /\ files[Referred(d, r)].of = r

-----------------------------------------------------------------------------
(***************************************************************************)
(* The inductive invariant behind LastOneStays: whatever comes after a     *)
(* definition in the source is still ahead of the walk when the definition *)
(* is generated, and so is each later definition with the path of a file   *)
(* until it is generated itself.                                           *)
(***************************************************************************)

(* The calls and loops that will look at a node, or at a node's sibling. *)
Ahead ==
  {n \in Node :
     \E i \in 1..Len(stack) :
       \/ stack[i].at = "body" /\ stack[i].node = n
       \/ stack[i].at = "loop" /\ i = Len(stack) /\ stack[i].def = n
       \/ stack[i].at \in {"loop", "tail"} /\ ast.next[stack[i].node] = n
       \/ /\ stack[i].at = "loop" /\ i < Len(stack) /\ stack[i].def # NULL
          /\ ast.next[stack[i].def] = n}

Pending == Onwards(Ahead)

(* A loop runs over the definitions of its module, and below every call on a
   definition of a module is the loop of that module. *)
Enclosed ==
  \A i \in 1..Len(stack) :
    /\ stack[i].at = "loop" /\ stack[i].def # NULL =>
         ast.parent[stack[i].def] = stack[i].node
    /\ ast.parent[stack[i].node] # NULL =>
         \E j \in 1..i - 1 : /\ stack[j].at = "loop"
                             /\ stack[j].node = ast.parent[stack[i].node]

(* As long as nothing failed, what this run has written holds one of its
   classes, and the later ones with the same path are ahead. *)
Survivors ==
  errors = 0 /\ ~killed =>
    \A d \in written \cap DOMAIN path :
      LET f == files[path[d]]
      IN /\ f.of \in written
         /\ lossless => f.whole
         /\ \A e \in Later(f.of) \cap DOMAIN path :
              path[e] = path[d] => e \in Pending

SourceOK ==
  /\ ast \in Trees
  /\ DOMAIN path \subseteq Definitions(ast)
  /\ pc = "done" => ~killed /\ (ast.root # NULL => ret = errors)

GInv == IInv /\ RInv /\ SourceOK /\ FilesTypeOK /\ Enclosed /\ Survivors

=============================================================================
