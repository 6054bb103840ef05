------------------------------- MODULE AstWalk -------------------------------
(***************************************************************************)
(* The walk over the syntax tree (src/src/generator.c): generate() sets up *)
(* a generator_state and process_node() recurses over the tree, calling    *)
(* one generate_java_*() per definition.  The recursion is an explicit     *)
(* stack of frames, because the flag in_module is shared by all of them    *)
(* and decides, at the end of each call, who visits the next sibling: the  *)
(* call itself or the loop of an enclosing module.                         *)
(*                                                                         *)
(* A call of generate_java_*() is one step here, with 0 or -1 as its       *)
(* result; FileEmitter models what happens inside.                         *)
(*                                                                         *)
(* A definition named X_Bug is X with a bug a change of the code might     *)
(* bring in; no specification uses it, it shows that a property can fail.  *)
(***************************************************************************)
EXTENDS IdlTree, Sequences, FiniteSets

VARIABLES
  ast,                  \* pstate->root and everything below it
  pc,                   \* where generate() is
  stack,                \* the active calls of process_node, innermost last
  in_module,            \* state->in_module
  current_module_name,  \* state->current_module_name: the module it names
  struct_count,         \* state->struct_count
  enum_count,           \* state->enum_count
  errors,               \* state->errors
  ret,                  \* what generate() returned
  entered,              \* history: the nodes process_node was called on
  attempts,             \* history: generate_java_*() calls per node
  written               \* history: nodes for which such a call returned 0

counters == <<struct_count, enum_count, errors>>
history == <<entered, attempts, written>>
vars == <<ast, pc, stack, in_module, current_module_name, counters, ret,
          history>>

(***************************************************************************)
(* A frame is one active call: the node it is about, where in the function *)
(* it is, and the loop variable def.                                       *)
(*   body    about to look at the node's kind                              *)
(*   loop    at the head of the while over a module's definitions          *)
(*   tail    at the test of node->next                                     *)
(*   unwind  after the call on node->next                                  *)
(***************************************************************************)
Places == {"body", "loop", "tail", "unwind"}
Frame == [node : Node, at : Places, def : NodeOrNull]
Call(n) == [node |-> n, at |-> "body", def |-> NULL]

Top == stack[Len(stack)]
TopIs(place) == pc = "walk" /\ stack # <<>> /\ Top.at = place
SetTop(f) == [stack EXCEPT ![Len(stack)] = f]
TopGoesTo(place) == SetTop([Top EXCEPT !.at = place])
Pop(s) == SubSeq(s, 1, Len(s) - 1)

Init ==
  /\ ast \in Trees
  /\ pc = "generate"
  /\ stack = <<>>
  /\ in_module = FALSE
  /\ current_module_name = NULL
  /\ struct_count = 0 /\ enum_count = 0 /\ errors = 0
  /\ ret = 0
  /\ entered = {}
  /\ attempts = [n \in Node |-> 0]
  /\ written = {}

(* generate() without a syntax tree returns -1 at once. *)
GenerateNothing ==
  /\ pc = "generate"
  /\ ast.root = NULL
  /\ ret' = -1
  /\ pc' = "done"
  /\ UNCHANGED <<ast, stack, in_module, current_module_name, counters, history>>

(* generate() fills in the generator_state; generate_types() calls
   process_node on the root. *)
GenerateTypes ==
  /\ pc = "generate"
  /\ ast.root # NULL
  /\ stack' = <<Call(ast.root)>>
  /\ pc' = "walk"
  /\ UNCHANGED <<ast, in_module, current_module_name, counters, ret, history>>

(* What a call of generate_java_*() adds to the errors. *)
Failure_Signed(result) == result
Failure_PositiveOnly(result) == IF result > 0 THEN 1 ELSE 0
Failure(result) == IF result # 0 THEN 1 ELSE 0

(* A struct, enum, union, bitmask or typedef: only the first two are
   counted; a result other than 0 is counted as an error and the walk goes
   on. *)
EmitDefinition(result) ==
  LET n == Top.node
      k == ast.kind[n]
  IN /\ TopIs("body")
     /\ k \in DefinitionKinds
     /\ struct_count' = struct_count + (IF k = "struct" THEN 1 ELSE 0)
     /\ enum_count' = enum_count + (IF k = "enum" THEN 1 ELSE 0)
     /\ errors' = errors + Failure(result)
     /\ entered' = entered \cup {n}
     /\ attempts' = [attempts EXCEPT ![n] = @ + 1]
     /\ written' = IF result = 0 THEN written \cup {n} ELSE written
     /\ stack' = TopGoesTo("tail")
     /\ UNCHANGED <<ast, pc, in_module, current_module_name, ret>>

(* A module: its name is recorded; if it has definitions, in_module is set
   and the loop starts at the first of them. *)
EnterModule ==
  LET n == Top.node
  IN /\ TopIs("body")
     /\ ast.kind[n] = "module"
     /\ current_module_name' = n
     /\ in_module' = (in_module \/ ast.defs[n] # NULL)
     /\ stack' = IF ast.defs[n] = NULL
                 THEN TopGoesTo("tail")
                 ELSE SetTop([node |-> n, at |-> "loop", def |-> ast.defs[n]])
     /\ entered' = entered \cup {n}
     /\ UNCHANGED <<ast, pc, counters, ret, attempts, written>>

SkipNode_Stays ==
  /\ TopIs("body")
  /\ ast.kind[Top.node] = "other"
  /\ entered' = entered \cup {Top.node}
  /\ UNCHANGED <<ast, pc, stack, in_module, current_module_name, counters, ret,
                 attempts, written>>

(* Any other node (a constant, an annotation): nothing to generate. *)
SkipNode ==
  /\ TopIs("body")
  /\ ast.kind[Top.node] = "other"
  /\ stack' = TopGoesTo("tail")
  /\ entered' = entered \cup {Top.node}
  /\ UNCHANGED <<ast, pc, in_module, current_module_name, counters, ret,
                 attempts, written>>

(* while (def): call process_node(def, state). *)
VisitDefinition ==
  /\ TopIs("loop")
  /\ Top.def # NULL
  /\ stack' = Append(stack, Call(Top.def))
  /\ UNCHANGED <<ast, pc, in_module, current_module_name, counters, ret,
                 history>>

LeaveModule_KeepsFlag ==
  /\ TopIs("loop")
  /\ Top.def = NULL
  /\ stack' = TopGoesTo("tail")
  /\ UNCHANGED <<ast, pc, in_module, current_module_name, counters, ret, history>>

(* The loop is over: in_module is cleared, whatever it was when this module
   was entered. *)
LeaveModule ==
  /\ TopIs("loop")
  /\ Top.def = NULL
  /\ in_module' = FALSE
  /\ stack' = TopGoesTo("tail")
  /\ UNCHANGED <<ast, pc, current_module_name, counters, ret, history>>

(* node->next && !state->in_module *)
HandsOver_Always(n) == ast.next[n] # NULL
HandsOver(n) == ast.next[n] # NULL /\ ~in_module

VisitNextSibling_Self ==
  /\ TopIs("tail")
  /\ HandsOver(Top.node)
  /\ stack' = Append(TopGoesTo("unwind"), Call(Top.node))
  /\ UNCHANGED <<ast, pc, in_module, current_module_name, counters, ret,
                 history>>

(* The call itself visits the next sibling. *)
VisitNextSibling ==
  /\ TopIs("tail")
  /\ HandsOver(Top.node)
  /\ stack' = Append(TopGoesTo("unwind"), Call(ast.next[Top.node]))
  /\ UNCHANGED <<ast, pc, in_module, current_module_name, counters, ret,
                 history>>

(* What the caller does when the call it made returns: a module's loop takes
   def = def->next, anything else returns in its turn. *)
Resumed(caller) ==
  IF caller.at = "loop"
  THEN [caller EXCEPT !.def = ast.next[@]]
  ELSE caller

Return ==
  /\ \/ TopIs("tail") /\ ~HandsOver(Top.node)
     \/ TopIs("unwind")
  /\ stack' = IF Len(stack) = 1
              THEN <<>>
              ELSE [Pop(stack) EXCEPT ![Len(stack) - 1] = Resumed(@)]
  /\ pc' = IF Len(stack) = 1 THEN "report" ELSE "walk"
  /\ UNCHANGED <<ast, in_module, current_module_name, counters, ret, history>>

(* generate_types() returns state->errors and generate() passes it on. *)
Report ==
  /\ pc = "report"
  /\ ret' = errors
  /\ pc' = "done"
  /\ UNCHANGED <<ast, stack, in_module, current_module_name, counters, history>>

Next ==
  \/ GenerateNothing
  \/ GenerateTypes
  \/ \E result \in {0, -1} : EmitDefinition(result)
  \/ EnterModule
  \/ SkipNode
  \/ VisitDefinition
  \/ LeaveModule
  \/ VisitNextSibling
  \/ Return
  \/ Report

Spec == Init /\ [][Next]_vars

(* One thread runs the plugin and no call of it waits for anything. *)
FairSpec == Spec /\ WF_vars(Next)

-----------------------------------------------------------------------------

(* The type of every variable. *)
TypeOK ==
  /\ WellFormed(ast)
  /\ pc \in {"generate", "walk", "report", "done"}
  /\ stack \in Seq(Frame)
  /\ in_module \in BOOLEAN
  /\ current_module_name \in NodeOrNull
  /\ struct_count \in Nat /\ enum_count \in Nat /\ errors \in Nat
  /\ ret \in Int
  /\ entered \in SUBSET Node
  /\ attempts \in [Node -> Nat]
  /\ written \in SUBSET Node

(* No definition is lost: when generate() returns after a walk, every
   definition of the tree had its generate_java_*() call, wherever modules
   begin and end around it.  The hazard is the hand-over of a node's next
   sibling between the recursion and the loop (src/src/generator.c:168). *)
NoDefinitionLost ==
  pc = "done" /\ ast.root # NULL =>
    \A n \in Definitions(ast) : attempts[n] > 0

(* The recursion is no deeper than the tree has nodes, although every
   top-level sibling is visited from inside the call on the one before it. *)
DepthBounded == Len(stack) <= NumNodes

(* The loop of a module comes to a node in its own turn, and once more in the
   turn of each earlier sibling from the first module with definitions on:
   leaving that one cleared in_module, so that the call on a sibling goes on
   to the next. *)
Siblings(t, n) == {s \in Reachable(t) : t.parent[s] = t.parent[n]}
Breaks(t, n) == \E m \in Siblings(t, n) : m <= n /\ t.defs[m] # NULL
Turns(t, n) == {s \in Siblings(t, n) : s = n \/ (s < n /\ Breaks(t, s))}

(* How often the walk comes to a node: as often as start says, and in all
   turns of the enclosing module as often as it comes to that. *)
Passes(t, start) ==
  LET passes[n \in Node] ==
        start[n] + (IF t.parent[n] = NULL
                    THEN 0
                    ELSE passes[t.parent[n]] * Cardinality(Turns(t, n)))
  IN passes

(* How often process_node generates a definition: a top-level one once; the
   k-th sibling after a nested module k + 1 times as often as the module
   around it. *)
ReplayCount ==
  Passes(ast, [n \in Node |-> IF ast.parent[n] = NULL THEN 1 ELSE 0])

(* Each definition is generated exactly as often as its place in the tree
   says, whatever fails: once, unless a nested module comes before it. *)
ReplaysExact ==
  pc = "done" /\ ast.root # NULL =>
    \A n \in Definitions(ast) : attempts[n] = ReplayCount[n]

(* The summary line of generate_types(), "Found %d structs and %d enums"
   (src/src/generator.c:181), counts the structs and enums of the tree. *)
SummaryCountsDefinitions ==
  pc = "done" /\ ast.root # NULL =>
    /\ struct_count = Cardinality({n \in Definitions(ast) : ast.kind[n] = "struct"})
    /\ enum_count = Cardinality({n \in Definitions(ast) : ast.kind[n] = "enum"})

(* generate() returns. *)
Termination == <>(pc = "done")

-----------------------------------------------------------------------------

(***************************************************************************)
(* The inductive invariant behind NoDefinitionLost and DepthBounded.       *)
(***************************************************************************)

(* Only the innermost call is at work; a caller waits in its loop for the
   call on its loop variable, or for the call on its next sibling. *)
CallersWait ==
  \A i \in 1..Len(stack) - 1 :
    \/ /\ stack[i].at = "loop"
       /\ stack[i+1].node = stack[i].def
    \/ /\ stack[i].at = "unwind"
       /\ stack[i+1].node = ast.next[stack[i].node]

(* A loop runs in a module that has definitions, over nodes that come after
   the module. *)
LoopsForward ==
  \A i \in 1..Len(stack) :
    stack[i].at = "loop" =>
      /\ ast.defs[stack[i].node] # NULL
      /\ stack[i].def # NULL => stack[i].def > stack[i].node

(* Node numbers grow along the stack, so they are at least the depth. *)
NodesDeepen == \A i \in 1..Len(stack) : stack[i].node >= i

(* in_module set means that an enclosing loop will look after the next
   sibling of the innermost call, if that call is not itself the loop. *)
FlagMeansLoop ==
  in_module =>
    /\ stack # <<>>
    /\ \/ Top.at = "loop"
       \/ /\ Top.at \in {"body", "tail"}
          /\ Len(stack) > 1
          /\ stack[Len(stack) - 1].at = "loop"

(* process_node will be called on n, or has just been called on it. *)
Due(n) ==
  \E i \in 1..Len(stack) :
    \/ stack[i].at = "body" /\ stack[i].node = n
    \/ stack[i].at = "loop" /\ stack[i].def = n

(* Somebody will look after the next sibling of n: the call on n itself, or
   the loop that stands at n. *)
SiblingDue(n) ==
  \E i \in 1..Len(stack) :
    \/ stack[i].at \in {"loop", "tail"} /\ stack[i].node = n
    \/ stack[i].at = "loop" /\ stack[i].def = n

FramesEntered ==
  \A i \in 1..Len(stack) : stack[i].at # "body" => stack[i].node \in entered

Accounted ==
  /\ pc \in {"walk", "report", "done"} /\ ast.root # NULL =>
       ast.root \in entered \/ Due(ast.root)
  /\ \A n \in entered :
       /\ ast.defs[n] # NULL => ast.defs[n] \in entered \/ Due(ast.defs[n])
       /\ ast.next[n] # NULL => \/ ast.next[n] \in entered
                                \/ Due(ast.next[n])
                                \/ SiblingDue(n)
  /\ \A n \in entered : ast.kind[n] \in DefinitionKinds => attempts[n] > 0

WalkOver ==
  /\ pc # "walk" => stack = <<>>
  /\ pc = "walk" => stack # <<>>
  /\ pc \in {"walk", "report"} => ast.root # NULL

IInv ==
  /\ TypeOK
  /\ CallersWait
  /\ LoopsForward
  /\ NodesDeepen
  /\ FlagMeansLoop
  /\ FramesEntered
  /\ Accounted
  /\ WalkOver

(***************************************************************************)
(* What refinement of GenerateContract needs besides: the walk visits no   *)
(* node the parser did not link to the root, and the error counter tells   *)
(* whether a generate_java_*() call failed.                                *)
(***************************************************************************)
FrameReachable(f) ==
  /\ f.node \in Reachable(ast)
  /\ f.at = "loop" => f.def \in Reachable(ast) \cup {NULL}

OnlyReachable ==
  /\ \A i \in 1..Len(stack) : FrameReachable(stack[i])
  /\ \A n \in Node : attempts[n] > 0 => n \in Definitions(ast)

ErrorsHonest ==
  /\ errors = 0 => written = {n \in Node : attempts[n] > 0}
  /\ pc = "generate" => \A n \in Node : attempts[n] = 0
  /\ pc # "done" => ret = 0

RInv == OnlyReachable /\ ErrorsHonest

(***************************************************************************)
(* The inductive invariant behind ReplaysExact: what was generated so far  *)
(* and what the active calls will still generate add up to ReplayCount.    *)
(***************************************************************************)

(* The turns for n that a loop which has begun still has to take. *)
TurnsLeft(n) ==
  {s \in Turns(ast, n) :
     \E i \in 1..Len(stack) :
       /\ stack[i].at = "loop"
       /\ stack[i].node = ast.parent[n]
       /\ stack[i].def # NULL
       /\ s > stack[i].def \/ (s = stack[i].def /\ i = Len(stack))}

(* The call on n, or one that hands over from sibling to sibling up to n, is
   active and has not come to n. *)
UnderWay(n) ==
  \E i \in 1..Len(stack) :
    \/ stack[i].at = "body" /\ stack[i].node = n
    \/ /\ stack[i].at # "unwind"
       /\ stack[i].node \in Siblings(ast, n)
       /\ stack[i].node < n
       /\ ast.parent[n] = NULL \/ Breaks(ast, stack[i].node)

Coming(n) == TurnsLeft(n) \cup (IF UnderWay(n) THEN {NULL} ELSE {})

(* How often the walk will still come to a node. *)
Future == Passes(ast, [n \in Node |-> Cardinality(Coming(n))])

(* The calls go down the tree and along the siblings, and a loop stays below
   its module. *)
StackDescends ==
  \A i, j \in 1..Len(stack) :
    i < j => /\ stack[i].node < stack[j].node
             /\ stack[i].at = "loop" =>
                  ast.parent[stack[j].node] >= stack[i].node

LoopsStayInside ==
  \A i \in 1..Len(stack) :
    stack[i].at = "loop" /\ stack[i].def # NULL =>
      ast.parent[stack[i].def] = stack[i].node

(* Below a module, only a node from the first nested module on hands over. *)
HandOversBreak ==
  \A i \in 1..Len(stack) :
    stack[i].at = "unwind" =>
      ast.parent[stack[i].node] = NULL \/ Breaks(ast, stack[i].node)

(* What in_module is worth: it is set exactly inside of a module, before the
   first of the siblings that has definitions is left. *)
NoneBefore(t, n) ==
  t.parent[n] # NULL /\ \A m \in Siblings(t, n) : m < n => t.defs[m] = NULL

FlagExact ==
  stack # <<>> =>
    /\ Top.at = "body" => (in_module <=> NoneBefore(ast, Top.node))
    /\ Top.at = "tail" =>
         (in_module <=> ast.parent[Top.node] # NULL /\ ~Breaks(ast, Top.node))
    /\ Top.at = "loop" /\ Top.def # NULL => (in_module <=> NoneBefore(ast, Top.def))
    /\ Top.at = "unwind" => ~in_module

PassesAddUp ==
  pc # "generate" /\ ast.root # NULL =>
    \A n \in Definitions(ast) : attempts[n] + Future[n] = ReplayCount[n]

SInv == StackDescends /\ LoopsStayInside /\ HandOversBreak /\ FlagExact

(* What the walk promises, whatever the order in which it visits. *)
Contract == INSTANCE GenerateContract WITH
  attempted <- {n \in Node : attempts[n] > 0},
  failed <- errors > 0,
  status <- IF pc # "done" THEN "running"
            ELSE IF ret = 0 THEN "success"
            ELSE IF ret > 0 THEN "failure" ELSE "nothing"

(* The walk implements GenerateContract: generate() returns 0 only if every
   definition of the tree was generated without an error, a positive number
   only if all were attempted and one failed, -1 only if there was no tree
   (src/src/generator.c:183, 226 and 261). *)
ContractKept == Contract!Spec

=============================================================================
