---------------------------- MODULE AstWalk_proofs ----------------------------
(***************************************************************************)
(* Proofs about the walk over the syntax tree, for every tree.             *)
(***************************************************************************)
EXTENDS AstWalk, TLAPS, SequenceTheorems, FiniteSetTheorems, SetInduction

(***************************************************************************)
(* The order of siblings.                                                  *)
(***************************************************************************)

(* The links of a well-formed tree. *)
LEMMA TreeLinks ==
  ASSUME NEW t, WellFormed(t)
  PROVE  /\ t.root \in NodeOrNull
         /\ t.root # NULL => t.parent[t.root] = NULL
         /\ \A n \in Node :
              /\ t.next[n] \in NodeOrNull /\ t.defs[n] \in NodeOrNull
              /\ t.parent[n] \in NodeOrNull /\ t.parent[n] < n
              /\ t.next[n] # NULL => /\ t.next[n] \in Node
                                     /\ t.next[n] > n
                                     /\ t.parent[t.next[n]] = t.parent[n]
              /\ t.defs[n] # NULL => /\ t.defs[n] \in Node
                                     /\ t.defs[n] > n
                                     /\ t.parent[t.defs[n]] = n
BY DEF WellFormed, Tree, NodeOrNull

(* Nodes are natural numbers other than NULL. *)
LEMMA NodesCount ==
  /\ Node \subseteq Nat \ {0} /\ NULL = 0 /\ NULL \notin Node
  /\ NodeOrNull = Node \cup {0} /\ NodeOrNull \subseteq Nat
  /\ \A n \in NodeOrNull : n # NULL => n \in Node
BY NumNodesAssumption DEF Node, NodeOrNull, NULL

(* What is reachable lies in every set that holds the root and that no
   pointer leaves. *)
LEMMA ReachableLeast ==
  ASSUME NEW t, NEW S, S \subseteq Node,
         t.root # NULL => t.root \in S,
         \A n \in S : /\ t.next[n] # NULL => t.next[n] \in S
                      /\ t.defs[n] # NULL => t.defs[n] \in S
  PROVE  Reachable(t) \subseteq S
BY DEF Reachable, Closed

(* Reachable is such a set. *)
LEMMA ReachableClosed ==
  ASSUME NEW t, WellFormed(t)
  PROVE  /\ Reachable(t) \subseteq Node
         /\ t.root # NULL => t.root \in Reachable(t)
         /\ \A n \in Reachable(t) :
              /\ t.next[n] # NULL => t.next[n] \in Reachable(t)
              /\ t.defs[n] # NULL => t.defs[n] \in Reachable(t)
BY TreeLinks DEF Reachable, Closed, NodeOrNull

(* The root is the first of the top-level nodes, and the first definition of
   a module the first of those whose parent it is. *)
LEMMA FirstSibling ==
  ASSUME NEW t, WellFormed(t), NEW n \in Reachable(t)
  PROVE  /\ t.parent[n] = NULL => t.root <= n
         /\ t.parent[n] # NULL => /\ t.parent[n] \in Reachable(t)
                                  /\ t.defs[t.parent[n]] # NULL
                                  /\ t.defs[t.parent[n]] <= n
<1>. DEFINE Good(k) ==
       /\ t.parent[k] = NULL => t.root <= k
       /\ t.parent[k] # NULL => /\ t.parent[k] \in Reachable(t)
                                /\ t.defs[t.parent[k]] # NULL
                                /\ t.defs[t.parent[k]] <= k
     S == {k \in Reachable(t) : Good(k)}
<1>1. S \subseteq Node
  BY ReachableClosed
<1>2. t.root # NULL => t.root \in S
  <2>1. t.root \in Nat
    BY TreeLinks, NodesCount
  <2>. QED
    BY <2>1, TreeLinks, ReachableClosed
<1>3. ASSUME NEW k \in S, t.next[k] # NULL PROVE t.next[k] \in S
  <2>1. /\ k \in Node /\ Good(k) /\ t.next[k] \in Reachable(t)
        /\ t.next[k] \in Node /\ t.next[k] > k
        /\ t.parent[t.next[k]] = t.parent[k]
    BY <1>1, <1>3, TreeLinks, ReachableClosed
  <2>2. /\ k \in Nat /\ t.next[k] \in Nat /\ t.root \in Nat
    BY <2>1, TreeLinks, NodesCount
  <2>3. t.parent[k] # NULL => t.defs[t.parent[k]] \in Nat
    BY <2>1, TreeLinks, NodesCount
  <2>. QED
    BY <2>1, <2>2, <2>3
<1>4. ASSUME NEW k \in S, t.defs[k] # NULL PROVE t.defs[k] \in S
  <2>1. /\ k \in Node /\ k # NULL /\ t.defs[k] \in Reachable(t)
        /\ t.defs[k] \in Nat /\ t.parent[t.defs[k]] = k
    BY <1>1, <1>4, TreeLinks, ReachableClosed, NodesCount
  <2>. QED
    BY <1>4, <2>1
<1>5. Reachable(t) \subseteq S
  <2>. HIDE DEF S
  <2>. QED
    BY <1>1, <1>2, <1>3, <1>4, ReachableLeast
<1>. QED
  BY <1>5

(* Induction over the nodes in source order. *)
LEMMA NodeInduction ==
  ASSUME NEW S,
         \A n \in Node : (\A k \in Node : k < n => k \in S) => n \in S
  PROVE  Node \subseteq S
<1>. DEFINE Missing == {n \in Node : n \notin S}
<1>1. SUFFICES ASSUME Missing # {} PROVE FALSE
  OBVIOUS
<1>2. Missing \subseteq Nat
  BY NodesCount
<1>3. PICK m \in Missing : \A k \in Missing : m <= k
  <2>. HIDE DEF Missing
  <2>. QED
    BY <1>1, <1>2, LeastNatural, Zenon
<1>4. \A k \in Node : k < m => k \in S
  BY <1>2, <1>3, NodesCount
<1>. QED
  BY <1>3, <1>4

(* next goes from a node to the first of its later siblings. *)
LEMMA SiblingOrder ==
  ASSUME NEW t, WellFormed(t)
  PROVE  \A s \in Node : \A n \in Reachable(t) :
           s \in Reachable(t) /\ t.parent[n] = t.parent[s] /\ s < n =>
             t.next[s] # NULL /\ t.next[s] <= n
<1>. DEFINE After(s, n) == t.next[s] # NULL /\ t.next[s] <= n
            Ordered == {s \in Node : \A n \in Reachable(t) :
              s \in Reachable(t) /\ t.parent[n] = t.parent[s] /\ s < n =>
                After(s, n)}
<1>1. ASSUME NEW s \in Node, \A k \in Node : k < s => k \in Ordered
      PROVE  s \in Ordered
  <2>. SUFFICES ASSUME s \in Reachable(t) PROVE s \in Ordered
    OBVIOUS
  <2>. DEFINE S == {n \in Reachable(t) : \/ n <= s
                                         \/ t.parent[n] # t.parent[s]
                                         \/ After(s, n)}
  <2>1. S \subseteq Node
    BY ReachableClosed
  <2>2. t.root # NULL => t.root \in S
    <3>1. t.parent[s] = NULL => t.root <= s
      BY FirstSibling
    <3>. QED
      BY <3>1, TreeLinks, ReachableClosed
  <2>3. ASSUME NEW n \in S, t.defs[n] # NULL PROVE t.defs[n] \in S
    <3>1. /\ n \in Node /\ n # NULL /\ t.defs[n] \in Reachable(t)
          /\ t.parent[t.defs[n]] = n
      BY <2>1, <2>3, TreeLinks, ReachableClosed, NodesCount
    <3>2. t.parent[s] = n => t.defs[n] <= s
      BY <3>1, FirstSibling
    <3>. QED
      BY <3>1, <3>2
  <2>4. ASSUME NEW n \in S, t.next[n] # NULL PROVE t.next[n] \in S
    <3>1. /\ n \in Node /\ n \in Reachable(t)
          /\ t.next[n] \in Reachable(t)
          /\ t.next[n] \in Node /\ t.next[n] > n
          /\ t.parent[t.next[n]] = t.parent[n]
      BY <2>1, <2>4, TreeLinks, ReachableClosed
    <3>2. n \in Nat /\ s \in Nat /\ t.next[n] \in Nat /\ t.next[s] \in Nat
      BY <3>1, TreeLinks, NodesCount
    <3>3. CASE t.parent[n] # t.parent[s]
      BY <3>1, <3>3
    <3>4. CASE t.parent[n] = t.parent[s] /\ n < s
      <4>1. n \in Ordered
        BY <1>1, <3>1, <3>4
      <4>2. After(n, s)
        BY <3>1, <3>4, <4>1
      <4>. QED
        BY <3>1, <4>2
    <3>5. CASE n = s
      BY <2>4, <3>1, <3>2, <3>5
    <3>6. CASE t.parent[n] = t.parent[s] /\ n > s
      BY <2>4, <3>1, <3>2, <3>6
    <3>. QED
      BY <3>2, <3>3, <3>4, <3>5, <3>6
  <2>5. Reachable(t) \subseteq S
    <3>. HIDE DEF S
    <3>. QED
      BY <2>1, <2>2, <2>3, <2>4, ReachableLeast
  <2>6. ASSUME NEW n \in Reachable(t), t.parent[n] = t.parent[s], s < n
        PROVE  After(s, n)
    <3>1. n \in Nat /\ s \in Nat
      BY NodesCount, ReachableClosed
    <3>. QED
      BY <2>5, <2>6, <3>1
  <2>. QED
    BY <2>6
<1>2. Node \subseteq Ordered
  <2>. HIDE DEF Ordered
  <2>. QED
    BY <1>1, NodeInduction
<1>. QED
  BY <1>2

-----------------------------------------------------------------------------
(***************************************************************************)
(* The frames of the stack.                                                *)
(***************************************************************************)

(* The fields of a well-formed tree. *)
LEMMA TreeFields ==
  ASSUME WellFormed(ast)
  PROVE  /\ ast.root \in NodeOrNull
         /\ \A n \in Node : /\ ast.kind[n] \in Kinds
                            /\ ast.next[n] \in NodeOrNull
                            /\ ast.defs[n] \in NodeOrNull
                            /\ ast.next[n] # NULL => ast.next[n] > n
                            /\ ast.defs[n] # NULL => ast.defs[n] > n
                            /\ ast.defs[n] # NULL => ast.kind[n] = "module"
BY DEF WellFormed, Tree

(* The innermost frame of a stack, and what it becomes when it moves on. *)
LEMMA TopProperties ==
  ASSUME stack \in Seq(Frame), stack # <<>>
  PROVE  /\ Len(stack) \in Nat \ {0}
         /\ Top \in Frame
         /\ Top.node \in Node /\ Top.def \in NodeOrNull
         /\ \A p \in Places : /\ [Top EXCEPT !.at = p] \in Frame
                             /\ [Top EXCEPT !.at = p].node = Top.node
                             /\ [Top EXCEPT !.at = p].at = p
                             /\ [Top EXCEPT !.at = p].def = Top.def
<1>1. Len(stack) \in Nat \ {0} /\ Top \in Frame
  BY DEF Top
<1>. QED
  BY <1>1 DEF Frame

(* A length is 1 or above. *)
LEMMA AboveOne == \A l \in Nat \ {0} : l = 1 \/ (l > 1 /\ l # 1)
OBVIOUS

(* Replacing the innermost frame of a stack. *)
LEMMA SetTopProperties ==
  ASSUME stack \in Seq(Frame), stack # <<>>, NEW f \in Frame
  PROVE  /\ SetTop(f) \in Seq(Frame)
         /\ Len(SetTop(f)) = Len(stack)
         /\ SetTop(f)[Len(stack)] = f
         /\ \A i \in 1..Len(stack) - 1 : SetTop(f)[i] = stack[i]
BY DEF SetTop

(* Returning from the innermost call to a caller. *)
LEMMA ReturnProperties ==
  ASSUME stack \in Seq(Frame), Len(stack) > 1, WellFormed(ast),
         LET caller == stack[Len(stack) - 1]
         IN caller.at = "loop" => caller.def \in Node,
         NEW s, s = [Pop(stack) EXCEPT ![Len(stack) - 1] = Resumed(@)]
  PROVE  /\ s \in Seq(Frame)
         /\ Len(s) = Len(stack) - 1
         /\ s[Len(stack) - 1] = Resumed(stack[Len(stack) - 1])
         /\ \A i \in 1..Len(stack) - 2 : s[i] = stack[i]
<1>1. /\ Pop(stack) \in Seq(Frame)
      /\ Len(Pop(stack)) = Len(stack) - 1
      /\ \A i \in 1..Len(stack) - 1 : Pop(stack)[i] = stack[i]
  BY DEF Pop
<1>2. stack[Len(stack) - 1] \in Frame
  OBVIOUS
<1>3. Resumed(stack[Len(stack) - 1]) \in Frame
  BY <1>2, TreeFields DEF Resumed, Frame, NodeOrNull
<1>. QED
  BY <1>1, <1>3

-----------------------------------------------------------------------------
(***************************************************************************)
(* The inductive invariant holds at first and every action preserves it.   *)
(***************************************************************************)

(* The walk starts in its invariant. *)
LEMMA InitIInv == Init => IInv
<1>. SUFFICES ASSUME Init PROVE IInv
  OBVIOUS
<1>1. TypeOK
  <2>1. WellFormed(ast)
    BY TreesAssumption DEF Init
  <2>2. stack \in Seq(Frame)
    BY DEF Init
  <2>3. attempts \in [Node -> Nat]
    BY DEF Init
  <2>4. /\ current_module_name \in NodeOrNull
        /\ struct_count \in Nat /\ enum_count \in Nat /\ errors \in Nat
        /\ ret \in Int
        /\ pc \in {"generate", "walk", "report", "done"}
        /\ entered \in SUBSET Node /\ written \in SUBSET Node
    BY DEF Init, NodeOrNull
  <2>. QED
    BY <2>1, <2>2, <2>3, <2>4 DEF Init, TypeOK
<1>. QED
  BY <1>1 DEF Init, IInv, CallersWait, LoopsForward, NodesDeepen,
              FlagMeansLoop, FramesEntered, Accounted, WalkOver

(* Returning at once, for want of a tree, keeps the invariant. *)
LEMMA GenerateNothingIInv == IInv /\ GenerateNothing => IInv'
<1>. SUFFICES ASSUME IInv, GenerateNothing PROVE IInv'
  OBVIOUS
<1>1. TypeOK'
  BY DEF IInv, TypeOK, GenerateNothing, counters, history
<1>. QED
  BY <1>1 DEF GenerateNothing, counters, history, IInv, CallersWait,
              LoopsForward, NodesDeepen, FlagMeansLoop, FramesEntered,
              Accounted, WalkOver, Due, SiblingDue, Top

(* The summary and the message after it keep the invariant. *)
LEMMA ReportIInv == IInv /\ Report => IInv'
<1>. SUFFICES ASSUME IInv, Report PROVE IInv'
  OBVIOUS
<1>1. TypeOK'
  BY DEF IInv, TypeOK, Report, counters, history
<1>. QED
  BY <1>1 DEF Report, counters, history, IInv, CallersWait,
              LoopsForward, NodesDeepen, FlagMeansLoop, FramesEntered,
              Accounted, WalkOver, Due, SiblingDue, Top

(* The first call of process_node() establishes the frame on the root. *)
LEMMA GenerateTypesIInv == IInv /\ GenerateTypes => IInv'
<1>. SUFFICES ASSUME IInv, GenerateTypes PROVE IInv'
  OBVIOUS
<1>1. /\ ast.root \in Node
      /\ Call(ast.root) \in Frame
      /\ stack' = <<Call(ast.root)>>
      /\ Len(stack') = 1
      /\ stack'[1].node = ast.root
      /\ stack'[1].at = "body"
      /\ pc' = "walk"
  BY TreeFields DEF IInv, TypeOK, GenerateTypes, NodeOrNull, Call, Frame,
                    Places
<1>2. TypeOK'
  BY <1>1 DEF IInv, TypeOK, GenerateTypes, counters, history
<1>3. ~in_module'
  BY DEF IInv, FlagMeansLoop, WalkOver, GenerateTypes
<1>4. Accounted'
  BY <1>1 DEF IInv, Accounted, GenerateTypes, history, Due, SiblingDue,
              WalkOver
<1>. QED
  BY <1>1, <1>2, <1>3, <1>4
  DEF GenerateTypes, counters, history, IInv, CallersWait,
      LoopsForward, NodesDeepen, FlagMeansLoop, FramesEntered, WalkOver,
      Node

(***************************************************************************)
(* The three actions that look at a node leave everything but the          *)
(* innermost frame and the history alone.                                  *)
(***************************************************************************)
LEMMA EmitDefinitionIInv ==
  ASSUME IInv, NEW result \in {0, -1}, EmitDefinition(result)
  PROVE  IInv'
<1>. DEFINE L == Len(stack)
<1>1. PICK n \in Node : n = Top.node
  BY TopProperties DEF IInv, TypeOK, EmitDefinition, TopIs
<1>2. /\ stack \in Seq(Frame) /\ stack # <<>> /\ L \in Nat \ {0}
      /\ Top \in Frame /\ Top.at = "body" /\ pc = "walk"
  BY TopProperties DEF IInv, TypeOK, EmitDefinition, TopIs
<1>3. /\ stack' \in Seq(Frame)
      /\ Len(stack') = L
      /\ stack'[L].node = n
      /\ stack'[L].at = "tail"
      /\ \A i \in 1..L - 1 : stack'[i] = stack[i]
  BY <1>1, <1>2, TopProperties, SetTopProperties
  DEF EmitDefinition, TopGoesTo, Places
<1>4. ast.defs[n] = NULL
  BY <1>1, TreeFields DEF IInv, TypeOK, EmitDefinition, DefinitionKinds
<1>5. TypeOK'
  <2>1. attempts' \in [Node -> Nat]
    BY <1>1 DEF IInv, TypeOK, EmitDefinition
  <2>2. /\ struct_count' \in Nat /\ enum_count' \in Nat /\ errors' \in Nat
    BY DEF IInv, TypeOK, EmitDefinition, Failure
  <2>3. entered' \in SUBSET Node /\ written' \in SUBSET Node
    BY <1>1 DEF IInv, TypeOK, EmitDefinition
  <2>. QED
    BY <1>3, <2>1, <2>2, <2>3 DEF IInv, TypeOK, EmitDefinition
<1>6. CallersWait'
  BY <1>1, <1>2, <1>3 DEF IInv, CallersWait, EmitDefinition, Top
<1>7. LoopsForward'
  BY <1>1, <1>2, <1>3 DEF IInv, LoopsForward, EmitDefinition, Top
<1>8. NodesDeepen'
  BY <1>1, <1>2, <1>3 DEF IInv, NodesDeepen, Top
<1>9. FlagMeansLoop'
  BY <1>1, <1>2, <1>3 DEF IInv, FlagMeansLoop, EmitDefinition, Top
<1>10. FramesEntered'
  BY <1>1, <1>2, <1>3 DEF IInv, FramesEntered, EmitDefinition, Top
<1>11. Accounted'
  <2>1. ASSUME NEW x, Due(x) PROVE Due(x)' \/ x = n
    BY <1>1, <1>2, <1>3, <2>1 DEF Due, Top
  <2>2. ASSUME NEW x, SiblingDue(x) PROVE SiblingDue(x)'
    BY <1>1, <1>2, <1>3, <2>2 DEF SiblingDue, Top
  <2>3. SiblingDue(n)'
    BY <1>1, <1>2, <1>3 DEF SiblingDue
  <2>4. /\ ast' = ast /\ entered' = entered \cup {n} /\ pc' = pc
        /\ \A m \in Node : attempts'[m] = IF m = n THEN attempts[m] + 1
                                           ELSE attempts[m]
    BY <1>1 DEF IInv, TypeOK, EmitDefinition
  <2>5. attempts \in [Node -> Nat] /\ entered \subseteq Node
    BY DEF IInv, TypeOK
  <2>6. (\A m \in entered : ast.kind[m] \in DefinitionKinds => attempts[m] > 0)'
    BY <2>4, <2>5 DEF IInv, Accounted
  <2>7. ASSUME NEW m \in entered'
        PROVE  /\ ast.defs[m] # NULL => ast.defs[m] \in entered' \/ Due(ast.defs[m])'
               /\ ast.next[m] # NULL => \/ ast.next[m] \in entered'
                                        \/ Due(ast.next[m])'
                                        \/ SiblingDue(m)'
    BY <1>4, <2>1, <2>2, <2>3, <2>4, <2>7 DEF IInv, Accounted
  <2>. QED
    BY <1>2, <2>1, <2>4, <2>6, <2>7 DEF IInv, Accounted
<1>12. WalkOver'
  BY <1>1, <1>2, <1>3 DEF IInv, WalkOver, EmitDefinition
<1>. QED
  BY <1>5, <1>6, <1>7, <1>8, <1>9, <1>10, <1>11, <1>12 DEF IInv

(* A node without a definition to generate keeps the invariant. *)
LEMMA SkipNodeIInv ==
  ASSUME IInv, SkipNode
  PROVE  IInv'
<1>. DEFINE L == Len(stack)
<1>1. PICK n \in Node : n = Top.node
  BY TopProperties DEF IInv, TypeOK, SkipNode, TopIs
<1>2. /\ stack \in Seq(Frame) /\ stack # <<>> /\ L \in Nat \ {0}
      /\ Top \in Frame /\ Top.at = "body" /\ pc = "walk"
  BY TopProperties DEF IInv, TypeOK, SkipNode, TopIs
<1>3. /\ stack' \in Seq(Frame)
      /\ Len(stack') = L
      /\ stack'[L].node = n
      /\ stack'[L].at = "tail"
      /\ \A i \in 1..L - 1 : stack'[i] = stack[i]
  BY <1>1, <1>2, TopProperties, SetTopProperties
  DEF SkipNode, TopGoesTo, Places
<1>4. ast.defs[n] = NULL /\ ast.kind[n] \notin DefinitionKinds
  BY <1>1, TreeFields DEF IInv, TypeOK, SkipNode, DefinitionKinds
<1>5. TypeOK'
  BY <1>1, <1>3 DEF IInv, TypeOK, SkipNode, counters
<1>6. CallersWait'
  BY <1>1, <1>2, <1>3 DEF IInv, CallersWait, SkipNode, Top
<1>7. LoopsForward'
  BY <1>1, <1>2, <1>3 DEF IInv, LoopsForward, SkipNode, Top
<1>8. NodesDeepen'
  BY <1>1, <1>2, <1>3 DEF IInv, NodesDeepen, Top
<1>9. FlagMeansLoop'
  BY <1>1, <1>2, <1>3 DEF IInv, FlagMeansLoop, SkipNode, Top
<1>10. FramesEntered'
  BY <1>1, <1>2, <1>3 DEF IInv, FramesEntered, SkipNode, Top
<1>11. Accounted'
  <2>1. ASSUME NEW x, Due(x) PROVE Due(x)' \/ x = n
    BY <1>1, <1>2, <1>3, <2>1 DEF Due, Top
  <2>2. ASSUME NEW x, SiblingDue(x) PROVE SiblingDue(x)'
    BY <1>1, <1>2, <1>3, <2>2 DEF SiblingDue, Top
  <2>3. SiblingDue(n)'
    BY <1>1, <1>2, <1>3 DEF SiblingDue
  <2>4. /\ ast' = ast /\ pc' = pc /\ attempts' = attempts
        /\ entered' = entered \cup {n}
    BY <1>1 DEF SkipNode
  <2>. QED
    BY <1>2, <1>4, <2>1, <2>2, <2>3, <2>4 DEF IInv, Accounted
<1>12. WalkOver'
  BY <1>1, <1>2, <1>3 DEF IInv, WalkOver, SkipNode
<1>. QED
  BY <1>5, <1>6, <1>7, <1>8, <1>9, <1>10, <1>11, <1>12 DEF IInv

(* Entering a module pushes the frame of its first definition. *)
LEMMA EnterModuleIInv ==
  ASSUME IInv, EnterModule
  PROVE  IInv'
<1>. DEFINE L == Len(stack)
<1>1. PICK n \in Node : n = Top.node
  BY TopProperties DEF IInv, TypeOK, EnterModule, TopIs
<1>2. /\ stack \in Seq(Frame) /\ stack # <<>> /\ L \in Nat \ {0}
      /\ Top \in Frame /\ Top.at = "body" /\ pc = "walk"
  BY TopProperties DEF IInv, TypeOK, EnterModule, TopIs
<1>3. /\ ast.defs[n] \in NodeOrNull
      /\ ast.defs[n] # NULL => ast.defs[n] > n
      /\ ast.kind[n] \notin DefinitionKinds
  BY <1>1, TreeFields DEF IInv, TypeOK, EnterModule, DefinitionKinds
<1>4. PICK f \in Frame : /\ stack' = SetTop(f)
                         /\ f.node = n
                         /\ \/ f.at = "tail" /\ ast.defs[n] = NULL
                            \/ /\ f.at = "loop" /\ f.def = ast.defs[n]
                               /\ ast.defs[n] # NULL
  <2>1. CASE ast.defs[n] = NULL
    BY <1>1, <1>2, <2>1, TopProperties DEF EnterModule, TopGoesTo, Places
  <2>2. CASE ast.defs[n] # NULL
    <3>. DEFINE f == [node |-> n, at |-> "loop", def |-> ast.defs[n]]
    <3>1. stack' = SetTop(f)
      BY <1>1, <2>2 DEF EnterModule
    <3>2. f \in Frame
      BY <1>3 DEF Frame, Places
    <3>. QED
      BY <2>2, <3>1, <3>2
  <2>. QED
    BY <2>1, <2>2
<1>5. /\ stack' \in Seq(Frame)
      /\ Len(stack') = L
      /\ stack'[L] = f
      /\ \A i \in 1..L - 1 : stack'[i] = stack[i]
  BY <1>2, <1>4, SetTopProperties
<1>6. TypeOK'
  <2>1. in_module' \in BOOLEAN
    BY DEF EnterModule
  <2>2. current_module_name' \in NodeOrNull
    BY <1>1 DEF EnterModule, NodeOrNull
  <2>. QED
    BY <1>1, <1>5, <2>1, <2>2 DEF IInv, TypeOK, EnterModule, counters
<1>7. CallersWait'
  <2>1. ast' = ast
    BY DEF EnterModule
  <2>2. \A i \in 1..L : stack'[i].node = stack[i].node
    BY <1>1, <1>2, <1>4, <1>5 DEF Top
  <2>3. \A i \in 1..L - 1 : stack'[i] = stack[i] /\ i + 1 \in 1..L
    BY <1>2, <1>5
  <2>. QED
    BY <1>2, <1>5, <2>1, <2>2, <2>3 DEF IInv, CallersWait
<1>8. LoopsForward'
  BY <1>1, <1>2, <1>3, <1>4, <1>5 DEF IInv, LoopsForward, EnterModule, Top
<1>9. NodesDeepen'
  BY <1>1, <1>2, <1>4, <1>5 DEF IInv, NodesDeepen, Top
<1>10. FlagMeansLoop'
  <2>1. in_module' => in_module \/ ast.defs[n] # NULL
    BY <1>1 DEF EnterModule
  <2>. QED
    BY <1>1, <1>2, <1>4, <1>5, <2>1 DEF IInv, FlagMeansLoop, Top
<1>11. FramesEntered'
  BY <1>1, <1>2, <1>4, <1>5 DEF IInv, FramesEntered, EnterModule, Top
<1>12. Accounted'
  <2>1. ASSUME NEW x, Due(x) PROVE Due(x)' \/ x = n
    BY <1>1, <1>2, <1>5, <2>1 DEF Due, Top
  <2>2. ASSUME NEW x, SiblingDue(x) PROVE SiblingDue(x)'
    BY <1>1, <1>2, <1>5, <2>2 DEF SiblingDue, Top
  <2>3. SiblingDue(n)'
    BY <1>2, <1>4, <1>5 DEF SiblingDue
  <2>4. ast.defs[n] # NULL => Due(ast.defs[n])'
    <3>1. ast' = ast
      BY DEF EnterModule
    <3>. QED
      BY <1>2, <1>4, <1>5, <3>1 DEF Due
  <2>5. /\ ast' = ast /\ pc' = pc /\ attempts' = attempts
        /\ entered' = entered \cup {n}
    BY <1>1 DEF EnterModule
  <2>. QED
    BY <1>2, <1>3, <2>1, <2>2, <2>3, <2>4, <2>5 DEF IInv, Accounted
<1>13. WalkOver'
  BY <1>1, <1>2, <1>5 DEF IInv, WalkOver, EnterModule
<1>. QED
  BY <1>6, <1>7, <1>8, <1>9, <1>10, <1>11, <1>12, <1>13 DEF IInv

(***************************************************************************)
(* The actions that call, leave a loop or return.                          *)
(***************************************************************************)
LEMMA VisitDefinitionIInv ==
  ASSUME IInv, VisitDefinition
  PROVE  IInv'
<1>. DEFINE L == Len(stack)
<1>1. PICK n \in Node, d \in Node : n = Top.node /\ d = Top.def /\ d > n
  BY TopProperties
  DEF IInv, TypeOK, VisitDefinition, TopIs, NodeOrNull, LoopsForward, Top
<1>2. /\ stack \in Seq(Frame) /\ stack # <<>> /\ L \in Nat \ {0}
      /\ Top \in Frame /\ Top.at = "loop" /\ pc = "walk"
  BY TopProperties DEF IInv, TypeOK, VisitDefinition, TopIs
<1>3. /\ Call(d) \in Frame /\ Call(d).node = d /\ Call(d).at = "body"
  BY DEF Call, Frame, Places, NodeOrNull
<1>4. /\ stack' \in Seq(Frame)
      /\ Len(stack') = L + 1
      /\ stack'[L + 1] = Call(d)
      /\ \A i \in 1..L : stack'[i] = stack[i]
  BY <1>1, <1>2, <1>3 DEF VisitDefinition
<1>5. TypeOK'
  BY <1>4 DEF IInv, TypeOK, VisitDefinition, counters, history
<1>6. CallersWait'
  BY <1>1, <1>2, <1>3, <1>4 DEF IInv, CallersWait, VisitDefinition, Top
<1>7. LoopsForward'
  BY <1>1, <1>2, <1>3, <1>4 DEF IInv, LoopsForward, VisitDefinition, Top
<1>8. NodesDeepen'
  BY <1>1, <1>2, <1>3, <1>4 DEF IInv, NodesDeepen, Top, Node
<1>9. FlagMeansLoop'
  BY <1>1, <1>2, <1>3, <1>4 DEF IInv, FlagMeansLoop, VisitDefinition, Top
<1>10. FramesEntered'
  BY <1>2, <1>3, <1>4 DEF IInv, FramesEntered, VisitDefinition, history
<1>11. Accounted'
  <2>1. ASSUME NEW x, Due(x) PROVE Due(x)'
    BY <1>2, <1>4, <2>1 DEF Due
  <2>2. ASSUME NEW x, SiblingDue(x) PROVE SiblingDue(x)'
    BY <1>2, <1>4, <2>2 DEF SiblingDue
  <2>. QED
    BY <2>1, <2>2 DEF IInv, Accounted, VisitDefinition, history
<1>12. WalkOver'
  BY <1>2, <1>4 DEF IInv, WalkOver, VisitDefinition
<1>. QED
  BY <1>5, <1>6, <1>7, <1>8, <1>9, <1>10, <1>11, <1>12 DEF IInv

(* Leaving a module accounts for everything below it. *)
LEMMA LeaveModuleIInv ==
  ASSUME IInv, LeaveModule
  PROVE  IInv'
<1>. DEFINE L == Len(stack)
<1>1. PICK n \in Node : n = Top.node
  BY TopProperties DEF IInv, TypeOK, LeaveModule, TopIs
<1>2. /\ stack \in Seq(Frame) /\ stack # <<>> /\ L \in Nat \ {0}
      /\ Top \in Frame /\ Top.at = "loop" /\ Top.def = NULL /\ pc = "walk"
  BY TopProperties DEF IInv, TypeOK, LeaveModule, TopIs
<1>3. /\ stack' \in Seq(Frame)
      /\ Len(stack') = L
      /\ stack'[L].node = n
      /\ stack'[L].at = "tail"
      /\ \A i \in 1..L - 1 : stack'[i] = stack[i]
  BY <1>1, <1>2, TopProperties, SetTopProperties
  DEF LeaveModule, TopGoesTo, Places
<1>4. NULL \notin Node
  BY NumNodesAssumption DEF Node, NULL
<1>5. TypeOK'
  BY <1>3 DEF IInv, TypeOK, LeaveModule, counters, history
<1>6. CallersWait'
  BY <1>1, <1>2, <1>3 DEF IInv, CallersWait, LeaveModule, Top
<1>7. LoopsForward'
  BY <1>1, <1>2, <1>3 DEF IInv, LoopsForward, LeaveModule, Top
<1>8. NodesDeepen'
  BY <1>1, <1>2, <1>3 DEF IInv, NodesDeepen, Top
<1>9. FlagMeansLoop'
  BY DEF FlagMeansLoop, LeaveModule
<1>10. FramesEntered'
  BY <1>1, <1>2, <1>3 DEF IInv, FramesEntered, LeaveModule, Top, history
<1>11. Accounted'
  <2>1. ASSUME NEW x, x # NULL, Due(x) PROVE Due(x)'
    BY <1>2, <1>3, <2>1 DEF Due, Top
  <2>2. ASSUME NEW x \in Node, SiblingDue(x) PROVE SiblingDue(x)'
    BY <1>1, <1>2, <1>3, <1>4, <2>2 DEF SiblingDue, Top
  <2>3. ast.root # NULL
    BY <1>2 DEF IInv, WalkOver
  <2>4. entered \subseteq Node
    BY DEF IInv, TypeOK
  <2>. QED
    BY <2>1, <2>2, <2>3, <2>4 DEF IInv, Accounted, LeaveModule, history
<1>12. WalkOver'
  BY <1>2, <1>3 DEF IInv, WalkOver, LeaveModule
<1>. QED
  BY <1>5, <1>6, <1>7, <1>8, <1>9, <1>10, <1>11, <1>12 DEF IInv

(* Going on to the next sibling pushes its frame. *)
LEMMA VisitNextSiblingIInv ==
  ASSUME IInv, VisitNextSibling
  PROVE  IInv'
<1>. DEFINE L == Len(stack)
            s == TopGoesTo("unwind")
<1>1. PICK n \in Node, m \in Node :
        n = Top.node /\ m = ast.next[n] /\ m > n
  BY TopProperties, TreeFields
  DEF IInv, TypeOK, VisitNextSibling, HandsOver, TopIs, NodeOrNull
<1>2. /\ stack \in Seq(Frame) /\ stack # <<>> /\ L \in Nat \ {0}
      /\ Top \in Frame /\ Top.at = "tail" /\ pc = "walk"
  BY TopProperties DEF IInv, TypeOK, VisitNextSibling, HandsOver, TopIs
<1>3. /\ Call(m) \in Frame /\ Call(m).node = m /\ Call(m).at = "body"
  BY DEF Call, Frame, Places, NodeOrNull
<1>4. /\ s \in Seq(Frame)
      /\ Len(s) = L
      /\ s[L].node = n
      /\ s[L].at = "unwind"
      /\ \A i \in 1..L - 1 : s[i] = stack[i]
  BY <1>1, <1>2, TopProperties, SetTopProperties DEF TopGoesTo, Places
<1>5. stack' = Append(s, Call(m))
  BY <1>1 DEF VisitNextSibling
<1>6. /\ stack' \in Seq(Frame)
      /\ Len(stack') = L + 1
      /\ stack'[L + 1] = Call(m)
      /\ stack'[L].node = n
      /\ stack'[L].at = "unwind"
      /\ \A i \in 1..L - 1 : stack'[i] = stack[i]
  <2>. HIDE DEF s
  <2>. QED
    BY <1>2, <1>3, <1>4, <1>5
<1>7. TypeOK'
  BY <1>6 DEF IInv, TypeOK, VisitNextSibling, counters, history
<1>8. CallersWait'
  <2>1. ast' = ast
    BY DEF VisitNextSibling
  <2>2. \A i \in 1..L : stack'[i].node = stack[i].node
    BY <1>1, <1>2, <1>6 DEF Top
  <2>. QED
    BY <1>1, <1>2, <1>3, <1>6, <2>1, <2>2 DEF IInv, CallersWait
<1>9. LoopsForward'
  BY <1>1, <1>2, <1>3, <1>6 DEF IInv, LoopsForward, VisitNextSibling, Top
<1>10. NodesDeepen'
  BY <1>1, <1>2, <1>3, <1>6 DEF IInv, NodesDeepen, Top, Node
<1>11. FlagMeansLoop'
  BY DEF FlagMeansLoop, VisitNextSibling, HandsOver
<1>12. FramesEntered'
  BY <1>1, <1>2, <1>3, <1>6 DEF IInv, FramesEntered, VisitNextSibling, Top, history
<1>13. Accounted'
  <2>1. ASSUME NEW x, Due(x) PROVE Due(x)'
    BY <1>1, <1>2, <1>6, <2>1 DEF Due, Top
  <2>2. Due(m)'
    BY <1>2, <1>3, <1>6 DEF Due
  <2>3. ASSUME NEW x, SiblingDue(x) PROVE SiblingDue(x)' \/ x = n
    BY <1>1, <1>2, <1>6, <2>3 DEF SiblingDue, Top
  <2>. QED
    BY <1>1, <2>1, <2>2, <2>3 DEF IInv, Accounted, VisitNextSibling, history
<1>14. WalkOver'
  BY <1>2, <1>6 DEF IInv, WalkOver, VisitNextSibling
<1>. QED
  BY <1>7, <1>8, <1>9, <1>10, <1>11, <1>12, <1>13, <1>14 DEF IInv

(* A returning call leaves its node, and what follows it, accounted for. *)
LEMMA ReturnIInv ==
  ASSUME IInv, Return
  PROVE  IInv'
<1>. DEFINE L == Len(stack)
<1>1. PICK n \in Node : n = Top.node
  BY TopProperties DEF IInv, TypeOK, Return, TopIs
<1>2. /\ stack \in Seq(Frame) /\ stack # <<>> /\ L \in Nat \ {0}
      /\ Top \in Frame /\ pc = "walk"
      /\ Top.at \in {"tail", "unwind"}
  BY <1>1, TopProperties DEF IInv, TypeOK, Return, TopIs
<1>7. L = 1 \/ (L > 1 /\ L # 1)
  BY <1>2, AboveOne, Zenon
<1>8. Top.at = "tail" /\ ast.next[n] # NULL => in_module
  BY <1>1 DEF Return, HandsOver, TopIs
<1>3. n \in entered
  BY <1>1, <1>2 DEF IInv, FramesEntered, Top
<1>4. /\ ast' = ast /\ entered' = entered /\ attempts' = attempts
      /\ in_module' = in_module
  BY DEF Return, history
<1>5. CASE L = 1
  <2>1. stack' = <<>> /\ pc' = "report"
    BY <1>5 DEF Return
  <2>2. TypeOK'
    BY <2>1 DEF IInv, TypeOK, Return, counters, history
  <2>3. ~in_module
    BY <1>2, <1>5 DEF IInv, FlagMeansLoop, Return, TopIs
  <2>4. Accounted'
    <3>1. ASSUME NEW x, Due(x) PROVE FALSE
      BY <1>2, <1>5, <3>1 DEF Due, Top, Return, TopIs
    <3>2. ASSUME NEW x, SiblingDue(x) PROVE x = n /\ ast.next[x] = NULL
      BY <1>1, <1>2, <1>5, <1>8, <2>3, <3>2 DEF SiblingDue, Top
    <3>. QED
      BY <1>2, <1>4, <3>1, <3>2 DEF IInv, Accounted
  <2>. QED
    BY <1>2, <1>4, <2>1, <2>2, <2>3, <2>4
    DEF IInv, CallersWait, LoopsForward, NodesDeepen, FlagMeansLoop,
        FramesEntered, WalkOver
<1>6. CASE L > 1 /\ L # 1
  <2>. DEFINE caller == stack[L - 1]
  <2>1. /\ caller \in Frame
        /\ \/ caller.at = "loop" /\ caller.def = n
           \/ caller.at = "unwind" /\ ast.next[caller.node] = n
    BY <1>1, <1>2, <1>6 DEF IInv, CallersWait, Top
  <2>2. /\ stack' = [Pop(stack) EXCEPT ![L - 1] = Resumed(@)]
        /\ pc' = "walk"
    BY <1>6, Zenon DEF Return
  <2>3. /\ stack' \in Seq(Frame)
        /\ Len(stack') = L - 1
        /\ stack'[L - 1] = Resumed(caller)
        /\ \A i \in 1..L - 2 : stack'[i] = stack[i]
    BY <1>2, <1>6, <2>1, <2>2, ReturnProperties DEF IInv, TypeOK
  <2>4. /\ Resumed(caller).node = caller.node
        /\ Resumed(caller).at = caller.at
        /\ Resumed(caller).def = IF caller.at = "loop" THEN ast.next[n]
                                                       ELSE caller.def
    BY <2>1 DEF Resumed, Frame
  <2>5. TypeOK'
    BY <2>2, <2>3 DEF IInv, TypeOK, Return, counters, history
  <2>6. CallersWait'
    <3>1. \A i \in 1..L - 1 : stack'[i].node = stack[i].node
      BY <1>2, <1>6, <2>3, <2>4
    <3>2. \A i \in 1..L - 2 : stack'[i] = stack[i] /\ i + 1 \in 1..L - 1
      BY <1>2, <1>6, <2>3
    <3>. QED
      BY <1>2, <1>4, <1>6, <2>3, <3>1, <3>2 DEF IInv, CallersWait
  <2>7. LoopsForward'
    <3>1. ast.next[n] # NULL => ast.next[n] > n /\ ast.next[n] \in Node
      BY <1>1, TreeFields DEF IInv, TypeOK, NodeOrNull
    <3>2. caller.at = "loop" => n > caller.node
      BY <1>1, <1>2, <1>6, <2>1, NumNodesAssumption
      DEF IInv, LoopsForward, NULL, Node
    <3>3. caller.at = "loop" => ast.defs[caller.node] # NULL
      BY <1>2, <1>6 DEF IInv, LoopsForward
    <3>4. LET f == Resumed(caller)
          IN f.at = "loop" => /\ ast.defs[f.node] # NULL
                              /\ f.def # NULL => f.def > f.node
      BY <2>1, <2>4, <3>1, <3>2, <3>3 DEF Frame, Node
    <3>5. ASSUME NEW i \in 1..L - 2, stack[i].at = "loop"
          PROVE  /\ ast.defs[stack[i].node] # NULL
                 /\ stack[i].def # NULL => stack[i].def > stack[i].node
      BY <1>2, <3>5 DEF IInv, LoopsForward
    <3>6. /\ L \in Nat /\ L > 1 /\ Len(stack') = L - 1
          /\ ast' = ast
      BY <1>2, <1>4, <1>6, <2>3
    <3>7. ASSUME NEW i \in 1..Len(stack'), stack'[i].at = "loop"
          PROVE  /\ ast.defs[stack'[i].node] # NULL
                 /\ stack'[i].def # NULL => stack'[i].def > stack'[i].node
      <4>1. CASE i = L - 1
        BY <2>3, <3>4, <3>7, <4>1
      <4>2. CASE i # L - 1
        <5>1. i \in 1..L - 2
          BY <3>6, <3>7, <4>2
        <5>2. stack'[i] = stack[i]
          BY <2>3, <5>1
        <5>. QED
          BY <3>5, <3>7, <5>1, <5>2
      <4>. QED
        BY <4>1, <4>2
    <3>. QED
      BY <3>6, <3>7 DEF LoopsForward
  <2>8. NodesDeepen'
    BY <1>2, <1>6, <2>3, <2>4 DEF IInv, NodesDeepen
  <2>9. in_module => caller.at = "loop"
    BY <1>2, <1>6 DEF IInv, FlagMeansLoop
  <2>10. FlagMeansLoop'
    BY <1>2, <1>4, <1>6, <2>3, <2>4, <2>9 DEF FlagMeansLoop, Top
  <2>11. FramesEntered'
    BY <1>2, <1>4, <1>6, <2>3, <2>4 DEF IInv, FramesEntered
  <2>12. Accounted'
    <3>1. ASSUME NEW x, Due(x) PROVE Due(x)' \/ x = n
      BY <1>2, <1>6, <2>1, <2>3, <2>4, <3>1 DEF Due, Top
    <3>2. ASSUME NEW x, x # n, SiblingDue(x) PROVE SiblingDue(x)'
      BY <1>1, <1>2, <1>6, <2>1, <2>3, <2>4, <3>2 DEF SiblingDue, Top
    <3>3. ast.next[n] # NULL /\ SiblingDue(n) =>
            Due(ast.next[n])' \/ SiblingDue(n)'
      <4>1. CASE caller.at = "loop"
        BY <1>2, <1>4, <1>6, <2>3, <2>4, <4>1 DEF Due
      <4>2. CASE caller.at # "loop"
        BY <1>1, <1>2, <1>6, <1>8, <2>1, <2>3, <2>4, <2>9, <4>2
        DEF SiblingDue, Top
      <4>. QED
        BY <4>1, <4>2
    <3>. QED
      BY <1>2, <1>3, <1>4, <3>1, <3>2, <3>3 DEF IInv, Accounted
  <2>13. WalkOver'
    BY <1>2, <1>4, <1>6, <2>2, <2>3 DEF IInv, WalkOver
  <2>. QED
    BY <2>5, <2>6, <2>7, <2>8, <2>10, <2>11, <2>12, <2>13 DEF IInv
<1>. QED
  BY <1>5, <1>6, <1>7

(* Every step keeps the invariant of the walk. *)
LEMMA NextIInv == IInv /\ [Next]_vars => IInv'
<1>. SUFFICES ASSUME IInv, [Next]_vars PROVE IInv'
  OBVIOUS
<1>1. CASE UNCHANGED vars
  BY <1>1 DEF vars, counters, history, IInv, TypeOK, CallersWait,
              LoopsForward, NodesDeepen, FlagMeansLoop, FramesEntered,
              Accounted, WalkOver, Due, SiblingDue, Top
<1>. QED
  BY <1>1, GenerateNothingIInv, GenerateTypesIInv, EmitDefinitionIInv,
     EnterModuleIInv, SkipNodeIInv, VisitDefinitionIInv, LeaveModuleIInv,
     VisitNextSiblingIInv, ReturnIInv, ReportIInv
  DEF Next

(* The strengthened invariant holds in every reachable state. *)
THEOREM WalkInvariant == Spec => []IInv
BY InitIInv, NextIInv, PTL DEF Spec

(* Every variable of the walk keeps its type, on every tree. *)
THEOREM WalkTypeOK == Spec => []TypeOK
<1>1. IInv => TypeOK
  BY DEF IInv
<1>. QED
  BY <1>1, WalkInvariant, PTL

(* The recursion of process_node is never deeper than the tree has nodes. *)
THEOREM WalkDepthBounded == Spec => []DepthBounded
<1>1. IInv => DepthBounded
  <2>. SUFFICES ASSUME IInv PROVE DepthBounded
    OBVIOUS
  <2>. DEFINE L == Len(stack)
  <2>1. stack \in Seq(Frame) /\ L \in Nat
    BY DEF IInv, TypeOK
  <2>2. CASE stack # <<>>
    <3>1. L \in 1..L /\ stack[L].node \in Node /\ stack[L].node >= L
      BY <2>1, <2>2, TopProperties DEF IInv, NodesDeepen, Top
    <3>. QED
      BY <2>1, <3>1, NumNodesAssumption DEF DepthBounded, Node
  <2>3. CASE stack = <<>>
    BY <2>3, NumNodesAssumption DEF DepthBounded
  <2>. QED
    BY <2>2, <2>3
<1>. QED
  BY <1>1, WalkInvariant, PTL

(* When the walk is over, what was entered is closed under the pointers of
   the tree, so it holds everything reachable. *)
LEMMA WalkCovers ==
  ASSUME IInv, pc \in {"report", "done"}, ast.root # NULL
  PROVE  \A n \in Definitions(ast) : attempts[n] > 0
<1>1. stack = <<>>
  BY DEF IInv, WalkOver
<1>2. \A x : ~Due(x) /\ ~SiblingDue(x)
  BY <1>1 DEF Due, SiblingDue
<1>3. ast.root \in entered /\ Closed(ast, entered)
  BY <1>2 DEF IInv, Accounted, Closed
<1>4. entered \in SUBSET Node
  BY DEF IInv, TypeOK
<1>5. Reachable(ast) \subseteq entered
  BY <1>3, <1>4 DEF Reachable
<1>. QED
  BY <1>5 DEF IInv, Accounted, Definitions

(* No definition is lost between the recursion and the loop over a module:
   on every tree, every definition had its generate_java_*() call before
   generate() returns. *)
THEOREM WalkCoverage == Spec => []NoDefinitionLost
<1>1. IInv => NoDefinitionLost
  BY WalkCovers DEF NoDefinitionLost
<1>. QED
  BY <1>1, WalkInvariant, PTL

-----------------------------------------------------------------------------
(***************************************************************************)
(* The walk implements GenerateContract.                                   *)
(***************************************************************************)

(* Nothing has been generated before the walk. *)
LEMMA InitRInv == Init => RInv
<1>. SUFFICES ASSUME Init PROVE RInv
  OBVIOUS
<1>1. \A n \in Node : attempts[n] = 0
  BY DEF Init
<1>. QED
  BY <1>1 DEF Init, RInv, OnlyReachable, ErrorsHonest

(* Only what hangs on the tree is ever visited or generated. *)
LEMMA OnlyReachableStep ==
  ASSUME IInv, OnlyReachable, Next
  PROVE  OnlyReachable'
<1>. DEFINE L == Len(stack)
<1>0. /\ stack \in Seq(Frame) /\ WellFormed(ast) /\ attempts \in [Node -> Nat]
  BY DEF IInv, TypeOK
<1>1. ast' = ast
  BY DEF Next, GenerateNothing, GenerateTypes, EmitDefinition, EnterModule,
         SkipNode, VisitDefinition, LeaveModule, VisitNextSibling, Return,
         Report
<1>2. \A f : FrameReachable(f)' <=> FrameReachable(f)
  BY <1>1 DEF FrameReachable
<1>3. ASSUME stack # <<>>,
             NEW f \in Frame, FrameReachable(f), stack' = SetTop(f)
      PROVE  \A i \in 1..Len(stack') : FrameReachable(stack'[i])
  BY <1>0, <1>3, TopProperties, SetTopProperties DEF OnlyReachable
<1>4. stack # <<>> => FrameReachable(Top) /\ Top \in Frame
  BY <1>0, TopProperties DEF OnlyReachable, Top
<1>5. ASSUME stack # <<>>, NEW p \in Places \ {"loop"}, stack' = TopGoesTo(p)
      PROVE  \A i \in 1..Len(stack') : FrameReachable(stack'[i])
  <2>1. /\ FrameReachable([Top EXCEPT !.at = p])
        /\ [Top EXCEPT !.at = p] \in Frame
    BY <1>0, <1>4, <1>5, TopProperties DEF FrameReachable
  <2>. QED
    BY <1>3, <1>5, <2>1 DEF TopGoesTo
<1>6. ASSUME NEW s \in Seq(Frame), NEW n \in Reachable(ast),
             \A i \in 1..Len(s) : FrameReachable(s[i]),
             stack' = Append(s, Call(n))
      PROVE  \A i \in 1..Len(stack') : FrameReachable(stack'[i])
  <2>1. Call(n) \in Frame /\ FrameReachable(Call(n))
    BY <1>0, ReachableClosed
    DEF Call, Frame, Places, NodeOrNull, FrameReachable
  <2>. QED
    BY <1>6, <2>1
<1>7. \A i \in 1..Len(stack') : FrameReachable(stack'[i])
  <2>1. CASE GenerateNothing \/ Report
    BY <2>1 DEF GenerateNothing, Report, OnlyReachable
  <2>2. CASE GenerateTypes
    <3>1. ast.root \in Reachable(ast) /\ stack' = <<Call(ast.root)>>
      BY <1>0, <2>2, ReachableClosed DEF GenerateTypes
    <3>2. FrameReachable(Call(ast.root))
      BY <3>1 DEF Call, FrameReachable
    <3>. QED
      BY <3>1, <3>2
  <2>3. CASE (\E result \in {0, -1} : EmitDefinition(result)) \/ SkipNode
             \/ LeaveModule
    <3>1. stack # <<>> /\ stack' = TopGoesTo("tail")
      BY <2>3 DEF EmitDefinition, SkipNode, LeaveModule, TopIs
    <3>2. "tail" \in Places \ {"loop"}
      BY DEF Places
    <3>. QED
      BY <1>5, <3>1, <3>2
  <2>4. CASE EnterModule
    <3>1. stack # <<>>
      BY <2>4 DEF EnterModule, TopIs
    <3>2. CASE ast.defs[Top.node] = NULL
      BY <1>5, <2>4, <3>1, <3>2 DEF EnterModule, Places
    <3>3. CASE ast.defs[Top.node] # NULL
      <4>. DEFINE f == [node |-> Top.node, at |-> "loop",
                        def |-> ast.defs[Top.node]]
      <4>1. stack' = SetTop(f)
        BY <2>4, <3>3 DEF EnterModule
      <4>2. f \in Frame /\ FrameReachable(f)
        BY <1>0, <1>4, <3>1, <3>3, ReachableClosed, TreeFields
        DEF FrameReachable, Frame, Places
      <4>. QED
        BY <1>3, <3>1, <4>1, <4>2
    <3>. QED
      BY <3>2, <3>3
  <2>5. CASE VisitDefinition
    BY <1>0, <1>4, <1>6, <2>5
    DEF VisitDefinition, TopIs, OnlyReachable, FrameReachable
  <2>6. CASE VisitNextSibling
    <3>. DEFINE s == TopGoesTo("unwind")
    <3>1. stack # <<>> /\ stack' = Append(s, Call(ast.next[Top.node]))
      BY <2>6 DEF VisitNextSibling, HandsOver, TopIs
    <3>2. ast.next[Top.node] \in Reachable(ast)
      BY <1>0, <1>4, <2>6, <3>1, ReachableClosed
      DEF VisitNextSibling, HandsOver, FrameReachable
    <3>3. s \in Seq(Frame) /\ \A i \in 1..Len(s) : FrameReachable(s[i])
      <4>1. [Top EXCEPT !.at = "unwind"] \in Frame
            /\ FrameReachable([Top EXCEPT !.at = "unwind"])
        BY <1>0, <1>4, <3>1, TopProperties DEF FrameReachable, Places
      <4>2. /\ s \in Seq(Frame) /\ Len(s) = L
            /\ s[L] = [Top EXCEPT !.at = "unwind"]
            /\ \A i \in 1..L - 1 : s[i] = stack[i]
        BY <1>0, <3>1, <4>1, SetTopProperties DEF TopGoesTo
      <4>3. L \in Nat \ {0}
        BY <1>0, <3>1, TopProperties
      <4>. QED
        BY <4>1, <4>2, <4>3 DEF OnlyReachable
    <3>. QED
      BY <1>6, <3>1, <3>2, <3>3
  <2>7. CASE Return
    <3>1. stack # <<>> /\ L \in Nat \ {0}
      BY <1>0, <2>7, TopProperties DEF Return, HandsOver, TopIs
    <3>2. CASE L = 1
      BY <2>7, <3>2 DEF Return
    <3>3. CASE L # 1
      <4>. DEFINE caller == stack[L - 1]
      <4>1. /\ L > 1 /\ caller \in Frame /\ FrameReachable(caller)
            /\ caller.at = "loop" => caller.def = Top.node
        <5>1. L > 1
          BY <3>1, <3>3, AboveOne, Zenon
        <5>2. L - 1 \in 1..L /\ L - 1 \in 1..L - 1 /\ L - 1 + 1 = L
          BY <3>1, <5>1
        <5>3. caller \in Frame /\ FrameReachable(caller)
          BY <1>0, <5>2 DEF OnlyReachable
        <5>4. caller.at = "loop" => caller.def = Top.node
          BY <5>2 DEF IInv, CallersWait, Top
        <5>. QED
          BY <5>1, <5>3, <5>4
      <4>2. stack' = [Pop(stack) EXCEPT ![L - 1] = Resumed(@)]
        BY <2>7, <3>3, Zenon DEF Return
      <4>3. Top.node \in Node
        BY <1>4, <3>1 DEF Frame
      <4>4. /\ Len(stack') = L - 1
            /\ stack'[L - 1] = Resumed(caller)
            /\ \A i \in 1..L - 2 : stack'[i] = stack[i]
        BY <1>0, <4>1, <4>2, <4>3, ReturnProperties
      <4>5. FrameReachable(Resumed(caller))
        BY <1>0, <1>4, <3>1, <4>1, ReachableClosed, TreeFields
        DEF FrameReachable, Resumed, Frame, NodeOrNull
      <4>. QED
        BY <3>1, <4>4, <4>5 DEF OnlyReachable
    <3>. QED
      BY <3>2, <3>3
  <2>. QED
    BY <2>1, <2>2, <2>3, <2>4, <2>5, <2>6, <2>7 DEF Next
<1>8. \A n \in Node : attempts'[n] > 0 => n \in Definitions(ast)
  <2>1. CASE attempts' = attempts
    BY <2>1 DEF OnlyReachable
  <2>2. CASE \E result \in {0, -1} : EmitDefinition(result)
    BY <1>0, <1>4, <2>2
    DEF EmitDefinition, TopIs, OnlyReachable, FrameReachable, Definitions, Frame
  <2>. QED
    BY <2>1, <2>2
    DEF Next, GenerateNothing, GenerateTypes, EnterModule, SkipNode,
        VisitDefinition, LeaveModule, VisitNextSibling, Return, Report, history
<1>. QED
  BY <1>1, <1>2, <1>7, <1>8 DEF OnlyReachable

(* An error is counted only after a definition has failed. *)
LEMMA ErrorsHonestStep ==
  ASSUME IInv, ErrorsHonest, Next
  PROVE  ErrorsHonest'
<1>1. attempts \in [Node -> Nat] /\ written \in SUBSET Node /\ errors \in Nat
  BY DEF IInv, TypeOK
<1>2. CASE \E result \in {0, -1} : EmitDefinition(result)
  <2>1. PICK result \in {0, -1} : EmitDefinition(result)
    BY <1>2
  <2>2. PICK n \in Node : n = Top.node
    BY <2>1, TopProperties DEF IInv, TypeOK, EmitDefinition, TopIs
  <2>3. \A m \in Node : attempts'[m] = IF m = n THEN attempts[m] + 1
                                              ELSE attempts[m]
    BY <1>1, <2>1, <2>2 DEF EmitDefinition
  <2>4. \A m \in Node : attempts'[m] > 0 <=> m = n \/ attempts[m] > 0
    BY <1>1, <2>3
  <2>5. errors' = 0 => errors = 0 /\ written' = written \cup {n}
    BY <1>1, <2>1, <2>2 DEF EmitDefinition, Failure
  <2>6. errors' = 0 => written' = {m \in Node : attempts'[m] > 0}
    BY <1>1, <2>4, <2>5 DEF ErrorsHonest
  <2>. QED
    BY <2>1, <2>6 DEF ErrorsHonest, EmitDefinition, TopIs
<1>3. CASE Report \/ GenerateNothing
  BY <1>3 DEF ErrorsHonest, Report, GenerateNothing, counters, history
<1>4. CASE GenerateTypes \/ EnterModule \/ SkipNode \/ VisitDefinition
           \/ LeaveModule \/ VisitNextSibling \/ Return
  <2>1. /\ attempts' = attempts /\ written' = written /\ errors' = errors
        /\ ret' = ret /\ pc # "done" /\ pc' # "generate"
    BY <1>4
    DEF GenerateTypes, EnterModule, SkipNode, VisitDefinition, LeaveModule,
        VisitNextSibling, Return, TopIs, counters, history
  <2>. QED
    BY <2>1 DEF ErrorsHonest
<1>. QED
  BY <1>2, <1>3, <1>4 DEF Next

(* Every step keeps both. *)
LEMMA NextRInv == IInv /\ RInv /\ [Next]_vars => RInv'
<1>1. CASE UNCHANGED vars
  BY <1>1 DEF vars, counters, history, RInv, OnlyReachable, FrameReachable,
              ErrorsHonest
<1>. QED
  BY <1>1, OnlyReachableStep, ErrorsHonestStep DEF RInv

(* GenerateContract is about the same trees. *)
LEMMA ContractTrees ==
  ASSUME NEW t
  PROVE  /\ Contract!WellFormed(t) <=> WellFormed(t)
         /\ Contract!Definitions(t) = Definitions(t)
         /\ Contract!Node = Node
         /\ Contract!NULL = NULL
<1>1. Contract!Node = Node /\ Contract!NULL = NULL
  BY DEF Contract!Node, Node, Contract!NULL, NULL
<1>2. Contract!Tree = Tree /\ Contract!DefinitionKinds = DefinitionKinds
  BY <1>1 DEF Contract!Tree, Tree, Contract!NodeOrNull, NodeOrNull,
              Contract!Kinds, Kinds, Contract!DefinitionKinds, DefinitionKinds
<1>3. Contract!WellFormed(t) <=> WellFormed(t)
  BY <1>1, <1>2 DEF Contract!WellFormed, WellFormed
<1>4. Contract!Reachable(t) = Reachable(t)
  BY <1>1 DEF Contract!Reachable, Reachable, Contract!Closed, Closed
<1>5. Contract!Definitions(t) = Definitions(t)
  BY <1>2, <1>4 DEF Contract!Definitions, Definitions
<1>. QED
  BY <1>1, <1>3, <1>5

(* The walk starts where the contract does. *)
LEMMA InitContract == Init => Contract!Init
<1>. SUFFICES ASSUME Init PROVE Contract!Init
  OBVIOUS
<1>1. WellFormed(ast)
  BY TreesAssumption DEF Init
<1>2. {n \in Node : attempts[n] > 0} = {}
  BY DEF Init
<1>. QED
  BY <1>1, <1>2, ContractTrees DEF Init, Contract!Init

(* Every step of the walk is a step of the contract or a stutter. *)
LEMMA StepContract ==
  IInv /\ RInv /\ [Next]_vars => [Contract!Next]_(Contract!vars)
<1>. SUFFICES ASSUME IInv, RInv, [Next]_vars
              PROVE  [Contract!Next]_(Contract!vars)
  OBVIOUS
<1>1. /\ attempts \in [Node -> Nat] /\ errors \in Nat
      /\ written \in SUBSET Node
  BY DEF IInv, TypeOK
<1>2. CASE GenerateNothing
  <2>1. {n \in Node : attempts[n] > 0} = {}
    BY <1>2 DEF RInv, ErrorsHonest, GenerateNothing
  <2>. QED
    BY <1>2, <2>1, ContractTrees
    DEF GenerateNothing, counters, history, Contract!Next,
        Contract!ReportNothing
<1>3. CASE \E result \in {0, -1} : EmitDefinition(result)
  <2>1. PICK result \in {0, -1} : EmitDefinition(result)
    BY <1>3
  <2>2. PICK n \in Node : n = Top.node
    BY <2>1, TopProperties DEF IInv, TypeOK, EmitDefinition, TopIs
  <2>3. \A m \in Node : attempts'[m] = IF m = n THEN attempts[m] + 1
                                              ELSE attempts[m]
    BY <1>1, <2>1, <2>2 DEF EmitDefinition
  <2>4. {m \in Node : attempts'[m] > 0} = {m \in Node : attempts[m] > 0} \cup {n}
    BY <1>1, <2>3
  <2>5. (errors' > 0) <=> (errors > 0 \/ ~(result = 0))
    BY <1>1, <2>1 DEF EmitDefinition, Failure
  <2>6. n \in Definitions(ast)
    BY <2>1, <2>2, TopProperties
    DEF IInv, TypeOK, RInv, OnlyReachable, FrameReachable, EmitDefinition,
        TopIs, Definitions, Top
  <2>7. Contract!Attempt(n, result = 0)
    BY <2>1, <2>2, <2>4, <2>5 DEF Contract!Attempt, EmitDefinition, TopIs
  <2>. QED
    BY <2>6, <2>7, ContractTrees DEF Contract!Next
<1>4. CASE Report
  <2>1. ast.root # NULL /\ ret = 0
    BY <1>4 DEF Report, RInv, ErrorsHonest, IInv, WalkOver
  <2>2. {n \in Node : attempts[n] > 0} = Definitions(ast)
    BY <1>4, <2>1, WalkCovers
    DEF Report, RInv, OnlyReachable, Definitions, Reachable
  <2>3. errors = 0 => written = Definitions(ast)
    BY <2>2 DEF RInv, ErrorsHonest
  <2>4. CASE errors = 0
    BY <1>4, <2>1, <2>2, <2>3, <2>4, ContractTrees
    DEF Report, counters, history, Contract!Next, Contract!ReportSuccess
  <2>5. CASE errors > 0
    BY <1>4, <2>1, <2>2, <2>5, ContractTrees
    DEF Report, counters, history, Contract!Next, Contract!ReportFailure
  <2>. QED
    BY <1>1, <2>4, <2>5
<1>5. CASE GenerateTypes \/ EnterModule \/ SkipNode \/ VisitDefinition
           \/ LeaveModule \/ VisitNextSibling \/ Return \/ UNCHANGED vars
  <2>1. /\ ast' = ast /\ attempts' = attempts /\ written' = written
        /\ errors' = errors /\ ret' = ret /\ (pc = "done" <=> pc' = "done")
    BY <1>5
    DEF GenerateTypes, EnterModule, SkipNode, VisitDefinition, LeaveModule,
        VisitNextSibling, Return, TopIs, vars, counters, history
  <2>. QED
    BY <2>1 DEF Contract!vars
<1>. QED
  BY <1>2, <1>3, <1>4, <1>5 DEF Next

(* generate() keeps the contract on every tree: it returns 0 only if every
   definition was generated without an error, a positive number only if all
   of them were attempted and an attempt failed. *)
THEOREM WalkKeepsContract == Spec => ContractKept
<1>1. Spec => [](IInv /\ RInv)
  BY InitIInv, InitRInv, NextIInv, NextRInv, PTL DEF Spec
<1>. QED
  BY <1>1, InitContract, StepContract, PTL DEF Spec, ContractKept, Contract!Spec

-----------------------------------------------------------------------------
(***************************************************************************)
(* How often the walk comes to a node.                                     *)
(***************************************************************************)

(* There are finitely many turns. *)
LEMMA TurnsFinite ==
  ASSUME NEW t, WellFormed(t), NEW n \in Node
  PROVE  /\ Turns(t, n) \subseteq Node
         /\ IsFiniteSet(Turns(t, n)) /\ Cardinality(Turns(t, n)) \in Nat
<1>1. Turns(t, n) \in SUBSET Node
  BY ReachableClosed DEF Turns, Siblings
<1>2. IsFiniteSet(Node)
  BY FS_Interval, NumNodesAssumption DEF Node
<1>3. IsFiniteSet(Turns(t, n))
  BY <1>1, <1>2, FS_Subset
<1>. QED
  BY <1>1, <1>3, FS_CardinalityType

(* One turn of the recursion of Passes, from a function f that has those of
   the nodes before. *)
Came(t, start, f, n) ==
  start[n] + (IF t.parent[n] = NULL
              THEN 0
              ELSE f[t.parent[n]] * Cardinality(Turns(t, n)))

(* The recursion has a solution: parents come before their children. *)
LEMMA PassesExist ==
  ASSUME NEW t, WellFormed(t), NEW start \in [Node -> Nat]
  PROVE  \E f \in [Node -> Nat] : \A n \in Node : f[n] = Came(t, start, f, n)
<1>. DEFINE Solves(g, N) == \A k \in 1..N : g[k] = Came(t, start, g, k)
            Solved == {N \in 0..NumNodes : \E g \in [1..N -> Nat] : Solves(g, N)}
<1>1. NumNodes \in Nat /\ Node = 1..NumNodes
  BY NumNodesAssumption DEF Node
<1>2. 0 \in Solved
  <2>1. \A k : k \notin 1..0
    OBVIOUS
  <2>2. \A g : Solves(g, 0)
    BY <2>1
  <2>3. \E g : g \in [1..0 -> Nat]
    <3>1. [k \in 1..0 |-> 0] \in [1..0 -> Nat]
      OBVIOUS
    <3>. QED
      BY <3>1
  <2>4. 0 \in 0..NumNodes
    BY <1>1
  <2>. HIDE DEF Solves
  <2>. QED
    BY <2>2, <2>3, <2>4
<1>3. ASSUME NEW N \in 0..NumNodes, N < NumNodes, N \in Solved
      PROVE  N + 1 \in Solved
  <2>1. PICK g \in [1..N -> Nat] : Solves(g, N)
    BY <1>3
  <2>. DEFINE h == [k \in 1..N + 1 |-> IF k = N + 1 THEN Came(t, start, g, k) ELSE g[k]]
  <2>2. /\ N \in Nat /\ N + 1 \in 0..NumNodes /\ N + 1 \in Node
        /\ \A k \in 1..N + 1 : k \in Node
    BY <1>1, <1>3
  <2>3. \A k \in 1..N + 1 : /\ t.parent[k] # NULL => t.parent[k] \in 1..N
                            /\ t.parent[k] < k
    <3>. SUFFICES ASSUME NEW k \in 1..N + 1
                  PROVE  /\ t.parent[k] # NULL => t.parent[k] \in 1..N
                         /\ t.parent[k] < k
      OBVIOUS
    <3>1. k \in Nat /\ t.parent[k] \in NodeOrNull /\ t.parent[k] < k
      BY <2>2, TreeLinks
    <3>2. t.parent[k] # NULL => t.parent[k] \in Nat /\ t.parent[k] >= 1
      BY <1>1, <3>1, NodesCount
    <3>3. k <= N + 1
      OBVIOUS
    <3>. HIDE DEF Node
    <3>. QED
      BY <2>2, <3>1, <3>2, <3>3
  <2>4. Came(t, start, g, N + 1) \in Nat
    <3>1. start[N + 1] \in Nat /\ Cardinality(Turns(t, N + 1)) \in Nat
      BY <2>2, TurnsFinite
    <3>2. CASE t.parent[N + 1] = NULL
      BY <3>1, <3>2 DEF Came
    <3>3. CASE t.parent[N + 1] # NULL
      <4>1. g[t.parent[N + 1]] \in Nat
        BY <2>1, <2>2, <2>3, <3>3
      <4>2. g[t.parent[N + 1]] * Cardinality(Turns(t, N + 1)) \in Nat
        BY <3>1, <4>1
      <4>. QED
        BY <3>1, <3>3, <4>2 DEF Came
    <3>. QED
      BY <3>2, <3>3
  <2>5. h \in [1..N + 1 -> Nat]
    BY <2>1, <2>2, <2>4
  <2>6. \A k \in 1..N : h[k] = g[k]
    BY <2>2
  <2>7. h[N + 1] = Came(t, start, g, N + 1)
    BY <2>2
  <2>. HIDE DEF h
  <2>8. \A k \in 1..N + 1 : Came(t, start, h, k) = Came(t, start, g, k)
    <3>. SUFFICES ASSUME NEW k \in 1..N + 1
                  PROVE  Came(t, start, h, k) = Came(t, start, g, k)
      OBVIOUS
    <3>1. t.parent[k] # NULL => h[t.parent[k]] = g[t.parent[k]]
      BY <2>3, <2>6
    <3>. QED
      BY <3>1 DEF Came
  <2>9. Solves(h, N + 1)
    <3>1. \A k \in 1..N + 1 : k \in 1..N \/ k = N + 1
      BY <2>2
    <3>. QED
      BY <2>1, <2>6, <2>7, <2>8, <3>1
  <2>. QED
    BY <2>2, <2>5, <2>9
<1>4. NumNodes \in Solved
  <2>. HIDE DEF Solved
  <2>1. 0..NumNodes \subseteq Solved
    BY <1>1, <1>2, <1>3, InductionUpTo
  <2>. QED
    BY <1>1, <2>1
<1>. QED
  BY <1>1, <1>4

(* Passes satisfies the recursion it is written as. *)
LEMMA PassesRecursion ==
  ASSUME NEW t, WellFormed(t), NEW start \in [Node -> Nat]
  PROVE  \A n \in Node : /\ Passes(t, start)[n] \in Nat
                         /\ Passes(t, start)[n] = Came(t, start, Passes(t, start), n)
<1>. DEFINE p == Passes(t, start)
<1>1. PICK f \in [Node -> Nat] : \A n \in Node : f[n] = Came(t, start, f, n)
  BY PassesExist
<1>2. f = [n \in Node |-> Came(t, start, f, n)]
  BY <1>1
<1>3. p = CHOOSE g : g = [n \in Node |-> Came(t, start, g, n)]
  BY DEF Passes, Came
<1>4. p = [n \in Node |-> Came(t, start, p, n)]
  BY <1>2, <1>3
<1>. HIDE DEF p
<1>5. \A n \in Node : p[n] = Came(t, start, p, n)
  BY <1>4, Zenon
<1>. DEFINE S == {n \in Node : p[n] \in Nat}
<1>6. ASSUME NEW n \in Node, \A k \in Node : k < n => k \in S
      PROVE  n \in S
  <2>1. /\ start[n] \in Nat /\ Cardinality(Turns(t, n)) \in Nat
        /\ t.parent[n] # NULL => t.parent[n] \in S
    BY <1>6, TurnsFinite, TreeLinks, NodesCount
  <2>2. t.parent[n] # NULL => p[t.parent[n]] * Cardinality(Turns(t, n)) \in Nat
    BY <2>1
  <2>. QED
    BY <1>5, <2>1, <2>2 DEF Came
<1>7. Node \subseteq S
  <2>. HIDE DEF S
  <2>. QED
    BY <1>6, NodeInduction
<1>. QED
  BY <1>5, <1>7 DEF p

(* On the nodes of the tree it matters only how the walk starts on them. *)
LEMMA PassesSame ==
  ASSUME NEW t, WellFormed(t),
         NEW c \in [Node -> Nat], NEW d \in [Node -> Nat],
         \A n \in Reachable(t) : c[n] = d[n]
  PROVE  \A n \in Reachable(t) : Passes(t, c)[n] = Passes(t, d)[n]
<1>. DEFINE p == Passes(t, c)
            q == Passes(t, d)
            S == {n \in Node : n \in Reachable(t) => p[n] = q[n]}
<1>1. \A n \in Node : p[n] = Came(t, c, p, n) /\ q[n] = Came(t, d, q, n)
  BY PassesRecursion
<1>. HIDE DEF p, q
<1>2. ASSUME NEW n \in Node, \A k \in Node : k < n => k \in S
      PROVE  n \in S
  <2>. SUFFICES ASSUME n \in Reachable(t) PROVE p[n] = q[n]
    OBVIOUS
  <2>1. t.parent[n] # NULL => p[t.parent[n]] = q[t.parent[n]]
    BY <1>2, FirstSibling, TreeLinks, NodesCount
  <2>. QED
    BY <1>1, <2>1 DEF Came
<1>3. Node \subseteq S
  <2>. HIDE DEF S
  <2>. QED
    BY <1>2, NodeInduction
<1>. QED
  BY <1>3, ReachableClosed DEF p, q

(* Coming to v takes one pass off v, and starts all turns over what is in v:
   nothing else changes. *)
LEMMA PassesVisit ==
  ASSUME NEW t, WellFormed(t), NEW v \in Reachable(t),
         NEW c \in [Node -> Nat], NEW d \in [Node -> Nat],
         c[v] = d[v] + 1,
         \A n \in Reachable(t) : n # v =>
           d[n] = c[n] + (IF t.parent[n] = v THEN Cardinality(Turns(t, n)) ELSE 0)
  PROVE  /\ Passes(t, c)[v] = Passes(t, d)[v] + 1
         /\ \A n \in Reachable(t) : n # v => Passes(t, c)[n] = Passes(t, d)[n]
<1>. DEFINE p == Passes(t, c)
            q == Passes(t, d)
            Right(n) == p[n] = (IF n = v THEN q[n] + 1 ELSE q[n])
            S == {n \in Node : n \in Reachable(t) => Right(n)}
<1>1. \A n \in Node : /\ p[n] = Came(t, c, p, n) /\ q[n] = Came(t, d, q, n)
                      /\ p[n] \in Nat /\ q[n] \in Nat
  BY PassesRecursion
<1>. HIDE DEF p, q
<1>2. ASSUME NEW n \in Node, \A k \in Node : k < n => k \in S
      PROVE  n \in S
  <2>. SUFFICES ASSUME n \in Reachable(t) PROVE Right(n)
    OBVIOUS
  <2>. DEFINE T == Cardinality(Turns(t, n))
              m == t.parent[n]
  <2>1. T \in Nat /\ c[n] \in Nat /\ d[n] \in Nat
    BY TurnsFinite
  <2>2. m # NULL => m \in Node /\ m # n /\ Right(m)
    <3>1. m # NULL => m \in Node /\ m < n /\ m \in Reachable(t)
      BY FirstSibling, TreeLinks, NodesCount
    <3>2. n \in Nat /\ (m # NULL => m \in S)
      BY <1>2, <3>1, NodesCount
    <3>. QED
      BY <3>1, <3>2, NodesCount
  <2>3. v \in Node /\ v # NULL
    BY ReachableClosed, NodesCount
  <2>4. CASE m = NULL
    BY <1>1, <2>1, <2>3, <2>4 DEF Came
  <2>5. CASE m # NULL
    <3>1. p[n] = c[n] + p[m] * T /\ q[n] = d[n] + q[m] * T
      BY <1>1, <2>5 DEF Came
    <3>2. p[m] \in Nat /\ q[m] \in Nat
      BY <1>1, <2>2, <2>5
    <3>3. CASE m = v
      <4>1. p[m] = q[m] + 1 /\ d[n] = c[n] + T /\ n # v
        BY <2>2, <2>5, <3>3
      <4>2. p[m] * T = q[m] * T + T
        <5>. HIDE DEF T, m
        <5>. QED
          BY <2>1, <3>2, <4>1
      <4>3. q[m] * T \in Nat
        BY <2>1, <3>2
      <4>. HIDE DEF T, m
      <4>. QED
        BY <2>1, <3>1, <4>1, <4>2, <4>3
    <3>4. CASE m # v
      <4>1. p[m] = q[m]
        BY <2>2, <2>5, <3>4
      <4>2. q[m] * T \in Nat
        BY <2>1, <3>2
      <4>3. CASE n = v
        BY <2>1, <3>1, <4>1, <4>2, <4>3
      <4>4. CASE n # v
        <5>1. d[n] = c[n]
          BY <2>1, <3>4, <4>4
        <5>. QED
          BY <3>1, <4>1, <4>4, <5>1
      <4>. QED
        BY <4>3, <4>4
    <3>. QED
      BY <3>3, <3>4
  <2>. QED
    BY <2>4, <2>5
<1>3. Node \subseteq S
  <2>. HIDE DEF S
  <2>. QED
    BY <1>2, NodeInduction
<1>. QED
  BY <1>3, ReachableClosed DEF p, q

(* A walk that starts nowhere comes nowhere. *)
LEMMA PassesNone ==
  ASSUME NEW t, WellFormed(t), NEW c \in [Node -> Nat], \A n \in Node : c[n] = 0
  PROVE  \A n \in Node : Passes(t, c)[n] = 0
<1>. DEFINE p == Passes(t, c)
            S == {n \in Node : p[n] = 0}
<1>1. \A n \in Node : p[n] = Came(t, c, p, n)
  BY PassesRecursion
<1>. HIDE DEF p
<1>2. ASSUME NEW n \in Node, \A k \in Node : k < n => k \in S
      PROVE  n \in S
  <2>1. t.parent[n] # NULL => p[t.parent[n]] = 0
    BY <1>2, TreeLinks, NodesCount
  <2>2. Cardinality(Turns(t, n)) \in Nat
    BY TurnsFinite
  <2>. QED
    BY <1>1, <2>1, <2>2 DEF Came
<1>3. Node \subseteq S
  <2>. HIDE DEF S
  <2>. QED
    BY <1>2, NodeInduction
<1>. QED
  BY <1>3 DEF p

-----------------------------------------------------------------------------
(***************************************************************************)
(* What the actions do to the stack.                                       *)
(***************************************************************************)

Size == Len(stack)

(* The frames are about nodes of the tree, and only the innermost call is at
   work. *)
LEMMA FrameFacts ==
  ASSUME IInv, RInv
  PROVE  /\ stack \in Seq(Frame) /\ Size \in Nat /\ WellFormed(ast)
         /\ in_module \in BOOLEAN
         /\ \A i \in 1..Size :
              /\ stack[i] \in Frame
              /\ stack[i].at \in Places
              /\ stack[i].node \in Node /\ stack[i].node \in Reachable(ast)
              /\ stack[i].def \in NodeOrNull
              /\ stack[i].at = "loop" =>
                   /\ ast.defs[stack[i].node] # NULL
                   /\ stack[i].def # NULL => stack[i].def \in Reachable(ast)
         /\ \A i \in 1..Size - 1 :
              \/ stack[i].at = "loop" /\ stack[i + 1].node = stack[i].def
              \/ stack[i].at = "unwind" /\ stack[i + 1].node = ast.next[stack[i].node]
<1>1. /\ stack \in Seq(Frame) /\ Size \in Nat /\ WellFormed(ast)
      /\ in_module \in BOOLEAN
  BY DEF IInv, TypeOK, Size
<1>2. \A i \in 1..Size : /\ stack[i] \in Frame
                         /\ stack[i].at \in Places
                         /\ stack[i].node \in Node
                         /\ stack[i].def \in NodeOrNull
  <2>1. \A i \in 1..Size : stack[i] \in Frame
    BY <1>1 DEF Size
  <2>2. \A f \in Frame : f.at \in Places /\ f.node \in Node /\ f.def \in NodeOrNull
    BY DEF Frame
  <2>. QED
    BY <2>1, <2>2
<1>3. \A i \in 1..Size : /\ FrameReachable(stack[i])
                         /\ stack[i].at = "loop" => ast.defs[stack[i].node] # NULL
  BY DEF IInv, LoopsForward, RInv, OnlyReachable, Size
<1>4. \A i \in 1..Size :
        /\ stack[i].node \in Reachable(ast)
        /\ stack[i].at = "loop" /\ stack[i].def # NULL =>
             stack[i].def \in Reachable(ast)
  BY <1>3 DEF FrameReachable
<1>5. \A i \in 1..Size - 1 :
        \/ stack[i].at = "loop" /\ stack[i + 1].node = stack[i].def
        \/ stack[i].at = "unwind" /\ stack[i + 1].node = ast.next[stack[i].node]
  BY DEF IInv, CallersWait, Size
<1>. QED
  BY <1>1, <1>2, <1>3, <1>4, <1>5, Zenon

(* The call looks at its node n. *)
LooksAt(n) ==
  /\ ast' = ast /\ Size > 0 /\ Size' = Size
  /\ stack[Size].at = "body" /\ stack[Size].node = n
  /\ \A i \in 1..Size - 1 : stack'[i] = stack[i]
  /\ stack'[Size].node = n
  /\ \/ /\ stack'[Size].at = "tail"
        /\ ast.defs[n] = NULL
        /\ in_module' = in_module
     \/ /\ stack'[Size].at = "loop"
        /\ stack'[Size].def = ast.defs[n]
        /\ ast.defs[n] # NULL
        /\ in_module'

(* The loop of a module calls process_node on d. *)
Calls(d) ==
  /\ ast' = ast /\ Size > 0 /\ Size' = Size + 1
  /\ stack[Size].at = "loop" /\ stack[Size].def = d /\ d # NULL
  /\ \A i \in 1..Size : stack'[i] = stack[i]
  /\ stack'[Size + 1].at = "body" /\ stack'[Size + 1].node = d
  /\ in_module' = in_module

(* The loop over the definitions of n ends. *)
Leaves(n) ==
  /\ ast' = ast /\ Size > 0 /\ Size' = Size
  /\ stack[Size].at = "loop" /\ stack[Size].node = n /\ stack[Size].def = NULL
  /\ \A i \in 1..Size - 1 : stack'[i] = stack[i]
  /\ stack'[Size].at = "tail" /\ stack'[Size].node = n
  /\ ~in_module'

(* The call on n calls process_node on m, its next sibling. *)
HandsTo(n, m) ==
  /\ ast' = ast /\ Size > 0 /\ Size' = Size + 1
  /\ stack[Size].at = "tail" /\ stack[Size].node = n
  /\ m = ast.next[n] /\ m # NULL /\ ~in_module
  /\ \A i \in 1..Size - 1 : stack'[i] = stack[i]
  /\ stack'[Size].at = "unwind" /\ stack'[Size].node = n
  /\ stack'[Size + 1].at = "body" /\ stack'[Size + 1].node = m
  /\ ~in_module'

(* The call on n returns. *)
Returns(n) ==
  /\ ast' = ast /\ Size > 0 /\ Size' = Size - 1 /\ stack' \in Seq(Frame)
  /\ stack[Size].node = n
  /\ \/ stack[Size].at = "tail" /\ (ast.next[n] = NULL \/ in_module)
     \/ stack[Size].at = "unwind"
  /\ \A i \in 1..Size - 2 : stack'[i] = stack[i]
  /\ Size > 1 => /\ stack'[Size - 1].at = stack[Size - 1].at
                 /\ stack'[Size - 1].node = stack[Size - 1].node
                 /\ stack[Size - 1].at = "loop" => stack'[Size - 1].def = ast.next[n]
  /\ in_module' = in_module

(* The three actions that look at a node. *)
LEMMA LookSteps ==
  ASSUME IInv, \/ \E result \in {0, -1} : EmitDefinition(result)
               \/ SkipNode
               \/ EnterModule
  PROVE  LooksAt(Top.node)
<1>. DEFINE n == Top.node
<1>1. /\ stack \in Seq(Frame) /\ stack # <<>> /\ Size \in Nat \ {0}
      /\ Top \in Frame /\ Top = stack[Size] /\ Top.at = "body" /\ n \in Node
      /\ WellFormed(ast) /\ ast' = ast /\ in_module \in BOOLEAN
  BY TopProperties
  DEF IInv, TypeOK, EmitDefinition, SkipNode, EnterModule, TopIs, Top, Size
<1>2. CASE (\E result \in {0, -1} : EmitDefinition(result)) \/ SkipNode
  <2>1. stack' = TopGoesTo("tail") /\ in_module' = in_module
        /\ ast.kind[n] # "module"
    BY <1>2 DEF EmitDefinition, SkipNode, DefinitionKinds
  <2>2. ast.defs[n] = NULL
    BY <1>1, <2>1, TreeFields
  <2>3. /\ Size' = Size /\ stack'[Size].node = n /\ stack'[Size].at = "tail"
        /\ \A i \in 1..Size - 1 : stack'[i] = stack[i]
    BY <1>1, <2>1, TopProperties, SetTopProperties DEF TopGoesTo, Places, Size
  <2>. QED
    BY <1>1, <2>1, <2>2, <2>3 DEF LooksAt
<1>3. CASE EnterModule /\ ast.defs[n] = NULL
  <2>1. stack' = TopGoesTo("tail") /\ in_module' = in_module
    BY <1>1, <1>3 DEF EnterModule
  <2>2. /\ Size' = Size /\ stack'[Size].node = n /\ stack'[Size].at = "tail"
        /\ \A i \in 1..Size - 1 : stack'[i] = stack[i]
    BY <1>1, <2>1, TopProperties, SetTopProperties DEF TopGoesTo, Places, Size
  <2>. QED
    BY <1>1, <1>3, <2>1, <2>2 DEF LooksAt
<1>4. CASE EnterModule /\ ast.defs[n] # NULL
  <2>. DEFINE f == [node |-> n, at |-> "loop", def |-> ast.defs[n]]
  <2>1. stack' = SetTop(f) /\ in_module'
    BY <1>4 DEF EnterModule
  <2>2. f \in Frame
    BY <1>1, TreeFields DEF Frame, Places
  <2>3. /\ Size' = Size /\ stack'[Size] = f
        /\ \A i \in 1..Size - 1 : stack'[i] = stack[i]
    BY <1>1, <2>1, <2>2, SetTopProperties DEF Size
  <2>4. f.node = n /\ f.at = "loop" /\ f.def = ast.defs[n]
    OBVIOUS
  <2>. HIDE DEF f
  <2>. QED
    BY <1>1, <1>4, <2>1, <2>3, <2>4 DEF LooksAt
<1>. QED
  BY <1>2, <1>3, <1>4

(* The actions of the loop and of the test of the next sibling. *)
LEMMA CallSteps ==
  ASSUME IInv
  PROVE  /\ VisitDefinition => Calls(Top.def)
         /\ LeaveModule => Leaves(Top.node)
         /\ VisitNextSibling => HandsTo(Top.node, ast.next[Top.node])
<1>1. stack # <<>> =>
        /\ stack \in Seq(Frame) /\ Size \in Nat \ {0}
        /\ Top \in Frame /\ Top = stack[Size]
        /\ Top.node \in Node /\ Top.def \in NodeOrNull
        /\ WellFormed(ast) /\ in_module \in BOOLEAN
  BY TopProperties DEF IInv, TypeOK, Top, Size
<1>2. ASSUME VisitDefinition PROVE Calls(Top.def)
  <2>1. /\ stack # <<>> /\ Top.at = "loop" /\ Top.def # NULL
        /\ stack' = Append(stack, Call(Top.def))
        /\ ast' = ast /\ in_module' = in_module
    BY <1>2 DEF VisitDefinition, TopIs
  <2>2. /\ Call(Top.def) \in Frame
        /\ Call(Top.def).node = Top.def /\ Call(Top.def).at = "body"
    BY <1>1, <2>1, NodesCount DEF Call, Frame, Places, NodeOrNull
  <2>3. /\ Size' = Size + 1 /\ stack'[Size + 1] = Call(Top.def)
        /\ \A i \in 1..Size : stack'[i] = stack[i]
    BY <1>1, <2>1, <2>2 DEF Size
  <2>4. /\ stack'[Size + 1].node = Top.def /\ stack'[Size + 1].at = "body"
        /\ Size > 0 /\ stack[Size] = Top
    BY <1>1, <2>1, <2>2, <2>3
  <2>. QED
    BY <2>1, <2>3, <2>4 DEF Calls
<1>3. ASSUME LeaveModule PROVE Leaves(Top.node)
  <2>1. /\ stack # <<>> /\ Top.at = "loop" /\ Top.def = NULL
        /\ stack' = TopGoesTo("tail") /\ ast' = ast /\ ~in_module'
    BY <1>3 DEF LeaveModule, TopIs
  <2>2. /\ Size' = Size /\ stack'[Size].node = Top.node
        /\ stack'[Size].at = "tail"
        /\ \A i \in 1..Size - 1 : stack'[i] = stack[i]
    BY <1>1, <2>1, TopProperties, SetTopProperties DEF TopGoesTo, Places, Size
  <2>. QED
    BY <1>1, <2>1, <2>2 DEF Leaves
<1>4. ASSUME VisitNextSibling PROVE HandsTo(Top.node, ast.next[Top.node])
  <2>. DEFINE m == ast.next[Top.node]
              s == TopGoesTo("unwind")
  <2>1. /\ stack # <<>> /\ Top.at = "tail" /\ m # NULL /\ ~in_module
        /\ stack' = Append(s, Call(m)) /\ ast' = ast /\ in_module' = in_module
    BY <1>4 DEF VisitNextSibling, HandsOver, TopIs
  <2>2. Call(m) \in Frame /\ Call(m).node = m /\ Call(m).at = "body"
    BY <1>1, <2>1, TreeFields, NodesCount DEF Call, Frame, Places, NodeOrNull
  <2>3. /\ s \in Seq(Frame) /\ Len(s) = Size
        /\ s[Size].node = Top.node /\ s[Size].at = "unwind"
        /\ \A i \in 1..Size - 1 : s[i] = stack[i]
    BY <1>1, <2>1, TopProperties, SetTopProperties DEF TopGoesTo, Places, Size
  <2>4. /\ Size' = Size + 1 /\ stack'[Size + 1] = Call(m)
        /\ stack'[Size] = s[Size]
        /\ \A i \in 1..Size - 1 : stack'[i] = s[i]
    <3>. HIDE DEF s, m
    <3>. QED
      BY <1>1, <2>1, <2>2, <2>3 DEF Size
  <2>. QED
    BY <1>1, <2>1, <2>2, <2>3, <2>4 DEF HandsTo
<1>. QED
  BY <1>2, <1>3, <1>4

(* The return to a caller, or from the first call. *)
LEMMA ReturnSteps ==
  ASSUME IInv, Return
  PROVE  Returns(Top.node)
<1>. DEFINE n == Top.node
<1>1. /\ stack \in Seq(Frame) /\ stack # <<>> /\ Size \in Nat \ {0}
      /\ Top \in Frame /\ Top = stack[Size] /\ n \in Node
      /\ WellFormed(ast) /\ ast' = ast /\ in_module' = in_module
      /\ \/ Top.at = "tail" /\ (ast.next[n] = NULL \/ in_module)
         \/ Top.at = "unwind"
  BY TopProperties DEF IInv, TypeOK, Return, HandsOver, TopIs, Top, Size
<1>2. CASE Size = 1
  <2>1. stack' = <<>>
    BY <1>2 DEF Return, Size
  <2>. QED
    BY <1>1, <1>2, <2>1 DEF Returns, Size
<1>3. CASE Size # 1
  <2>. DEFINE caller == stack[Size - 1]
  <2>1. Size > 1
    BY <1>1, <1>3
  <2>2. stack' = [Pop(stack) EXCEPT ![Size - 1] = Resumed(@)]
    BY <1>3, Zenon DEF Return, Size
  <2>3. caller \in Frame /\ (caller.at = "loop" => caller.def = n)
    BY <1>1, <2>1 DEF IInv, CallersWait, Top, Size
  <2>4. /\ stack' \in Seq(Frame)
        /\ Size' = Size - 1
        /\ stack'[Size - 1] = Resumed(caller)
        /\ \A i \in 1..Size - 2 : stack'[i] = stack[i]
    BY <1>1, <2>1, <2>2, <2>3, ReturnProperties DEF Size
  <2>5. /\ Resumed(caller).node = caller.node
        /\ Resumed(caller).at = caller.at
        /\ caller.at = "loop" => Resumed(caller).def = ast.next[n]
    BY <2>3 DEF Resumed, Frame
  <2>. QED
    BY <1>1, <2>1, <2>4, <2>5 DEF Returns
<1>. QED
  BY <1>2, <1>3

-----------------------------------------------------------------------------
(***************************************************************************)
(* What in_module is worth.                                                *)
(***************************************************************************)

(* A node without definitions does not change whether siblings have some. *)
LEMMA StillNone ==
  ASSUME NEW t, WellFormed(t), NEW n \in Reachable(t), t.defs[n] = NULL
  PROVE  NoneBefore(t, n) <=> t.parent[n] # NULL /\ ~Breaks(t, n)
<1>1. n \in Nat /\ \A m \in Siblings(t, n) : m \in Nat
  BY ReachableClosed, NodesCount DEF Siblings
<1>2. \A m \in Siblings(t, n) : m <= n <=> m < n \/ m = n
  BY <1>1
<1>. QED
  BY <1>2 DEF NoneBefore, Breaks

(* The next sibling comes before all later ones. *)
LEMMA NextNone ==
  ASSUME NEW t, WellFormed(t), NEW n \in Reachable(t), t.next[n] # NULL
  PROVE  NoneBefore(t, t.next[n]) <=> t.parent[n] # NULL /\ ~Breaks(t, n)
<1>1. /\ n \in Node /\ t.next[n] \in Node /\ n < t.next[n]
      /\ Siblings(t, n) = Siblings(t, t.next[n])
      /\ t.parent[t.next[n]] = t.parent[n]
  BY ReachableClosed, TreeLinks DEF Siblings
<1>2. \A m \in Siblings(t, n) : /\ m \in Reachable(t) /\ m \in Nat
                                /\ t.parent[m] = t.parent[n]
  BY ReachableClosed, NodesCount DEF Siblings
<1>3. \A m \in Siblings(t, n) : n < m => t.next[n] <= m
  BY <1>1, <1>2, SiblingOrder
<1>4. \A m \in Siblings(t, n) : m < t.next[n] <=> m <= n
  <2>. SUFFICES ASSUME NEW m \in Siblings(t, n)
                PROVE  m < t.next[n] <=> m <= n
    OBVIOUS
  <2>1. n \in Nat /\ t.next[n] \in Nat /\ m \in Nat
    BY <1>1, <1>2, NodesCount
  <2>. QED
    BY <1>1, <1>3, <2>1
<1>5. NoneBefore(t, t.next[n]) <=>
        /\ t.parent[n] # NULL
        /\ \A m \in Siblings(t, n) : m < t.next[n] => t.defs[m] = NULL
  BY <1>1, Zenon DEF NoneBefore
<1>6. (\A m \in Siblings(t, n) : m < t.next[n] => t.defs[m] = NULL)
        <=> ~Breaks(t, n)
  BY <1>4, Zenon DEF Breaks
<1>. QED
  BY <1>5, <1>6, Zenon

(* The first definition of a module comes before all others. *)
LEMMA FirstNone ==
  ASSUME NEW t, WellFormed(t), NEW n \in Reachable(t), t.defs[n] # NULL
  PROVE  NoneBefore(t, t.defs[n])
<1>1. /\ n \in Node /\ n # NULL /\ t.defs[n] \in Nat
      /\ t.parent[t.defs[n]] = n
  BY ReachableClosed, TreeLinks, NodesCount
<1>2. \A m \in Siblings(t, t.defs[n]) : m \in Nat /\ t.defs[n] <= m
  BY <1>1, FirstSibling, ReachableClosed, NodesCount DEF Siblings
<1>. QED
  BY <1>1, <1>2 DEF NoneBefore

(* What breaks the loop before a sibling breaks it before all later ones. *)
LEMMA BreaksOn ==
  ASSUME NEW t, WellFormed(t), NEW n \in Reachable(t), NEW s \in Reachable(t),
         t.parent[s] = t.parent[n], s <= n, Breaks(t, s)
  PROVE  Breaks(t, n)
<1>1. /\ Siblings(t, s) = Siblings(t, n) /\ n \in Nat /\ s \in Nat
      /\ \A m \in Siblings(t, n) : m \in Nat
  BY ReachableClosed, NodesCount DEF Siblings
<1>. QED
  BY <1>1 DEF Breaks

(* Looking at a node. *)
LEMMA LooksSInv ==
  ASSUME IInv, RInv, SInv, NEW n, LooksAt(n)
  PROVE  SInv'
<1>1. /\ Size \in Nat /\ Size > 0 /\ Size' = Size /\ WellFormed(ast) /\ ast' = ast
      /\ n \in Reachable(ast) /\ n \in Node
  BY FrameFacts DEF LooksAt
<1>2. /\ \A i \in 1..Size : stack'[i].node = stack[i].node
      /\ \A i \in 1..Size : i = Size \/ i \in 1..Size - 1
      /\ \A i, j \in 1..Size : i < j => i \in 1..Size - 1
  BY <1>1 DEF LooksAt
<1>3. StackDescends'
  <2>1. \A i, j \in 1..Size : i < j => stack'[i] = stack[i]
    BY <1>2 DEF LooksAt
  <2>. SUFFICES ASSUME NEW i \in 1..Size, NEW j \in 1..Size, i < j
                PROVE  /\ stack'[i].node < stack'[j].node
                       /\ stack'[i].at = "loop" =>
                            ast.parent[stack'[j].node] >= stack'[i].node
    BY <1>1 DEF StackDescends, Size
  <2>. QED
    BY <1>2, <2>1 DEF SInv, StackDescends, Size
<1>4. LoopsStayInside'
  <2>1. ast.defs[n] # NULL => ast.parent[ast.defs[n]] = n
    BY <1>1, TreeLinks
  <2>. QED
    BY <1>1, <1>2, <2>1 DEF LooksAt, SInv, LoopsStayInside, Size
<1>5. HandOversBreak'
  BY <1>1, <1>2 DEF LooksAt, SInv, HandOversBreak, Size
<1>6. FlagExact'
  <2>1. in_module <=> NoneBefore(ast, n)
    BY <1>1 DEF LooksAt, SInv, FlagExact, Top, Size
  <2>2. CASE stack'[Size].at = "tail" /\ ast.defs[n] = NULL /\ in_module' = in_module
    <3>1. in_module' <=> ast.parent[n] # NULL /\ ~Breaks(ast, n)
      BY <1>1, <2>1, <2>2, StillNone
    <3>. QED
      BY <1>1, <2>2, <3>1 DEF LooksAt, FlagExact, Top, Size
  <2>3. CASE /\ stack'[Size].at = "loop" /\ stack'[Size].def = ast.defs[n]
             /\ ast.defs[n] # NULL /\ in_module'
    <3>1. NoneBefore(ast, ast.defs[n])
      BY <1>1, <2>3, FirstNone
    <3>. QED
      BY <1>1, <2>3, <3>1 DEF FlagExact, Top, Size
  <2>. QED
    BY <2>2, <2>3 DEF LooksAt
<1>. QED
  BY <1>3, <1>4, <1>5, <1>6 DEF SInv

(* A call from the loop of a module. *)
LEMMA CallsSInv ==
  ASSUME IInv, RInv, SInv, NEW d, Calls(d)
  PROVE  SInv'
<1>1. /\ Size \in Nat /\ Size > 0 /\ Size' = Size + 1
      /\ WellFormed(ast) /\ ast' = ast
      /\ d \in Reachable(ast) /\ d \in Node /\ d # NULL
      /\ stack[Size].node \in Node
  BY FrameFacts, ReachableClosed DEF Calls
<1>2. \A i \in 1..Size + 1 : i = Size + 1 \/ (i \in 1..Size /\ stack'[i] = stack[i])
  BY <1>1 DEF Calls
<1>3. ast.parent[d] = stack[Size].node /\ ast.parent[d] < d
  BY <1>1, TreeLinks DEF Calls, SInv, LoopsStayInside, Size
<1>4. \A i \in 1..Size : stack[i].node \in Nat /\ stack[i].node <= stack[Size].node
  <2>. SUFFICES ASSUME NEW i \in 1..Size
                PROVE  stack[i].node \in Nat /\ stack[i].node <= stack[Size].node
    OBVIOUS
  <2>1. stack[i].node \in Nat /\ stack[Size].node \in Nat
    BY <1>1, FrameFacts, NodesCount
  <2>2. i < Size => stack[i].node < stack[Size].node
    BY <1>1 DEF SInv, StackDescends, Size
  <2>. QED
    BY <1>1, <2>1, <2>2
<1>5. StackDescends'
  <2>. SUFFICES ASSUME NEW i \in 1..Size + 1, NEW j \in 1..Size + 1, i < j
                PROVE  /\ stack'[i].node < stack'[j].node
                       /\ stack'[i].at = "loop" =>
                            ast.parent[stack'[j].node] >= stack'[i].node
    BY <1>1 DEF StackDescends, Size
  <2>1. i \in 1..Size /\ stack'[i] = stack[i]
    BY <1>1, <1>2
  <2>2. CASE j = Size + 1
    <3>1. stack'[j].node = d
      BY <2>2 DEF Calls
    <3>2. d \in Nat
      BY <1>1, NodesCount
    <3>. QED
      BY <1>1, <1>3, <1>4, <2>1, <3>1, <3>2, NodesCount
  <2>3. CASE j \in 1..Size /\ stack'[j] = stack[j]
    BY <2>1, <2>3 DEF SInv, StackDescends, Size
  <2>. QED
    BY <1>2, <2>2, <2>3
<1>6. LoopsStayInside'
  BY <1>1, <1>2 DEF Calls, SInv, LoopsStayInside, Size
<1>7. HandOversBreak'
  BY <1>1, <1>2 DEF Calls, SInv, HandOversBreak, Size
<1>8. FlagExact'
  <2>1. in_module <=> NoneBefore(ast, d)
    BY <1>1 DEF Calls, SInv, FlagExact, Top, Size
  <2>. QED
    BY <1>1, <2>1 DEF Calls, FlagExact, Top, Size
<1>. QED
  BY <1>5, <1>6, <1>7, <1>8 DEF SInv

(* The end of the loop. *)
LEMMA LeavesSInv ==
  ASSUME IInv, RInv, SInv, NEW n, Leaves(n)
  PROVE  SInv'
<1>1. /\ Size \in Nat /\ Size > 0 /\ Size' = Size /\ WellFormed(ast) /\ ast' = ast
      /\ n \in Reachable(ast) /\ n \in Node /\ ast.defs[n] # NULL
  BY FrameFacts DEF Leaves
<1>2. /\ \A i \in 1..Size : stack'[i].node = stack[i].node
      /\ \A i \in 1..Size : i = Size \/ i \in 1..Size - 1
      /\ \A i, j \in 1..Size : i < j => i \in 1..Size - 1
  BY <1>1 DEF Leaves
<1>3. StackDescends'
  BY <1>1, <1>2 DEF Leaves, SInv, StackDescends, Size
<1>4. LoopsStayInside'
  BY <1>1, <1>2 DEF Leaves, SInv, LoopsStayInside, Size
<1>5. HandOversBreak'
  BY <1>1, <1>2 DEF Leaves, SInv, HandOversBreak, Size
<1>6. FlagExact'
  <2>1. Breaks(ast, n)
    <3>1. n \in Siblings(ast, n) /\ n <= n
      BY <1>1, NodesCount DEF Siblings
    <3>. QED
      BY <1>1, <3>1 DEF Breaks
  <2>. QED
    BY <1>1, <2>1 DEF Leaves, FlagExact, Top, Size
<1>. QED
  BY <1>3, <1>4, <1>5, <1>6 DEF SInv

(* A call on the next sibling. *)
LEMMA HandsSInv ==
  ASSUME IInv, RInv, SInv, NEW n, NEW m, HandsTo(n, m)
  PROVE  SInv'
<1>1. /\ Size \in Nat /\ Size > 0 /\ Size' = Size + 1
      /\ WellFormed(ast) /\ ast' = ast
      /\ n \in Reachable(ast) /\ n \in Node /\ m = ast.next[n] /\ m # NULL
      /\ m \in Node /\ n < m /\ ast.parent[m] = ast.parent[n]
  BY FrameFacts, TreeLinks DEF HandsTo
<1>2. \A i \in 1..Size + 1 : \/ i = Size + 1
                             \/ i = Size
                             \/ i \in 1..Size - 1 /\ stack'[i] = stack[i]
  BY <1>1 DEF HandsTo
<1>3. \A i \in 1..Size : stack'[i].node = stack[i].node
  BY <1>1, <1>2 DEF HandsTo
<1>4. ast.parent[n] = NULL \/ Breaks(ast, n)
  BY <1>1 DEF HandsTo, SInv, FlagExact, Top, Size
<1>5. StackDescends'
  <2>. SUFFICES ASSUME NEW i \in 1..Size + 1, NEW j \in 1..Size + 1, i < j
                PROVE  /\ stack'[i].node < stack'[j].node
                       /\ stack'[i].at = "loop" =>
                            ast.parent[stack'[j].node] >= stack'[i].node
    BY <1>1 DEF StackDescends, Size
  <2>1. i \in 1..Size
    BY <1>1
  <2>2. CASE j = Size + 1
    <3>1. stack'[j].node = m /\ m \in Nat /\ n \in Nat
      BY <1>1, <2>2, NodesCount DEF HandsTo
    <3>2. CASE i = Size
      BY <1>1, <3>1, <3>2 DEF HandsTo
    <3>3. CASE i # Size
      <4>1. i \in 1..Size - 1 /\ stack'[i] = stack[i] /\ i < Size
        BY <1>1, <1>2, <2>1, <3>3
      <4>2. stack[i].node < n /\ (stack[i].at = "loop" => ast.parent[n] >= stack[i].node)
        BY <1>1, <4>1 DEF HandsTo, SInv, StackDescends, Size
      <4>3. stack[i].node \in Nat
        BY <2>1, FrameFacts, NodesCount
      <4>. QED
        BY <1>1, <3>1, <4>1, <4>2, <4>3
    <3>. QED
      BY <3>2, <3>3
  <2>3. CASE j \in 1..Size
    <3>1. i \in 1..Size - 1 /\ stack'[i] = stack[i]
      BY <1>1, <1>2, <2>1, <2>3
    <3>. QED
      BY <1>3, <2>1, <2>3, <3>1 DEF SInv, StackDescends, Size
  <2>. QED
    BY <1>1, <2>2, <2>3
<1>6. LoopsStayInside'
  BY <1>1, <1>2 DEF HandsTo, SInv, LoopsStayInside, Size
<1>7. HandOversBreak'
  BY <1>1, <1>2, <1>4 DEF HandsTo, SInv, HandOversBreak, Size
<1>8. FlagExact'
  <2>1. ~NoneBefore(ast, m)
    BY <1>1, <1>4, NextNone
  <2>. QED
    BY <1>1, <2>1 DEF HandsTo, FlagExact, Top, Size
<1>. QED
  BY <1>5, <1>6, <1>7, <1>8 DEF SInv

(* A return. *)
LEMMA ReturnsSInv ==
  ASSUME IInv, RInv, SInv, NEW n, Returns(n)
  PROVE  SInv'
<1>1. /\ Size \in Nat /\ Size > 0 /\ Size' = Size - 1
      /\ WellFormed(ast) /\ ast' = ast /\ in_module' = in_module
      /\ n \in Reachable(ast) /\ n \in Node
  BY FrameFacts DEF Returns
<1>2. \A i \in 1..Size - 1 : /\ i \in 1..Size
                             /\ stack'[i].node = stack[i].node
                             /\ stack'[i].at = stack[i].at
                             /\ i = Size - 1 \/ (i \in 1..Size - 2 /\ stack'[i] = stack[i])
  BY <1>1 DEF Returns
<1>3. \A i \in 1..Size - 1 : i = Size - 1 => Size > 1
  BY <1>1
<1>4. /\ stack[Size].at = "tail" => (in_module <=> ast.parent[n] # NULL /\ ~Breaks(ast, n))
      /\ stack[Size].at = "unwind" =>
           ~in_module /\ (ast.parent[n] = NULL \/ Breaks(ast, n))
  BY <1>1 DEF Returns, SInv, FlagExact, HandOversBreak, Top, Size
<1>5. in_module <=> ast.parent[n] # NULL /\ ~Breaks(ast, n)
  BY <1>4 DEF Returns
<1>6. StackDescends'
  BY <1>1, <1>2 DEF SInv, StackDescends, Size
<1>7. HandOversBreak'
  BY <1>1, <1>2 DEF SInv, HandOversBreak, Size
<1>8. LoopsStayInside'
  <2>. SUFFICES ASSUME NEW i \in 1..Size - 1,
                       stack'[i].at = "loop", stack'[i].def # NULL
                PROVE  ast.parent[stack'[i].def] = stack'[i].node
    BY <1>1 DEF LoopsStayInside, Size
  <2>1. CASE i = Size - 1
    <3>1. /\ stack'[i].def = ast.next[n]
          /\ stack[i].at = "loop" /\ stack[i].def = n
      BY <1>1, <1>2, <1>3, <2>1, FrameFacts DEF Returns
    <3>2. ast.parent[n] = stack[i].node
      BY <1>1, <1>2, <3>1, NodesCount DEF SInv, LoopsStayInside, Size
    <3>. QED
      BY <1>1, <1>2, <3>1, <3>2, TreeLinks
  <2>2. CASE i \in 1..Size - 2 /\ stack'[i] = stack[i]
    BY <1>2, <2>2 DEF SInv, LoopsStayInside, Size
  <2>. QED
    BY <1>2, <2>1, <2>2
<1>9. FlagExact'
  <2>. SUFFICES ASSUME stack' # <<>>
                PROVE  LET f == stack'[Size - 1]
                       IN /\ f.at \in {"loop", "unwind"}
                          /\ f.at = "loop" /\ f.def # NULL =>
                               (in_module <=> NoneBefore(ast, f.def))
                          /\ f.at = "unwind" => ~in_module
    BY <1>1 DEF FlagExact, Top, Size
  <2>. DEFINE i == Size - 1
  <2>1. Size > 1 /\ i \in 1..Size - 1 /\ i + 1 = Size
    <3>1. Size' # 0
      BY DEF Returns, Size
    <3>. QED
      BY <1>1, <3>1
  <2>2. \/ stack[i].at = "loop" /\ stack[i].def = n
        \/ stack[i].at = "unwind" /\ n = ast.next[stack[i].node]
    BY <2>1, FrameFacts DEF Returns
  <2>3. CASE stack[i].at = "loop" /\ stack[i].def = n
    <3>1. /\ stack'[i].at = "loop" /\ stack'[i].def = ast.next[n]
      BY <1>2, <2>1, <2>3 DEF Returns
    <3>2. ast.next[n] # NULL => (in_module <=> NoneBefore(ast, ast.next[n]))
      BY <1>1, <1>5, NextNone
    <3>. QED
      BY <3>1, <3>2
  <2>4. CASE stack[i].at = "unwind" /\ n = ast.next[stack[i].node]
    <3>. DEFINE s == stack[i].node
    <3>1. /\ s \in Reachable(ast) /\ s \in Node
          /\ ast.parent[s] = ast.parent[n] /\ s <= n
      BY <1>1, <1>2, <2>1, <2>4, FrameFacts, TreeLinks, NodesCount
    <3>2. ast.parent[s] = NULL \/ Breaks(ast, s)
      BY <1>2, <2>1, <2>4 DEF SInv, HandOversBreak, Size
    <3>3. ast.parent[n] = NULL \/ Breaks(ast, n)
      BY <1>1, <3>1, <3>2, BreaksOn
    <3>. QED
      BY <1>2, <1>5, <2>1, <2>4, <3>3
  <2>. QED
    BY <2>2, <2>3, <2>4
<1>. QED
  BY <1>6, <1>7, <1>8, <1>9 DEF SInv

-----------------------------------------------------------------------------
(***************************************************************************)
(* What a step does to the turns and calls that are coming.                *)
(***************************************************************************)

(* The sets that are counted. *)
LEMMA CountComing ==
  ASSUME NEW A, A \subseteq Node
  PROVE  /\ Cardinality(A) \in Nat
         /\ Cardinality(A \cup {}) = Cardinality(A)
         /\ Cardinality(A \cup {NULL}) = Cardinality(A) + 1
         /\ \A d \in A : Cardinality((A \ {d}) \cup {NULL}) = Cardinality(A)
<1>1. IsFiniteSet(A)
  <2>1. IsFiniteSet(Node)
    BY FS_Interval, NumNodesAssumption DEF Node
  <2>2. A \in SUBSET Node
    OBVIOUS
  <2>. QED
    BY <2>1, <2>2, FS_Subset
<1>2. Cardinality(A) \in Nat
  BY <1>1, FS_CardinalityType
<1>3. NULL \notin A
  BY NodesCount
<1>4. Cardinality(A \cup {NULL}) = Cardinality(A) + 1
  BY <1>1, <1>3, FS_AddElement
<1>5. ASSUME NEW d \in A PROVE Cardinality((A \ {d}) \cup {NULL}) = Cardinality(A)
  <2>1. IsFiniteSet(A \ {d}) /\ Cardinality(A \ {d}) = Cardinality(A) - 1
    BY <1>1, FS_RemoveElement
  <2>2. NULL \notin A \ {d}
    BY <1>3
  <2>3. Cardinality((A \ {d}) \cup {NULL}) = Cardinality(A \ {d}) + 1
    BY <2>1, <2>2, FS_AddElement
  <2>. QED
    BY <1>2, <2>1, <2>3
<1>6. A \cup {} = A
  OBVIOUS
<1>. QED
  BY <1>2, <1>4, <1>5, <1>6

(* The innermost call is about the last of the nodes. *)
LEMMA DeepestNode ==
  ASSUME IInv, RInv, SInv
  PROVE  /\ \A i \in 1..Size :
              /\ stack[i].node \in Nat
              /\ stack[i].node <= stack[Size].node
              /\ stack[i].node = stack[Size].node => i = Size
         /\ \A i \in 1..Size - 1 : stack[i].at \in {"loop", "unwind"}
<1>1. Size \in Nat
  BY FrameFacts
<1>2. ASSUME NEW i \in 1..Size
      PROVE  /\ stack[i].node \in Nat
             /\ stack[i].node <= stack[Size].node
             /\ stack[i].node = stack[Size].node => i = Size
  <2>1. Size \in 1..Size
    BY <1>1
  <2>2. stack[i].node \in Node /\ stack[Size].node \in Node
    BY <2>1, FrameFacts
  <2>3. stack[i].node \in Nat /\ stack[Size].node \in Nat
    BY <2>2, NodesCount
  <2>4. i < Size => stack[i].node < stack[Size].node
    BY <1>1 DEF SInv, StackDescends, Size
  <2>. QED
    BY <1>1, <2>3, <2>4
<1>. QED
  BY <1>2, FrameFacts

(* Looking at n, the call under way has come to n, and all turns over what is
   in n are to be taken. *)
LEMMA LooksComing ==
  ASSUME IInv, RInv, SInv, NEW n, LooksAt(n), NEW x \in Reachable(ast)
  PROVE  /\ x = n => UnderWay(x) /\ ~UnderWay(x)' /\ TurnsLeft(x)' = TurnsLeft(x)
         /\ ast.parent[x] = n =>
              /\ ~UnderWay(x) /\ TurnsLeft(x) = {}
              /\ ~UnderWay(x)' /\ TurnsLeft(x)' = Turns(ast, x)
         /\ x # n /\ ast.parent[x] # n =>
              (UnderWay(x)' <=> UnderWay(x)) /\ TurnsLeft(x)' = TurnsLeft(x)
<1>1. /\ Size \in Nat /\ Size > 0 /\ Size' = Size /\ WellFormed(ast) /\ ast' = ast
      /\ n \in Reachable(ast) /\ n \in Node /\ n \in Nat
      /\ x \in Node /\ x \in Nat /\ ast.parent[n] < n /\ ast.parent[x] < x
      /\ ast.parent[n] \in Nat
  <2>1. /\ Size \in Nat /\ Size > 0 /\ Size' = Size
        /\ WellFormed(ast) /\ ast' = ast /\ n \in Reachable(ast)
    BY FrameFacts DEF LooksAt
  <2>2. n \in Node /\ x \in Node
    BY <2>1, ReachableClosed
  <2>3. /\ ast.parent[n] < n /\ ast.parent[x] < x /\ ast.parent[n] \in NodeOrNull
    BY <2>1, <2>2, TreeLinks
  <2>. QED
    BY <2>1, <2>2, <2>3, NodesCount
<1>2. /\ stack[Size].at = "body" /\ stack[Size].node = n /\ stack'[Size].node = n
      /\ stack'[Size].at \in {"tail", "loop"}
      /\ \A i \in 1..Size : \/ i = Size
                            \/ /\ i \in 1..Size - 1 /\ i # Size
                               /\ stack'[i] = stack[i]
                               /\ stack[i].at \in {"loop", "unwind"}
                               /\ stack[i].node \in Nat /\ stack[i].node < n
  <2>1. ASSUME NEW i \in 1..Size, i # Size
        PROVE  /\ i \in 1..Size - 1
               /\ stack[i].node \in Nat /\ stack[i].node < stack[Size].node
    BY <1>1, <2>1, DeepestNode
  <2>. QED
    BY <2>1, DeepestNode DEF LooksAt
<1>3. /\ Turns(ast, x)' = Turns(ast, x)
      /\ Siblings(ast, x)' = Siblings(ast, x)
      /\ \A k : Breaks(ast, k)' <=> Breaks(ast, k)
  BY <1>1
<1>4. CASE ast.parent[x] # n
  <2>1. TurnsLeft(x)' = TurnsLeft(x)
    BY <1>1, <1>2, <1>4 DEF TurnsLeft, Size
  <2>2. x # n => (UnderWay(x)' <=> UnderWay(x))
    BY <1>1, <1>2 DEF UnderWay, Size
  <2>3. x = n => UnderWay(x)
    BY <1>1, <1>2 DEF UnderWay, Size
  <2>4. x = n => ~UnderWay(x)'
    <3>. SUFFICES ASSUME x = n, UnderWay(x)' PROVE FALSE
      OBVIOUS
    <3>1. PICK i \in 1..Size :
            \/ stack'[i].at = "body" /\ stack'[i].node = x
            \/ /\ stack'[i].at # "unwind"
               /\ stack'[i].node \in Siblings(ast, x)
               /\ stack'[i].node < x
      BY <1>1 DEF UnderWay, Size
    <3>2. i # Size
      BY <1>1, <1>2, <3>1
    <3>3. /\ stack[i].at = "loop" /\ ast.parent[stack[i].node] = ast.parent[n]
          /\ i < Size /\ stack[i].node \in Node
      BY <1>1, <1>2, <3>1, <3>2, FrameFacts DEF Siblings
    <3>4. ast.parent[n] >= stack[i].node
      BY <1>1, <1>2, <3>3 DEF SInv, StackDescends, Size
    <3>5. /\ ast.parent[stack[i].node] < stack[i].node
          /\ stack[i].node \in Nat
      BY <1>1, <3>3, TreeLinks, NodesCount
    <3>. QED
      BY <1>1, <3>3, <3>4, <3>5
  <2>. QED
    BY <1>4, <2>1, <2>2, <2>3, <2>4
<1>5. CASE ast.parent[x] = n
  <2>1. x # n /\ n # NULL
    BY <1>1, <1>5, NodesCount
  <2>2. \A k \in Siblings(ast, x) : k \in Nat /\ k > n /\ ast.defs[n] <= k
    BY <1>1, <1>5, <2>1, ReachableClosed, TreeLinks, NodesCount, FirstSibling
    DEF Siblings
  <2>3. ast.defs[n] # NULL /\ ast.defs[n] \in Nat
    <3>1. ast.defs[n] # NULL
      BY <1>1, <1>5, <2>1, FirstSibling
    <3>2. ast.defs[n] \in NodeOrNull
      BY <1>1, TreeLinks
    <3>. QED
      BY <3>1, <3>2, NodesCount
  <2>4. ~UnderWay(x)
    BY <1>1, <1>2, <2>1, <2>2 DEF UnderWay, Size
  <2>5. ~UnderWay(x)'
    BY <1>1, <1>2, <2>1, <2>2 DEF UnderWay, Size
  <2>6. TurnsLeft(x) = {}
    BY <1>1, <1>2, <1>5 DEF TurnsLeft, Size
  <2>7. TurnsLeft(x)' = Turns(ast, x)
    <3>1. stack'[Size].at = "loop" /\ stack'[Size].def = ast.defs[n]
      BY <2>3 DEF LooksAt
    <3>2. \A s \in Turns(ast, x) : s > ast.defs[n] \/ s = ast.defs[n]
      BY <2>2, <2>3 DEF Turns
    <3>. QED
      BY <1>1, <1>2, <1>5, <2>3, <3>1, <3>2 DEF TurnsLeft, Size
  <2>. QED
    BY <1>5, <2>1, <2>4, <2>5, <2>6, <2>7
<1>. QED
  BY <1>4, <1>5

(* A loop that calls process_node on d takes the turn of d: what was a turn
   left becomes a call under way. *)
LEMMA CallsComing ==
  ASSUME IInv, RInv, SInv, NEW d, Calls(d), NEW x \in Reachable(ast)
  PROVE  \/ /\ d \in TurnsLeft(x) /\ TurnsLeft(x)' = TurnsLeft(x) \ {d}
            /\ ~UnderWay(x) /\ UnderWay(x)'
         \/ /\ TurnsLeft(x)' = TurnsLeft(x)
            /\ UnderWay(x)' <=> UnderWay(x)
<1>. DEFINE p == stack[Size].node
<1>1. /\ Size \in Nat /\ Size > 0 /\ Size' = Size + 1
      /\ WellFormed(ast) /\ ast' = ast
      /\ d \in Reachable(ast) /\ d \in Node /\ d \in Nat /\ d # NULL
      /\ x \in Node /\ x \in Nat
      /\ p \in Node /\ p \in Nat /\ p # NULL
      /\ ast.parent[d] = p
  <2>1. /\ Size \in Nat /\ Size > 0 /\ Size' = Size + 1 /\ Size \in 1..Size
        /\ WellFormed(ast) /\ ast' = ast /\ d # NULL
        /\ d \in Reachable(ast) /\ p \in Node
    BY FrameFacts DEF Calls
  <2>2. ast.parent[d] = p
    BY <2>1 DEF Calls, SInv, LoopsStayInside, Size
  <2>3. d \in Node /\ x \in Node
    BY <2>1, ReachableClosed
  <2>. QED
    BY <2>1, <2>2, <2>3, NodesCount
<1>2. /\ stack[Size].at = "loop" /\ stack[Size].def = d
      /\ stack'[Size + 1].at = "body" /\ stack'[Size + 1].node = d
      /\ \A i \in 1..Size : /\ stack'[i] = stack[i]
                            /\ i # Size + 1 /\ i \in 1..Size + 1
                            /\ stack[i].node \in Nat /\ stack[i].node <= p
                            /\ stack[i].node = p => i = Size
                            /\ i # Size => stack[i].at \in {"loop", "unwind"}
      /\ \A i \in 1..Size + 1 : i = Size + 1 \/ i \in 1..Size
  BY <1>1, DeepestNode DEF Calls
<1>3. \A k \in Siblings(ast, x) : k \in Nat
  BY ReachableClosed, <1>1, NodesCount DEF Siblings
<1>4. \A s \in Turns(ast, x) : s \in Nat
  BY <1>3 DEF Turns
<1>5. CASE ast.parent[x] # p
  <2>1. TurnsLeft(x)' = TurnsLeft(x)
    BY <1>1, <1>2, <1>5 DEF TurnsLeft, Size
  <2>2. d \notin Siblings(ast, x) /\ d # x
    BY <1>1, <1>5 DEF Siblings
  <2>3. UnderWay(x)' <=> UnderWay(x)
    BY <1>1, <1>2, <2>2 DEF UnderWay, Size
  <2>. QED
    BY <2>1, <2>3
<1>6. CASE ast.parent[x] = p
  <2>1. \A k \in Siblings(ast, x) : k > p
    <3>1. \A k \in Siblings(ast, x) : k \in Node /\ ast.parent[k] = p
      BY <1>1, <1>6, ReachableClosed DEF Siblings
    <3>2. \A k \in Siblings(ast, x) : ast.parent[k] < k
      BY <1>1, <3>1, TreeLinks
    <3>. QED
      BY <3>1, <3>2, <1>3, <1>1
  <2>2. x \in Siblings(ast, x) /\ d \in Siblings(ast, x)
    BY <1>1, <1>6 DEF Siblings
  <2>3. ~UnderWay(x)
    BY <1>1, <1>2, <2>1, <2>2, <1>3 DEF UnderWay, Size
  <2>4. UnderWay(x)' <=> d \in Turns(ast, x)
    <3>1. UnderWay(x)' <=> (d = x \/ (d < x /\ Breaks(ast, d)))
      BY <1>1, <1>2, <1>6, <2>1, <2>2, <2>3 DEF UnderWay, Size
    <3>. QED
      BY <2>2, <3>1 DEF Turns
  <2>5. TurnsLeft(x) = {s \in Turns(ast, x) : s > d \/ s = d}
    BY <1>1, <1>2, <1>6 DEF TurnsLeft, Size
  <2>6. TurnsLeft(x)' = {s \in Turns(ast, x) : s > d}
    BY <1>1, <1>2, <1>6 DEF TurnsLeft, Size
  <2>7. TurnsLeft(x)' = TurnsLeft(x) \ {d}
    BY <1>1, <1>4, <2>5, <2>6
  <2>8. d \in TurnsLeft(x) <=> d \in Turns(ast, x)
    BY <2>5
  <2>. QED
    BY <2>3, <2>4, <2>7, <2>8
<1>. QED
  BY <1>5, <1>6

(* The end of a loop leaves everything as it is. *)
LEMMA LeavesComing ==
  ASSUME IInv, RInv, SInv, NEW n, Leaves(n), NEW x \in Reachable(ast)
  PROVE  /\ TurnsLeft(x)' = TurnsLeft(x)
         /\ UnderWay(x)' <=> UnderWay(x)
<1>1. /\ Size \in Nat /\ Size > 0 /\ Size' = Size /\ ast' = ast
      /\ stack[Size].at = "loop" /\ stack[Size].def = NULL
      /\ stack'[Size].at = "tail"
      /\ stack'[Size].node = stack[Size].node
      /\ \A i \in 1..Size : i = Size \/ (i # Size /\ stack'[i] = stack[i])
  BY FrameFacts DEF Leaves
<1>2. TurnsLeft(x)' = TurnsLeft(x)
  BY <1>1 DEF TurnsLeft, Size
<1>3. UnderWay(x)' <=> UnderWay(x)
  BY <1>1 DEF UnderWay, Size
<1>. QED
  BY <1>2, <1>3

(* So does the call on the next sibling: it is under way to the same nodes. *)
LEMMA HandsComing ==
  ASSUME IInv, RInv, SInv, NEW n, NEW m, HandsTo(n, m), NEW x \in Reachable(ast)
  PROVE  /\ TurnsLeft(x)' = TurnsLeft(x)
         /\ UnderWay(x)' <=> UnderWay(x)
<1>1. /\ Size \in Nat /\ Size > 0 /\ Size' = Size + 1
      /\ WellFormed(ast) /\ ast' = ast
      /\ n \in Reachable(ast) /\ m = ast.next[n] /\ m # NULL
      /\ n \in Node /\ x \in Node
  BY FrameFacts, ReachableClosed DEF HandsTo
<1>2. /\ m \in Reachable(ast) /\ m \in Node /\ n < m
      /\ ast.parent[m] = ast.parent[n]
  BY <1>1, ReachableClosed, TreeLinks
<1>3. n \in Nat /\ m \in Nat /\ x \in Nat
  BY <1>1, <1>2, NodesCount
<1>4. /\ stack[Size].at = "tail" /\ stack[Size].node = n
      /\ stack'[Size].at = "unwind"
      /\ stack'[Size + 1].at = "body" /\ stack'[Size + 1].node = m
      /\ \A i \in 1..Size :
           i = Size \/ (i # Size /\ i # Size + 1 /\ stack'[i] = stack[i])
      /\ \A i \in 1..Size + 1 : i = Size + 1 \/ i \in 1..Size
      /\ \A i \in 1..Size : i \in 1..Size + 1
      /\ Size \in 1..Size /\ Size + 1 \in 1..Size + 1
  BY <1>1 DEF HandsTo
<1>5. ast.parent[n] = NULL \/ Breaks(ast, n)
  BY <1>1 DEF HandsTo, SInv, FlagExact, Top, Size
<1>6. ast.parent[m] = NULL \/ Breaks(ast, m)
  BY <1>1, <1>2, <1>3, <1>5, BreaksOn
<1>7. TurnsLeft(x)' = TurnsLeft(x)
  BY <1>1, <1>4 DEF TurnsLeft, Size
<1>8. n \in Siblings(ast, x) <=> m \in Siblings(ast, x)
  BY <1>1, <1>2 DEF Siblings
<1>9. n \in Siblings(ast, x) =>
        /\ ast.parent[n] = ast.parent[x]
        /\ n < x <=> m = x \/ m < x
  <2>. SUFFICES ASSUME n \in Siblings(ast, x)
                PROVE  /\ ast.parent[n] = ast.parent[x]
                       /\ n < x <=> m = x \/ m < x
    OBVIOUS
  <2>1. ast.parent[n] = ast.parent[x]
    BY DEF Siblings
  <2>2. n < x => m <= x
    BY <1>1, <2>1, SiblingOrder
  <2>. QED
    BY <1>2, <1>3, <2>1, <2>2
<1>10. m = x => n \in Siblings(ast, x)
  BY <1>1, <1>2 DEF Siblings
<1>. DEFINE Before == \E i \in 1..Size - 1 :
              \/ stack[i].at = "body" /\ stack[i].node = x
              \/ /\ stack[i].at # "unwind"
                 /\ stack[i].node \in Siblings(ast, x)
                 /\ stack[i].node < x
                 /\ ast.parent[x] = NULL \/ Breaks(ast, stack[i].node)
<1>11. \A i \in 1..Size : i = Size \/ i \in 1..Size - 1
  BY <1>1
<1>12. UnderWay(x) <=> Before \/ (n \in Siblings(ast, x) /\ n < x)
  <2>1. n \in Siblings(ast, x) => ast.parent[x] = NULL \/ Breaks(ast, n)
    BY <1>5, <1>9
  <2>2. \A i \in 1..Size - 1 : i \in 1..Size
    BY <1>1
  <2>. QED
    BY <1>4, <1>11, <2>1, <2>2 DEF UnderWay, Size
<1>13. UnderWay(x)' <=> Before \/ m = x \/ (m \in Siblings(ast, x) /\ m < x)
  <2>1. m \in Siblings(ast, x) => ast.parent[x] = NULL \/ Breaks(ast, m)
    BY <1>2, <1>6, <1>8, <1>9
  <2>2. \A i \in 1..Size - 1 : i \in 1..Size + 1 /\ stack'[i] = stack[i]
    BY <1>1 DEF HandsTo
  <2>. QED
    BY <1>1, <1>4, <1>11, <2>1, <2>2 DEF UnderWay, Size
<1>14. UnderWay(x)' <=> UnderWay(x)
  <2>. HIDE DEF Before
  <2>. QED
    BY <1>8, <1>9, <1>10, <1>12, <1>13
<1>. QED
  BY <1>7, <1>14

(* And so does a return: the loop it returns to goes on to the next turn. *)
LEMMA ReturnsComing ==
  ASSUME IInv, RInv, SInv, NEW n, Returns(n), NEW x \in Reachable(ast)
  PROVE  /\ TurnsLeft(x)' = TurnsLeft(x)
         /\ UnderWay(x)' <=> UnderWay(x)
<1>1. /\ Size \in Nat /\ Size > 0 /\ Size' = Size - 1
      /\ WellFormed(ast) /\ ast' = ast
      /\ n \in Reachable(ast) /\ n \in Node /\ x \in Node
  BY FrameFacts, ReachableClosed DEF Returns
<1>2. n \in Nat /\ x \in Nat
  BY <1>1, NodesCount
<1>3. /\ stack[Size].at \in {"tail", "unwind"} /\ stack[Size].node = n
      /\ \A i \in 1..Size : i = Size \/ i \in 1..Size - 1
      /\ \A i \in 1..Size - 1 : /\ i \in 1..Size /\ i # Size
                                /\ stack'[i].at = stack[i].at
                                /\ stack'[i].node = stack[i].node
                                /\ \/ i # Size - 1 /\ stack'[i] = stack[i]
                                   \/ i = Size - 1 /\ Size > 1
  BY <1>1 DEF Returns
<1>4. \A k \in Siblings(ast, x) : k \in Nat
  BY ReachableClosed, <1>1, NodesCount DEF Siblings
<1>5. stack[Size].at = "tail" /\ n \in Siblings(ast, x) /\ n < x =>
        ~(ast.parent[x] = NULL \/ Breaks(ast, n))
  <2>. SUFFICES ASSUME stack[Size].at = "tail", n \in Siblings(ast, x), n < x
                PROVE  ~(ast.parent[x] = NULL \/ Breaks(ast, n))
    OBVIOUS
  <2>1. ast.parent[n] = ast.parent[x]
    BY DEF Siblings
  <2>2. ast.next[n] # NULL
    BY <1>1, <2>1, SiblingOrder
  <2>3. in_module
    BY <2>2 DEF Returns
  <2>4. in_module <=> ast.parent[n] # NULL /\ ~Breaks(ast, n)
    BY <1>1, <1>3 DEF SInv, FlagExact, Top, Size
  <2>. QED
    BY <2>1, <2>3, <2>4
<1>6. UnderWay(x)' <=> UnderWay(x)
  BY <1>1, <1>3, <1>5 DEF UnderWay, Size
<1>7. ASSUME Size > 1, stack[Size - 1].at = "loop",
             stack[Size - 1].node = ast.parent[x], NEW s \in Turns(ast, x)
      PROVE  /\ stack[Size - 1].def # NULL /\ s > stack[Size - 1].def
               <=> /\ stack'[Size - 1].def # NULL
                   /\ \/ s > stack'[Size - 1].def
                      \/ s = stack'[Size - 1].def
  <2>1. /\ stack[Size - 1].def = n /\ n # NULL
        /\ stack'[Size - 1].def = ast.next[n]
    <3>1. Size - 1 \in 1..Size - 1 /\ Size - 1 + 1 = Size
      BY <1>1, <1>7
    <3>2. stack[Size - 1].def = n
      BY <1>3, <1>7, <3>1, FrameFacts
    <3>. QED
      BY <1>1, <1>7, <3>2, NodesCount DEF Returns
  <2>2. /\ s \in Reachable(ast) /\ s \in Nat /\ ast.parent[s] = ast.parent[n]
    <3>1. Size - 1 \in 1..Size
      BY <1>1, <1>7
    <3>2. ast.parent[n] = ast.parent[x]
      BY <1>7, <2>1, <3>1 DEF SInv, LoopsStayInside, Size
    <3>. QED
      BY <1>4, <3>2 DEF Turns, Siblings
  <2>3. n < s => ast.next[n] # NULL /\ ast.next[n] <= s
    BY <1>1, <2>2, SiblingOrder
  <2>4. ast.next[n] # NULL => ast.next[n] \in Nat /\ n < ast.next[n]
    BY <1>1, TreeLinks, NodesCount
  <2>. QED
    BY <1>2, <2>1, <2>2, <2>3, <2>4
<1>8. TurnsLeft(x)' = TurnsLeft(x)
  <2>. DEFINE Old(i, s) == /\ stack[i].at = "loop"
                           /\ stack[i].node = ast.parent[x]
                           /\ stack[i].def # NULL
                           /\ s > stack[i].def \/ (s = stack[i].def /\ i = Size)
              New(i, s) == /\ stack'[i].at = "loop"
                           /\ stack'[i].node = ast.parent[x]
                           /\ stack'[i].def # NULL
                           /\ s > stack'[i].def \/ (s = stack'[i].def /\ i = Size - 1)
  <2>1. ASSUME NEW i \in 1..Size - 1, NEW s \in Turns(ast, x)
        PROVE  New(i, s) <=> Old(i, s)
    <3>1. CASE i # Size - 1 /\ stack'[i] = stack[i]
      BY <1>3, <3>1
    <3>2. CASE i = Size - 1 /\ Size > 1
      BY <1>3, <1>7, <3>2
    <3>. QED
      BY <1>3, <3>1, <3>2
  <2>2. \A s : ~Old(Size, s)
    BY <1>3
  <2>3. TurnsLeft(x) = {s \in Turns(ast, x) : \E i \in 1..Size : Old(i, s)}
    BY DEF TurnsLeft, Size
  <2>4. TurnsLeft(x)' = {s \in Turns(ast, x) : \E i \in 1..Size - 1 : New(i, s)}
    BY <1>1 DEF TurnsLeft, Size
  <2>. HIDE DEF Old, New
  <2>. QED
    BY <1>3, <2>1, <2>2, <2>3, <2>4
<1>. QED
  BY <1>6, <1>8

-----------------------------------------------------------------------------
(***************************************************************************)
(* What was generated and what is coming add up.                           *)
(***************************************************************************)

(* The sets that are counted, before a step and after it. *)
LEMMA ComingCounts ==
  ASSUME WellFormed(ast), ast' = ast
  PROVE  \A n \in Node : /\ TurnsLeft(n) \subseteq Node
                         /\ TurnsLeft(n)' \subseteq Node
                         /\ Cardinality(Coming(n)) \in Nat
                         /\ Cardinality(Coming(n)') \in Nat
<1>. SUFFICES ASSUME NEW n \in Node
              PROVE  /\ TurnsLeft(n) \subseteq Node
                     /\ TurnsLeft(n)' \subseteq Node
                     /\ Cardinality(Coming(n)) \in Nat
                     /\ Cardinality(Coming(n)') \in Nat
  OBVIOUS
<1>1. TurnsLeft(n) \subseteq Node /\ TurnsLeft(n)' \subseteq Node
  BY TurnsFinite DEF TurnsLeft
<1>2. \A A : A \subseteq Node => /\ Cardinality(A \cup {}) \in Nat
                                 /\ Cardinality(A \cup {NULL}) \in Nat
  <2>. SUFFICES ASSUME NEW A, A \subseteq Node
                PROVE  /\ Cardinality(A \cup {}) \in Nat
                       /\ Cardinality(A \cup {NULL}) \in Nat
    OBVIOUS
  <2>1. /\ Cardinality(A) \in Nat
        /\ Cardinality(A \cup {}) = Cardinality(A)
        /\ Cardinality(A \cup {NULL}) = Cardinality(A) + 1
    BY CountComing
  <2>. QED
    BY <2>1
<1>. QED
  BY <1>1, <1>2 DEF Coming

(* A step that leaves the numbers of what is coming as they are. *)
LEMMA FutureKept ==
  ASSUME WellFormed(ast), ast' = ast,
         \A x \in Reachable(ast) : Cardinality(Coming(x)') = Cardinality(Coming(x))
  PROVE  \A x \in Reachable(ast) : Future'[x] = Future[x]
<1>. DEFINE c == [k \in Node |-> Cardinality(Coming(k))]
            d == [k \in Node |-> Cardinality(Coming(k)')]
<1>1. c \in [Node -> Nat] /\ d \in [Node -> Nat]
  BY ComingCounts
<1>2. \A x \in Reachable(ast) : d[x] = c[x]
  BY ReachableClosed
<1>3. Future = Passes(ast, c)
  BY DEF Future
<1>4. Future' = Passes(ast, d)
  BY DEF Future
<1>. HIDE DEF c, d
<1>. QED
  BY <1>1, <1>2, <1>3, <1>4, PassesSame

(* A step that comes to n. *)
LEMMA FutureVisited ==
  ASSUME IInv, RInv, SInv, NEW n, LooksAt(n)
  PROVE  \A x \in Reachable(ast) :
           Future[x] = IF x = n THEN Future'[x] + 1 ELSE Future'[x]
<1>. DEFINE c == [k \in Node |-> Cardinality(Coming(k))]
            d == [k \in Node |-> Cardinality(Coming(k)')]
<1>1. WellFormed(ast) /\ ast' = ast /\ n \in Reachable(ast) /\ n \in Node
  BY FrameFacts DEF LooksAt
<1>2. c \in [Node -> Nat] /\ d \in [Node -> Nat]
  BY <1>1, ComingCounts
<1>3. \A x \in Node : c[x] = Cardinality(Coming(x)) /\ d[x] = Cardinality(Coming(x)')
  OBVIOUS
<1>4. c[n] = d[n] + 1
  <2>1. Coming(n) = TurnsLeft(n) \cup {NULL} /\ Coming(n)' = TurnsLeft(n) \cup {}
    BY <1>1, LooksComing DEF Coming
  <2>2. TurnsLeft(n) \subseteq Node
    BY <1>1, ComingCounts
  <2>. QED
    BY <1>1, <1>3, <2>1, <2>2, CountComing
<1>5. ASSUME NEW x \in Reachable(ast), x # n
      PROVE  d[x] = c[x] + (IF ast.parent[x] = n THEN Cardinality(Turns(ast, x)) ELSE 0)
  <2>1. x \in Node
    BY <1>1, ReachableClosed
  <2>2. CASE ast.parent[x] = n
    <3>1. Coming(x) = {} /\ Coming(x)' = Turns(ast, x)
      BY <2>2, LooksComing DEF Coming
    <3>2. Cardinality({}) = 0 /\ Cardinality(Turns(ast, x)) \in Nat
      BY <1>1, <2>1, FS_EmptySet, TurnsFinite
    <3>3. c[x] = 0 /\ d[x] = Cardinality(Turns(ast, x))
      BY <1>3, <2>1, <3>1, <3>2, Zenon
    <3>. HIDE DEF c, d
    <3>. QED
      BY <2>2, <3>2, <3>3
  <2>3. CASE ast.parent[x] # n
    <3>1. Coming(x)' = Coming(x)
      BY <1>5, <2>3, LooksComing DEF Coming
    <3>2. c[x] \in Nat
      BY <1>2, <2>1
    <3>. QED
      BY <1>3, <2>1, <2>3, <3>1, <3>2
  <2>. QED
    BY <2>2, <2>3
<1>6. Future = Passes(ast, c)
  BY DEF Future
<1>7. Future' = Passes(ast, d)
  BY <1>1 DEF Future
<1>. HIDE DEF c, d
<1>8. /\ Passes(ast, c)[n] = Passes(ast, d)[n] + 1
      /\ \A x \in Reachable(ast) : x # n => Passes(ast, c)[x] = Passes(ast, d)[x]
  BY <1>1, <1>2, <1>4, <1>5, PassesVisit
<1>. QED
  BY <1>6, <1>7, <1>8

(* The other steps of the walk. *)
LEMMA FutureSteps ==
  ASSUME IInv, RInv, SInv,
         VisitDefinition \/ LeaveModule \/ VisitNextSibling \/ Return
  PROVE  \A x \in Reachable(ast) : Future'[x] = Future[x]
<1>1. WellFormed(ast) /\ ast' = ast
  BY DEF IInv, TypeOK, VisitDefinition, LeaveModule, VisitNextSibling, Return
<1>2. ASSUME NEW x \in Reachable(ast)
      PROVE  Cardinality(Coming(x)') = Cardinality(Coming(x))
  <2>1. TurnsLeft(x) \subseteq Node
    BY <1>1, ComingCounts, ReachableClosed
  <2>2. CASE TurnsLeft(x)' = TurnsLeft(x) /\ (UnderWay(x)' <=> UnderWay(x))
    BY <2>2 DEF Coming
  <2>3. CASE /\ VisitDefinition
             /\ ~(TurnsLeft(x)' = TurnsLeft(x) /\ (UnderWay(x)' <=> UnderWay(x)))
    <3>1. Calls(Top.def)
      BY <2>3, CallSteps
    <3>2. PICK d : /\ d \in TurnsLeft(x) /\ TurnsLeft(x)' = TurnsLeft(x) \ {d}
                   /\ ~UnderWay(x) /\ UnderWay(x)'
      BY <2>3, <3>1, CallsComing
    <3>3. Coming(x) = TurnsLeft(x) \cup {} /\ Coming(x)' = (TurnsLeft(x) \ {d}) \cup {NULL}
      BY <3>2 DEF Coming
    <3>4. /\ Cardinality(TurnsLeft(x) \cup {}) = Cardinality(TurnsLeft(x))
          /\ Cardinality((TurnsLeft(x) \ {d}) \cup {NULL}) = Cardinality(TurnsLeft(x))
      BY <2>1, <3>2, CountComing
    <3>. QED
      BY <3>3, <3>4, Zenon
  <2>4. CASE LeaveModule
    BY <2>2, <2>4, CallSteps, LeavesComing
  <2>5. CASE VisitNextSibling
    BY <2>2, <2>5, CallSteps, HandsComing
  <2>6. CASE Return
    BY <2>2, <2>6, ReturnSteps, ReturnsComing
  <2>. QED
    BY <2>2, <2>3, <2>4, <2>5, <2>6
<1>. QED
  BY <1>1, <1>2, FutureKept

(* The first call of process_node starts the walk on the top-level nodes,
   one after the other. *)
LEMMA FutureStarts ==
  ASSUME IInv, GenerateTypes
  PROVE  \A x \in Reachable(ast) : Future'[x] = ReplayCount[x]
<1>. DEFINE c == [k \in Node |-> IF ast.parent[k] = NULL THEN 1 ELSE 0]
            d == [k \in Node |-> Cardinality(Coming(k)')]
<1>1. /\ WellFormed(ast) /\ ast' = ast /\ ast.root # NULL
      /\ ast.root \in Node /\ ast.root \in Nat /\ ast.parent[ast.root] = NULL
      /\ stack' = <<Call(ast.root)>> /\ Len(stack') = 1
      /\ stack'[1].node = ast.root /\ stack'[1].at = "body"
  <2>1. WellFormed(ast) /\ ast' = ast /\ ast.root # NULL
        /\ stack' = <<Call(ast.root)>>
    BY DEF IInv, TypeOK, GenerateTypes
  <2>2. ast.root \in Node /\ ast.parent[ast.root] = NULL
    BY <2>1, TreeLinks, NodesCount
  <2>3. /\ Len(stack') = 1 /\ stack'[1].node = ast.root /\ stack'[1].at = "body"
    BY <2>1 DEF Call
  <2>. QED
    BY <2>1, <2>2, <2>3, NodesCount
<1>2. c \in [Node -> Nat] /\ d \in [Node -> Nat]
  BY <1>1, ComingCounts
<1>3. \A x \in Node : c[x] = (IF ast.parent[x] = NULL THEN 1 ELSE 0)
                      /\ d[x] = Cardinality(Coming(x)')
  OBVIOUS
<1>4. ASSUME NEW x \in Reachable(ast) PROVE d[x] = c[x]
  <2>1. x \in Node /\ x \in Nat
    BY <1>1, ReachableClosed, NodesCount
  <2>2. TurnsLeft(x)' = {}
    BY <1>1 DEF TurnsLeft
  <2>3. UnderWay(x)' <=> ast.parent[x] = NULL
    <3>1. CASE ast.parent[x] # NULL
      BY <1>1, <3>1 DEF UnderWay, Siblings
    <3>2. CASE ast.parent[x] = NULL
      <4>1. ast.root = x \/ ast.root < x
        BY <1>1, <2>1, <3>2, FirstSibling
      <4>2. ast.root \in Siblings(ast, x)
        BY <1>1, <3>2, ReachableClosed DEF Siblings
      <4>3. 1 \in 1..Len(stack')
        BY <1>1
      <4>. QED
        BY <1>1, <3>2, <4>1, <4>2, <4>3 DEF UnderWay
    <3>. QED
      BY <3>1, <3>2
  <2>4. Coming(x)' = IF ast.parent[x] = NULL THEN {NULL} ELSE {}
    BY <2>2, <2>3 DEF Coming
  <2>5. Cardinality({}) = 0 /\ Cardinality({NULL}) = 1
    BY FS_EmptySet, FS_Singleton
  <2>. QED
    BY <1>3, <2>1, <2>4, <2>5
<1>5. ReplayCount = Passes(ast, c)
  BY DEF ReplayCount
<1>6. Future' = Passes(ast, d)
  BY <1>1 DEF Future
<1>. HIDE DEF c, d
<1>. QED
  BY <1>1, <1>2, <1>4, <1>5, <1>6, PassesSame

(* When no call is active, nothing is coming. *)
LEMMA FutureOver ==
  ASSUME WellFormed(ast), stack = <<>>
  PROVE  \A x \in Node : Future[x] = 0
<1>. DEFINE c == [k \in Node |-> Cardinality(Coming(k))]
<1>1. \A x : Coming(x) = {}
  BY DEF Coming, TurnsLeft, UnderWay
<1>2. \A x \in Node : c[x] = 0
  BY <1>1, FS_EmptySet
<1>3. c \in [Node -> Nat]
  BY <1>1, FS_EmptySet
<1>4. Future = Passes(ast, c)
  BY DEF Future
<1>. HIDE DEF c
<1>. QED
  BY <1>2, <1>3, <1>4, PassesNone

(* Nothing is active before the walk. *)
LEMMA InitSInv == Init => SInv /\ PassesAddUp
BY DEF Init, SInv, StackDescends, LoopsStayInside, HandOversBreak, FlagExact,
       PassesAddUp

(* The first call is about the root, outside of every module. *)
LEMMA StartSInv ==
  ASSUME IInv, GenerateTypes
  PROVE  SInv'
<1>1. /\ WellFormed(ast) /\ ast' = ast /\ ast.root # NULL
      /\ stack' = <<Call(ast.root)>> /\ ~in_module'
  BY DEF IInv, TypeOK, GenerateTypes, FlagMeansLoop, WalkOver
<1>2. /\ Len(stack') = 1 /\ stack' # <<>>
      /\ stack'[1].node = ast.root /\ stack'[1].at = "body"
  BY <1>1 DEF Call
<1>3. ~NoneBefore(ast, ast.root)
  BY <1>1, TreeLinks DEF NoneBefore
<1>4. \A i \in 1..Len(stack') : i = 1
  BY <1>2
<1>5. StackDescends'
  <2>. SUFFICES ASSUME NEW i \in 1..Len(stack'), NEW j \in 1..Len(stack'), i < j
                PROVE  FALSE
    BY DEF StackDescends
  <2>. QED
    BY <1>2
<1>. QED
  BY <1>1, <1>2, <1>3, <1>4, <1>5
  DEF SInv, LoopsStayInside, HandOversBreak, FlagExact, Top

(* Every step keeps the order of the calls and the meaning of in_module. *)
LEMMA NextSInv == IInv /\ RInv /\ SInv /\ [Next]_vars => SInv'
<1>. SUFFICES ASSUME IInv, RInv, SInv, [Next]_vars PROVE SInv'
  OBVIOUS
<1>1. CASE GenerateNothing \/ Report \/ UNCHANGED vars
  <2>1. ast' = ast /\ stack' = stack /\ in_module' = in_module
    BY <1>1 DEF GenerateNothing, Report, vars
  <2>. QED
    BY <2>1 DEF SInv, StackDescends, LoopsStayInside, HandOversBreak,
                FlagExact, Top
<1>2. CASE GenerateTypes
  BY <1>2, StartSInv
<1>3. CASE \/ \E result \in {0, -1} : EmitDefinition(result)
           \/ SkipNode
           \/ EnterModule
  BY <1>3, LookSteps, LooksSInv
<1>4. CASE VisitDefinition
  BY <1>4, CallSteps, CallsSInv
<1>5. CASE LeaveModule
  BY <1>5, CallSteps, LeavesSInv
<1>6. CASE VisitNextSibling
  BY <1>6, CallSteps, HandsSInv
<1>7. CASE Return
  BY <1>7, ReturnSteps, ReturnsSInv
<1>. QED
  BY <1>1, <1>2, <1>3, <1>4, <1>5, <1>6, <1>7 DEF Next

(* Every step keeps the sum of what was generated and what is coming. *)
LEMMA NextPassesAddUp ==
  IInv /\ RInv /\ SInv /\ PassesAddUp /\ [Next]_vars => PassesAddUp'
<1>. SUFFICES ASSUME IInv, RInv, SInv, PassesAddUp, [Next]_vars
              PROVE  PassesAddUp'
  OBVIOUS
<1>1. WellFormed(ast) /\ ast' = ast /\ attempts \in [Node -> Nat]
  BY DEF IInv, TypeOK, Next, GenerateNothing, GenerateTypes, EmitDefinition,
         EnterModule, SkipNode, VisitDefinition, LeaveModule, VisitNextSibling,
         Return, Report, vars
<1>2. /\ Definitions(ast) \subseteq Reachable(ast)
      /\ Reachable(ast) \subseteq Node
      /\ Definitions(ast)' = Definitions(ast)
      /\ ReplayCount' = ReplayCount
  BY <1>1, ReachableClosed DEF Definitions, ReplayCount
<1>3. CASE GenerateNothing
  BY <1>1, <1>3 DEF GenerateNothing, PassesAddUp
<1>4. CASE Report \/ UNCHANGED vars
  <2>1. /\ stack' = stack /\ attempts' = attempts
        /\ pc' # "generate" => pc # "generate"
    BY <1>4 DEF Report, vars, history
  <2>2. \A x \in Reachable(ast) : Coming(x)' = Coming(x)
    BY <1>1, <2>1 DEF Coming, TurnsLeft, UnderWay
  <2>3. \A x \in Reachable(ast) : Future'[x] = Future[x]
    BY <1>1, <2>2, FutureKept
  <2>. QED
    BY <1>1, <1>2, <2>1, <2>3 DEF PassesAddUp
<1>5. CASE GenerateTypes
  <2>1. \A x \in Reachable(ast) : Future'[x] = ReplayCount[x]
    BY <1>5, FutureStarts
  <2>2. \A x \in Node : attempts'[x] = 0
    BY <1>5 DEF GenerateTypes, history, RInv, ErrorsHonest
  <2>3. \A x \in Node : ReplayCount[x] \in Nat
    <3>1. [k \in Node |-> IF ast.parent[k] = NULL THEN 1 ELSE 0] \in [Node -> Nat]
      OBVIOUS
    <3>. QED
      BY <1>1, <3>1, PassesRecursion DEF ReplayCount
  <2>. QED
    BY <1>2, <2>1, <2>2, <2>3 DEF PassesAddUp
<1>6. CASE VisitDefinition \/ LeaveModule \/ VisitNextSibling \/ Return
  <2>1. \A x \in Reachable(ast) : Future'[x] = Future[x]
    BY <1>6, FutureSteps
  <2>2. attempts' = attempts /\ pc # "generate"
    BY <1>6 DEF VisitDefinition, LeaveModule, VisitNextSibling, Return, TopIs,
                history
  <2>. QED
    BY <1>1, <1>2, <2>1, <2>2 DEF PassesAddUp
<1>7. CASE \/ \E result \in {0, -1} : EmitDefinition(result)
           \/ SkipNode
           \/ EnterModule
  <2>. DEFINE n == Top.node
  <2>1. LooksAt(n) /\ pc # "generate" /\ n \in Node
    BY <1>7, LookSteps, TopProperties
    DEF EmitDefinition, SkipNode, EnterModule, TopIs, IInv, TypeOK
  <2>2. \A x \in Reachable(ast) :
          Future[x] = IF x = n THEN Future'[x] + 1 ELSE Future'[x]
    BY <2>1, FutureVisited
  <2>3. \A x \in Definitions(ast) :
          attempts'[x] = IF x = n THEN attempts[x] + 1 ELSE attempts[x]
    <3>1. CASE \E result \in {0, -1} : EmitDefinition(result)
      BY <1>1, <1>2, <2>1, <3>1 DEF EmitDefinition
    <3>2. CASE SkipNode \/ EnterModule
      <4>1. attempts' = attempts /\ ast.kind[n] \notin DefinitionKinds
        BY <3>2 DEF SkipNode, EnterModule, DefinitionKinds
      <4>. QED
        BY <4>1 DEF Definitions
    <3>. QED
      BY <1>7, <3>1, <3>2
  <2>4. \A x \in Node : Future'[x] \in Nat
    <3>. DEFINE d == [k \in Node |-> Cardinality(Coming(k)')]
    <3>1. d \in [Node -> Nat]
      BY <1>1, ComingCounts
    <3>2. Future' = Passes(ast, d)
      BY <1>1 DEF Future
    <3>. HIDE DEF d
    <3>. QED
      BY <1>1, <3>1, <3>2, PassesRecursion
  <2>. HIDE DEF n
  <2>. QED
    BY <1>1, <1>2, <2>1, <2>2, <2>3, <2>4 DEF PassesAddUp
<1>. QED
  BY <1>3, <1>4, <1>5, <1>6, <1>7 DEF Next

(* In every state of the walk over every tree, what was generated so far and
   what the active calls are still to generate add up to ReplayCount. *)
THEOREM WalkAddsUp == Spec => [](SInv /\ PassesAddUp)
<1>1. Spec => [](IInv /\ RInv)
  BY InitIInv, InitRInv, NextIInv, NextRInv, PTL DEF Spec
<1>. QED
  BY <1>1, InitSInv, NextSInv, NextPassesAddUp, PTL DEF Spec

(* On every tree, every definition is generated exactly as often as its place
   says, whatever fails: once, unless a nested module comes before it. *)
THEOREM WalkReplaysExact == Spec => []ReplaysExact
<1>1. IInv /\ PassesAddUp => ReplaysExact
  <2>. SUFFICES ASSUME IInv, PassesAddUp, pc = "done", ast.root # NULL,
                       NEW n \in Definitions(ast)
                PROVE  attempts[n] = ReplayCount[n]
    BY DEF ReplaysExact
  <2>1. WellFormed(ast) /\ attempts \in [Node -> Nat] /\ stack = <<>>
    BY DEF IInv, TypeOK, WalkOver
  <2>2. n \in Node
    BY <2>1, ReachableClosed DEF Definitions
  <2>3. Future[n] = 0
    BY <2>1, <2>2, FutureOver
  <2>. QED
    BY <2>1, <2>2, <2>3 DEF PassesAddUp
<1>. QED
  BY <1>1, WalkInvariant, WalkAddsUp, PTL

=============================================================================
