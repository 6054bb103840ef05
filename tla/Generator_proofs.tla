---------------------------- MODULE Generator_proofs ----------------------------
(***************************************************************************)
(* Proofs about the runs of the generator, for every tree, every choice of *)
(* names, every size of module_names[] and any number of runs.             *)
(***************************************************************************)
EXTENDS Generator, AstWalk_proofs

(* What the pointers lead to from S is the least closed set around S. *)
LEMMA OnwardsLeast ==
  ASSUME WellFormed(ast), NEW S \in SUBSET Node
  PROVE  /\ S \subseteq Onwards(S)
         /\ Onwards(S) \in SUBSET Node
         /\ Closed(ast, Onwards(S))
         /\ \A C \in SUBSET Node :
              S \subseteq C /\ Closed(ast, C) => Onwards(S) \subseteq C
<1>1. \A n \in Node : {ast.next[n], ast.defs[n]} \ {NULL} \subseteq Node
  BY TreeFields DEF NodeOrNull
<1>. QED
  BY <1>1 DEF Onwards, Closed

(* The nodes ahead are nodes. *)
LEMMA AheadType == Ahead \in SUBSET Node
BY DEF Ahead

(* What a step takes from the calls and loops ahead, except for the nodes it
   enters, is still pending after it. *)
LEMMA PendingKept ==
  ASSUME WellFormed(ast), ast' = ast, NEW E \in SUBSET Node,
         Ahead \subseteq Ahead' \cup E,
         \A n \in E : {ast.next[n], ast.defs[n]} \ {NULL} \subseteq Ahead'
  PROVE  Pending \subseteq Pending' \cup E
<1>. DEFINE P == Onwards(Ahead')
<1>1. Pending' = P
  BY DEF Pending, Onwards, Closed
<1>2. Ahead' \in SUBSET Node
  BY DEF Ahead
<1>3. Ahead' \subseteq P /\ P \in SUBSET Node /\ Closed(ast, P)
  BY <1>2, OnwardsLeast
<1>. HIDE DEF P
<1>4. P \cup E \in SUBSET Node /\ Ahead \subseteq P \cup E
  BY <1>3
<1>5. Closed(ast, P \cup E)
  BY <1>3 DEF Closed
<1>6. Onwards(Ahead) \subseteq P \cup E
  BY <1>4, <1>5, AheadType, OnwardsLeast
<1>. QED
  BY <1>1, <1>6 DEF Pending

-----------------------------------------------------------------------------
(***************************************************************************)
(* What each kind of step does to the nodes ahead.                         *)
(***************************************************************************)

(* The innermost call moves on: from the body into the loop or to the tail,
   or out of the loop. *)
LEMMA TopMoves ==
  ASSUME IInv, Enclosed, ast' = ast, stack # <<>>,
         NEW f \in Frame, stack' = SetTop(f), f.node = Top.node,
         \/ Top.at = "body"
         \/ Top.at = "loop" /\ Top.def = NULL,
         \/ f.at = "tail"
         \/ f.at = "loop" /\ f.def # NULL /\ f.def = ast.defs[Top.node]
  PROVE  /\ Enclosed'
         /\ Ahead \subseteq Ahead' \cup (IF Top.at = "body" THEN {Top.node} ELSE {})
         /\ ast.next[Top.node] # NULL => ast.next[Top.node] \in Ahead'
         /\ f.at = "loop" => f.def \in Ahead'
<1>. DEFINE L == Len(stack)
<1>1. /\ stack \in Seq(Frame) /\ L \in Nat \ {0} /\ WellFormed(ast)
      /\ Top \in Frame /\ Top.node \in Node
  BY TopProperties DEF IInv, TypeOK
<1>2. /\ Len(stack') = L /\ stack'[L] = f
      /\ \A i \in 1..L - 1 : stack'[i] = stack[i]
  BY <1>1, SetTopProperties
<1>3. ast.next[Top.node] \in NodeOrNull /\ ast.defs[Top.node] \in NodeOrNull
  BY <1>1, TreeFields
<1>4. ast.defs[Top.node] # NULL => ast.parent[ast.defs[Top.node]] = Top.node
  BY <1>1 DEF WellFormed
<1>5. Enclosed'
  <2>1. \A i \in 1..L : stack'[i].node = stack[i].node
    BY <1>1, <1>2 DEF Top
  <2>2. \A i \in 1..L : \A j \in 1..i - 1 : stack'[j] = stack[j]
    BY <1>1, <1>2
  <2>3. \A i \in 1..L : stack'[i].at = "loop" /\ stack'[i].def # NULL =>
                          ast.parent[stack'[i].def] = stack'[i].node
    BY <1>1, <1>2, <1>4 DEF Enclosed
  <2>4. \A i \in 1..L : ast.parent[stack[i].node] # NULL =>
          \E j \in 1..i - 1 : /\ stack[j].at = "loop"
                              /\ stack[j].node = ast.parent[stack[i].node]
    BY DEF Enclosed
  <2>. QED
    BY <1>2, <2>1, <2>2, <2>3, <2>4 DEF Enclosed
<1>6. L \in 1..L /\ f.node = Top.node
  BY <1>1
<1>7. ast.next[Top.node] # NULL => ast.next[Top.node] \in Ahead'
  BY <1>2, <1>3, <1>6 DEF Ahead, NodeOrNull
<1>8. f.at = "loop" => f.def \in Ahead'
  BY <1>2, <1>3, <1>6 DEF Ahead, NodeOrNull
<1>9. ASSUME NEW x \in Ahead, x \notin Ahead'
      PROVE  Top.at = "body" /\ x = Top.node
  <2>1. PICK i \in 1..L :
          \/ stack[i].at = "body" /\ stack[i].node = x
          \/ stack[i].at = "loop" /\ i = L /\ stack[i].def = x
          \/ stack[i].at \in {"loop", "tail"} /\ ast.next[stack[i].node] = x
          \/ /\ stack[i].at = "loop" /\ i < L /\ stack[i].def # NULL
             /\ ast.next[stack[i].def] = x
    BY DEF Ahead
  <2>2. x \in Node /\ x # NULL
    BY DEF Ahead, Node, NULL
  <2>3. CASE i = L
    <3>1. stack[i] = Top
      BY <2>3 DEF Top
    <3>. QED
      BY <1>7, <1>9, <2>1, <2>2, <2>3, <3>1
  <2>4. CASE i # L
    <3>1. i \in 1..L - 1 /\ stack'[i] = stack[i] /\ i \in 1..Len(stack')
      BY <1>1, <1>2, <2>4
    <3>2. x \in Ahead'
      BY <1>2, <2>1, <2>2, <2>4, <3>1 DEF Ahead
    <3>. QED
      BY <1>9, <3>2
  <2>. QED
    BY <2>3, <2>4
<1>. QED
  BY <1>5, <1>7, <1>8, <1>9

(* A new call is made, by a loop or on the next sibling. *)
LEMMA CallMade ==
  ASSUME IInv, Enclosed, ast' = ast, VisitDefinition \/ VisitNextSibling
  PROVE  Enclosed' /\ Ahead \subseteq Ahead'
<1>. DEFINE L == Len(stack)
<1>1. /\ stack \in Seq(Frame) /\ L \in Nat \ {0} /\ WellFormed(ast)
      /\ Top \in Frame /\ Top.node \in Node /\ Top.def \in NodeOrNull
  BY TopProperties
  DEF IInv, TypeOK, VisitDefinition, VisitNextSibling, TopIs
<1>2. PICK x \in Node, g \in Frame :
        /\ Len(stack') = L + 1
        /\ stack'[L + 1].node = x /\ stack'[L + 1].at = "body"
        /\ stack'[L] = g /\ g.node = Top.node /\ g.def = Top.def
        /\ \A i \in 1..L - 1 : stack'[i] = stack[i]
        /\ \/ Top.at = "loop" /\ g.at = "loop" /\ Top.def = x
           \/ Top.at = "tail" /\ g.at = "unwind" /\ ast.next[Top.node] = x
  <2>1. CASE VisitDefinition
    <3>1. Top.def \in Node /\ Top.at = "loop" /\ stack' = Append(stack, Call(Top.def))
      BY <1>1, <2>1 DEF VisitDefinition, TopIs, NodeOrNull
    <3>2. Call(Top.def) \in Frame /\ Call(Top.def).node = Top.def
          /\ Call(Top.def).at = "body"
      BY <3>1 DEF Call, Frame, Places, NodeOrNull
    <3>3. /\ Len(stack') = L + 1 /\ stack'[L + 1] = Call(Top.def)
          /\ \A i \in 1..L : stack'[i] = stack[i]
      BY <1>1, <3>1, <3>2
    <3>4. stack'[L] = Top
      BY <1>1, <3>3 DEF Top
    <3>. QED
      BY <1>1, <3>1, <3>2, <3>3, <3>4
  <2>2. CASE VisitNextSibling
    <3>. DEFINE s == TopGoesTo("unwind")
                x == ast.next[Top.node]
                g == [Top EXCEPT !.at = "unwind"]
    <3>1. x \in Node /\ Top.at = "tail" /\ stack' = Append(s, Call(x))
      BY <1>1, <2>2, TreeFields DEF VisitNextSibling, HandsOver, TopIs, NodeOrNull
    <3>2. /\ g \in Frame /\ g.node = Top.node /\ g.at = "unwind"
          /\ g.def = Top.def
      BY <1>1, TopProperties DEF Places
    <3>3. /\ s \in Seq(Frame) /\ Len(s) = L /\ s[L] = g
          /\ \A i \in 1..L - 1 : s[i] = stack[i]
      <4>1. s = SetTop(g)
        BY DEF TopGoesTo
      <4>. HIDE DEF s, g
      <4>. QED
        BY <1>1, <3>2, <4>1, SetTopProperties
    <3>4. Call(x) \in Frame /\ Call(x).node = x /\ Call(x).at = "body"
      BY <3>1 DEF Call, Frame, Places, NodeOrNull
    <3>. HIDE DEF s, x, g
    <3>5. /\ Len(stack') = L + 1 /\ stack'[L + 1] = Call(x)
          /\ \A i \in 1..L : stack'[i] = s[i]
      BY <1>1, <3>1, <3>3, <3>4
    <3>6. /\ stack'[L] = g
          /\ \A i \in 1..L - 1 : stack'[i] = stack[i]
      BY <1>1, <3>3, <3>5
    <3>. QED
      BY <3>1, <3>2, <3>4, <3>5, <3>6 DEF x
  <2>. QED
    BY <2>1, <2>2
<1>3. L \in 1..L + 1 /\ L + 1 \in 1..L + 1 /\ L < L + 1
  BY <1>1
<1>4. Enclosed'
  <2>1. \A i \in 1..L : stack'[i].node = stack[i].node
    BY <1>1, <1>2 DEF Top
  <2>2. \A i \in 1..L : stack'[i].at = "loop" =>
          stack[i].at = "loop" /\ stack'[i].def = stack[i].def
    BY <1>1, <1>2 DEF Top
  <2>3. \A i \in 1..L : stack[i].at = "loop" => stack'[i].at = "loop"
    BY <1>1, <1>2 DEF Top
  <2>4. ASSUME NEW i \in 1..L
        PROVE  /\ stack'[i].at = "loop" /\ stack'[i].def # NULL =>
                    ast.parent[stack'[i].def] = stack'[i].node
               /\ ast.parent[stack'[i].node] # NULL =>
                    \E j \in 1..i - 1 : /\ stack'[j].at = "loop"
                                        /\ stack'[j].node = ast.parent[stack'[i].node]
    <3>1. \A j \in 1..i - 1 : j \in 1..L
      BY <1>1
    <3>. QED
      BY <2>1, <2>2, <2>3, <3>1 DEF Enclosed
  <2>5. ast.parent[x] # NULL =>
          \E j \in 1..L : stack'[j].at = "loop" /\ stack'[j].node = ast.parent[x]
    <3>1. CASE Top.at = "loop" /\ Top.def = x
      <4>1. ast.parent[x] = Top.node
        BY <1>1, <3>1 DEF Enclosed, Top, Node, NULL
      <4>2. L \in 1..L /\ stack'[L].at = "loop" /\ stack'[L].node = Top.node
        BY <1>1, <1>2, <3>1
      <4>. QED
        BY <4>1, <4>2
    <3>2. CASE Top.at = "tail" /\ ast.next[Top.node] = x
      <4>1. ast.parent[x] = ast.parent[Top.node]
        BY <1>1, <3>2 DEF WellFormed, Node, NULL
      <4>2. L \in 1..L /\ Top = stack[L]
        BY <1>1 DEF Top
      <4>3. ast.parent[Top.node] # NULL =>
              \E j \in 1..L - 1 : /\ stack[j].at = "loop"
                                  /\ stack[j].node = ast.parent[Top.node]
        BY <4>2 DEF Enclosed
      <4>. QED
        BY <1>1, <1>2, <4>1, <4>3
    <3>. QED
      BY <1>2, <3>1, <3>2
  <2>6. L + 1 - 1 = L /\ \A i \in 1..L + 1 : i \in 1..L \/ i = L + 1
    BY <1>1
  <2>7. ASSUME NEW i \in 1..L + 1
        PROVE  /\ stack'[i].at = "loop" /\ stack'[i].def # NULL =>
                    ast.parent[stack'[i].def] = stack'[i].node
               /\ ast.parent[stack'[i].node] # NULL =>
                    \E j \in 1..i - 1 : /\ stack'[j].at = "loop"
                                        /\ stack'[j].node = ast.parent[stack'[i].node]
    BY <1>2, <2>4, <2>5, <2>6
  <2>. QED
    BY <1>2, <2>7 DEF Enclosed
<1>5. ASSUME NEW y \in Ahead PROVE y \in Ahead'
  <2>1. PICK i \in 1..L :
          \/ stack[i].at = "body" /\ stack[i].node = y
          \/ stack[i].at = "loop" /\ i = L /\ stack[i].def = y
          \/ stack[i].at \in {"loop", "tail"} /\ ast.next[stack[i].node] = y
          \/ /\ stack[i].at = "loop" /\ i < L /\ stack[i].def # NULL
             /\ ast.next[stack[i].def] = y
    BY DEF Ahead
  <2>2. y \in Node /\ y # NULL
    BY DEF Ahead, Node, NULL
  <2>3. x \in Ahead'
    BY <1>2, <1>3 DEF Ahead
  <2>4. CASE i = L
    <3>1. stack[i] = Top
      BY <2>4 DEF Top
    <3>2. Top.at = "loop" /\ ast.next[Top.node] = y => y \in Ahead'
      BY <1>2, <1>3, <2>2 DEF Ahead
    <3>. QED
      BY <1>2, <2>1, <2>3, <2>4, <3>1, <3>2
  <2>5. CASE i # L
    <3>1. i \in 1..L - 1 /\ stack'[i] = stack[i] /\ i \in 1..L + 1 /\ i < L + 1
      BY <1>1, <1>2, <2>5
    <3>. QED
      BY <1>2, <2>1, <2>2, <2>5, <3>1 DEF Ahead
  <2>. QED
    BY <2>4, <2>5
<1>. QED
  BY <1>4, <1>5

(* The first call is on the root. *)
LEMMA FirstCall ==
  ASSUME IInv, Enclosed, GenerateTypes
  PROVE  Enclosed' /\ Ahead \subseteq Ahead'
<1>1. stack = <<>> /\ ast.root \in Node /\ ast' = ast
  BY TreeFields DEF IInv, TypeOK, WalkOver, GenerateTypes, NodeOrNull
<1>2. Ahead = {}
  BY <1>1 DEF Ahead
<1>3. stack' = <<Call(ast.root)>>
  BY DEF GenerateTypes
<1>4. Len(stack') = 1 /\ stack'[1].node = ast.root /\ stack'[1].at = "body"
  BY <1>3 DEF Call
<1>5. ast.parent[ast.root] = NULL
  BY <1>1 DEF IInv, TypeOK, WellFormed, Node, NULL
<1>6. Enclosed'
  BY <1>1, <1>4, <1>5 DEF Enclosed
<1>. QED
  BY <1>2, <1>6

(* A call returns to its caller, if it has one. *)
LEMMA CallReturns ==
  ASSUME IInv, Enclosed, ast' = ast, Return
  PROVE  Enclosed' /\ Ahead \subseteq Ahead'
<1>. DEFINE L == Len(stack)
<1>1. /\ stack \in Seq(Frame) /\ stack # <<>> /\ L \in Nat \ {0}
      /\ WellFormed(ast)
      /\ Top \in Frame /\ Top.node \in Node
  BY TopProperties DEF IInv, TypeOK, Return, TopIs
<1>2. Top.at \in {"tail", "unwind"}
  BY DEF Return, TopIs
<1>3. Top.at = "tail" /\ ast.next[Top.node] # NULL =>
        L > 1 /\ stack[L - 1].at = "loop"
  BY DEF Return, TopIs, HandsOver, IInv, FlagMeansLoop
<1>4. CASE L = 1
  <2>1. stack' = <<>>
    BY <1>4 DEF Return
  <2>2. ASSUME NEW y \in Ahead PROVE FALSE
    <3>1. PICK i \in 1..L :
            \/ stack[i].at = "body" /\ stack[i].node = y
            \/ stack[i].at = "loop" /\ i = Len(stack) /\ stack[i].def = y
            \/ stack[i].at \in {"loop", "tail"} /\ ast.next[stack[i].node] = y
            \/ /\ stack[i].at = "loop" /\ i < Len(stack) /\ stack[i].def # NULL
               /\ ast.next[stack[i].def] = y
      BY DEF Ahead
    <3>2. stack[i] = Top /\ y # NULL
      BY <1>4, <3>1 DEF Top, Ahead, Node, NULL
    <3>. QED
      BY <1>2, <1>3, <1>4, <3>1, <3>2
  <2>. QED
    BY <2>1, <2>2 DEF Enclosed
<1>5. CASE L # 1
  <2>. DEFINE caller == stack[L - 1]
  <2>1. L > 1
    BY <1>1, <1>5, AboveOne, Zenon
  <2>2. L - 1 \in 1..L /\ L - 1 \in 1..L - 1 /\ L - 1 + 1 = L /\ caller \in Frame
    BY <1>1, <2>1
  <2>3. /\ caller.at \in {"loop", "unwind"}
        /\ caller.at = "loop" => caller.def = Top.node
    BY <2>2 DEF IInv, CallersWait, Top
  <2>4. stack' = [Pop(stack) EXCEPT ![L - 1] = Resumed(@)]
    BY <1>5, Zenon DEF Return
  <2>5. /\ Len(stack') = L - 1
        /\ stack'[L - 1] = Resumed(caller)
        /\ \A i \in 1..L - 2 : stack'[i] = stack[i]
    BY <1>1, <2>1, <2>3, <2>4, ReturnProperties
  <2>6. PICK c : /\ c = stack'[L - 1]
                 /\ c.at = caller.at /\ c.node = caller.node
                 /\ c.at = "loop" => c.def = ast.next[Top.node]
    <3>1. CASE caller.at = "loop"
      <4>. DEFINE c == [caller EXCEPT !.def = ast.next[@]]
      <4>1. Resumed(caller) = c
        BY <3>1 DEF Resumed
      <4>2. c.at = caller.at /\ c.node = caller.node /\ c.def = ast.next[caller.def]
        BY <2>2 DEF Frame
      <4>. QED
        BY <2>3, <2>5, <3>1, <4>1, <4>2
    <3>2. CASE caller.at # "loop"
      BY <2>5, <3>2 DEF Resumed
    <3>. QED
      BY <3>1, <3>2
  <2>7. Enclosed'
    <3>1. \A i \in 1..L - 1 : stack'[i].node = stack[i].node /\ stack'[i].at = stack[i].at
      BY <1>1, <2>5, <2>6
    <3>2. ASSUME c.at = "loop", c.def # NULL PROVE ast.parent[c.def] = c.node
      <4>1. ast.parent[Top.node] = caller.node
        <5>1. caller.at = "loop" /\ caller.def = Top.node /\ Top.node # NULL
          BY <1>1, <2>3, <2>6, <3>2 DEF Node, NULL
        <5>2. caller.at = "loop" /\ caller.def # NULL =>
                ast.parent[caller.def] = caller.node
          BY <2>2 DEF Enclosed
        <5>. QED
          BY <5>1, <5>2
      <4>2. ast.parent[ast.next[Top.node]] = ast.parent[Top.node]
        BY <1>1, <2>6, <3>2 DEF WellFormed
      <4>. QED
        BY <2>6, <3>2, <4>1, <4>2
    <3>3. ASSUME NEW i \in 1..L - 1
          PROVE  /\ stack'[i].at = "loop" /\ stack'[i].def # NULL =>
                      ast.parent[stack'[i].def] = stack'[i].node
                 /\ ast.parent[stack'[i].node] # NULL =>
                      \E j \in 1..i - 1 : /\ stack'[j].at = "loop"
                                          /\ stack'[j].node = ast.parent[stack'[i].node]
      <4>1. \A j \in 1..i - 1 : j \in 1..L - 1
        BY <1>1
      <4>2. i \in 1..L /\ (i = L - 1 \/ i \in 1..L - 2)
        BY <1>1
      <4>3. stack'[i].at = "loop" /\ stack'[i].def # NULL =>
              ast.parent[stack'[i].def] = stack'[i].node
        BY <2>5, <2>6, <3>2, <4>2 DEF Enclosed
      <4>4. ast.parent[stack[i].node] # NULL =>
              \E j \in 1..i - 1 : /\ stack[j].at = "loop"
                                  /\ stack[j].node = ast.parent[stack[i].node]
        BY <4>2 DEF Enclosed
      <4>. QED
        BY <3>1, <4>1, <4>3, <4>4
    <3>. QED
      BY <2>5, <3>3 DEF Enclosed
  <2>8. ASSUME NEW y \in Ahead PROVE y \in Ahead'
    <3>1. PICK i \in 1..L :
            \/ stack[i].at = "body" /\ stack[i].node = y
            \/ stack[i].at = "loop" /\ i = L /\ stack[i].def = y
            \/ stack[i].at \in {"loop", "tail"} /\ ast.next[stack[i].node] = y
            \/ /\ stack[i].at = "loop" /\ i < L /\ stack[i].def # NULL
               /\ ast.next[stack[i].def] = y
      BY DEF Ahead
    <3>2. y \in Node /\ y # NULL
      BY DEF Ahead, Node, NULL
    <3>3. CASE i = L
      <4>1. stack[i] = Top /\ ast.next[Top.node] = y /\ Top.at = "tail"
        BY <1>2, <3>1, <3>3 DEF Top
      <4>2. c.at = "loop" /\ c.def = y
        BY <1>3, <2>6, <3>2, <4>1
      <4>. QED
        BY <2>2, <2>5, <2>6, <3>2, <4>2 DEF Ahead
    <3>4. CASE i = L - 1
      <4>1. \/ c.at = "loop" /\ c.def = y
            \/ c.at = "loop" /\ ast.next[c.node] = y
        BY <1>1, <2>3, <2>6, <3>1, <3>4
      <4>. QED
        BY <2>2, <2>5, <2>6, <3>2, <4>1 DEF Ahead
    <3>5. CASE i # L /\ i # L - 1
      <4>1. i \in 1..L - 2 /\ i \in 1..L - 1 /\ i < L - 1 /\ stack'[i] = stack[i]
        BY <1>1, <2>5, <3>5
      <4>. QED
        BY <2>5, <3>1, <3>2, <3>5, <4>1 DEF Ahead
    <3>. QED
      BY <3>3, <3>4, <3>5
  <2>. QED
    BY <2>7, <2>8
<1>. QED
  BY <1>4, <1>5

-----------------------------------------------------------------------------
(***************************************************************************)
(* The walk, whatever becomes of the files: nothing that is pending is     *)
(* passed over.                                                            *)
(***************************************************************************)

(* The actions that look at a node enter it, and nothing else leaves what is
   pending. *)
LEMMA NodeEntered ==
  ASSUME IInv, Enclosed, NEW n, n = Top.node,
         \/ \E result \in {0, -1} : EmitDefinition(result)
         \/ SkipNode
         \/ EnterModule
  PROVE  /\ n \in Node
         /\ Enclosed'
         /\ Pending \subseteq Pending' \cup {n}
         /\ ast' = ast
         /\ ast.next[n] # NULL => ast.next[n] \in Ahead'
<1>1. /\ stack # <<>> /\ Top.at = "body" /\ ast' = ast
  BY DEF EmitDefinition, SkipNode, EnterModule, TopIs
<1>2. Top \in Frame /\ n \in Node /\ WellFormed(ast)
  BY <1>1, TopProperties DEF IInv, TypeOK
<1>3. PICK f \in Frame :
        /\ stack' = SetTop(f) /\ f.node = n
        /\ \/ f.at = "tail" /\ ast.defs[n] = NULL
           \/ f.at = "loop" /\ f.def # NULL /\ f.def = ast.defs[n]
  <2>1. CASE \/ \E result \in {0, -1} : EmitDefinition(result)
             \/ SkipNode
    <3>1. stack' = TopGoesTo("tail") /\ ast.kind[n] # "module"
      BY <2>1 DEF EmitDefinition, SkipNode, DefinitionKinds
    <3>2. ast.defs[n] = NULL
      BY <1>2, <3>1, TreeFields
    <3>. QED
      BY <1>1, <1>2, <3>1, <3>2, TopProperties DEF IInv, TypeOK, TopGoesTo, Places
  <2>2. CASE EnterModule /\ ast.defs[n] = NULL
    <3>1. stack' = TopGoesTo("tail")
      BY <2>2 DEF EnterModule
    <3>. QED
      BY <1>1, <1>2, <2>2, <3>1, TopProperties DEF IInv, TypeOK, TopGoesTo, Places
  <2>3. CASE EnterModule /\ ast.defs[n] # NULL
    <3>. DEFINE f == [node |-> n, at |-> "loop", def |-> ast.defs[n]]
    <3>1. stack' = SetTop(f)
      BY <2>3 DEF EnterModule
    <3>2. f \in Frame
      BY <1>2, TreeFields DEF Frame, Places
    <3>. QED
      BY <2>3, <3>1, <3>2
  <2>. QED
    BY <2>1, <2>2, <2>3
<1>4. /\ Enclosed'
      /\ Ahead \subseteq Ahead' \cup {n}
      /\ ast.next[n] # NULL => ast.next[n] \in Ahead'
      /\ f.at = "loop" => f.def \in Ahead'
  BY <1>1, <1>3, TopMoves
<1>5. {ast.next[n], ast.defs[n]} \ {NULL} \subseteq Ahead'
  BY <1>3, <1>4
<1>6. \A m \in {n} : {ast.next[m], ast.defs[m]} \ {NULL} \subseteq Ahead'
  BY <1>5
<1>7. Pending \subseteq Pending' \cup {n}
  <2>. DEFINE E == {n}
  <2>1. E \in SUBSET Node
    BY <1>2
  <2>2. Ahead \subseteq Ahead' \cup E
    BY <1>4
  <2>3. \A m \in E : {ast.next[m], ast.defs[m]} \ {NULL} \subseteq Ahead'
    BY <1>6
  <2>. HIDE DEF E
  <2>4. Pending \subseteq Pending' \cup E
    BY <1>1, <1>2, <2>1, <2>2, <2>3, PendingKept
  <2>. QED
    BY <2>4 DEF E
<1>. QED
  BY <1>1, <1>2, <1>4, <1>7

(* Every other step of the walk leaves what is pending. *)
LEMMA NothingEntered ==
  ASSUME IInv, Enclosed,
         \/ GenerateNothing \/ GenerateTypes \/ VisitDefinition
         \/ LeaveModule \/ VisitNextSibling \/ Return \/ Report
  PROVE  Enclosed' /\ Pending \subseteq Pending' /\ ast' = ast
<1>1. ast' = ast /\ WellFormed(ast)
  BY DEF IInv, TypeOK, GenerateNothing, GenerateTypes, VisitDefinition,
         LeaveModule, VisitNextSibling, Return, Report
<1>2. Enclosed' /\ Ahead \subseteq Ahead'
  <2>1. CASE GenerateNothing \/ Report
    <3>1. stack' = stack
      BY <2>1 DEF GenerateNothing, Report
    <3>. QED
      BY <1>1, <3>1 DEF Enclosed, Ahead
  <2>2. CASE GenerateTypes
    BY <2>2, FirstCall
  <2>3. CASE VisitDefinition \/ VisitNextSibling
    BY <1>1, <2>3, CallMade
  <2>4. CASE Return
    BY <1>1, <2>4, CallReturns
  <2>5. CASE LeaveModule
    <3>. DEFINE f == [Top EXCEPT !.at = "tail"]
    <3>1. stack # <<>> /\ Top.at = "loop" /\ Top.def = NULL /\ stack' = SetTop(f)
      BY <2>5 DEF LeaveModule, TopIs, TopGoesTo
    <3>2. f \in Frame /\ f.node = Top.node /\ f.at = "tail"
      BY <3>1, TopProperties DEF IInv, TypeOK, Places
    <3>. HIDE DEF f
    <3>. QED
      BY <1>1, <3>1, <3>2, TopMoves
  <2>. QED
    BY <2>1, <2>2, <2>3, <2>4, <2>5
<1>3. Pending \subseteq Pending' \cup {}
  <2>1. Ahead \subseteq Ahead' \cup {}
    BY <1>2
  <2>. QED
    BY <1>1, <2>1, PendingKept
<1>. QED
  BY <1>1, <1>2, <1>3

(* When a definition is generated, all that comes after it in the source is
   still pending: the calls below are the loops of the modules around it. *)
LEMMA LaterIsPending ==
  ASSUME IInv, Enclosed, NEW n, n = Top.node,
         \E result \in {0, -1} : EmitDefinition(result)
  PROVE  Later(n) \subseteq Pending'
<1>. DEFINE L == Len(stack)
<1>1. /\ stack \in Seq(Frame) /\ L \in Nat \ {0} /\ WellFormed(ast)
      /\ Top \in Frame /\ n \in Node /\ Top.at = "body"
      /\ ast' = ast /\ stack # <<>> /\ stack' = TopGoesTo("tail")
  BY TopProperties DEF IInv, TypeOK, EmitDefinition, TopIs
<1>2. /\ Len(stack') = L
      /\ stack'[L].node = n /\ stack'[L].at = "tail"
      /\ \A i \in 1..L - 1 : stack'[i] = stack[i]
  <2>. DEFINE f == [Top EXCEPT !.at = "tail"]
  <2>1. f \in Frame /\ f.node = n /\ f.at = "tail"
    BY <1>1, TopProperties DEF Places
  <2>2. stack' = SetTop(f)
    BY <1>1 DEF TopGoesTo
  <2>. HIDE DEF f
  <2>. QED
    BY <1>1, <2>1, <2>2, SetTopProperties
<1>. DEFINE C == {stack'[i].node : i \in {k \in 1..L : stack'[k].at \in {"loop", "tail"}}}
<1>3. n \in C
  BY <1>1, <1>2
<1>4. C \in SUBSET Node
  <2>1. \A i \in 1..L : stack'[i].node = stack[i].node
    BY <1>1, <1>2 DEF Top
  <2>2. \A i \in 1..L : stack[i].node \in Node
    <3>1. \A i \in 1..L : stack[i] \in Frame
      BY <1>1
    <3>. QED
      BY <3>1 DEF Frame
  <2>. QED
    BY <2>1, <2>2
<1>5. ASSUME NEW m \in C PROVE ast.parent[m] \in C \cup {NULL}
  <2>1. Enclosed'
    BY NodeEntered
  <2>2. PICK i \in 1..L : stack'[i].node = m
    OBVIOUS
  <2>3. ast'.parent[m] # NULL =>
          \E j \in 1..i - 1 : stack'[j].at = "loop" /\ stack'[j].node = ast'.parent[m]
    BY <1>2, <2>1, <2>2 DEF Enclosed
  <2>4. \A j \in 1..i - 1 : j \in 1..L
    BY <1>1
  <2>. QED
    BY <1>1, <2>3, <2>4
<1>6. SelfAndAround(n) \subseteq C
  <2>. HIDE DEF C
  <2>. QED
    BY <1>3, <1>4, <1>5 DEF SelfAndAround
<1>7. ASSUME NEW a \in C, ast.next[a] # NULL PROVE ast.next[a] \in Ahead'
  <2>1. PICK i \in 1..L : stack'[i].at \in {"loop", "tail"} /\ stack'[i].node = a
    OBVIOUS
  <2>2. ast.next[a] \in Node
    BY <1>1, <1>4, <1>7, TreeFields DEF NodeOrNull
  <2>. QED
    BY <1>1, <1>2, <2>1, <2>2 DEF Ahead
<1>. HIDE DEF C
<1>. DEFINE T == {ast.next[a] : a \in SelfAndAround(n)} \ {NULL}
            P == Onwards(Ahead')
<1>8. Pending' = P
  BY <1>1 DEF Pending, Onwards, Closed
<1>9. T \subseteq Ahead' /\ Ahead' \in SUBSET Node
  BY <1>6, <1>7 DEF Ahead
<1>10. T \in SUBSET Node
  BY <1>9
<1>11. Ahead' \subseteq P /\ P \in SUBSET Node /\ Closed(ast, P)
  <2>. HIDE DEF T
  <2>. QED
    BY <1>1, <1>9, OnwardsLeast
<1>. HIDE DEF T, P
<1>12. Onwards(T) \subseteq P
  BY <1>1, <1>9, <1>10, <1>11, OnwardsLeast
<1>. QED
  BY <1>8, <1>12 DEF Later, T

-----------------------------------------------------------------------------
(***************************************************************************)
(* The inductive invariant of the runs.                                    *)
(***************************************************************************)

(* A definition's class in its file is where it belongs. *)
LEMMA HoldingType ==
  ASSUME FilesTypeOK, NEW d \in DOMAIN path, NEW whole \in BOOLEAN,
         files' = Holding(d, whole), path' = path,
         killed' \in BOOLEAN, lossless' \in BOOLEAN, runs' \in Nat
  PROVE  FilesTypeOK'
<1>1. path[d] \in Paths /\ Paths' = Paths
  BY DEF Paths
<1>2. DOMAIN files' = Paths
  BY DEF FilesTypeOK, Holding
<1>3. \A p \in Paths : files'[p] = IF p = path[d] THEN [of |-> d, whole |-> whole]
                                   ELSE files[p]
  BY DEF FilesTypeOK, Holding
<1>4. ASSUME NEW p \in Paths
      PROVE  \/ files'[p] = STRANGER
             \/ /\ files'[p].of \in DOMAIN path /\ files'[p].whole \in BOOLEAN
                /\ path[files'[p].of] = p
  <2>1. CASE p = path[d]
    BY <1>3, <2>1
  <2>2. CASE p # path[d]
    BY <1>3, <2>2 DEF FilesTypeOK
  <2>. QED
    BY <2>1, <2>2
<1>. QED
  BY <1>1, <1>2, <1>4 DEF FilesTypeOK

(* What a step that leaves the files alone keeps of the types. *)
LEMMA FilesTypeSame ==
  ASSUME FilesTypeOK, files' = files, path' = path,
         killed' \in BOOLEAN, lossless' \in BOOLEAN, runs' \in Nat
  PROVE  FilesTypeOK'
<1>1. Paths' = Paths
  BY DEF Paths
<1>2. \A p \in Paths :
        \/ files'[p] = STRANGER
        \/ /\ files'[p].of \in DOMAIN path' /\ files'[p].whole \in BOOLEAN
           /\ path'[files'[p].of] = p
  BY Zenon DEF FilesTypeOK
<1>3. DOMAIN files' = Paths'
  BY <1>1 DEF FilesTypeOK
<1>. QED
  BY <1>1, <1>2, <1>3 DEF FilesTypeOK

(* The first run starts in the invariant. *)
LEMMA InitGInv == GeneratorInit => GInv
<1>. SUFFICES ASSUME GeneratorInit PROVE GInv
  OBVIOUS
<1>1. IInv /\ RInv
  BY InitIInv, InitRInv DEF GeneratorInit
<1>2. SourceOK
  BY DEF GeneratorInit, Init, SourceOK
<1>3. FilesTypeOK
  <2>1. Paths = {path[d] : d \in DOMAIN path} /\ files = [p \in Paths |-> STRANGER]
    BY DEF GeneratorInit, Paths
  <2>2. killed \in BOOLEAN /\ lossless \in BOOLEAN /\ runs \in Nat
    BY DEF GeneratorInit
  <2>. QED
    BY <2>1, <2>2 DEF FilesTypeOK
<1>4. Enclosed
  BY DEF GeneratorInit, Init, Enclosed
<1>5. Survivors
  BY DEF GeneratorInit, Init, Survivors
<1>. QED
  BY <1>1, <1>2, <1>3, <1>4, <1>5 DEF GInv

(* So does every other run. *)
LEMMA RerunGInv ==
  ASSUME GInv, Rerun
  PROVE  GInv'
<1>1. Init'
  BY DEF Rerun, Init, GInv, SourceOK
<1>2. (Init => IInv)' /\ (Init => RInv)'
  BY InitIInv, InitRInv, PTL
<1>3. IInv' /\ RInv'
  BY <1>1, <1>2
<1>4. SourceOK'
  BY DEF Rerun, source, GInv, SourceOK
<1>5. FilesTypeOK'
  <2>1. files' = files /\ path' = path /\ killed' \in BOOLEAN /\ lossless' \in BOOLEAN
    BY DEF Rerun, source
  <2>2. runs' \in Nat
    BY DEF Rerun, GInv, FilesTypeOK
  <2>. QED
    BY <2>1, <2>2, FilesTypeSame DEF GInv
<1>6. Enclosed' /\ Survivors'
  BY DEF Rerun, Enclosed, Survivors
<1>. QED
  BY <1>3, <1>4, <1>5, <1>6 DEF GInv

(* The walk's own invariants in a step of the walk. *)
LEMMA WalkStep ==
  ASSUME GInv, Next, UNCHANGED source, ~killed, ~killed'
  PROVE  IInv' /\ RInv' /\ SourceOK' /\ ast' = ast
<1>1. IInv' /\ RInv'
  BY NextIInv, NextRInv DEF GInv
<1>2. ast' = ast
  BY DEF Next, GenerateNothing, GenerateTypes, EmitDefinition, EnterModule,
         SkipNode, VisitDefinition, LeaveModule, VisitNextSibling, Return,
         Report
<1>3. pc' = "done" /\ ast.root # NULL => ret' = errors'
  BY DEF GInv, SourceOK, Next, GenerateNothing, GenerateTypes, EmitDefinition,
         EnterModule, SkipNode, VisitDefinition, LeaveModule, VisitNextSibling,
         Return, Report, TopIs, counters
<1>. QED
  BY <1>1, <1>2, <1>3 DEF GInv, SourceOK, source

(* A step that writes no file and passes over no definition. *)
LEMMA SurvivorsKept ==
  ASSUME Survivors, ast' = ast,
         UNCHANGED <<path, files, killed, lossless, written, errors>>,
         NEW E, Pending \subseteq Pending' \cup E,
         \A n \in E : n \notin DOMAIN path
  PROVE  Survivors'
<1>1. \A d : Later(d)' = Later(d)
  BY DEF Later, Onwards, SelfAndAround, Closed
<1>. QED
  BY <1>1 DEF Survivors

(* Writing a class leaves it as the survivor at its path. *)
LEMMA WriteClassGInv ==
  ASSUME GInv, NEW whole \in BOOLEAN, WriteClass(whole)
  PROVE  GInv'
<1>1. PICK n \in Node : n = Top.node /\ TopIs("body") /\ EmitDefinition(0)
  <2>1. EmitDefinition(0) /\ TopIs("body")
    BY DEF WriteClass, EmitDefinition
  <2>2. Top.node \in Node
    BY <2>1, TopProperties DEF GInv, IInv, TypeOK, TopIs
  <2>. QED
    BY <2>1, <2>2
<1>2. /\ files' = Holding(n, whole)
      /\ lossless' = (lossless /\ whole)
      /\ name' = name /\ path' = path /\ killed' = killed /\ runs' = runs
  BY <1>1 DEF WriteClass, source
<1>3. n \in DOMAIN path
  BY <1>1 DEF WriteClass
<1>4. Next /\ UNCHANGED source /\ ~killed /\ ~killed'
  BY <1>1, <1>2 DEF Next, source, WriteClass
<1>5. IInv' /\ RInv' /\ SourceOK' /\ ast' = ast
  BY <1>4, WalkStep
<1>6. FilesTypeOK'
  <2>1. killed' \in BOOLEAN /\ lossless' \in BOOLEAN /\ runs' \in Nat
    BY <1>2 DEF GInv, FilesTypeOK
  <2>. QED
    BY <1>2, <1>3, <2>1, HoldingType DEF GInv
<1>7. \E result \in {0, -1} : EmitDefinition(result)
  BY <1>1
<1>8. Enclosed' /\ Pending \subseteq Pending' \cup {n}
  BY <1>1, <1>7, NodeEntered DEF GInv
<1>9. Later(n) \subseteq Pending'
  BY <1>1, <1>7, LaterIsPending DEF GInv
<1>10. errors' = errors /\ written' = written \cup {n}
  BY <1>1 DEF EmitDefinition, Failure, GInv, IInv, TypeOK
<1>11. \A d : Later(d)' = Later(d)
  BY <1>5 DEF Later, Onwards, SelfAndAround, Closed
<1>12. Survivors'
  <2>. SUFFICES ASSUME errors = 0, ~killed, NEW d \in written' \cap DOMAIN path
                PROVE  LET f == files'[path[d]]
                       IN /\ f.of \in written'
                          /\ lossless' => f.whole
                          /\ \A e \in Later(f.of) \cap DOMAIN path :
                               path[e] = path[d] => e \in Pending'
    BY <1>2, <1>5, <1>10, <1>11 DEF Survivors
  <2>1. path[d] \in DOMAIN files
    BY DEF GInv, FilesTypeOK, Paths
  <2>2. files'[path[d]] = IF path[d] = path[n] THEN [of |-> n, whole |-> whole]
                          ELSE files[path[d]]
    BY <1>2, <2>1 DEF Holding
  <2>3. CASE path[d] = path[n]
    BY <1>2, <1>9, <1>10, <2>2, <2>3
  <2>4. CASE path[d] # path[n]
    <3>1. d \in written
      BY <1>10, <2>4
    <3>2. LET f == files[path[d]]
          IN /\ f.of \in written
             /\ lossless => f.whole
             /\ \A e \in Later(f.of) \cap DOMAIN path :
                  path[e] = path[d] => e \in Pending
      BY <3>1 DEF GInv, Survivors
    <3>3. files'[path[d]] = files[path[d]]
      BY <2>2, <2>4
    <3>4. \A e : path[e] = path[d] /\ e \in Pending => e \in Pending'
      BY <1>8, <2>4
    <3>. QED
      BY <1>2, <1>10, <3>2, <3>3, <3>4
  <2>. QED
    BY <2>3, <2>4
<1>. QED
  BY <1>5, <1>6, <1>8, <1>12 DEF GInv

(* A typedef without a name of its own has no file to be the survivor of. *)
LEMMA NothingWrittenGInv ==
  ASSUME GInv, NothingWritten
  PROVE  GInv'
<1>1. PICK n \in Node : n = Top.node /\ TopIs("body") /\ EmitDefinition(0)
  <2>1. EmitDefinition(0) /\ TopIs("body")
    BY DEF NothingWritten, EmitDefinition
  <2>2. Top.node \in Node
    BY <2>1, TopProperties DEF GInv, IInv, TypeOK, TopIs
  <2>. QED
    BY <2>1, <2>2
<1>2. UNCHANGED <<name, path, files, killed, lossless, runs>> /\ n \notin DOMAIN path
  BY <1>1 DEF NothingWritten, run, source
<1>3. Next /\ UNCHANGED source /\ ~killed /\ ~killed'
  BY <1>1, <1>2 DEF Next, source, NothingWritten
<1>4. IInv' /\ RInv' /\ SourceOK' /\ ast' = ast
  BY <1>3, WalkStep
<1>5. FilesTypeOK'
  <2>1. killed' \in BOOLEAN /\ lossless' \in BOOLEAN /\ runs' \in Nat
    BY <1>2 DEF GInv, FilesTypeOK
  <2>. QED
    BY <1>2, <2>1, FilesTypeSame DEF GInv
<1>6. \E result \in {0, -1} : EmitDefinition(result)
  BY <1>1
<1>7. Enclosed' /\ Pending \subseteq Pending' \cup {n}
  BY <1>1, <1>6, NodeEntered DEF GInv
<1>8. errors' = errors /\ written' = written \cup {n}
  BY <1>1 DEF EmitDefinition, Failure, GInv, IInv, TypeOK
<1>9. \A d : Later(d)' = Later(d)
  BY <1>4 DEF Later, Onwards, SelfAndAround, Closed
<1>10. Survivors'
  <2>. SUFFICES ASSUME errors = 0, ~killed, NEW d \in written' \cap DOMAIN path
                PROVE  LET f == files[path[d]]
                       IN /\ f.of \in written'
                          /\ lossless => f.whole
                          /\ \A e \in Later(f.of) \cap DOMAIN path :
                               path[e] = path[d] => e \in Pending'
    BY <1>2, <1>4, <1>8, <1>9 DEF Survivors
  <2>1. d \in written \cap DOMAIN path
    BY <1>2, <1>8
  <2>2. LET f == files[path[d]]
        IN /\ f.of \in written
           /\ lossless => f.whole
           /\ \A e \in Later(f.of) \cap DOMAIN path :
                path[e] = path[d] => e \in Pending
    BY <2>1 DEF GInv, Survivors
  <2>3. \A e \in DOMAIN path : e \in Pending => e \in Pending'
    BY <1>2, <1>7
  <2>. QED
    BY <1>8, <2>2, <2>3
<1>. QED
  BY <1>4, <1>5, <1>7, <1>10 DEF GInv

(* A call that failed leaves nothing to be said of this run's files. *)
LEMMA ClassFailsGInv ==
  ASSUME GInv, ClassFails
  PROVE  GInv'
<1>1. /\ EmitDefinition(-1) /\ \E result \in {0, -1} : EmitDefinition(result)
      /\ UNCHANGED <<name, path, files, killed, lossless, runs>>
  BY DEF ClassFails, run, source
<1>2. Next /\ UNCHANGED source /\ ~killed /\ ~killed'
  BY <1>1 DEF Next, source, ClassFails
<1>3. IInv' /\ RInv' /\ SourceOK'
  BY <1>2, WalkStep
<1>4. FilesTypeOK'
  <2>1. killed' \in BOOLEAN /\ lossless' \in BOOLEAN /\ runs' \in Nat
    BY <1>1 DEF GInv, FilesTypeOK
  <2>. QED
    BY <1>1, <2>1, FilesTypeSame DEF GInv
<1>5. Enclosed'
  BY <1>1, NodeEntered DEF GInv
<1>6. errors' # 0
  BY <1>1 DEF EmitDefinition, Failure, GInv, IInv, TypeOK
<1>7. Survivors'
  BY <1>6 DEF Survivors
<1>. QED
  BY <1>3, <1>4, <1>5, <1>7 DEF GInv

(* The rest of the walk passes over modules and other nodes only. *)
LEMMA WalkOnGInv ==
  ASSUME GInv, WalkOn
  PROVE  GInv'
<1>1. /\ \/ GenerateNothing \/ GenerateTypes \/ EnterModule \/ SkipNode
         \/ VisitDefinition \/ LeaveModule \/ VisitNextSibling \/ Return \/ Report
      /\ UNCHANGED <<name, path, files, killed, lossless, runs>>
  BY DEF WalkOn, run, source
<1>2. Next /\ UNCHANGED source /\ ~killed /\ ~killed'
  BY <1>1 DEF Next, source, WalkOn
<1>3. IInv' /\ RInv' /\ SourceOK' /\ ast' = ast
  BY <1>2, WalkStep
<1>4. FilesTypeOK'
  <2>1. killed' \in BOOLEAN /\ lossless' \in BOOLEAN /\ runs' \in Nat
    BY <1>1 DEF GInv, FilesTypeOK
  <2>. QED
    BY <1>1, <2>1, FilesTypeSame DEF GInv
<1>5. written' = written /\ errors' = errors
  BY <1>1 DEF GenerateNothing, GenerateTypes, EnterModule, SkipNode,
              VisitDefinition, LeaveModule, VisitNextSibling, Return, Report,
              counters, history
<1>6. Enclosed' /\ Survivors'
  <2>1. CASE EnterModule \/ SkipNode
    <3>1. PICK n : n = Top.node
      OBVIOUS
    <3>2. Enclosed' /\ Pending \subseteq Pending' \cup {n}
      BY <2>1, <3>1, NodeEntered DEF GInv
    <3>3. n \notin DOMAIN path
      BY <2>1, <3>1
      DEF EnterModule, SkipNode, GInv, SourceOK, Definitions, DefinitionKinds
    <3>4. \A m \in {n} : m \notin DOMAIN path
      BY <3>3
    <3>. DEFINE E == {n}
    <3>5. Pending \subseteq Pending' \cup E /\ \A m \in E : m \notin DOMAIN path
      BY <3>2, <3>4
    <3>. HIDE DEF E
    <3>6. Survivors'
      BY <1>1, <1>3, <1>5, <3>5, SurvivorsKept DEF GInv
    <3>. QED
      BY <3>2, <3>6
  <2>2. CASE ~(EnterModule \/ SkipNode)
    <3>1. Enclosed' /\ Pending \subseteq Pending' \cup {}
      BY <1>1, <2>2, NothingEntered DEF GInv
    <3>. DEFINE E == {}
    <3>2. Pending \subseteq Pending' \cup E /\ \A m \in E : m \notin DOMAIN path
      BY <3>1
    <3>. HIDE DEF E
    <3>3. Survivors'
      BY <1>1, <1>3, <1>5, <3>2, SurvivorsKept DEF GInv
    <3>. QED
      BY <3>1, <3>3
  <2>. QED
    BY <2>1, <2>2
<1>. QED
  BY <1>3, <1>4, <1>6 DEF GInv

(* A run that is killed spoils at most the file it was writing. *)
LEMMA KillGInv ==
  ASSUME GInv, Kill
  PROVE  GInv'
<1>1. UNCHANGED vars /\ killed' = TRUE
      /\ UNCHANGED <<name, path, lossless, runs>>
  BY DEF Kill, source
<1>2. IInv' /\ RInv'
  BY <1>1, NextIInv, NextRInv DEF GInv
<1>3. /\ ast' = ast /\ stack' = stack /\ pc' = pc /\ ret' = ret /\ errors' = errors
  BY <1>1 DEF vars, counters
<1>4. SourceOK'
  BY <1>1, <1>3 DEF GInv, SourceOK, Kill
<1>5. FilesTypeOK'
  <2>1. killed' \in BOOLEAN /\ lossless' \in BOOLEAN /\ runs' \in Nat
    BY <1>1 DEF GInv, FilesTypeOK
  <2>2. CASE files' = files
    BY <1>1, <2>1, <2>2, FilesTypeSame DEF GInv
  <2>3. CASE /\ TopIs("body") /\ Top.node \in DOMAIN path
             /\ files' = Holding(Top.node, FALSE)
    <3>1. PICK n : n = Top.node /\ n \in DOMAIN path
      BY <2>3
    <3>. QED
      BY <1>1, <2>1, <2>3, <3>1, HoldingType DEF GInv
  <2>. QED
    BY <2>2, <2>3 DEF Kill
<1>6. Enclosed' /\ Survivors'
  BY <1>1, <1>3 DEF GInv, Enclosed, Survivors
<1>. QED
  BY <1>2, <1>4, <1>5, <1>6 DEF GInv

(* Every step keeps the invariant. *)
LEMMA NextGInv == GInv /\ [GeneratorNext]_allVars => GInv'
<1>. SUFFICES ASSUME GInv, [GeneratorNext]_allVars PROVE GInv'
  OBVIOUS
<1>1. CASE \E whole \in BOOLEAN : WriteClass(whole)
  BY <1>1, WriteClassGInv
<1>2. CASE ClassFails
  BY <1>2, ClassFailsGInv
<1>3. CASE WalkOn
  BY <1>3, WalkOnGInv
<1>4. CASE Kill
  BY <1>4, KillGInv
<1>5. CASE Rerun
  BY <1>5, RerunGInv
<1>6. CASE NothingWritten
  BY <1>6, NothingWrittenGInv
<1>7. CASE UNCHANGED allVars
  <2>1. UNCHANGED vars /\ UNCHANGED <<name, path, files, killed, lossless, runs>>
    BY <1>7 DEF allVars, run, source
  <2>2. IInv' /\ RInv'
    BY <2>1, NextIInv, NextRInv DEF GInv
  <2>3. /\ ast' = ast /\ stack' = stack /\ pc' = pc /\ ret' = ret
        /\ errors' = errors /\ written' = written
    BY <2>1 DEF vars, counters, history
  <2>4. SourceOK' /\ Enclosed'
    BY <2>1, <2>3 DEF GInv, SourceOK, Enclosed
  <2>5. FilesTypeOK'
    <3>1. killed' \in BOOLEAN /\ lossless' \in BOOLEAN /\ runs' \in Nat
      BY <2>1 DEF GInv, FilesTypeOK
    <3>. QED
      BY <2>1, <3>1, FilesTypeSame DEF GInv
  <2>6. Pending' = Pending
    BY <2>3 DEF Pending, Ahead, Onwards, Closed
  <2>7. Survivors'
    <3>. DEFINE E == {}
    <3>1. Pending \subseteq Pending' \cup E /\ \A m \in E : m \notin DOMAIN path
      BY <2>6
    <3>. HIDE DEF E
    <3>. QED
      BY <2>1, <2>3, <3>1, SurvivorsKept DEF GInv
  <2>. QED
    BY <2>2, <2>4, <2>5, <2>7 DEF GInv
<1>. QED
  BY <1>1, <1>2, <1>3, <1>4, <1>5, <1>6, <1>7 DEF GeneratorNext

(* The invariant of the runs. *)
THEOREM RunsInvariant == GeneratorSpec => []GInv
BY InitGInv, NextGInv, PTL DEF GeneratorSpec

(* In every state of every run a file holds nothing of this source, or a
   class that belongs there. *)
THEOREM RunsTypeOK == GeneratorSpec => []FilesTypeOK
<1>1. GInv => FilesTypeOK
  BY DEF GInv
<1>. QED
  BY <1>1, RunsInvariant, PTL

(* When a run has returned 0, the call for every definition has. *)
LEMMA AllWritten ==
  ASSUME GInv, pc \in {"report", "done"}, errors = 0, ast.root # NULL
  PROVE  written = Definitions(ast)
<1>1. \A n \in Definitions(ast) : n \in Node /\ attempts[n] > 0
  BY WalkCovers DEF GInv, Definitions, Reachable
<1>. QED
  BY <1>1 DEF GInv, RInv, ErrorsHonest, OnlyReachable

(* A run that returned 0 without losing text leaves at every path the whole
   class of the last definition that has this path: replays, earlier runs,
   failed or killed, never show. *)
THEOREM RunsLastOneStays == GeneratorSpec => []LastOneStays
<1>1. GInv => LastOneStays
  <2>. SUFFICES ASSUME GInv, pc = "done", ret = 0, ast.root # NULL, lossless,
                       NEW p \in Paths
                PROVE  /\ files[p].whole
                       /\ files[p].of \in DOMAIN path
                       /\ path[files[p].of] = p
                       /\ \A e \in Later(files[p].of) \cap DOMAIN path :
                            path[e] # p
    BY DEF LastOneStays
  <2>1. errors = 0 /\ written = Definitions(ast)
    <3>1. errors = 0
      BY DEF GInv, SourceOK
    <3>2. pc \in {"report", "done"}
      OBVIOUS
    <3>3. written = Definitions(ast)
      BY <3>1, <3>2, AllWritten
    <3>. QED
      BY <3>1, <3>3
  <2>2. PICK d \in written \cap DOMAIN path : path[d] = p
    BY <2>1 DEF GInv, SourceOK, Paths
  <2>3. /\ files[p].of \in written /\ files[p].whole
        /\ \A e \in Later(files[p].of) \cap DOMAIN path :
             path[e] = p => e \in Pending
    <3>1. ~killed /\ Survivors
      BY DEF GInv, SourceOK
    <3>. QED
      BY <2>1, <2>2, <3>1 DEF Survivors
  <2>4. Pending = {}
    <3>1. stack = <<>> /\ WellFormed(ast)
      BY DEF GInv, IInv, WalkOver, TypeOK
    <3>2. Ahead = {}
      BY <3>1 DEF Ahead
    <3>3. Closed(ast, {})
      BY DEF Closed
    <3>. QED
      BY <3>1, <3>2, <3>3, OnwardsLeast DEF Pending
  <2>5. files[p].of \in Node
    BY <2>1, <2>3 DEF Definitions, Reachable
  <2>6. files[p].of \in DOMAIN path /\ path[files[p].of] = p
    BY <2>5 DEF GInv, FilesTypeOK, STRANGER, Node, NULL
  <2>. QED
    BY <2>1, <2>3, <2>4, <2>6
<1>. QED
  BY <1>1, RunsInvariant, PTL

-----------------------------------------------------------------------------
(***************************************************************************)
(* The runs implement ClassFiles.                                          *)
(***************************************************************************)

(* The first run starts where ClassFiles does. *)
LEMMA InitFiles == GeneratorInit => FilesPromise!Init
<1>. SUFFICES ASSUME GeneratorInit PROVE FilesPromise!Init
  OBVIOUS
<1>1. DOMAIN files = {path[d] : d \in DOMAIN path}
  BY DEF GeneratorInit, Paths
<1>2. pc = "generate" /\ written = {} /\ ~killed
  BY DEF GeneratorInit, Init
<1>. QED
  BY <1>1, <1>2 DEF FilesPromise!Init

(* A step of a run is a step of ClassFiles or a stutter. *)
LEMMA StepFiles ==
  GInv /\ [GeneratorNext]_allVars
    => [FilesPromise!Next]_(FilesPromise!vars)
<1>. SUFFICES ASSUME GInv, [GeneratorNext]_allVars
              PROVE  [FilesPromise!Next]_(FilesPromise!vars)
  OBVIOUS
<1>1. \A d, whole : FilesPromise!Holding(d, whole) = Holding(d, whole)
  BY DEF FilesPromise!Holding, Holding
<1>2. CASE \E whole \in BOOLEAN : WriteClass(whole)
  <2>1. PICK whole \in BOOLEAN : WriteClass(whole)
    BY <1>2
  <2>2. PICK n : n = Top.node /\ n \in DOMAIN path
    BY <2>1 DEF WriteClass
  <2>3. /\ files' = Holding(n, whole) /\ written' = written \cup {n}
        /\ path' = path /\ ~killed /\ ~killed' /\ pc = "walk" /\ pc' = "walk"
    BY <2>1, <2>2 DEF WriteClass, EmitDefinition, TopIs, source
  <2>4. {path[d] : d \in written' \cap DOMAIN path'}
          = {path[d] : d \in written \cap DOMAIN path} \cup {path[n]}
    BY <2>2, <2>3
  <2>5. FilesPromise!Write
    BY <1>1, <2>2, <2>3, <2>4 DEF FilesPromise!Write
  <2>. QED
    BY <2>5 DEF FilesPromise!Next
<1>3. CASE ClassFails
  <2>1. /\ files' = files /\ written' = written /\ path' = path
        /\ killed' = killed /\ pc = "walk" /\ pc' = "walk"
    BY <1>3 DEF ClassFails, EmitDefinition, TopIs, run, source
  <2>. QED
    BY <2>1 DEF FilesPromise!vars
<1>4. CASE WalkOn
  <2>1. /\ files' = files /\ path' = path /\ ~killed /\ ~killed'
    BY <1>4 DEF WalkOn, run, source
  <2>2. written' = written
    BY <1>4 DEF WalkOn, GenerateNothing, GenerateTypes, EnterModule, SkipNode,
                VisitDefinition, LeaveModule, VisitNextSibling, Return, Report,
                history
  <2>3. CASE Report
    <3>1. pc = "report" /\ pc' = "done" /\ ret' = errors /\ ast.root # NULL
      BY <2>3 DEF Report, GInv, IInv, WalkOver
    <3>2. CASE errors = 0
      <4>1. written \cap DOMAIN path = DOMAIN path
        BY <3>1, <3>2, AllWritten DEF GInv, SourceOK
      <4>2. {path[d] : d \in written \cap DOMAIN path} = DOMAIN files
        BY <4>1 DEF GInv, FilesTypeOK, Paths
      <4>. QED
        BY <2>1, <2>2, <3>1, <3>2, <4>2
        DEF FilesPromise!Next, FilesPromise!ReportSuccess
    <3>3. CASE errors # 0
      BY <2>1, <2>2, <3>1, <3>3
      DEF FilesPromise!Next, FilesPromise!ReportFailure
    <3>. QED
      BY <3>2, <3>3
  <2>4. CASE GenerateNothing
    <3>1. pc = "generate" /\ pc' = "done" /\ ret' = -1
      BY <2>4 DEF GenerateNothing
    <3>. QED
      BY <2>1, <2>2, <3>1 DEF FilesPromise!Next, FilesPromise!ReportFailure
  <2>5. CASE ~(Report \/ GenerateNothing)
    <3>1. pc # "done" /\ pc' # "done"
      BY <1>4, <2>5
      DEF WalkOn, GenerateTypes, EnterModule, SkipNode, VisitDefinition,
          LeaveModule, VisitNextSibling, Return, TopIs
    <3>. QED
      BY <2>1, <2>2, <3>1 DEF FilesPromise!vars
  <2>. QED
    BY <2>3, <2>4, <2>5
<1>5. CASE Kill
  <2>1. /\ path' = path /\ written' = written /\ pc' = pc /\ pc # "done"
        /\ ~killed /\ killed'
    BY <1>5 DEF Kill, vars, history, source
  <2>2. \/ files' = files
        \/ \E d \in DOMAIN path : files' = Holding(d, FALSE)
    BY <1>5 DEF Kill
  <2>. QED
    BY <1>1, <2>1, <2>2 DEF FilesPromise!Next, FilesPromise!Kill
<1>6. CASE Rerun
  <2>1. /\ path' = path /\ files' = files /\ written' = {} /\ ~killed'
        /\ pc' = "generate" /\ (killed \/ pc = "done")
    BY <1>6 DEF Rerun, source
  <2>. QED
    BY <2>1 DEF FilesPromise!Next, FilesPromise!Rerun
<1>7. CASE NothingWritten
  <2>1. /\ files' = files /\ path' = path /\ killed' = killed
        /\ written' = written \cup {Top.node} /\ Top.node \notin DOMAIN path
        /\ pc = "walk" /\ pc' = "walk"
    BY <1>7 DEF NothingWritten, EmitDefinition, TopIs, run, source
  <2>2. written' \cap DOMAIN path' = written \cap DOMAIN path
    BY <2>1
  <2>. QED
    BY <2>1, <2>2 DEF FilesPromise!vars
<1>8. CASE UNCHANGED allVars
  BY <1>8 DEF allVars, vars, history, run, source, FilesPromise!vars
<1>. QED
  BY <1>2, <1>3, <1>4, <1>5, <1>6, <1>7, <1>8 DEF GeneratorNext

(* Over all runs the files keep what ClassFiles promises: a file changes only
   to a class that belongs there, and success is reported only when the run
   has written all of them. *)
THEOREM RunsKeepFiles == GeneratorSpec => FilesKept
BY InitFiles, StepFiles, RunsInvariant, PTL
DEF GeneratorSpec, FilesKept, FilesPromise!Spec

=============================================================================
