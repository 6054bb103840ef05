------------------------ MODULE PackageResolver_proofs ------------------------
(***************************************************************************)
(* Proofs about resolve_package(), for every tree, every depth of modules, *)
(* every length of the names and every size of module_names[].             *)
(***************************************************************************)
EXTENDS PackageResolver, SequenceTheorems, SetInduction

(* A parent of a node is a node or the null pointer. *)
LEMMA ParentType ==
  ASSUME WellFormed(ast), NEW m \in Node
  PROVE  ast.parent[m] \in NodeOrNull
BY DEF WellFormed, Tree

(* The resolution starts in its invariant. *)
LEMMA InitPInv == Init => PInv
<1>. SUFFICES ASSUME Init PROVE PInv
  OBVIOUS
<1>1. /\ WellFormed(ast) /\ node \in Node
      /\ name_len \in [Node -> Nat] /\ prefix_len \in Nat
  BY TreesAssumption, LengthsAssumption DEF Init, Definitions, Reachable
<1>2. /\ module_names \in Seq(Node) /\ measured \in Seq(Nat)
      /\ package_name \in Seq(NodeOrNull)
      /\ full \in [size : Nat, len : Nat]
      /\ Len(module_names) = 0 /\ Len(measured) = 0
  BY DEF Init
<1>3. TypeOK
  BY <1>1, <1>2, MaxModulesAssumption DEF Init, TypeOK, NodeOrNull
<1>. QED
  BY <1>2, <1>3 DEF Init, PInv, Sums, Phases

(* A step up the parents keeps the invariant. *)
LEMMA CollectPInv ==
  ASSUME PInv, Collect
  PROVE  PInv'
<1>1. n \in Node /\ ast.parent[n] \in NodeOrNull
  BY ParentType DEF PInv, TypeOK, Collect, Walking, NodeOrNull
<1>2. module_names' \in Seq(Node) /\ Len(module_names') \in Nat
      /\ Len(module_names') >= Len(module_names)
      /\ Len(module_names') <= MaxModules
  BY <1>1, MaxModulesAssumption DEF PInv, TypeOK, Collect, Walking
<1>3. TypeOK'
  BY <1>1, <1>2 DEF PInv, TypeOK, Collect, inputs
<1>4. measured = <<>> /\ i <= Len(module_names)
  BY DEF PInv, Phases, Sums, Collect
<1>5. Sums'
  BY <1>2, <1>4 DEF PInv, TypeOK, Sums, Collect
<1>. QED
  BY <1>3, <1>5 DEF PInv, Phases, Collect, inputs

(* So does falling back to "generated". *)
LEMMA UseGeneratedPInv ==
  ASSUME PInv, UseGenerated
  PROVE  PInv'
<1>1. package_name' \in Seq(NodeOrNull)
  BY DEF UseGenerated, GENERATED, NodeOrNull
<1>2. TypeOK'
  BY <1>1 DEF PInv, TypeOK, UseGenerated, inputs, GeneratedLen
<1>3. measured = <<>>
  BY DEF PInv, Phases, UseGenerated
<1>4. Sums'
  BY <1>3 DEF PInv, TypeOK, Sums, UseGenerated
<1>. QED
  BY <1>2, <1>4 DEF PInv, Phases, UseGenerated

(* So does going on to the sizes. *)
LEMMA StartMeasuringPInv ==
  ASSUME PInv, StartMeasuring
  PROVE  PInv'
<1>1. TypeOK'
  BY DEF PInv, TypeOK, StartMeasuring, inputs
<1>2. measured = <<>>
  BY DEF PInv, Phases, StartMeasuring
<1>3. Sums'
  BY <1>2 DEF PInv, TypeOK, Sums, StartMeasuring
<1>. QED
  BY <1>1, <1>2, <1>3 DEF PInv, TypeOK, Phases, StartMeasuring, inputs

(* Appending to a sequence of numbers. *)
LEMMA AppendFacts ==
  ASSUME NEW s \in Seq(Nat), NEW x \in Nat
  PROVE  /\ Append(s, x) \in Seq(Nat)
         /\ Len(Append(s, x)) = Len(s) + 1
         /\ Append(s, x)[Len(s) + 1] = x
         /\ \A k \in 1..Len(s) : Append(s, x)[k] = s[k]
OBVIOUS

(* So does adding one name to the size. *)
LEMMA MeasurePInv ==
  ASSUME PInv, Measure
  PROVE  PInv'
<1>. DEFINE M == Len(measured)
            room == name_len[module_names[i]] + 1
<1>1. /\ i \in Nat \ {0} /\ i <= Len(module_names)
      /\ module_names \in Seq(Node) /\ Len(module_names) \in Nat
      /\ measured \in Seq(Nat) /\ M \in Nat
      /\ M = Len(module_names) - i
      /\ total_len = (IF measured = <<>> THEN 0 ELSE measured[M])
      /\ total_len \in Nat
  BY DEF PInv, TypeOK, Sums, Phases, Measure
<1>2. module_names[i] \in Node
  BY <1>1
<1>3. room \in Nat
  BY <1>2 DEF PInv, TypeOK
<1>4. total_len' = total_len + room
  BY DEF Measure, Room
<1>5. measured' = Append(measured, total_len')
  BY DEF Measure
<1>6. /\ measured' \in Seq(Nat)
      /\ Len(measured') = M + 1
      /\ measured'[M + 1] = total_len'
      /\ \A k \in 1..M : measured'[k] = measured[k]
  <2>1. total_len' \in Nat
    BY <1>1, <1>3, <1>4
  <2>. QED
    BY <1>1, <1>5, <2>1, AppendFacts, Zenon
<1>7. i' = i - 1 /\ i' \in Nat
  BY <1>1 DEF Measure
<1>8. TypeOK'
  BY <1>3, <1>4, <1>6, <1>7 DEF PInv, TypeOK, Measure, inputs
<1>9. Sums'
  <2>1. UNCHANGED <<module_names, name_len>>
    BY DEF Measure, inputs
  <2>2. \A k \in 1..M :
          /\ measured[k] = (IF k = 1 THEN 0 ELSE measured[k-1]) + name_len[Turn(k)] + 1
          /\ measured[k] <= total_len
    BY DEF PInv, Sums
  <2>3. \A k \in 1..M + 1 : Turn(k)' = Turn(k)
    BY <2>1 DEF Turn
  <2>4. Turn(M + 1) = module_names[i]
    BY <1>1 DEF Turn
  <2>5. measured'[M + 1] = (IF M + 1 = 1 THEN 0 ELSE measured'[M]) + room
    <3>. HIDE DEF room
    <3>1. CASE M = 0
      <4>1. total_len = 0
        BY <1>1, <3>1 DEF PInv, Phases, Measure
      <4>. QED
        BY <1>3, <1>4, <1>6, <3>1, <4>1
    <3>2. CASE M # 0
      <4>1. M \in 1..M /\ M + 1 # 1
        BY <1>1, <3>2
      <4>2. total_len = measured[M]
        BY <1>1, <3>2 DEF PInv, Phases, Measure
      <4>. QED
        BY <1>4, <1>6, <4>1, <4>2
    <3>. QED
      BY <3>1, <3>2
  <2>6. \A k \in 1..M : measured'[k] <= total_len'
    <3>. HIDE DEF room
    <3>1. \A x \in Nat : x <= total_len => x <= total_len + room
      BY <1>1, <1>3
    <3>2. \A k \in 1..M : measured[k] \in Nat /\ measured[k] <= total_len
      BY <1>1, <2>2
    <3>. QED
      BY <1>4, <1>6, <3>1, <3>2
  <2>7. \A k \in 1..M :
          measured'[k] = (IF k = 1 THEN 0 ELSE measured'[k-1]) + name_len[Turn(k)] + 1
    <3>1. \A k \in 1..M : k # 1 => k - 1 \in 1..M
      BY <1>1
    <3>2. \A k \in 1..M : k # 1 => measured'[k-1] = measured[k-1]
      BY <1>6, <3>1
    <3>. QED
      BY <1>6, <2>2, <3>2
  <2>8. \A k \in 1..M + 1 :
          measured'[k] = (IF k = 1 THEN 0 ELSE measured'[k-1]) + name_len[Turn(k)] + 1
    <3>1. \A k \in 1..M + 1 : k \in 1..M \/ k = M + 1
      BY <1>1
    <3>2. M + 1 - 1 = M
      BY <1>1
    <3>3. measured'[M + 1] = (IF M + 1 = 1 THEN 0 ELSE measured'[M + 1 - 1])
                               + name_len[Turn(M + 1)] + 1
      <4>. DEFINE before == IF M + 1 = 1 THEN 0 ELSE measured'[M]
      <4>1. before \in Nat /\ name_len[module_names[i]] \in Nat
        <5>1. M + 1 # 1 => M \in 1..M
          BY <1>1
        <5>2. \A k \in 1..M : measured'[k] \in Nat
          <6>1. measured \in Seq(Nat) /\ M \in Nat
            BY <1>1
          <6>2. \A k \in 1..M : measured[k] \in Nat
            BY <6>1
          <6>. QED
            BY <1>6, <6>2
        <5>3. name_len[module_names[i]] \in Nat
          BY <1>2 DEF PInv, TypeOK
        <5>. QED
          BY <5>1, <5>2, <5>3
      <4>2. measured'[M + 1] = before + (name_len[module_names[i]] + 1)
        BY <2>5
      <4>. HIDE DEF before
      <4>3. measured'[M + 1] = before + name_len[module_names[i]] + 1
        BY <4>1, <4>2
      <4>. QED
        BY <2>4, <3>2, <4>3, Zenon DEF before
    <3>. SUFFICES ASSUME NEW k \in 1..M + 1
                  PROVE  measured'[k] = (IF k = 1 THEN 0 ELSE measured'[k-1])
                                          + name_len[Turn(k)] + 1
      OBVIOUS
    <3>4. CASE k \in 1..M
      BY <2>7, <3>4, Zenon
    <3>5. CASE k = M + 1
      BY <3>3, <3>5
    <3>. QED
      BY <3>1, <3>4, <3>5
  <2>9. measured'[M + 1] <= total_len'
    BY <1>1, <1>3, <1>4, <1>6
  <2>. QED
    BY <1>1, <1>6, <1>7, <2>1, <2>3, <2>6, <2>8, <2>9 DEF Sums
<1>. QED
  BY <1>1, <1>6, <1>7, <1>8, <1>9 DEF PInv, Phases, Measure

(* So does the allocation. *)
LEMMA AllocatePInv ==
  ASSUME PInv, Allocate
  PROVE  PInv'
<1>1. TypeOK'
  BY DEF PInv, TypeOK, Allocate, inputs
<1>2. Sums'
  BY DEF PInv, TypeOK, Sums, Allocate, inputs, Turn
<1>. QED
  BY <1>1, <1>2 DEF PInv, TypeOK, Phases, Allocate

(* A concatenation writes what was measured for it. *)
LEMMA ConcatenatePInv ==
  ASSUME PInv, Concatenate
  PROVE  PInv'
<1>. DEFINE L == Len(module_names)
            k == L + 1 - i
<1>1. /\ i \in Nat \ {0} /\ i <= L
      /\ module_names \in Seq(Node) /\ L \in Nat /\ module_names # <<>>
      /\ measured \in Seq(Nat) /\ Len(measured) = L
      /\ used \in Nat
  BY DEF PInv, TypeOK, Sums, Phases, Concatenate
<1>2. k \in 1..L /\ module_names[i] \in Node /\ Turn(k) = module_names[i]
  BY <1>1 DEF Turn
<1>3. name_len[module_names[i]] \in Nat
  BY <1>2 DEF PInv, TypeOK
<1>4. measured[k] = (IF k = 1 THEN 0 ELSE measured[k-1])
                      + name_len[module_names[i]] + 1
  BY <1>1, <1>2 DEF PInv, Sums
<1>5. used' = used + (IF i < L THEN 1 ELSE 0) + name_len[module_names[i]]
  BY DEF Concatenate
<1>6. IF i = L THEN used = 0 ELSE used + 1 = measured[L - i]
  BY <1>1 DEF PInv, Phases, Concatenate
<1>7. k - 1 = L - i /\ (k = 1 <=> i = L)
  BY <1>1
<1>8. used' + 1 = measured[k]
  <2>1. CASE i = L
    BY <1>1, <1>3, <1>4, <1>5, <1>6, <1>7, <2>1
  <2>2. CASE i # L
    <3>1. measured[k - 1] = used + 1
      BY <1>6, <1>7, <2>2
    <3>2. i < L
      BY <1>1, <2>2
    <3>3. measured[k] = used + 1 + name_len[module_names[i]] + 1
      BY <1>4, <1>7, <2>2, <3>1
    <3>. QED
      BY <1>1, <1>3, <1>5, <3>2, <3>3
  <2>. QED
    BY <2>1, <2>2
<1>9. i' = i - 1 /\ i' \in Nat /\ i' # L /\ L - i' = k
  BY <1>1 DEF Concatenate
<1>10. TypeOK'
  <2>1. package_name' \in Seq(NodeOrNull)
    BY <1>2 DEF PInv, TypeOK, Concatenate, NodeOrNull
  <2>2. used' \in Nat
    BY <1>1, <1>3, <1>5
  <2>. QED
    BY <1>9, <2>1, <2>2 DEF PInv, TypeOK, Concatenate, inputs
<1>11. Sums'
  BY <1>1, <1>9 DEF PInv, Sums, Concatenate, inputs, Turn
<1>12. Phases'
  BY <1>1, <1>8, <1>9 DEF PInv, Phases, Concatenate
<1>. QED
  BY <1>10, <1>11, <1>12 DEF PInv

(* The prefix is put into a block of its own. *)
LEMMA FinishPInv ==
  ASSUME PInv, Finish
  PROVE  PInv'
<1>1. TypeOK'
  BY DEF PInv, TypeOK, Finish, inputs
<1>2. Sums'
  BY DEF PInv, TypeOK, Sums, Finish, inputs, Turn
<1>3. prefix_len > 0 => full'.len + 1 = full'.size
  BY DEF PInv, TypeOK, Finish
<1>. QED
  BY <1>1, <1>2, <1>3 DEF PInv, Phases, Finish, inputs

(* Every step keeps the invariant of the resolution. *)
LEMMA NextPInv == PInv /\ [Next]_vars => PInv'
<1>. SUFFICES ASSUME PInv, [Next]_vars PROVE PInv'
  OBVIOUS
<1>1. CASE UNCHANGED vars
  BY <1>1 DEF vars, inputs, PInv, TypeOK, Sums, Phases, Turn
<1>. QED
  BY <1>1, CollectPInv, UseGeneratedPInv, StartMeasuringPInv, MeasurePInv,
     AllocatePInv, ConcatenatePInv, FinishPInv
  DEF Next

(* The strengthened invariant holds in every reachable state. *)
THEOREM PackageInvariant == Spec => []PInv
BY InitPInv, NextPInv, PTL DEF Spec

(* Every variable of resolve_package keeps its type. *)
THEOREM PackageTypeOK == Spec => []TypeOK
<1>1. PInv => TypeOK
  BY DEF PInv
<1>. QED
  BY <1>1, PackageInvariant, PTL

(* The block malloc(total_len) is large enough for every strcat, and it is
   full at the end, for modules nested to any depth. *)
THEOREM PackageFillsBlock == Spec => []FillsBlock
<1>1. PInv => FillsBlock
  <2>. SUFFICES ASSUME PInv PROVE FillsBlock
    OBVIOUS
  <2>. DEFINE L == Len(module_names)
  <2>1. /\ i \in Nat /\ i <= L /\ L \in Nat
        /\ total_len \in Nat /\ used \in Nat
    BY DEF PInv, TypeOK, Sums
  <2>2. CASE pc \in {"build", "done"} /\ module_names # <<>>
    <3>1. Len(measured) = L /\ L \in 1..L /\ total_len = measured[L]
          /\ measured \in Seq(Nat)
      BY <2>1, <2>2 DEF PInv, TypeOK, Phases
    <3>2. \A k \in 1..L : measured[k] \in Nat /\ measured[k] <= total_len
      BY <3>1 DEF PInv, Sums
    <3>3. measured[1] >= 1
      <4>1. Turn(1) \in Node
        BY <2>1, <3>1 DEF PInv, TypeOK, Turn
      <4>. QED
        BY <3>1, <4>1 DEF PInv, Sums, TypeOK
    <3>4. used + 1 <= total_len
      <4>1. CASE i = L
        BY <2>1, <2>2, <3>1, <3>2, <3>3, <4>1 DEF PInv, Phases
      <4>2. CASE i # L
        <5>1. L - i \in 1..L
          BY <2>1, <4>2
        <5>. QED
          BY <2>2, <3>2, <4>2, <5>1 DEF PInv, Phases
      <4>. QED
        BY <4>1, <4>2
    <3>5. pc = "done" => used + 1 = total_len
      BY <2>1, <2>2, <3>1 DEF PInv, Phases
    <3>. QED
      BY <3>4, <3>5 DEF FillsBlock, PInv, Phases
  <2>3. CASE pc \in {"build", "done"} /\ module_names = <<>>
    BY <2>1, <2>3 DEF FillsBlock, PInv, Phases
  <2>4. CASE pc \notin {"build", "done"}
    BY <2>4 DEF FillsBlock
  <2>. QED
    BY <2>2, <2>3, <2>4
<1>. QED
  BY <1>1, PackageInvariant, PTL

-----------------------------------------------------------------------------
(***************************************************************************)
(* The modules around a node.                                              *)
(***************************************************************************)

(* One turn of the recursion of Around, from a function that has the turns
   before. *)
Climb(t, named, f, k) ==
  IF k = NULL THEN <<>>
  ELSE IF k \in named /\ t.kind[k] = "module"
       THEN <<k>> \o f[t.parent[k]]
       ELSE f[t.parent[k]]

(* The recursion has a solution: parents come before their children, so it
   is built up from the null pointer on. *)
LEMMA ClimbExists ==
  ASSUME NEW t, WellFormed(t), NEW named
  PROVE  \E f \in [NodeOrNull -> Seq(Node)] :
           \A k \in NodeOrNull : f[k] = Climb(t, named, f, k)
<1>. DEFINE Solves(g, N) == \A k \in 0..N : g[k] = Climb(t, named, g, k)
            Solved == {N \in 0..NumNodes : \E g \in [0..N -> Seq(Node)] : Solves(g, N)}
<1>1. NumNodes \in Nat /\ NodeOrNull = 0..NumNodes
  BY NumNodesAssumption DEF NodeOrNull, Node, NULL
<1>2. 0 \in Solved
  <2>1. [k \in 0..0 |-> <<>>] \in [0..0 -> Seq(Node)]
    OBVIOUS
  <2>2. Solves([k \in 0..0 |-> <<>>], 0)
    BY DEF Climb, NULL
  <2>. QED
    BY <1>1, <2>1, <2>2
<1>3. ASSUME NEW N \in 0..NumNodes, N < NumNodes, N \in Solved
      PROVE  N + 1 \in Solved
  <2>1. PICK g \in [0..N -> Seq(Node)] : Solves(g, N)
    BY <1>3
  <2>. DEFINE h == [k \in 0..N + 1 |-> IF k = N + 1 THEN Climb(t, named, g, k) ELSE g[k]]
  <2>2. /\ N \in Nat /\ N + 1 \in 0..NumNodes /\ N + 1 \in Node
        /\ N + 1 # NULL
    BY <1>1, <1>3 DEF Node, NULL
  <2>3. \A k \in 1..N + 1 : t.parent[k] \in 0..N /\ t.parent[k] < k
    BY <1>1, <2>2 DEF WellFormed, Tree, Node, NodeOrNull, NULL
  <2>4. Climb(t, named, g, N + 1) \in Seq(Node)
    <3>1. t.parent[N + 1] \in 0..N
      BY <2>2, <2>3
    <3>2. g[t.parent[N + 1]] \in Seq(Node)
      BY <2>1, <3>1
    <3>. QED
      BY <2>2, <3>2 DEF Climb
  <2>5. h \in [0..N + 1 -> Seq(Node)]
    BY <2>1, <2>2, <2>4
  <2>6. \A k \in 0..N : h[k] = g[k]
    BY <2>2
  <2>7. h[N + 1] = Climb(t, named, g, N + 1)
    BY <2>2
  <2>. HIDE DEF h
  <2>8. \A k \in 0..N + 1 : Climb(t, named, h, k) = Climb(t, named, g, k)
    <3>. SUFFICES ASSUME NEW k \in 0..N + 1
                  PROVE  Climb(t, named, h, k) = Climb(t, named, g, k)
      OBVIOUS
    <3>1. CASE k = NULL
      BY <3>1 DEF Climb
    <3>2. CASE k # NULL
      <4>1. h[t.parent[k]] = g[t.parent[k]]
        BY <2>2, <2>3, <2>6, <3>2 DEF NULL
      <4>. QED
        BY <4>1 DEF Climb
    <3>. QED
      BY <3>1, <3>2
  <2>9. Solves(h, N + 1)
    <3>1. \A k \in 0..N + 1 : k \in 0..N \/ k = N + 1
      BY <2>2
    <3>. QED
      BY <2>1, <2>6, <2>7, <2>8, <3>1
  <2>. QED
    BY <2>2, <2>5, <2>9
<1>4. NumNodes \in Solved
  <2>. HIDE DEF Solved
  <2>1. 0..NumNodes \subseteq Solved
    BY <1>1, <1>2, <1>3, InductionUpTo
  <2>. QED
    BY <1>1, <2>1
<1>. QED
  BY <1>1, <1>4

(* Around satisfies the recursion it is written as. *)
LEMMA AroundClimbs ==
  ASSUME NEW t, WellFormed(t), NEW named
  PROVE  /\ Around(t, named, NULL) = <<>>
         /\ \A m \in Node :
              Around(t, named, m) =
                IF m \in named /\ t.kind[m] = "module"
                THEN <<m>> \o Around(t, named, t.parent[m])
                ELSE Around(t, named, t.parent[m])
         /\ \A m \in NodeOrNull : Around(t, named, m) \in Seq(Node)
<1>. DEFINE up == CHOOSE f : f = [k \in NodeOrNull |-> Climb(t, named, f, k)]
<1>1. PICK f \in [NodeOrNull -> Seq(Node)] :
         \A k \in NodeOrNull : f[k] = Climb(t, named, f, k)
  BY ClimbExists
<1>2. f = [k \in NodeOrNull |-> Climb(t, named, f, k)]
  BY <1>1
<1>3. up = [k \in NodeOrNull |-> Climb(t, named, up, k)]
  BY <1>2
<1>4. \A m : Around(t, named, m) = up[m]
  BY DEF Around, Climb
<1>. HIDE DEF up
<1>5. \A k \in NodeOrNull : up[k] = Climb(t, named, up, k)
  BY <1>3, Zenon
<1>6. NULL \in NodeOrNull /\ up[NULL] = <<>> /\ f[NULL] = <<>>
  BY <1>1, <1>5 DEF Climb, NodeOrNull
<1>7. NumNodes \in Nat /\ NodeOrNull = 0..NumNodes /\ Node = 1..NumNodes
  BY NumNodesAssumption DEF NodeOrNull, Node, NULL
<1>8. \A m \in Node : /\ m \in NodeOrNull /\ m # NULL
                      /\ t.parent[m] \in NodeOrNull /\ t.parent[m] < m
  <2>1. \A m \in Node : t.parent[m] \in NodeOrNull /\ t.parent[m] < m
    BY DEF WellFormed, Tree
  <2>2. \A m \in Node : m \in NodeOrNull /\ m # NULL
    BY DEF NodeOrNull, Node, NULL
  <2>. QED
    BY <2>1, <2>2
<1>9. \A m \in NodeOrNull : up[m] = f[m]
  <2>. DEFINE Same == {N \in 0..NumNodes : \A k \in 0..N : up[k] = f[k]}
  <2>1. 0 \in Same
    <3>1. \A k \in 0..0 : k = NULL
      BY DEF NULL
    <3>. QED
      BY <1>7, <1>6, <3>1
  <2>2. ASSUME NEW N \in 0..NumNodes, N < NumNodes, N \in Same
        PROVE  N + 1 \in Same
    <3>1. N + 1 \in Node /\ t.parent[N + 1] \in 0..N
      BY <1>7, <1>8, <2>2
    <3>2. up[t.parent[N + 1]] = f[t.parent[N + 1]]
      BY <2>2, <3>1
    <3>3. Climb(t, named, up, N + 1) = Climb(t, named, f, N + 1)
      BY <3>2 DEF Climb
    <3>4. up[N + 1] = f[N + 1]
      BY <1>1, <1>8, <1>5, <3>1, <3>3
    <3>5. \A k \in 0..N + 1 : k \in 0..N \/ k = N + 1
      OBVIOUS
    <3>. QED
      BY <1>7, <2>2, <3>1, <3>4, <3>5
  <2>3. 0..NumNodes \subseteq Same
    <3>. HIDE DEF Same
    <3>. QED
      BY <1>7, <2>1, <2>2, InductionUpTo
  <2>4. NumNodes \in Same
    <3>. HIDE DEF Same
    <3>. QED
      BY <1>7, <2>3
  <2>. QED
    BY <1>7, <2>4
<1>10. Around(t, named, NULL) = <<>>
  BY <1>4, <1>6
<1>11. \A m \in Node : Around(t, named, m) = Climb(t, named, up, m)
  BY <1>4, <1>8, <1>5
<1>. QED
  BY <1>1, <1>4, <1>8, <1>9, <1>10, <1>11 DEF Climb

-----------------------------------------------------------------------------
(***************************************************************************)
(* The text is the path of the modules.                                    *)
(***************************************************************************)

(* Where the walk stands, its modules and those still above it. *)
LEMMA AroundType ==
  ASSUME PInv
  PROVE  /\ Around(ast, Named, n) \in Seq(Node)
         /\ module_names \in Seq(Node)
         /\ Len(module_names) \in Nat /\ Len(module_names) <= MaxModules
<1>1. /\ WellFormed(ast) /\ n \in NodeOrNull
      /\ module_names \in Seq(Node) /\ Len(module_names) <= MaxModules
  BY DEF PInv, TypeOK
<1>2. Around(ast, Named, n) \in Seq(Node)
  BY <1>1, AroundClimbs, Zenon
<1>. QED
  BY <1>1, <1>2

(* Nothing has been found or written before the walk. *)
LEMMA InitPathInv == Init => PathInv
<1>. SUFFICES ASSUME Init PROVE PathInv
  OBVIOUS
<1>1. PInv
  BY InitPInv
<1>2. Around(ast, Named, n) \in Seq(Node)
  BY <1>1, AroundType
<1>3. <<>> \o Around(ast, Named, n) = Around(ast, Named, n)
  BY <1>2
<1>4. OnThePath
  BY <1>3 DEF Init, OnThePath
<1>. QED
  BY <1>1, <1>4 DEF Init, PathInv, Written

(* A turn of the walk moves the module it stands on from the modules that
   are still above it to those that were found. *)
LEMMA CollectPathInv ==
  ASSUME PathInv, Collect
  PROVE  PathInv'
<1>1. PInv /\ PInv'
  BY CollectPInv DEF PathInv
<1>2. /\ n \in Node /\ ast.parent[n] \in NodeOrNull /\ WellFormed(ast)
      /\ module_names \in Seq(Node) /\ name_len \in [Node -> Nat]
  BY <1>1, ParentType DEF PInv, TypeOK, Collect, Walking, NodeOrNull
<1>. DEFINE above == Around(ast, Named, ast.parent[n])
            found == ast.kind[n] = "module" /\ name_len[n] > 0
<1>3. above \in Seq(Node)
  BY <1>2, AroundClimbs
<1>4. n \in Named <=> name_len[n] > 0
  BY <1>2 DEF Named
<1>5. Around(ast, Named, n) = IF found THEN <<n>> \o above ELSE above
  BY <1>2, <1>4, AroundClimbs
<1>6. Around(ast, Named, node) = module_names \o Around(ast, Named, n)
  BY DEF PathInv, OnThePath
<1>7. module_names' = IF found THEN Append(module_names, n) ELSE module_names
  BY DEF Collect
<1>8. UNCHANGED <<ast, node, Named, pc, package_name>> /\ n' = ast.parent[n]
  BY DEF Collect, inputs, Named
<1>9. module_names' \o above = module_names \o Around(ast, Named, n)
  <2>. HIDE DEF above
  <2>1. Append(module_names, n) \o above = module_names \o (<<n>> \o above)
    <3>1. <<n>> \in Seq(Node)
      BY <1>2
    <3>2. (module_names \o <<n>>) \o above = module_names \o (<<n>> \o above)
      BY <1>2, <1>3, <3>1, ConcatAssociative
    <3>3. Append(module_names, n) = module_names \o <<n>>
      BY <1>2, AppendIsConcat
    <3>. QED
      BY <3>2, <3>3
  <2>. QED
    BY <1>5, <1>7, <2>1
<1>10. pc = "walk"
  BY DEF Collect
<1>11. OnThePath'
  BY <1>6, <1>8, <1>9, <1>10 DEF OnThePath
<1>12. Written'
  BY <1>8, <1>10 DEF PathInv, Written
<1>. QED
  BY <1>1, <1>11, <1>12 DEF PathInv

(* The other steps leave the walk where it is. *)
LEMMA UseGeneratedPathInv ==
  ASSUME PathInv, UseGenerated
  PROVE  PathInv'
<1>1. PInv'
  BY UseGeneratedPInv DEF PathInv
<1>2. OnThePath'
  BY DEF PathInv, OnThePath, UseGenerated, inputs, Named, Walking
<1>3. Written'
  BY DEF UseGenerated, Written
<1>. QED
  BY <1>1, <1>2, <1>3 DEF PathInv

(* So does the turn to the loop that measures. *)
LEMMA StartMeasuringPathInv ==
  ASSUME PathInv, StartMeasuring
  PROVE  PathInv'
<1>1. PInv'
  BY StartMeasuringPInv DEF PathInv
<1>2. OnThePath'
  BY DEF PathInv, OnThePath, StartMeasuring, inputs, Named, Walking
<1>3. Written'
  BY DEF PathInv, StartMeasuring, Written
<1>. QED
  BY <1>1, <1>2, <1>3 DEF PathInv

(* Measuring reads what was found. *)
LEMMA MeasurePathInv ==
  ASSUME PathInv, Measure
  PROVE  PathInv'
<1>1. PInv'
  BY MeasurePInv DEF PathInv
<1>2. OnThePath'
  BY DEF PathInv, OnThePath, Measure, inputs, Named, Walking
<1>3. Written'
  BY DEF PathInv, Measure, Written
<1>. QED
  BY <1>1, <1>2, <1>3 DEF PathInv

(* The text is empty when all the modules are still to be written. *)
LEMMA AllocatePathInv ==
  ASSUME PathInv, Allocate
  PROVE  PathInv'
<1>1. PInv'
  BY AllocatePInv DEF PathInv
<1>2. OnThePath'
  BY DEF PathInv, OnThePath, Allocate, inputs, Named, Walking
<1>3. /\ package_name' = <<>> /\ module_names' = module_names
      /\ module_names # <<>> /\ i' = Len(module_names)
      /\ Len(module_names) \in Nat
  BY DEF PathInv, PInv, TypeOK, Phases, Written, Allocate
<1>4. [k \in 1..0 |-> Turn(k)'] = <<>>
  OBVIOUS
<1>5. Len(module_names') - i' = 0
  BY <1>3
<1>6. Written'
  BY <1>3, <1>4, <1>5 DEF Written, Allocate
<1>. QED
  BY <1>1, <1>2, <1>6 DEF PathInv

(* One more value at the end of a sequence given by a function. *)
LEMMA AppendTurn ==
  ASSUME NEW L \in Nat, NEW f,
         NEW s, s = [k \in 1..L |-> f[k]]
  PROVE  Append(s, f[L + 1]) = [k \in 1..L + 1 |-> f[k]]
OBVIOUS

(* A turn of the second loop writes one module more. *)
LEMMA ConcatenatePathInv ==
  ASSUME PathInv, Concatenate
  PROVE  PathInv'
<1>1. PInv'
  BY ConcatenatePInv DEF PathInv
<1>2. OnThePath'
  BY DEF PathInv, OnThePath, Concatenate, inputs, Named, Walking
<1>. DEFINE L == Len(module_names)
            turns == [k \in 1..L |-> module_names[L + 1 - k]]
<1>3. /\ i \in Nat \ {0} /\ i <= L /\ L \in Nat
      /\ module_names \in Seq(Node) /\ module_names # <<>>
  BY DEF PathInv, PInv, TypeOK, Sums, Phases, Concatenate
<1>4. package_name = [k \in 1..(L - i) |-> turns[k]]
  <2>1. package_name = [k \in 1..(L - i) |-> Turn(k)]
    BY <1>3 DEF PathInv, Written, Concatenate
  <2>2. \A k \in 1..(L - i) : turns[k] = Turn(k)
    BY <1>3 DEF Turn
  <2>. HIDE DEF turns
  <2>. QED
    BY <2>1, <2>2
<1>5. module_names[i] = turns[L - i + 1]
  BY <1>3
<1>6. package_name' = [k \in 1..(L - i + 1) |-> turns[k]]
  <2>1. L - i \in Nat
    BY <1>3
  <2>2. package_name' = Append(package_name, turns[L - i + 1])
    BY <1>5 DEF Concatenate
  <2>. HIDE DEF turns, L
  <2>. QED
    BY <1>4, <2>1, <2>2, AppendTurn
<1>7. module_names' = module_names /\ i' = i - 1 /\ pc' = "build"
  BY DEF Concatenate
<1>8. Written'
  <2>1. L - i + 1 = L - i'
    BY <1>3, <1>7
  <2>2. \A k \in 1..(L - i + 1) : turns[k] = Turn(k)'
    BY <1>3, <1>7 DEF Turn
  <2>3. package_name' = [k \in 1..(L - i + 1) |-> Turn(k)']
    <3>. HIDE DEF turns
    <3>. QED
      BY <1>6, <2>2
  <2>. QED
    BY <1>3, <1>7, <2>1, <2>3 DEF Written
<1>. QED
  BY <1>1, <1>2, <1>8 DEF PathInv

(* At the end the text is written. *)
LEMMA FinishPathInv ==
  ASSUME PathInv, Finish
  PROVE  PathInv'
<1>1. PInv'
  BY FinishPInv DEF PathInv
<1>2. OnThePath'
  BY DEF PathInv, OnThePath, Finish, inputs, Named, Walking
<1>3. Written'
  BY DEF PathInv, Finish, Written, Turn
<1>. QED
  BY <1>1, <1>2, <1>3 DEF PathInv

(* Every step keeps what has been walked and written. *)
LEMMA NextPathInv == PathInv /\ [Next]_vars => PathInv'
<1>. SUFFICES ASSUME PathInv, [Next]_vars PROVE PathInv'
  OBVIOUS
<1>1. CASE UNCHANGED vars
  <2>1. PInv'
    BY <1>1, NextPInv DEF PathInv
  <2>2. OnThePath'
    BY <1>1 DEF vars, inputs, PathInv, OnThePath, Named, Walking
  <2>3. Written'
    BY <1>1 DEF vars, PathInv, Written, Turn
  <2>. QED
    BY <2>1, <2>2, <2>3 DEF PathInv
<1>. QED
  BY <1>1, CollectPathInv, UseGeneratedPathInv, StartMeasuringPathInv,
     MeasurePathInv, AllocatePathInv, ConcatenatePathInv, FinishPathInv
  DEF Next

(* The modules found are the innermost ones around the definition, as many
   as module_names[] takes, and all of them where there are no more. *)
LEMMA KeptAreFound ==
  ASSUME PathInv, pc # "walk"
  PROVE  PackageModules(ast, Named, node) =
           [k \in 1..Len(module_names) |-> Turn(k)]
<1>. DEFINE around == Around(ast, Named, node)
            above == Around(ast, Named, n)
            L == Len(module_names)
            kept == IF Len(around) < MaxModules THEN Len(around) ELSE MaxModules
<1>1. /\ above \in Seq(Node) /\ module_names \in Seq(Node)
      /\ L \in Nat /\ L <= MaxModules /\ MaxModules \in Nat
  BY AroundType, MaxModulesAssumption DEF PathInv
<1>2. around = module_names \o above
  BY DEF PathInv, OnThePath
<1>3. n = NULL \/ L >= MaxModules
  BY <1>1 DEF PathInv, OnThePath, Walking
<1>4. n = NULL => above = <<>>
  BY AroundClimbs DEF PathInv, PInv, TypeOK
<1>5. PackageModules(ast, Named, node) = [k \in 1..kept |-> around[kept + 1 - k]]
  BY DEF PackageModules
<1>. HIDE DEF above, around
<1>6. /\ Len(around) = L + Len(above) /\ Len(above) \in Nat
      /\ \A k \in 1..L : around[k] = module_names[k]
  BY <1>1, <1>2
<1>7. kept = L
  <2>1. CASE L >= MaxModules
    BY <1>1, <1>6, <2>1
  <2>2. CASE n = NULL
    BY <1>1, <1>4, <1>6, <2>2
  <2>. QED
    BY <1>3, <2>1, <2>2
<1>8. \A k \in 1..L : around[L + 1 - k] = Turn(k)
  <2>1. \A k \in 1..L : L + 1 - k \in 1..L
    BY <1>1
  <2>. QED
    BY <1>6, <2>1 DEF Turn
<1>. HIDE DEF kept, L
<1>. QED
  BY <1>5, <1>7, <1>8 DEF L

(* The package of a definition is the path of the named modules around it,
   outermost first, cut at the outer end to MaxModules of them, and
   "generated" exactly where there are none: for modules nested to any depth
   and a module_names[] of any size. *)
THEOREM PackagePath == Spec => []PackageIsPath
<1>1. Spec => []PathInv
  BY InitPathInv, NextPathInv, PTL DEF Spec
<1>2. PathInv => PackageIsPath
  <2>. SUFFICES ASSUME PathInv, pc = "done"
                PROVE  package_name =
                         IF PackageModules(ast, Named, node) = <<>>
                         THEN <<GENERATED>> ELSE PackageModules(ast, Named, node)
    BY DEF PackageIsPath
  <2>. DEFINE L == Len(module_names)
              turns == [k \in 1..L |-> Turn(k)]
  <2>1. PackageModules(ast, Named, node) = turns
    BY KeptAreFound
  <2>2. i = 0 /\ L \in Nat /\ (module_names = <<>> <=> L = 0)
    BY DEF PathInv, PInv, TypeOK, Phases
  <2>3. package_name = IF module_names = <<>> THEN <<GENERATED>>
                       ELSE [k \in 1..(L - i) |-> Turn(k)]
    BY DEF PathInv, Written
  <2>4. L - i = L
    BY <2>2
  <2>5. turns = <<>> <=> L = 0
    <3>1. Len(turns) = L
      BY <2>2
    <3>2. L = 0 => turns = <<>>
      OBVIOUS
    <3>. HIDE DEF turns
    <3>. QED
      BY <3>1, <3>2
  <2>6. package_name = IF module_names = <<>> THEN <<GENERATED>> ELSE turns
    BY <2>3, <2>4
  <2>. HIDE DEF turns, L
  <2>. QED
    BY <2>1, <2>2, <2>5, <2>6
<1>. QED
  BY <1>1, <1>2, PTL

=============================================================================
