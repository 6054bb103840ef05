---------------------------- MODULE CdrCodec_proofs ----------------------------
(***************************************************************************)
(* Proofs about CdrCodec: what serialize() returns or throws for every     *)
(* object of every class, that deserialize() keeps types, and that it      *)
(* reads what serialize() wrote.  All by induction over the depth of a     *)
(* type.                                                                   *)
(***************************************************************************)
EXTENDS CdrCodec, SequenceTheorems, SetInduction, TLAPS

-----------------------------------------------------------------------------
(* Types. *)

LEMMA ScalarWidths ==
  /\ Scalars = {"bool", "octet", "char", "short", "ushort", "long", "ulong",
                "llong", "ullong", "float", "double"}
  /\ \A kind \in Scalars : Width[kind] \in 1..8
<1>1. Scalars = {"bool", "octet", "char", "short", "ushort", "long", "ulong",
                 "llong", "ullong", "float", "double"}
  BY DEF Scalars, Primitive
<1>. QED
  BY <1>1 DEF Width

(* The parts of a type are types and less deep. *)
LEMMA TypeParts ==
  ASSUME NEW t \in Types
  PROVE  /\ t.kind = "sequence" => t.elem \in Parts(t)
         /\ t.kind \in Nested =>
              /\ Fields(t) \in Seq(Types)
              /\ \A k \in DOMAIN Fields(t) : Fields(t)[k] \in Parts(t)
         /\ \A p \in Parts(t) : p \in Types /\ Depth[p] < Depth[t]
<1>1. \A p \in Parts(t) : p \in Types /\ Depth[p] < Depth[t]
  BY TypesAssumption
<1>2. ASSUME t.kind = "sequence"
      PROVE  t.elem \in Parts(t)
  <2>1. Parts(t) = {t.elem}
    BY <1>2 DEF Parts, Nested
  <2>. QED
    BY <2>1
<1>3. ASSUME t.kind \in Nested
      PROVE  Fields(t) \in Seq(Types) /\ \A k \in DOMAIN Fields(t) : Fields(t)[k] \in Parts(t)
  <2>1. Parts(t) = {Fields(t)[k] : k \in DOMAIN Fields(t)}
    BY <1>3 DEF Parts, Nested
  <2>2. CASE t.kind = "struct"
    <3>1. Fields(t) = t.members /\ t.members \in Seq(Types)
      BY <2>2, TypesAssumption DEF Fields
    <3>. QED
      BY <2>1, <3>1
  <2>3. CASE t.kind = "union"
    <3>. DEFINE d == [kind |-> IF Discriminator(t.disc) = "long" THEN "llong" ELSE "long"]
    <3>1. Fields(t) = <<d>> \o t.cases /\ t.cases \in Seq(Types)
      BY <2>3, TypesAssumption DEF Fields
    <3>. HIDE DEF d
    <3>2. <<d>> \o t.cases \in Seq(Types \cup {d})
      BY <3>1
    <3>3. \A k \in DOMAIN Fields(t) : Fields(t)[k] \in Types
      BY <1>1, <2>1
    <3>4. Fields(t) \in Seq(Types)
      BY <3>1, <3>2, <3>3
    <3>. QED
      BY <2>1, <3>4
  <2>. QED
    BY <1>3, <2>2, <2>3 DEF Nested
<1>. QED
  BY <1>1, <1>2, <1>3

(* What holds of a type when it holds of every type less deep holds of all
   types. *)
LEMMA TypeInduction ==
  ASSUME NEW S,
         \A t \in Types : (\A p \in Types : Depth[p] < Depth[t] => p \in S) => t \in S
  PROVE  Types \subseteq S
<1>. DEFINE Level == {n \in Nat : \A t \in Types : Depth[t] < n => t \in S}
<1>1. MaxDepth + 1 \in Nat /\ \A t \in Types : Depth[t] \in Nat /\ Depth[t] < MaxDepth + 1
  BY TypesAssumption
<1>2. 0 \in Level
  BY <1>1
<1>3. \A n \in 0..(MaxDepth + 1) : n < MaxDepth + 1 /\ n \in Level => n + 1 \in Level
  <2>1. SUFFICES ASSUME NEW n \in Nat, n \in Level,
                        NEW t \in Types, Depth[t] < n + 1
                 PROVE  t \in S
    OBVIOUS
  <2>2. \A p \in Types : Depth[p] < Depth[t] => p \in S
    BY <1>1, <2>1
  <2>. QED
    BY <2>1, <2>2
<1>4. 0..(MaxDepth + 1) \subseteq Level
  <2>. HIDE DEF Level
  <2>. QED
    BY <1>1, <1>2, <1>3, InductionUpTo
<1>. QED
  BY <1>1, <1>4

-----------------------------------------------------------------------------
(* The recursive functions are what their definitions say. *)

LEMMA ValuesUpToDef ==
  /\ DOMAIN ValuesUpTo = 0..MaxDepth
  /\ \A d \in 0..MaxDepth :
       ValuesUpTo[d] = {NULL} \cup [number : Int \cup {GARBAGE}] \cup [text : Seq(Int)]
                       \cup [items : Seq(IF d = 0 THEN {} ELSE ValuesUpTo[d-1])]
<1>. DEFINE Body(d, h) ==
       {NULL} \cup [number : Int \cup {GARBAGE}] \cup [text : Seq(Int)]
       \cup [items : Seq(IF d = 0 THEN {} ELSE h[d-1])]
     Known == {n \in Nat : \E h : h = [d \in 0..n |-> Body(d, h)]}
<1>1. MaxDepth \in Nat
  BY TypesAssumption
<1>2. \A d, h, g : h[d-1] = g[d-1] => Body(d, h) = Body(d, g)
  OBVIOUS
<1>3. \A h, g : Body(0, h) = Body(0, g)
  OBVIOUS
<1>. HIDE DEF Body
<1>4. 0 \in Known
  <2>. DEFINE h == [d \in 0..0 |-> Body(d, <<>>)]
  <2>1. \A d \in 0..0 : Body(d, <<>>) = Body(d, h)
    BY <1>3
  <2>2. h = [d \in 0..0 |-> Body(d, h)]
    BY <2>1
  <2>. HIDE DEF h
  <2>. QED
    BY <2>2
<1>5. \A n \in 0..MaxDepth : n < MaxDepth /\ n \in Known => n + 1 \in Known
  <2>1. SUFFICES ASSUME NEW n \in 0..MaxDepth, n \in Known
                 PROVE  n + 1 \in Known
    OBVIOUS
  <2>2. PICK h : h = [d \in 0..n |-> Body(d, h)]
    BY <2>1
  <2>. DEFINE g == [d \in 0..(n + 1) |-> Body(d, h)]
  <2>3. \A d \in 0..n : g[d] = h[d]
    BY <2>1, <2>2
  <2>4. ASSUME NEW d \in 0..(n + 1)
        PROVE  Body(d, g) = Body(d, h)
    <3>1. d = 0 \/ d - 1 \in 0..n
      BY <2>1
    <3>2. CASE d - 1 \in 0..n
      BY <3>2, <2>3, <1>2
    <3>. QED
      BY <3>1, <3>2, <1>3
  <2>5. g = [d \in 0..(n + 1) |-> Body(d, g)]
    BY <2>4
  <2>. HIDE DEF g
  <2>6. n + 1 \in Nat
    BY <2>1
  <2>. QED
    BY <2>5, <2>6
<1>6. MaxDepth \in Known
  <2>. HIDE DEF Known
  <2>. QED
    BY <1>1, <1>4, <1>5, InductionUpTo
<1>7. ValuesUpTo = [d \in 0..MaxDepth |-> Body(d, ValuesUpTo)]
  <2>1. ValuesUpTo = CHOOSE h : h = [d \in 0..MaxDepth |-> Body(d, h)]
    BY DEF ValuesUpTo, Body
  <2>. QED
    BY <1>6, <2>1
<1>8. ASSUME NEW d \in 0..MaxDepth
      PROVE  ValuesUpTo[d] = Body(d, ValuesUpTo)
  BY <1>7
<1>. QED
  BY <1>7, <1>8 DEF Body

(* The types less deep than n. *)
Below(n) == {t \in Types : Depth[t] < n}

LEMMA BelowAll ==
  /\ MaxDepth + 1 \in Nat
  /\ Below(0) = {} /\ Below(MaxDepth + 1) = Types
  /\ \A n \in Nat : Below(n) \subseteq Below(n + 1) /\ Below(n + 1) \subseteq Types
  /\ \A n \in Nat : \A t \in Below(n + 1), p \in Types :
       Depth[p] < Depth[t] => p \in Below(n)
BY TypesAssumption DEF Below

LEMMA OfTypeRelies ==
  ASSUME NEW t \in Types, NEW numbers, NEW h, NEW g,
         \A p \in Types : Depth[p] < Depth[t] => h[p] = g[p]
  PROVE  OfType(t, numbers, h) = OfType(t, numbers, g)
<1>1. \A p \in Parts(t) : h[p] = g[p]
  BY TypeParts
<1>2. CASE t.kind = "sequence"
  <2>1. h[t.elem] = g[t.elem]
    BY <1>1, <1>2, TypeParts
  <2>. QED
    BY <2>1 DEF OfType
<1>3. CASE t.kind \in Nested
  <2>1. \A k \in DOMAIN Fields(t) : h[Fields(t)[k]] = g[Fields(t)[k]]
    BY <1>1, <1>3, TypeParts
  <2>2. DOMAIN Fields(t) = 1..Len(Fields(t))
    BY <1>3, TypeParts
  <2>3. ASSUME NEW o \in [items : Seq(ValuesUpTo[MaxDepth])], Len(o.items) = Len(Fields(t))
        PROVE  \A k \in DOMAIN o.items : h[Fields(t)[k]] = g[Fields(t)[k]]
    BY <2>1, <2>2, <2>3
  <2>. DEFINE Is(parts) ==
         {o \in [items : Seq(ValuesUpTo[MaxDepth])] :
            /\ Len(o.items) = Len(Fields(t))
            /\ \A k \in DOMAIN o.items : o.items[k] \in parts[Fields(t)[k]]}
  <2>4. Is(h) = Is(g)
    BY <2>3
  <2>5. OfType(t, numbers, h) = Is(h) /\ OfType(t, numbers, g) = Is(g)
    BY <1>3 DEF OfType, Nested
  <2>. QED
    BY <2>4, <2>5
<1>4. CASE t.kind \notin Nested \cup {"sequence"}
  BY <1>4 DEF OfType, Nested
<1>. QED
  BY <1>2, <1>3, <1>4

LEMMA HeldDef ==
  /\ DOMAIN Held = Types
  /\ \A t \in Types : Held[t] = OfType(t, Int \cup {GARBAGE}, Held) \cup {NULL}
<1>. DEFINE Body(t, h) == OfType(t, Int \cup {GARBAGE}, h) \cup {NULL}
     Known == {n \in Nat : \E h : h = [t \in Below(n) |-> Body(t, h)]}
<1>1. \A t \in Types : \A h, g :
        (\A p \in Types : Depth[p] < Depth[t] => h[p] = g[p]) => Body(t, h) = Body(t, g)
  BY OfTypeRelies
<1>. HIDE DEF Body
<1>2. 0 \in Known
  <2>1. <<>> = [t \in Below(0) |-> Body(t, <<>>)]
    BY BelowAll
  <2>. QED
    BY <2>1
<1>3. \A n \in 0..(MaxDepth + 1) : n < MaxDepth + 1 /\ n \in Known => n + 1 \in Known
  <2>1. SUFFICES ASSUME NEW n \in Nat, n \in Known
                 PROVE  n + 1 \in Known
    OBVIOUS
  <2>2. PICK h : h = [t \in Below(n) |-> Body(t, h)]
    BY <2>1
  <2>. DEFINE g == [t \in Below(n + 1) |-> Body(t, h)]
  <2>3. \A t \in Below(n) : g[t] = h[t]
    BY <2>1, <2>2, BelowAll
  <2>4. ASSUME NEW t \in Below(n + 1)
        PROVE  Body(t, g) = Body(t, h)
    <3>1. t \in Types /\ \A p \in Types : Depth[p] < Depth[t] => p \in Below(n)
      BY <2>1, BelowAll
    <3>. HIDE DEF g
    <3>2. \A p \in Types : Depth[p] < Depth[t] => g[p] = h[p]
      BY <3>1, <2>3
    <3>. QED
      BY <3>1, <3>2, <1>1
  <2>5. g = [t \in Below(n + 1) |-> Body(t, g)]
    BY <2>4
  <2>. HIDE DEF g
  <2>. QED
    BY <2>5
<1>4. MaxDepth + 1 \in Known
  <2>. HIDE DEF Known
  <2>. QED
    BY <1>2, <1>3, BelowAll, InductionUpTo
<1>5. Held = [t \in Types |-> Body(t, Held)]
  <2>1. Held = CHOOSE h : h = [t \in Types |-> Body(t, h)]
    BY DEF Held, Body
  <2>. QED
    BY <1>4, <2>1, BelowAll
<1>6. ASSUME NEW t \in Types
      PROVE  Held[t] = Body(t, Held)
  BY <1>5
<1>. QED
  BY <1>5, <1>6 DEF Body

-----------------------------------------------------------------------------
(* What steps make of a start. *)

(* The steps of start are at[0], at[1], ..., at[n]. *)
Steps(at, n, start, step) ==
  at[0] = start /\ \A k \in 1..n : at[k] = step[k][at[k-1]]

LEMMA Iterates ==
  ASSUME NEW n \in Nat, NEW S, NEW start \in S, NEW step \in [1..n -> [S -> S]]
  PROVE  \E at \in [0..n -> S] : Steps(at, n, start, step)
<1>. DEFINE Known == {m \in 0..n : \E at \in [0..m -> S] :
                        at[0] = start /\ \A k \in 1..m : at[k] = step[k][at[k-1]]}
<1>1. 0 \in Known
  <2>. DEFINE at == [k \in 0..0 |-> start]
  <2>1. at \in [0..0 -> S] /\ at[0] = start
    OBVIOUS
  <2>. HIDE DEF at
  <2>. QED
    BY <2>1
<1>2. \A m \in 0..n : m < n /\ m \in Known => m + 1 \in Known
  <2>1. SUFFICES ASSUME NEW m \in 0..n, m < n, m \in Known
                 PROVE  m + 1 \in Known
    OBVIOUS
  <2>2. PICK at \in [0..m -> S] :
               at[0] = start /\ \A k \in 1..m : at[k] = step[k][at[k-1]]
    BY <2>1
  <2>. DEFINE next == [k \in 0..(m + 1) |-> IF k = m + 1 THEN step[k][at[k-1]] ELSE at[k]]
  <2>3. step[m + 1] \in [S -> S] /\ at[m] \in S /\ (m + 1) - 1 = m
    BY <2>1
  <2>4. next \in [0..(m + 1) -> S]
    BY <2>1, <2>3
  <2>5. \A k \in 0..m : next[k] = at[k]
    BY <2>1
  <2>6. next[m + 1] = step[m + 1][at[m]]
    BY <2>1, <2>3
  <2>. HIDE DEF next
  <2>7. next[0] = start
    BY <2>1, <2>2, <2>5
  <2>8. ASSUME NEW k \in 1..(m + 1)
        PROVE  next[k] = step[k][next[k-1]]
    <3>1. k - 1 \in 0..m /\ (k = m + 1 \/ k \in 1..m)
      BY <2>1
    <3>2. next[k-1] = at[k-1]
      BY <2>5, <3>1
    <3>3. CASE k = m + 1
      BY <2>3, <2>6, <3>2, <3>3
    <3>4. CASE k \in 1..m
      BY <2>1, <2>2, <2>5, <3>2, <3>4
    <3>. QED
      BY <3>1, <3>3, <3>4
  <2>9. m + 1 \in 0..n
    BY <2>1
  <2>. QED
    BY <2>4, <2>7, <2>8, <2>9
<1>3. 0..n \subseteq Known
  <2>. HIDE DEF Known
  <2>. QED
    BY <1>1, <1>2, InductionUpTo
<1>. QED
  BY <1>3 DEF Steps

(* The same as long as the steps are taken in S. *)
StepsIn(S, at, n, start, step) ==
  at[0] = start /\ \A k \in 1..n : at[k-1] \in S => at[k] = step[k][at[k-1]]

LEMMA Trace ==
  ASSUME NEW n \in Nat, NEW S, NEW start \in S, NEW step \in [1..n -> [S -> S]],
         NEW at, StepsIn(S, at, n, start, step)
  PROVE  \A k \in 0..n : at[k] \in S
<1>. DEFINE Typed == {k \in 0..n : at[k] \in S}
<1>1. 0 \in Typed
  BY DEF StepsIn
<1>2. \A k \in 0..n : k < n /\ k \in Typed => k + 1 \in Typed
  <2>1. SUFFICES ASSUME NEW k \in 0..n, k < n, at[k] \in S
                 PROVE  k + 1 \in 0..n /\ at[k + 1] \in S
    OBVIOUS
  <2>2. k + 1 \in 1..n /\ (k + 1) - 1 = k
    BY <2>1
  <2>3. at[k + 1] = step[k + 1][at[k]]
    BY <2>1, <2>2 DEF StepsIn
  <2>. QED
    BY <2>1, <2>2, <2>3
<1>3. 0..n \subseteq Typed
  <2>. HIDE DEF Typed
  <2>. QED
    BY <1>1, <1>2, InductionUpTo
<1>. QED
  BY <1>3

-----------------------------------------------------------------------------
(* Values. *)

(* What a program sends has its type. *)
LEMMA SentValues ==
  ASSUME NEW t \in Types, NEW v \in Values[t], v # NULL
  PROVE  /\ t.kind \in {"string", "wstring"} => v \in [text : Seq(Int)]
         /\ t.kind = "sequence" => v \in [items : Seq(Values[t.elem])]
         /\ t.kind \in Nested =>
              /\ v.items \in Seq(ValuesUpTo[MaxDepth]) /\ v = [items |-> v.items]
              /\ Len(v.items) = Len(Fields(t))
              /\ \A k \in DOMAIN v.items :
                   /\ v.items[k] \in Values[Fields(t)[k]]
                   /\ Fields(t)[k].kind \in Scalars => v.items[k] # NULL
         /\ t.kind \notin {"string", "wstring", "sequence"} \cup Nested => v \in [number : Int]
<1>1. v \in OfType(t, Int, Values)
  BY ValuesAssumption
<1>2. CASE t.kind \in Nested
  <2>. DEFINE objects == {o \in [items : Seq(ValuesUpTo[MaxDepth])] :
                            /\ Len(o.items) = Len(Fields(t))
                            /\ \A k \in DOMAIN o.items : o.items[k] \in Values[Fields(t)[k]]}
  <2>1. OfType(t, Int, Values) = objects
    BY <1>2 DEF OfType, Nested
  <2>2. v \in objects
    BY <1>1, <2>1
  <2>3. \A k \in DOMAIN v.items : Fields(t)[k].kind \in Scalars => v.items[k] # NULL
    BY <1>2, ValuesAssumption
  <2>. QED
    BY <1>2, <2>2, <2>3 DEF Nested
<1>3. CASE t.kind \notin Nested
  BY <1>1, <1>3 DEF OfType
<1>. QED
  BY <1>2, <1>3

LEMMA ObjectValues ==
  ASSUME NEW t \in Class, NEW o \in Values[t] \ {NULL}
  PROVE  Len(o.items) \in Nat /\ 1..Len(o.items) = DOMAIN Fields(t)
<1>1. /\ o.items \in Seq(ValuesUpTo[MaxDepth]) /\ Len(o.items) = Len(Fields(t))
      /\ Fields(t) \in Seq(Types)
  BY SentValues, TypeParts DEF Class
<1>. QED
  BY <1>1

-----------------------------------------------------------------------------
(* serialize(). *)

LEMMA PutElementRelies ==
  ASSUME NEW t, NEW h, NEW g, t.kind \in Nested => h[t] = g[t],
         NEW buffer, NEW e
  PROVE  PutElement(h, buffer, t, e) = PutElement(g, buffer, t, e)
<1>1. CASE t.kind \in Nested
  <2>1. PutObject(h, buffer, t, e) = PutObject(g, buffer, t, e)
    BY <1>1 DEF PutObject
  <2>. QED
    BY <2>1 DEF PutElement
<1>2. CASE t.kind \notin Nested
  BY <1>2 DEF PutElement
<1>. QED
  BY <1>1, <1>2

LEMMA PutSequenceRelies ==
  ASSUME NEW t, NEW h, NEW g, t.elem.kind \in Nested => h[t.elem] = g[t.elem],
         NEW buffer, NEW list
  PROVE  PutSequence(h, buffer, t, list) = PutSequence(g, buffer, t, list)
<1>. DEFINE H(k, b) == PutElement(h, b, t.elem, list.items[k])
            G(k, b) == PutElement(g, b, t.elem, list.items[k])
            start == Put(buffer, Number(Len(list.items), 4))
            n == Len(list.items)
            ofH(f) == [k \in 0..n |-> IF k = 0 THEN start ELSE H(k, f[k-1])]
            ofG(f) == [k \in 0..n |-> IF k = 0 THEN start ELSE G(k, f[k-1])]
<1>1. \A k, b : H(k, b) = G(k, b)
  BY PutElementRelies
<1>2. After(H, start, n) = (CHOOSE f : f = ofH(f))[n]
  BY DEF After
<1>3. After(G, start, n) = (CHOOSE f : f = ofG(f))[n]
  BY DEF After
<1>4. \A f : ofH(f) = ofG(f)
  <2>. HIDE DEF H, G, start, n
  <2>. QED
    BY <1>1
<1>5. (CHOOSE f : f = ofH(f)) = CHOOSE f : f = ofG(f)
  <2>. HIDE DEF ofH, ofG
  <2>. QED
    BY <1>4
<1>6. After(H, start, n) = After(G, start, n)
  <2>. HIDE DEF ofH, ofG, H, G, start, n
  <2>. QED
    BY <1>2, <1>3, <1>5
<1>. HIDE DEF start, n
<1>. QED
  BY <1>6 DEF PutSequence, start, n

LEMMA PutMemberRelies ==
  ASSUME NEW t, NEW h, NEW g, t.kind \in Nested => h[t] = g[t],
         t.kind = "sequence" /\ t.elem.kind \in Nested => h[t.elem] = g[t.elem],
         NEW buffer, NEW v
  PROVE  PutMember(h, buffer, t, v) = PutMember(g, buffer, t, v)
<1>1. CASE t.kind \in Nested
  <2>1. PutObject(h, buffer, t, v) = PutObject(g, buffer, t, v)
    BY <1>1 DEF PutObject
  <2>. QED
    BY <1>1, <2>1 DEF PutMember, Nested
<1>2. CASE t.kind = "sequence"
  <2>1. PutSequence(h, buffer, t, v) = PutSequence(g, buffer, t, v)
    BY <1>2, PutSequenceRelies
  <2>. QED
    BY <1>2, <2>1 DEF PutMember, Nested
<1>3. CASE t.kind \notin Nested \cup {"sequence"}
  BY <1>3 DEF PutMember
<1>. QED
  BY <1>1, <1>2, <1>3

(* What is below a type: its fields and the elements of those. *)
LEMMA BelowType ==
  ASSUME NEW t \in Class, NEW k \in DOMAIN Fields(t)
  PROVE  /\ Fields(t)[k] \in Types /\ Depth[Fields(t)[k]] < Depth[t]
         /\ Fields(t)[k].kind \in Nested => Fields(t)[k] \in Class
         /\ Fields(t)[k].kind = "sequence" =>
              /\ Fields(t)[k].elem \in Types /\ Depth[Fields(t)[k].elem] < Depth[t]
              /\ Fields(t)[k].elem.kind \in Nested => Fields(t)[k].elem \in Class
<1>. DEFINE f == Fields(t)[k]
<1>1. f \in Types /\ Depth[f] < Depth[t]
  BY TypeParts DEF Class
<1>. HIDE DEF f
<1>2. f.kind = "sequence" => f.elem \in Types /\ Depth[f.elem] < Depth[f]
  BY <1>1, TypeParts
<1>3. f.kind = "sequence" => Depth[f.elem] < Depth[t]
  BY <1>1, <1>2, TypesAssumption DEF Class
<1>. QED
  BY <1>1, <1>2, <1>3 DEF f, Class

LEMMA PutMembersRelies ==
  ASSUME NEW t \in Class, NEW h, NEW g,
         \A p \in Class : Depth[p] < Depth[t] => h[p] = g[p],
         NEW o \in Values[t] \ {NULL}
  PROVE  PutMembers(h, t, o) = PutMembers(g, t, o)
<1>1. Len(o.items) \in Nat /\ 1..Len(o.items) = DOMAIN Fields(t)
  BY ObjectValues
<1>. DEFINE n == Len(o.items)
            H(k, b) == PutMember(h, b, Fields(t)[k], o.items[k])
            G(k, b) == PutMember(g, b, Fields(t)[k], o.items[k])
            start == [bytes |-> <<>>, error |-> "none"]
            ofH(f) == [k \in 0..n |-> IF k = 0 THEN start ELSE H(k, f[k-1])]
            ofG(f) == [k \in 0..n |-> IF k = 0 THEN start ELSE G(k, f[k-1])]
<1>2. \A k \in 1..n : \A b : H(k, b) = G(k, b)
  <2>1. SUFFICES ASSUME NEW k \in DOMAIN Fields(t), NEW b
                 PROVE  PutMember(h, b, Fields(t)[k], o.items[k])
                          = PutMember(g, b, Fields(t)[k], o.items[k])
    BY <1>1
  <2>2. Fields(t)[k].kind \in Nested => h[Fields(t)[k]] = g[Fields(t)[k]]
    BY BelowType
  <2>3. Fields(t)[k].kind = "sequence" /\ Fields(t)[k].elem.kind \in Nested =>
          h[Fields(t)[k].elem] = g[Fields(t)[k].elem]
    BY BelowType
  <2>. QED
    BY <2>2, <2>3, PutMemberRelies
<1>3. PutMembers(h, t, o) = After(H, start, n) /\ PutMembers(g, t, o) = After(G, start, n)
  BY DEF PutMembers
<1>4. After(H, start, n) = (CHOOSE f : f = ofH(f))[n]
  BY DEF After
<1>5. After(G, start, n) = (CHOOSE f : f = ofG(f))[n]
  BY DEF After
<1>6. \A f : ofH(f) = ofG(f)
  <2>1. \A k \in 0..n : k = 0 \/ k \in 1..n
    BY <1>1
  <2>. HIDE DEF H, G, start, n
  <2>. QED
    BY <1>2, <2>1
<1>7. (CHOOSE f : f = ofH(f)) = CHOOSE f : f = ofG(f)
  <2>. HIDE DEF ofH, ofG
  <2>. QED
    BY <1>6
<1>. HIDE DEF ofH, ofG, H, G, start, n
<1>. QED
  BY <1>3, <1>4, <1>5, <1>7

LEMMA SerializeDef ==
  /\ DOMAIN Serialize = Class
  /\ \A t \in Class : Serialize[t] = [o \in Values[t] \ {NULL} |-> PutMembers(Serialize, t, o)]
<1>. DEFINE Body(t, h) == [o \in Values[t] \ {NULL} |-> PutMembers(h, t, o)]
            Known == {n \in Nat : \E h : h = [t \in Below(n) \cap Class |-> Body(t, h)]}
<1>1. ASSUME NEW t \in Class, NEW h, NEW g,
             \A p \in Class : Depth[p] < Depth[t] => h[p] = g[p]
      PROVE  Body(t, h) = Body(t, g)
  <2>1. \A o \in Values[t] \ {NULL} : PutMembers(h, t, o) = PutMembers(g, t, o)
    BY <1>1, PutMembersRelies
  <2>. QED
    BY <2>1
<1>. HIDE DEF Body
<1>2. 0 \in Known
  <2>1. <<>> = [t \in Below(0) \cap Class |-> Body(t, <<>>)]
    BY BelowAll
  <2>. QED
    BY <2>1
<1>3. \A n \in 0..(MaxDepth + 1) : n < MaxDepth + 1 /\ n \in Known => n + 1 \in Known
  <2>1. SUFFICES ASSUME NEW n \in Nat, n \in Known
                 PROVE  n + 1 \in Known
    OBVIOUS
  <2>2. PICK h : h = [t \in Below(n) \cap Class |-> Body(t, h)]
    BY <2>1
  <2>. DEFINE g == [t \in Below(n + 1) \cap Class |-> Body(t, h)]
  <2>3. \A t \in Below(n) \cap Class : g[t] = h[t]
    BY <2>1, <2>2, BelowAll
  <2>4. ASSUME NEW t \in Below(n + 1) \cap Class
        PROVE  Body(t, g) = Body(t, h)
    <3>1. t \in Class /\ \A p \in Class : Depth[p] < Depth[t] => p \in Below(n) \cap Class
      BY <2>1, BelowAll DEF Class
    <3>. HIDE DEF g
    <3>2. \A p \in Class : Depth[p] < Depth[t] => g[p] = h[p]
      BY <3>1, <2>3
    <3>. QED
      BY <3>1, <3>2, <1>1
  <2>5. g = [t \in Below(n + 1) \cap Class |-> Body(t, g)]
    BY <2>4
  <2>. HIDE DEF g
  <2>. QED
    BY <2>5
<1>4. MaxDepth + 1 \in Known
  <2>. HIDE DEF Known
  <2>. QED
    BY <1>2, <1>3, BelowAll, InductionUpTo
<1>5. Serialize = [t \in Class |-> Body(t, Serialize)]
  <2>1. Serialize = CHOOSE h : h = [t \in Class |-> Body(t, h)]
    BY DEF Serialize, Body
  <2>2. Below(MaxDepth + 1) \cap Class = Class
    BY BelowAll DEF Class
  <2>. QED
    BY <1>4, <2>1, <2>2
<1>6. ASSUME NEW t \in Class
      PROVE  Serialize[t] = Body(t, Serialize)
  BY <1>5
<1>. QED
  BY <1>5, <1>6 DEF Body

-----------------------------------------------------------------------------
(* The bytes an object takes, and the null values it asks. *)

LEMMA SizeRelies ==
  ASSUME NEW t \in Types, NEW h, NEW g,
         \A p \in Types : Depth[p] < Depth[t] => h[p] = g[p],
         NEW v \in Values[t]
  PROVE  Size(h, t, v) = Size(g, t, v)
<1>1. ASSUME t.kind = "sequence"
      PROVE  ElementsSize(h, t, v) = ElementsSize(g, t, v)
  <2>. DEFINE n == Len(v.items)
              ofH(f) == [k \in 0..n |-> IF k = 0 THEN 0 ELSE f[k-1] + h[t.elem][v.items[k]]]
              ofG(f) == [k \in 0..n |-> IF k = 0 THEN 0 ELSE f[k-1] + g[t.elem][v.items[k]]]
  <2>1. h[t.elem] = g[t.elem]
    BY <1>1, TypeParts
  <2>2. ElementsSize(h, t, v) = (CHOOSE f : f = ofH(f))[n]
    BY DEF After, ElementsSize
  <2>3. ElementsSize(g, t, v) = (CHOOSE f : f = ofG(f))[n]
    BY DEF After, ElementsSize
  <2>4. \A f : ofH(f) = ofG(f)
    BY <2>1
  <2>. HIDE DEF ofH, ofG, n
  <2>. QED
    BY <2>2, <2>3, <2>4
<1>2. ASSUME v # NULL, t.kind \in Nested
      PROVE  FieldsSize(h, t, v) = FieldsSize(g, t, v)
  <2>. DEFINE n == Len(v.items)
              ofH(f) == [k \in 0..n |->
                           IF k = 0 THEN 0
                           ELSE IF Fields(t)[k].kind \in {"bitmask", "wstring"} THEN f[k-1]
                           ELSE f[k-1] + h[Fields(t)[k]][v.items[k]]]
              ofG(f) == [k \in 0..n |->
                           IF k = 0 THEN 0
                           ELSE IF Fields(t)[k].kind \in {"bitmask", "wstring"} THEN f[k-1]
                           ELSE f[k-1] + g[Fields(t)[k]][v.items[k]]]
  <2>1. \A k \in 0..n : k = 0 \/ h[Fields(t)[k]] = g[Fields(t)[k]]
    <3>1. n \in Nat /\ 1..n = DOMAIN Fields(t)
      BY <1>2, ObjectValues DEF Class
    <3>2. \A k \in DOMAIN Fields(t) : h[Fields(t)[k]] = g[Fields(t)[k]]
      BY <1>2, BelowType DEF Class
    <3>3. \A k \in 0..n : k = 0 \/ k \in 1..n
      BY <3>1
    <3>. HIDE DEF n
    <3>. QED
      BY <3>1, <3>2, <3>3
  <2>2. FieldsSize(h, t, v) = (CHOOSE f : f = ofH(f))[n]
    BY DEF After, FieldsSize
  <2>3. FieldsSize(g, t, v) = (CHOOSE f : f = ofG(f))[n]
    BY DEF After, FieldsSize
  <2>4. \A f : ofH(f) = ofG(f)
    BY <2>1
  <2>. HIDE DEF ofH, ofG, n
  <2>. QED
    BY <2>2, <2>3, <2>4
<1>3. "sequence" \notin Nested /\ Scalars \cap ({"sequence"} \cup Nested) = {}
  BY ScalarWidths DEF Nested
<1>4. CASE t.kind = "sequence"
  BY <1>1, <1>3, <1>4 DEF Size
<1>5. CASE t.kind \in Nested
  <2>1. t.kind \notin Scalars \cup {"sequence", "string", "wstring", "bitmask"}
    BY <1>3, <1>5 DEF Nested
  <2>. QED
    BY <1>2, <1>5, <2>1 DEF Size
<1>6. CASE t.kind \notin Nested \cup {"sequence"}
  BY <1>6 DEF Size
<1>. QED
  BY <1>4, <1>5, <1>6

LEMMA SizeOfDef ==
  /\ DOMAIN SizeOf = Types
  /\ \A t \in Types : SizeOf[t] = [v \in Values[t] |-> Size(SizeOf, t, v)]
<1>. DEFINE Body(t, h) == [v \in Values[t] |-> Size(h, t, v)]
            Known == {n \in Nat : \E h : h = [t \in Below(n) |-> Body(t, h)]}
<1>1. ASSUME NEW t \in Types, NEW h, NEW g,
             \A p \in Types : Depth[p] < Depth[t] => h[p] = g[p]
      PROVE  Body(t, h) = Body(t, g)
  <2>1. \A v \in Values[t] : Size(h, t, v) = Size(g, t, v)
    BY <1>1, SizeRelies
  <2>. QED
    BY <2>1
<1>. HIDE DEF Body
<1>2. 0 \in Known
  <2>1. <<>> = [t \in Below(0) |-> Body(t, <<>>)]
    BY BelowAll
  <2>. QED
    BY <2>1
<1>3. \A n \in 0..(MaxDepth + 1) : n < MaxDepth + 1 /\ n \in Known => n + 1 \in Known
  <2>1. SUFFICES ASSUME NEW n \in Nat, n \in Known
                 PROVE  n + 1 \in Known
    OBVIOUS
  <2>2. PICK h : h = [t \in Below(n) |-> Body(t, h)]
    BY <2>1
  <2>. DEFINE g == [t \in Below(n + 1) |-> Body(t, h)]
  <2>3. \A t \in Below(n) : g[t] = h[t]
    BY <2>1, <2>2, BelowAll
  <2>4. ASSUME NEW t \in Below(n + 1)
        PROVE  Body(t, g) = Body(t, h)
    <3>1. t \in Types /\ \A p \in Types : Depth[p] < Depth[t] => p \in Below(n)
      BY <2>1, BelowAll DEF Class
    <3>. HIDE DEF g
    <3>2. \A p \in Types : Depth[p] < Depth[t] => g[p] = h[p]
      BY <3>1, <2>3
    <3>. QED
      BY <3>1, <3>2, <1>1
  <2>5. g = [t \in Below(n + 1) |-> Body(t, g)]
    BY <2>4
  <2>. HIDE DEF g
  <2>. QED
    BY <2>5
<1>4. MaxDepth + 1 \in Known
  <2>. HIDE DEF Known
  <2>. QED
    BY <1>2, <1>3, BelowAll, InductionUpTo
<1>5. SizeOf = [t \in Types |-> Body(t, SizeOf)]
  <2>1. SizeOf = CHOOSE h : h = [t \in Types |-> Body(t, h)]
    BY DEF SizeOf, Body
  <2>2. Below(MaxDepth + 1) = Types
    BY BelowAll DEF Class
  <2>. QED
    BY <1>4, <2>1, <2>2
<1>6. ASSUME NEW t \in Types
      PROVE  SizeOf[t] = Body(t, SizeOf)
  BY <1>5
<1>. QED
  BY <1>5, <1>6 DEF Body

LEMMA AsksRelies ==
  ASSUME NEW t \in Types, NEW h, NEW g,
         \A p \in Types : Depth[p] < Depth[t] => h[p] = g[p],
         NEW v \in Values[t]
  PROVE  Asks(h, t, v) = Asks(g, t, v)
<1>1. CASE t.kind = "sequence"
  <2>1. h[t.elem] = g[t.elem]
    BY <1>1, TypeParts
  <2>. QED
    BY <1>1, <2>1 DEF Asks
<1>2. CASE t.kind \in Nested /\ v # NULL
  <2>1. DOMAIN v.items = DOMAIN Fields(t)
    <3>1. Fields(t) \in Seq(Types) /\ v.items \in Seq(ValuesUpTo[MaxDepth])
          /\ Len(v.items) = Len(Fields(t))
      BY <1>2, SentValues, TypeParts
    <3>. QED
      BY <3>1
  <2>2. \A k \in DOMAIN v.items : h[Fields(t)[k]] = g[Fields(t)[k]]
    BY <1>2, <2>1, BelowType DEF Class
  <2>3. (\E k \in DOMAIN v.items : h[Fields(t)[k]][v.items[k]])
          = \E k \in DOMAIN v.items : g[Fields(t)[k]][v.items[k]]
    BY <2>2
  <2>4. /\ Asks(h, t, v) = \E k \in DOMAIN v.items : h[Fields(t)[k]][v.items[k]]
        /\ Asks(g, t, v) = \E k \in DOMAIN v.items : g[Fields(t)[k]][v.items[k]]
    BY <1>2 DEF Asks, Nested
  <2>. QED
    BY <2>3, <2>4
<1>3. CASE t.kind # "sequence" /\ ~ (t.kind \in Nested /\ v # NULL)
  BY <1>3 DEF Asks
<1>. QED
  BY <1>1, <1>2, <1>3

LEMMA NullAskedDef ==
  /\ DOMAIN NullAsked = Types
  /\ \A t \in Types : NullAsked[t] = [v \in Values[t] |-> Asks(NullAsked, t, v)]
<1>. DEFINE Body(t, h) == [v \in Values[t] |-> Asks(h, t, v)]
            Known == {n \in Nat : \E h : h = [t \in Below(n) |-> Body(t, h)]}
<1>1. ASSUME NEW t \in Types, NEW h, NEW g,
             \A p \in Types : Depth[p] < Depth[t] => h[p] = g[p]
      PROVE  Body(t, h) = Body(t, g)
  <2>1. \A v \in Values[t] : Asks(h, t, v) = Asks(g, t, v)
    BY <1>1, AsksRelies
  <2>. QED
    BY <2>1
<1>. HIDE DEF Body
<1>2. 0 \in Known
  <2>1. <<>> = [t \in Below(0) |-> Body(t, <<>>)]
    BY BelowAll
  <2>. QED
    BY <2>1
<1>3. \A n \in 0..(MaxDepth + 1) : n < MaxDepth + 1 /\ n \in Known => n + 1 \in Known
  <2>1. SUFFICES ASSUME NEW n \in Nat, n \in Known
                 PROVE  n + 1 \in Known
    OBVIOUS
  <2>2. PICK h : h = [t \in Below(n) |-> Body(t, h)]
    BY <2>1
  <2>. DEFINE g == [t \in Below(n + 1) |-> Body(t, h)]
  <2>3. \A t \in Below(n) : g[t] = h[t]
    BY <2>1, <2>2, BelowAll
  <2>4. ASSUME NEW t \in Below(n + 1)
        PROVE  Body(t, g) = Body(t, h)
    <3>1. t \in Types /\ \A p \in Types : Depth[p] < Depth[t] => p \in Below(n)
      BY <2>1, BelowAll DEF Class
    <3>. HIDE DEF g
    <3>2. \A p \in Types : Depth[p] < Depth[t] => g[p] = h[p]
      BY <3>1, <2>3
    <3>. QED
      BY <3>1, <3>2, <1>1
  <2>5. g = [t \in Below(n + 1) |-> Body(t, g)]
    BY <2>4
  <2>. HIDE DEF g
  <2>. QED
    BY <2>5
<1>4. MaxDepth + 1 \in Known
  <2>. HIDE DEF Known
  <2>. QED
    BY <1>2, <1>3, BelowAll, InductionUpTo
<1>5. NullAsked = [t \in Types |-> Body(t, NullAsked)]
  <2>1. NullAsked = CHOOSE h : h = [t \in Types |-> Body(t, h)]
    BY DEF NullAsked, Body
  <2>2. Below(MaxDepth + 1) = Types
    BY BelowAll DEF Class
  <2>. QED
    BY <1>4, <2>1, <2>2
<1>6. ASSUME NEW t \in Types
      PROVE  NullAsked[t] = Body(t, NullAsked)
  BY <1>5
<1>. QED
  BY <1>5, <1>6 DEF Body

-----------------------------------------------------------------------------
(* What the put operations do to a buffer.  Of n bytes where `asked' says  *)
(* that a null value is asked for, they put all of them, or end with an    *)
(* exception, because of the null or for want of room.                     *)

Buffer == [bytes : {s \in Seq(Byte) : Len(s) <= Capacity}, error : Errors]

Empty == [bytes |-> <<>>, error |-> "none"]

Adds(b, c, n, asked) ==
  /\ b \in Buffer /\ c \in Buffer
  /\ b.error # "none" => c.error # "none"
  /\ b.error = "none" /\ c.error = "none" => ~asked /\ Len(c.bytes) = Len(b.bytes) + n
  /\ b.error = "none" /\ c.error # "none" => asked \/ Len(b.bytes) + n > Capacity

LEMMA BufferIs ==
  /\ Empty \in Buffer
  /\ \A b \in Buffer : b.bytes \in Seq(Byte) /\ Len(b.bytes) \in 0..Capacity /\ b.error \in Errors
  /\ \A bytes \in Seq(Byte), e \in Errors :
       Len(bytes) <= Capacity => [bytes |-> bytes, error |-> e] \in Buffer
<1>1. Empty \in Buffer
  BY CapacityAssumption DEF Empty, Buffer, Errors
<1>2. ASSUME NEW b \in Buffer
      PROVE  b.bytes \in Seq(Byte) /\ Len(b.bytes) \in 0..Capacity /\ b.error \in Errors
  BY CapacityAssumption DEF Buffer
<1>. QED
  BY <1>1, <1>2 DEF Buffer

LEMMA AddsNothing ==
  ASSUME NEW b \in Buffer
  PROVE  Adds(b, b, 0, FALSE)
BY BufferIs DEF Adds

LEMMA AddsTogether ==
  ASSUME NEW b, NEW c, NEW d, NEW n \in Nat, NEW m \in Nat, NEW first, NEW second,
         Adds(b, c, n, first), Adds(c, d, m, second)
  PROVE  Adds(b, d, n + m, first \/ second)
<1>1. /\ b \in Buffer /\ c \in Buffer /\ d \in Buffer
      /\ Len(b.bytes) \in Nat /\ Len(c.bytes) \in Nat /\ Len(d.bytes) \in Nat
  BY BufferIs DEF Adds
<1>2. CASE b.error # "none"
  BY <1>1, <1>2 DEF Adds
<1>3. CASE b.error = "none" /\ c.error # "none"
  <2>1. d.error # "none" /\ (first \/ Len(b.bytes) + n > Capacity)
    BY <1>3 DEF Adds
  <2>. DEFINE length == Len(b.bytes)
  <2>2. length + n > Capacity => length + (n + m) > Capacity
    <3>1. length \in Nat /\ Capacity \in Nat
      BY <1>1, CapacityAssumption
    <3>. HIDE DEF length
    <3>. QED
      BY <3>1
  <2>. QED
    BY <1>1, <1>3, <2>1, <2>2 DEF Adds
<1>4. CASE b.error = "none" /\ c.error = "none"
  <2>1. ~first /\ Len(c.bytes) = Len(b.bytes) + n
    BY <1>4 DEF Adds
  <2>. DEFINE length == Len(b.bytes)
  <2>2. length + (n + m) = Len(c.bytes) + m
    <3>1. length \in Nat /\ Len(c.bytes) = length + n
      BY <1>1, <2>1
    <3>. HIDE DEF length
    <3>. QED
      BY <3>1
  <2>. QED
    BY <1>1, <1>4, <2>1, <2>2 DEF Adds
<1>. QED
  BY <1>2, <1>3, <1>4

LEMMA PutAdds ==
  ASSUME NEW b \in Buffer, NEW bytes \in Seq(Byte)
  PROVE  Adds(b, Put(b, bytes), Len(bytes), FALSE)
<1>1. /\ b.bytes \in Seq(Byte) /\ Len(b.bytes) \in Nat /\ Len(bytes) \in Nat
      /\ b.error \in Errors /\ b = [bytes |-> b.bytes, error |-> b.error]
      /\ Capacity \in Nat
  BY CapacityAssumption DEF Buffer
<1>2. CASE Len(b.bytes) + Len(bytes) > Capacity
  <2>1. Put(b, bytes) = IF b.error = "none" THEN [bytes |-> b.bytes, error |-> "BufferOverflow"] ELSE b
    BY <1>1, <1>2 DEF Put, Throw
  <2>2. [bytes |-> b.bytes, error |-> "BufferOverflow"] \in Buffer
    <3>1. "BufferOverflow" \in Errors /\ Len(b.bytes) <= Capacity
      BY BufferIs, CapacityAssumption DEF Errors, Exceptions
    <3>. QED
      BY <1>1, <3>1 DEF Buffer
  <2>. QED
    BY <1>1, <1>2, <2>1, <2>2 DEF Adds
<1>3. CASE Len(b.bytes) + Len(bytes) <= Capacity
  <2>1. Put(b, bytes) = IF b.error = "none" THEN [bytes |-> b.bytes \o bytes, error |-> "none"] ELSE b
    <3>1. ~ (Len(b.bytes) + Len(bytes) > Capacity)
      BY <1>1, <1>3
    <3>2. [b EXCEPT !.bytes = b.bytes \o bytes] = [bytes |-> b.bytes \o bytes, error |-> b.error]
      <4>. DEFINE all == b.bytes \o bytes
      <4>1. b \in [bytes : {s \in Seq(Byte) : Len(s) <= Capacity}, error : Errors]
        BY DEF Buffer
      <4>. HIDE DEF all
      <4>2. [b EXCEPT !.bytes = all] = [bytes |-> all, error |-> b.error]
        BY <4>1
      <4>. QED
        BY <4>2 DEF all
    <3>3. Put(b, bytes) = IF b.error = "none" THEN [b EXCEPT !.bytes = b.bytes \o bytes] ELSE b
      BY <3>1 DEF Put
    <3>. QED
      BY <3>2, <3>3
  <2>2. b.bytes \o bytes \in Seq(Byte) /\ Len(b.bytes \o bytes) = Len(b.bytes) + Len(bytes)
    BY <1>1
  <2>3. [bytes |-> b.bytes \o bytes, error |-> "none"] \in Buffer
    <3>1. Len(b.bytes \o bytes) <= Capacity /\ "none" \in Errors
      BY <1>1, <1>3, <2>2 DEF Errors
    <3>. QED
      BY <2>2, <3>1 DEF Buffer
  <2>. QED
    BY <1>1, <2>1, <2>2, <2>3 DEF Adds
<1>4. Len(b.bytes) + Len(bytes) > Capacity \/ Len(b.bytes) + Len(bytes) <= Capacity
  BY <1>1
<1>. QED
  BY <1>2, <1>3, <1>4

LEMMA ThrowAdds ==
  ASSUME NEW b \in Buffer, NEW exception \in Exceptions, NEW n \in Nat, NEW asked \in BOOLEAN,
         asked \/ n > Capacity
  PROVE  Adds(b, Throw(b, exception), n, asked)
<1>1. /\ b.bytes \in Seq(Byte) /\ Len(b.bytes) \in 0..Capacity
      /\ b = [bytes |-> b.bytes, error |-> b.error]
      /\ Capacity \in Nat
  BY CapacityAssumption DEF Buffer
<1>2. exception # "none" /\ exception \in Errors
  BY DEF Exceptions, Errors
<1>3. Throw(b, exception) = IF b.error = "none" THEN [bytes |-> b.bytes, error |-> exception] ELSE b
  BY <1>1 DEF Throw
<1>4. [bytes |-> b.bytes, error |-> exception] \in Buffer
  BY <1>1, <1>2, BufferIs
<1>5. n > Capacity => Len(b.bytes) + n > Capacity
  BY <1>1
<1>. QED
  BY <1>2, <1>3, <1>4, <1>5 DEF Adds

LEMMA NumberBytes ==
  ASSUME NEW n \in Int, NEW width \in 0..8
  PROVE  Number(n, width) \in Seq(Byte) /\ Len(Number(n, width)) = width
<1>1. \A j \in 1..width : <<j, n>> \in Byte
  BY DEF Byte
<1>. QED
  BY <1>1 DEF Number

LEMMA CharsBytes ==
  ASSUME NEW text \in Seq(Int)
  PROVE  Chars(text) \in Seq(Byte) /\ Len(Chars(text)) = Len(text)
<1>1. \A j \in 1..Len(text) : <<0, text[j]>> \in Byte
  BY DEF Byte
<1>2. Len(text) \in Nat
  OBVIOUS
<1>. QED
  BY <1>1, <1>2 DEF Chars

-----------------------------------------------------------------------------
(* The steps of the operations. *)

LEMMA StepInduction ==
  ASSUME NEW n \in Nat, NEW S, 0 \in S, \A k \in 1..n : k - 1 \in S => k \in S
  PROVE  0..n \subseteq S
<1>1. ASSUME NEW k \in 0..n, k < n, k \in S
      PROVE  k + 1 \in S
  <2>1. k + 1 \in 1..n /\ (k + 1) - 1 = k
    BY <1>1
  <2>. QED
    BY <1>1, <2>1
<1>. QED
  BY <1>1, InductionUpTo

ElementsSizeAt(sizes, t, v) ==
  CHOOSE f : f = [k \in 0..Len(v.items) |-> IF k = 0 THEN 0 ELSE f[k-1] + sizes[t.elem][v.items[k]]]

LEMMA ElementsSizeAtIs ==
  ASSUME NEW sizes, NEW t, NEW v,
         Len(v.items) \in Nat, 0 \in Nat,
         \A k \in 1..Len(v.items) : \A b \in Nat : b + sizes[t.elem][v.items[k]] \in Nat
  PROVE  /\ ElementsSizeAt(sizes, t, v) \in [0..Len(v.items) -> Nat]
         /\ ElementsSizeAt(sizes, t, v)[0] = 0
         /\ \A k \in 1..Len(v.items) :
              ElementsSizeAt(sizes, t, v)[k] = ElementsSizeAt(sizes, t, v)[k-1] + sizes[t.elem][v.items[k]]
         /\ ElementsSize(sizes, t, v) = ElementsSizeAt(sizes, t, v)[Len(v.items)]
<1>. DEFINE n == Len(v.items)
            start == 0
            Step(k, b) == b + sizes[t.elem][v.items[k]]
            Is(f) == f = [k \in 0..n |-> IF k = 0 THEN start ELSE Step(k, f[k-1])]
            at == ElementsSizeAt(sizes, t, v)
            step == [k \in 1..n |-> [b \in Nat |-> Step(k, b)]]
<1>1. ElementsSize(sizes, t, v) = at[n] /\ at = CHOOSE f : Is(f)
  BY DEF After, ElementsSizeAt, ElementsSize
<1>2. step \in [1..n -> [Nat -> Nat]] /\ n \in Nat /\ start \in Nat
  OBVIOUS
<1>3. \A k \in 1..n : \A b \in Nat : step[k][b] = Step(k, b)
  OBVIOUS
<1>. HIDE DEF Step, step, n, at, start
<1>4. PICK run \in [0..n -> Nat] : Steps(run, n, start, step)
  BY <1>2, Iterates
<1>5. Is(run)
  <2>1. \A k \in 1..n : step[k][run[k-1]] = Step(k, run[k-1])
    <3>1. \A k \in 1..n : k - 1 \in 0..n
      BY <1>2
    <3>. QED
      BY <1>3, <3>1
  <2>2. \A k \in 0..n : k = 0 \/ k \in 1..n
    BY <1>2
  <2>. QED
    BY <1>4, <2>1, <2>2 DEF Steps
<1>6. Is(at)
  <2>. HIDE DEF Is
  <2>. QED
    BY <1>1, <1>5
<1>7. /\ at = [k \in 0..n |-> at[k]] /\ at[0] = start
      /\ \A k \in 1..n : at[k] = Step(k, at[k-1])
  <2>1. 0 \in 0..n /\ \A k \in 1..n : k \in 0..n /\ k # 0
    BY <1>2
  <2>2. \A k \in 0..n : at[k] = IF k = 0 THEN start ELSE Step(k, at[k-1])
    BY <1>6
  <2>3. at = [k \in 0..n |-> at[k]]
    BY <1>6
  <2>. HIDE DEF Is
  <2>4. at[0] = start
    BY <2>1, <2>2
  <2>5. \A k \in 1..n : at[k] = Step(k, at[k-1])
    BY <2>1, <2>2
  <2>. QED
    BY <2>3, <2>4, <2>5
<1>8. \A k \in 0..n : at[k] \in Nat
  <2>1. StepsIn(Nat, at, n, start, step)
    BY <1>3, <1>7 DEF StepsIn
  <2>. QED
    BY <1>2, <2>1, Trace
<1>9. at \in [0..n -> Nat]
  BY <1>7, <1>8
<1>. QED
  BY <1>1, <1>7, <1>9 DEF at, n, Step, start

FieldsSizeAt(sizes, t, v) ==
  CHOOSE f : f = [k \in 0..Len(v.items) |-> IF k = 0 THEN 0 ELSE 
                (IF Fields(t)[k].kind \in {"bitmask", "wstring"} THEN f[k-1]
                 ELSE f[k-1] + sizes[Fields(t)[k]][v.items[k]])]

LEMMA FieldsSizeAtIs ==
  ASSUME NEW sizes, NEW t, NEW v,
         Len(v.items) \in Nat, 0 \in Nat,
         \A k \in 1..Len(v.items) : \A b \in Nat : 
                (IF Fields(t)[k].kind \in {"bitmask", "wstring"} THEN b
                 ELSE b + sizes[Fields(t)[k]][v.items[k]]) \in Nat
  PROVE  /\ FieldsSizeAt(sizes, t, v) \in [0..Len(v.items) -> Nat]
         /\ FieldsSizeAt(sizes, t, v)[0] = 0
         /\ \A k \in 1..Len(v.items) :
              FieldsSizeAt(sizes, t, v)[k] = 
                (IF Fields(t)[k].kind \in {"bitmask", "wstring"} THEN FieldsSizeAt(sizes, t, v)[k-1]
                 ELSE FieldsSizeAt(sizes, t, v)[k-1] + sizes[Fields(t)[k]][v.items[k]])
         /\ FieldsSize(sizes, t, v) = FieldsSizeAt(sizes, t, v)[Len(v.items)]
<1>. DEFINE n == Len(v.items)
            start == 0
            Step(k, b) == 
                (IF Fields(t)[k].kind \in {"bitmask", "wstring"} THEN b
                 ELSE b + sizes[Fields(t)[k]][v.items[k]])
            Is(f) == f = [k \in 0..n |-> IF k = 0 THEN start ELSE Step(k, f[k-1])]
            at == FieldsSizeAt(sizes, t, v)
            step == [k \in 1..n |-> [b \in Nat |-> Step(k, b)]]
<1>1. FieldsSize(sizes, t, v) = at[n] /\ at = CHOOSE f : Is(f)
  BY DEF After, FieldsSizeAt, FieldsSize
<1>2. step \in [1..n -> [Nat -> Nat]] /\ n \in Nat /\ start \in Nat
  OBVIOUS
<1>3. \A k \in 1..n : \A b \in Nat : step[k][b] = Step(k, b)
  OBVIOUS
<1>. HIDE DEF Step, step, n, at, start
<1>4. PICK run \in [0..n -> Nat] : Steps(run, n, start, step)
  BY <1>2, Iterates
<1>5. Is(run)
  <2>1. \A k \in 1..n : step[k][run[k-1]] = Step(k, run[k-1])
    <3>1. \A k \in 1..n : k - 1 \in 0..n
      BY <1>2
    <3>. QED
      BY <1>3, <3>1
  <2>2. \A k \in 0..n : k = 0 \/ k \in 1..n
    BY <1>2
  <2>. QED
    BY <1>4, <2>1, <2>2 DEF Steps
<1>6. Is(at)
  <2>. HIDE DEF Is
  <2>. QED
    BY <1>1, <1>5
<1>7. /\ at = [k \in 0..n |-> at[k]] /\ at[0] = start
      /\ \A k \in 1..n : at[k] = Step(k, at[k-1])
  <2>1. 0 \in 0..n /\ \A k \in 1..n : k \in 0..n /\ k # 0
    BY <1>2
  <2>2. \A k \in 0..n : at[k] = IF k = 0 THEN start ELSE Step(k, at[k-1])
    BY <1>6
  <2>3. at = [k \in 0..n |-> at[k]]
    BY <1>6
  <2>. HIDE DEF Is
  <2>4. at[0] = start
    BY <2>1, <2>2
  <2>5. \A k \in 1..n : at[k] = Step(k, at[k-1])
    BY <2>1, <2>2
  <2>. QED
    BY <2>3, <2>4, <2>5
<1>8. \A k \in 0..n : at[k] \in Nat
  <2>1. StepsIn(Nat, at, n, start, step)
    BY <1>3, <1>7 DEF StepsIn
  <2>. QED
    BY <1>2, <2>1, Trace
<1>9. at \in [0..n -> Nat]
  BY <1>7, <1>8
<1>. QED
  BY <1>1, <1>7, <1>9 DEF at, n, Step, start

PutSequenceAt(serialize, buffer, t, list) ==
  CHOOSE f : f = [k \in 0..Len(list.items) |->
                  IF k = 0 THEN Put(buffer, Number(Len(list.items), 4))
                  ELSE PutElement(serialize, f[k-1], t.elem, list.items[k])]

LEMMA PutSequenceAtIs ==
  ASSUME NEW serialize, NEW buffer, NEW t, NEW list, list # NULL,
         Len(list.items) \in Nat, Put(buffer, Number(Len(list.items), 4)) \in Buffer,
         \A k \in 1..Len(list.items) :
                  \A b \in Buffer : PutElement(serialize, b, t.elem, list.items[k]) \in Buffer
  PROVE  /\ PutSequenceAt(serialize, buffer, t, list) \in [0..Len(list.items) -> Buffer]
         /\ PutSequenceAt(serialize, buffer, t, list)[0] = Put(buffer, Number(Len(list.items), 4))
         /\ \A k \in 1..Len(list.items) :
              PutSequenceAt(serialize, buffer, t, list)[k]
                      = PutElement(serialize, PutSequenceAt(serialize, buffer, t, list)[k-1], t.elem, list.items[k])
         /\ PutSequence(serialize, buffer, t, list) = PutSequenceAt(serialize, buffer, t, list)[Len(list.items)]
<1>. DEFINE n == Len(list.items)
            start == Put(buffer, Number(Len(list.items), 4))
            Step(k, b) == PutElement(serialize, b, t.elem, list.items[k])
            Is(f) == f = [k \in 0..n |-> IF k = 0 THEN start ELSE Step(k, f[k-1])]
            at == PutSequenceAt(serialize, buffer, t, list)
            step == [k \in 1..n |-> [b \in Buffer |-> Step(k, b)]]
<1>1. PutSequence(serialize, buffer, t, list) = at[n] /\ at = CHOOSE f : Is(f)
  BY DEF After, PutSequenceAt, PutSequence
<1>2. step \in [1..n -> [Buffer -> Buffer]] /\ n \in Nat /\ start \in Buffer
  OBVIOUS
<1>3. \A k \in 1..n : \A b \in Buffer : step[k][b] = Step(k, b)
  OBVIOUS
<1>. HIDE DEF Step, step, n, at, start
<1>4. PICK run \in [0..n -> Buffer] : Steps(run, n, start, step)
  BY <1>2, Iterates
<1>5. Is(run)
  <2>1. \A k \in 1..n : step[k][run[k-1]] = Step(k, run[k-1])
    <3>1. \A k \in 1..n : k - 1 \in 0..n
      BY <1>2
    <3>. QED
      BY <1>3, <3>1
  <2>2. \A k \in 0..n : k = 0 \/ k \in 1..n
    BY <1>2
  <2>. QED
    BY <1>4, <2>1, <2>2 DEF Steps
<1>6. Is(at)
  <2>. HIDE DEF Is
  <2>. QED
    BY <1>1, <1>5
<1>7. /\ at = [k \in 0..n |-> at[k]] /\ at[0] = start
      /\ \A k \in 1..n : at[k] = Step(k, at[k-1])
  <2>1. 0 \in 0..n /\ \A k \in 1..n : k \in 0..n /\ k # 0
    BY <1>2
  <2>2. \A k \in 0..n : at[k] = IF k = 0 THEN start ELSE Step(k, at[k-1])
    BY <1>6
  <2>3. at = [k \in 0..n |-> at[k]]
    BY <1>6
  <2>. HIDE DEF Is
  <2>4. at[0] = start
    BY <2>1, <2>2
  <2>5. \A k \in 1..n : at[k] = Step(k, at[k-1])
    BY <2>1, <2>2
  <2>. QED
    BY <2>3, <2>4, <2>5
<1>8. \A k \in 0..n : at[k] \in Buffer
  <2>1. StepsIn(Buffer, at, n, start, step)
    BY <1>3, <1>7 DEF StepsIn
  <2>. QED
    BY <1>2, <2>1, Trace
<1>9. at \in [0..n -> Buffer]
  BY <1>7, <1>8
<1>. QED
  BY <1>1, <1>7, <1>9 DEF at, n, Step, start

PutMembersAt(serialize, t, o) ==
  CHOOSE f : f = [k \in 0..Len(o.items) |->
                  IF k = 0 THEN Empty ELSE PutMember(serialize, f[k-1], Fields(t)[k], o.items[k])]

LEMMA PutMembersAtIs ==
  ASSUME NEW serialize, NEW t, NEW o,
         Len(o.items) \in Nat, Empty \in Buffer,
         \A k \in 1..Len(o.items) :
                  \A b \in Buffer : PutMember(serialize, b, Fields(t)[k], o.items[k]) \in Buffer
  PROVE  /\ PutMembersAt(serialize, t, o) \in [0..Len(o.items) -> Buffer]
         /\ PutMembersAt(serialize, t, o)[0] = Empty
         /\ \A k \in 1..Len(o.items) :
              PutMembersAt(serialize, t, o)[k]
                      = PutMember(serialize, PutMembersAt(serialize, t, o)[k-1], Fields(t)[k], o.items[k])
         /\ PutMembers(serialize, t, o) = PutMembersAt(serialize, t, o)[Len(o.items)]
<1>. DEFINE n == Len(o.items)
            start == Empty
            Step(k, b) == PutMember(serialize, b, Fields(t)[k], o.items[k])
            Is(f) == f = [k \in 0..n |-> IF k = 0 THEN start ELSE Step(k, f[k-1])]
            at == PutMembersAt(serialize, t, o)
            step == [k \in 1..n |-> [b \in Buffer |-> Step(k, b)]]
<1>1. PutMembers(serialize, t, o) = at[n] /\ at = CHOOSE f : Is(f)
  BY DEF After, PutMembersAt, PutMembers, Empty
<1>2. step \in [1..n -> [Buffer -> Buffer]] /\ n \in Nat /\ start \in Buffer
  OBVIOUS
<1>3. \A k \in 1..n : \A b \in Buffer : step[k][b] = Step(k, b)
  OBVIOUS
<1>. HIDE DEF Step, step, n, at, start
<1>4. PICK run \in [0..n -> Buffer] : Steps(run, n, start, step)
  BY <1>2, Iterates
<1>5. Is(run)
  <2>1. \A k \in 1..n : step[k][run[k-1]] = Step(k, run[k-1])
    <3>1. \A k \in 1..n : k - 1 \in 0..n
      BY <1>2
    <3>. QED
      BY <1>3, <3>1
  <2>2. \A k \in 0..n : k = 0 \/ k \in 1..n
    BY <1>2
  <2>. QED
    BY <1>4, <2>1, <2>2 DEF Steps
<1>6. Is(at)
  <2>. HIDE DEF Is
  <2>. QED
    BY <1>1, <1>5
<1>7. /\ at = [k \in 0..n |-> at[k]] /\ at[0] = start
      /\ \A k \in 1..n : at[k] = Step(k, at[k-1])
  <2>1. 0 \in 0..n /\ \A k \in 1..n : k \in 0..n /\ k # 0
    BY <1>2
  <2>2. \A k \in 0..n : at[k] = IF k = 0 THEN start ELSE Step(k, at[k-1])
    BY <1>6
  <2>3. at = [k \in 0..n |-> at[k]]
    BY <1>6
  <2>. HIDE DEF Is
  <2>4. at[0] = start
    BY <2>1, <2>2
  <2>5. \A k \in 1..n : at[k] = Step(k, at[k-1])
    BY <2>1, <2>2
  <2>. QED
    BY <2>3, <2>4, <2>5
<1>8. \A k \in 0..n : at[k] \in Buffer
  <2>1. StepsIn(Buffer, at, n, start, step)
    BY <1>3, <1>7 DEF StepsIn
  <2>. QED
    BY <1>2, <2>1, Trace
<1>9. at \in [0..n -> Buffer]
  BY <1>7, <1>8
<1>. QED
  BY <1>1, <1>7, <1>9 DEF at, n, Step, start

-----------------------------------------------------------------------------
(* An object takes a number of bytes. *)

LEMMA SizeIsNat ==
  ASSUME NEW t \in Types, NEW v \in Values[t]
  PROVE  SizeOf[t][v] \in Nat
<1>. DEFINE Sized == {s \in Types : \A w \in Values[s] : SizeOf[s][w] \in Nat}
<1>1. ASSUME NEW s \in Types, \A p \in Types : Depth[p] < Depth[s] => p \in Sized
      PROVE  s \in Sized
  <2>1. SUFFICES ASSUME NEW w \in Values[s]
                 PROVE  Size(SizeOf, s, w) \in Nat
    BY SizeOfDef
  <2>2. /\ s.kind \in Scalars => s.kind \notin {"sequence", "string", "wstring", "bitmask"} \cup Nested
        /\ s.kind \in Nested => s.kind \notin {"sequence", "string", "wstring", "bitmask"}
    BY ScalarWidths DEF Nested
  <2>3. CASE s.kind = "sequence"
    <3>1. ASSUME w # NULL
          PROVE  ElementsSize(SizeOf, s, w) \in Nat
      <4>1. w.items \in Seq(Values[s.elem]) /\ s.elem \in Sized
        BY <1>1, <2>3, <3>1, SentValues, TypeParts
      <4>2. Len(w.items) \in Nat /\ \A k \in 1..Len(w.items) : SizeOf[s.elem][w.items[k]] \in Nat
        BY <4>1
      <4>3. \A k \in 1..Len(w.items) : \A b \in Nat : b + SizeOf[s.elem][w.items[k]] \in Nat
        BY <4>2
      <4>4. ElementsSizeAt(SizeOf, s, w) \in [0..Len(w.items) -> Nat]
        BY <4>2, <4>3, ElementsSizeAtIs
      <4>5. ElementsSize(SizeOf, s, w) = ElementsSizeAt(SizeOf, s, w)[Len(w.items)]
        BY <4>2, <4>3, ElementsSizeAtIs
      <4>. QED
        BY <4>2, <4>4, <4>5
    <3>. QED
      BY <2>2, <2>3, <3>1 DEF Size
  <2>4. CASE s.kind \in Nested
    <3>1. ASSUME w # NULL
          PROVE  FieldsSize(SizeOf, s, w) \in Nat
      <4>. DEFINE n == Len(w.items)
      <4>1. n \in Nat /\ n = Len(w.items) /\ 1..n = DOMAIN Fields(s) /\ 1..n = DOMAIN w.items
        <5>1. n \in Nat /\ 1..n = DOMAIN Fields(s)
          BY <2>4, <3>1, ObjectValues DEF Class
        <5>2. w.items \in Seq(ValuesUpTo[MaxDepth])
          BY <2>4, <3>1, SentValues
        <5>. QED
          BY <5>1, <5>2
      <4>2. \A k \in 1..n : SizeOf[Fields(s)[k]][w.items[k]] \in Nat
        <5>1. \A k \in 1..n : Fields(s)[k] \in Sized
          BY <1>1, <2>4, <4>1, BelowType DEF Class
        <5>2. \A k \in 1..n : w.items[k] \in Values[Fields(s)[k]]
          BY <2>4, <3>1, <4>1, SentValues
        <5>. QED
          BY <5>1, <5>2
      <4>3. \A k \in 1..n : \A b \in Nat :
              (IF Fields(s)[k].kind \in {"bitmask", "wstring"} THEN b
               ELSE b + SizeOf[Fields(s)[k]][w.items[k]]) \in Nat
        BY <4>2
      <4>. QED
        BY <4>1, <4>3, FieldsSizeAtIs
    <3>2. s.kind \notin Scalars \cup {"sequence", "string", "wstring", "bitmask"}
      BY <2>2, <2>4 DEF Nested
    <3>. QED
      BY <2>4, <3>1, <3>2 DEF Size
  <2>5. CASE s.kind \in {"string", "wstring"}
    <3>1. w # NULL => Len(w.text) \in Nat
      BY <2>5, SentValues
    <3>2. Size(SizeOf, s, w) = 4 + (IF w = NULL THEN 0 ELSE Len(w.text))
      BY <2>2, <2>5 DEF Size
    <3>. QED
      BY <3>1, <3>2
  <2>6. CASE s.kind \in Scalars
    <3>1. Size(SizeOf, s, w) = Width[s.kind]
      BY <2>2, <2>6 DEF Size
    <3>2. Width[s.kind] \in 1..8
      BY <2>6, ScalarWidths
    <3>. QED
      BY <3>1, <3>2
  <2>7. CASE s.kind \notin Nested \cup Scalars \cup {"sequence", "string", "wstring"}
    BY <2>7 DEF Size
  <2>. QED
    BY <2>3, <2>4, <2>5, <2>6, <2>7
<1>2. Types \subseteq Sized
  <2>. HIDE DEF Sized
  <2>. QED
    BY <1>1, TypeInduction
<1>. QED
  BY <1>2

-----------------------------------------------------------------------------
(* serialize() puts what SizeOf counts. *)

Serializes(t) ==
  \A o \in Values[t] \ {NULL} :
    Adds(Empty, Serialize[t][o], SizeOf[t][o], NullAsked[t][o])

LEMMA PutTextAdds ==
  ASSUME NEW b \in Buffer, NEW t \in Types, t.kind \in {"string", "wstring"}, NEW v \in Values[t]
  PROVE  Adds(b, PutText(b, v), SizeOf[t][v], FALSE)
<1>1. SizeOf[t][v] = 4 + (IF v = NULL THEN 0 ELSE Len(v.text))
  <2>1. t.kind \notin Scalars
    BY ScalarWidths
  <2>2. Size(SizeOf, t, v) = 4 + (IF v = NULL THEN 0 ELSE Len(v.text))
    BY <2>1 DEF Size, Nested
  <2>. QED
    BY <2>2, SizeOfDef
<1>2. ASSUME NEW n \in Int
      PROVE  Adds(b, Put(b, Number(n, 4)), 4, FALSE)
  <2>1. Number(n, 4) \in Seq(Byte) /\ Len(Number(n, 4)) = 4
    BY NumberBytes
  <2>2. Adds(b, Put(b, Number(n, 4)), Len(Number(n, 4)), FALSE)
    BY <2>1, PutAdds
  <2>. QED
    BY <2>1, <2>2
<1>3. CASE v = NULL
  <2>1. SizeOf[t][v] = 4 /\ -1 \in Int
    BY <1>1, <1>3
  <2>2. PutText(b, v) = Put(b, Number(-1, 4))
    BY <1>3 DEF PutText
  <2>. QED
    BY <1>2, <2>1, <2>2
<1>4. CASE v # NULL
  <2>. DEFINE c == Put(b, Number(Len(v.text), 4))
              d == Put(c, Chars(v.text))
  <2>1. v.text \in Seq(Int)
    BY <1>4, SentValues
  <2>2. Len(v.text) \in Nat /\ Len(v.text) \in Int
    BY <2>1
  <2>3. Adds(b, c, 4, FALSE)
    BY <1>2, <2>2
  <2>4. Adds(c, d, Len(v.text), FALSE)
    <3>1. Chars(v.text) \in Seq(Byte) /\ Len(Chars(v.text)) = Len(v.text)
      BY <2>1, CharsBytes
    <3>2. c \in Buffer
      BY <2>3 DEF Adds
    <3>. HIDE DEF c
    <3>3. Adds(c, Put(c, Chars(v.text)), Len(Chars(v.text)), FALSE)
      BY <3>1, <3>2, PutAdds
    <3>. QED
      BY <3>1, <3>3
  <2>5. PutText(b, v) = d
    BY <1>4 DEF PutText
  <2>. HIDE DEF c, d
  <2>6. Adds(b, d, 4 + Len(v.text), FALSE \/ FALSE)
    BY <2>2, <2>3, <2>4, AddsTogether
  <2>. QED
    BY <1>1, <1>4, <2>5, <2>6
<1>. QED
  BY <1>3, <1>4

LEMMA PutNumberAdds ==
  ASSUME NEW b \in Buffer, NEW v, v = NULL \/ v \in [number : Int], NEW width \in 0..8
  PROVE  Adds(b, PutNumber(b, v, width), width, v = NULL)
<1>1. CASE v = NULL
  <2>1. "NullPointer" \in Exceptions /\ width \in Nat
    BY DEF Exceptions
  <2>2. Adds(b, Throw(b, "NullPointer"), width, TRUE)
    BY <2>1, ThrowAdds
  <2>. QED
    BY <1>1, <2>2 DEF PutNumber
<1>2. CASE v # NULL
  <2>1. Number(v.number, width) \in Seq(Byte) /\ Len(Number(v.number, width)) = width
    BY <1>2, NumberBytes
  <2>2. Adds(b, Put(b, Number(v.number, width)), Len(Number(v.number, width)), FALSE)
    BY <2>1, PutAdds
  <2>. QED
    BY <1>2, <2>1, <2>2 DEF PutNumber
<1>. QED
  BY <1>1, <1>2

LEMMA PutObjectAdds ==
  ASSUME NEW b \in Buffer, NEW t \in Class, Serializes(t), NEW o \in Values[t]
  PROVE  Adds(b, PutObject(Serialize, b, t, o), SizeOf[t][o], NullAsked[t][o])
<1>1. t \in Types /\ t.kind \in Nested
      /\ t.kind \notin Scalars \cup {"string", "wstring", "bitmask", "sequence"}
  BY ScalarWidths DEF Class, Nested
<1>2. CASE o = NULL
  <2>1. SizeOf[t][o] = 0
    BY <1>1, <1>2, SizeOfDef DEF Size
  <2>2. NullAsked[t][o] = FALSE
    BY <1>1, <1>2, NullAskedDef DEF Asks
  <2>. QED
    BY <1>2, <2>1, <2>2, AddsNothing DEF PutObject
<1>3. CASE o # NULL
  <2>. DEFINE inner == Serialize[t][o]
              size == SizeOf[t][o]
              asked == NullAsked[t][o]
  <2>1. Adds(Empty, inner, size, asked) /\ size \in Nat
    BY <1>1, <1>3, SizeIsNat DEF Serializes
  <2>2. PutObject(Serialize, b, t, o)
          = IF inner.error = "none" THEN Put(b, inner.bytes) ELSE Throw(b, inner.error)
    BY <1>3 DEF PutObject
  <2>. HIDE DEF inner, size, asked
  <2>3. inner \in Buffer /\ inner.bytes \in Seq(Byte) /\ inner.error \in Errors
    BY <2>1, BufferIs DEF Adds
  <2>4. CASE inner.error = "none"
    <3>1. ~asked /\ Len(inner.bytes) = size
      <4>1. ~asked /\ Len(inner.bytes) = Len(<<>>) + size
        BY <2>1, <2>4 DEF Adds, Empty
      <4>. QED
        BY <2>1, <4>1
    <3>2. Adds(b, Put(b, inner.bytes), Len(inner.bytes), FALSE)
      BY <2>3, PutAdds
    <3>. QED
      BY <2>2, <2>4, <3>1, <3>2 DEF Adds, asked, size
  <2>5. CASE inner.error # "none"
    <3>1. asked \/ size > Capacity
      <4>1. asked \/ Len(<<>>) + size > Capacity
        BY <2>1, <2>5 DEF Adds, Empty
      <4>2. Len(<<>>) + size = size
        BY <2>1
      <4>. QED
        BY <4>1, <4>2
    <3>2. inner.error \in Exceptions
      BY <2>3, <2>5 DEF Errors
    <3>3. CASE asked
      <4>1. Adds(b, Throw(b, inner.error), size, TRUE)
        BY <2>1, <3>2, ThrowAdds
      <4>. QED
        BY <2>2, <2>5, <3>3, <4>1 DEF Adds, asked, size
    <3>4. CASE ~asked
      <4>1. Adds(b, Throw(b, inner.error), size, FALSE)
        BY <2>1, <3>1, <3>2, <3>4, ThrowAdds
      <4>. QED
        BY <2>2, <2>5, <3>4, <4>1 DEF Adds, asked, size
    <3>. QED
      BY <3>3, <3>4
  <2>. QED
    BY <2>4, <2>5
<1>. QED
  BY <1>2, <1>3

(* What an element of a list adds. *)
ElementSize(t, e) == IF t.kind \in CodedElements THEN SizeOf[t][e] ELSE 0
ElementAsked(t, e) ==
  IF e = NULL THEN t.kind \in Scalars \cup {"bitmask"}
  ELSE t.kind \in Nested /\ NullAsked[t][e]

LEMMA PutElementAdds ==
  ASSUME NEW b \in Buffer, NEW t \in Types, t.kind \in Nested => Serializes(t), NEW e \in Values[t]
  PROVE  Adds(b, PutElement(Serialize, b, t, e), ElementSize(t, e), ElementAsked(t, e))
<1>1. /\ t.kind \in Scalars => t.kind \notin {"string", "wstring", "bitmask", "sequence"} \cup Nested
      /\ t.kind \in Nested => t.kind \notin {"string", "wstring", "bitmask", "sequence"}
  BY ScalarWidths DEF Nested
<1>2. CASE t.kind \in Scalars
  <2>1. Width[t.kind] \in 0..8 /\ (e = NULL \/ e \in [number : Int])
    <3>1. Width[t.kind] \in 1..8
      BY <1>2, ScalarWidths
    <3>. QED
      BY <1>1, <1>2, <3>1, SentValues
  <2>2. Adds(b, PutNumber(b, e, Width[t.kind]), Width[t.kind], e = NULL)
    BY <2>1, PutNumberAdds
  <2>3. ElementSize(t, e) = Width[t.kind]
    BY <1>1, <1>2, SizeOfDef DEF ElementSize, CodedElements, Size
  <2>4. ElementAsked(t, e) <=> e = NULL
    BY <1>1, <1>2 DEF ElementAsked
  <2>5. PutElement(Serialize, b, t, e) = PutNumber(b, e, Width[t.kind])
    BY <1>1, <1>2 DEF PutElement
  <2>. QED
    BY <2>2, <2>3, <2>4, <2>5 DEF Adds
<1>3. CASE t.kind = "bitmask"
  <2>1. t.kind \notin Scalars \cup {"string", "wstring", "sequence"} \cup Nested
    BY <1>1, <1>3
  <2>2. e = NULL \/ e \in [number : Int]
    BY <2>1, SentValues
  <2>3. Adds(b, PutNumber(b, e, 8), 8, e = NULL)
    BY <2>2, PutNumberAdds
  <2>4. ElementSize(t, e) = 8
    BY <1>3, <2>1, SizeOfDef DEF ElementSize, CodedElements, Size
  <2>5. ElementAsked(t, e) <=> e = NULL
    BY <1>3, <2>1 DEF ElementAsked
  <2>6. PutElement(Serialize, b, t, e) = PutNumber(b, e, 8)
    BY <1>3, <2>1 DEF PutElement
  <2>. QED
    BY <2>3, <2>4, <2>5, <2>6 DEF Adds
<1>4. CASE t.kind = "wstring"
  <2>1. t.kind \notin Scalars \cup {"string", "bitmask", "sequence"} \cup Nested
    BY <1>1, <1>4
  <2>2. Adds(b, PutText(b, e), SizeOf[t][e], FALSE)
    BY <1>4, PutTextAdds
  <2>3. ElementSize(t, e) = SizeOf[t][e]
    BY <1>4 DEF ElementSize, CodedElements
  <2>4. ~ElementAsked(t, e)
    BY <2>1 DEF ElementAsked
  <2>5. PutElement(Serialize, b, t, e) = PutText(b, e)
    BY <1>4, <2>1 DEF PutElement
  <2>. QED
    BY <2>2, <2>3, <2>4, <2>5 DEF Adds
<1>5. CASE t.kind \in Nested
  <2>1. t \in Class /\ Serializes(t)
    BY <1>5 DEF Class
  <2>2. Adds(b, PutObject(Serialize, b, t, e), SizeOf[t][e], NullAsked[t][e])
    BY <2>1, PutObjectAdds
  <2>3. ElementSize(t, e) = SizeOf[t][e]
    BY <1>5 DEF ElementSize, CodedElements
  <2>4. e = NULL => NullAsked[t][e] = FALSE
    BY <1>1, <1>5, NullAskedDef DEF Asks
  <2>5. ElementAsked(t, e) <=> NullAsked[t][e]
    BY <1>1, <1>5, <2>4 DEF ElementAsked
  <2>6. PutElement(Serialize, b, t, e) = PutObject(Serialize, b, t, e)
    BY <1>1, <1>5 DEF PutElement
  <2>. QED
    BY <2>2, <2>3, <2>5, <2>6 DEF Adds
<1>6. CASE t.kind \notin CodedElements
  <2>1. ElementSize(t, e) = 0 /\ ~ElementAsked(t, e)
    BY <1>6 DEF ElementSize, ElementAsked, CodedElements
  <2>2. PutElement(Serialize, b, t, e) = b
    BY <1>6 DEF PutElement, CodedElements
  <2>. QED
    BY <2>1, <2>2, AddsNothing DEF Adds
<1>. QED
  BY <1>2, <1>3, <1>4, <1>5, <1>6 DEF CodedElements

LEMMA PutSequenceAdds ==
  ASSUME NEW b \in Buffer, NEW t \in Types, t.kind = "sequence",
         t.elem.kind \in Nested => Serializes(t.elem), NEW list \in Values[t]
  PROVE  Adds(b, PutSequence(Serialize, b, t, list), SizeOf[t][list], NullAsked[t][list])
<1>1. t.kind \notin Scalars \cup {"string", "wstring", "bitmask"} \cup Nested
  BY ScalarWidths DEF Nested
<1>2. SizeOf[t][list] = 4 + (IF list = NULL \/ t.elem.kind \notin CodedElements THEN 0
                            ELSE ElementsSize(SizeOf, t, list))
  <2>1. Size(SizeOf, t, list) = 4 + (IF list = NULL \/ t.elem.kind \notin CodedElements THEN 0
                                     ELSE ElementsSize(SizeOf, t, list))
    BY <1>1 DEF Size
  <2>. QED
    BY <2>1, SizeOfDef
<1>3. ASSUME NEW n \in Int
      PROVE  Adds(b, Put(b, Number(n, 4)), 4, FALSE)
  <2>1. Number(n, 4) \in Seq(Byte) /\ Len(Number(n, 4)) = 4
    BY NumberBytes
  <2>2. Adds(b, Put(b, Number(n, 4)), Len(Number(n, 4)), FALSE)
    BY <2>1, PutAdds
  <2>. QED
    BY <2>1, <2>2
<1>4. CASE list = NULL
  <2>1. SizeOf[t][list] = 4 /\ -1 \in Int
    BY <1>2, <1>4
  <2>2. PutSequence(Serialize, b, t, list) = Put(b, Number(-1, 4))
    BY <1>4 DEF PutSequence
  <2>3. NullAsked[t][list] = FALSE
    BY <1>1, <1>4, NullAskedDef DEF Asks
  <2>. QED
    BY <1>3, <2>1, <2>2, <2>3
<1>5. CASE list # NULL
  <2>. DEFINE n == Len(list.items)
              elem == t.elem
              item(k) == list.items[k]
              start == Put(b, Number(n, 4))
              at == PutSequenceAt(Serialize, b, t, list)
              size(k) == IF elem.kind \in CodedElements THEN ElementsSizeAt(SizeOf, t, list)[k] ELSE 0
              asked(k) == \E j \in 1..k : ElementAsked(elem, item(j))
              Holds == {k \in 0..n : Adds(b, at[k], 4 + size(k), asked(k))}
  <2>1. list.items \in Seq(Values[elem]) /\ elem \in Types
    BY <1>5, SentValues, TypeParts
  <2>2. n \in Nat /\ DOMAIN list.items = 1..n /\ \A k \in 1..n : item(k) \in Values[elem]
    BY <2>1
  <2>3. \A k \in 1..n : \A c \in Buffer :
          Adds(c, PutElement(Serialize, c, elem, item(k)), ElementSize(elem, item(k)),
               ElementAsked(elem, item(k)))
    BY <2>1, <2>2, PutElementAdds
  <2>4. Adds(b, start, 4, FALSE)
    <3>1. n \in Int
      BY <2>2
    <3>. HIDE DEF n
    <3>. QED
      BY <1>3, <3>1
  <2>5. /\ at[0] = start
        /\ \A k \in 1..n : at[k] = PutElement(Serialize, at[k-1], elem, item(k))
        /\ PutSequence(Serialize, b, t, list) = at[n]
    <3>1. \A k \in 1..n : \A c \in Buffer : PutElement(Serialize, c, elem, item(k)) \in Buffer
      BY <2>3 DEF Adds
    <3>2. start \in Buffer
      BY <2>4 DEF Adds
    <3>. QED
      BY <1>5, <2>2, <3>1, <3>2, PutSequenceAtIs
  <2>6. \A k \in 1..n : SizeOf[elem][item(k)] \in Nat
    BY <2>1, <2>2, SizeIsNat
  <2>7. /\ size(0) = 0
        /\ \A k \in 0..n : size(k) \in Nat
        /\ \A k \in 1..n : size(k) = size(k-1) + ElementSize(elem, item(k))
        /\ SizeOf[t][list] = 4 + size(n)
    <3>. DEFINE sum == ElementsSizeAt(SizeOf, t, list)
    <3>1. \A k \in 1..n : \A c \in Nat : c + SizeOf[elem][item(k)] \in Nat
      BY <2>6
    <3>2. /\ sum \in [0..n -> Nat] /\ sum[0] = 0
          /\ \A k \in 1..n : sum[k] = sum[k-1] + SizeOf[elem][item(k)]
          /\ ElementsSize(SizeOf, t, list) = sum[n]
      BY <2>2, <3>1, ElementsSizeAtIs
    <3>. HIDE DEF sum, n, elem, item
    <3>3. CASE elem.kind \in CodedElements
      <4>1. \A k : size(k) = sum[k]
        BY <3>3 DEF sum
      <4>2. \A k : ElementSize(elem, item(k)) = SizeOf[elem][item(k)]
        BY <3>3 DEF ElementSize
      <4>3. SizeOf[t][list] = 4 + ElementsSize(SizeOf, t, list)
        BY <1>2, <1>5, <3>3 DEF elem
      <4>. HIDE DEF size
      <4>. QED
        BY <3>2, <4>1, <4>2, <4>3
    <3>4. CASE elem.kind \notin CodedElements
      <4>1. \A k : size(k) = 0 /\ ElementSize(elem, item(k)) = 0
        BY <3>4 DEF ElementSize
      <4>2. SizeOf[t][list] = 4 + 0
        BY <1>2, <3>4 DEF elem
      <4>. HIDE DEF size
      <4>. QED
        BY <4>1, <4>2
    <3>. QED
      BY <3>3, <3>4
  <2>8. NullAsked[t][list] <=> asked(n)
    <3>1. NullAsked[t][list] = Asks(NullAsked, t, list)
      BY NullAskedDef
    <3>2. Asks(NullAsked, t, list) <=>
            \E k \in DOMAIN list.items :
              IF item(k) = NULL THEN elem.kind \in Scalars \cup {"bitmask"}
              ELSE elem.kind \in Nested /\ NullAsked[elem][item(k)]
      BY <1>1, <1>5 DEF Asks
    <3>. QED
      BY <2>2, <3>1, <3>2 DEF ElementAsked
  <2>. HIDE DEF n, elem, item, start, at, size
  <2>9. 0 \in Holds
    <3>1. 4 + size(0) = 4 /\ ~asked(0)
      BY <2>7
    <3>. QED
      BY <2>2, <2>4, <2>5, <3>1 DEF Adds
  <2>10. ASSUME NEW k \in 1..n, k - 1 \in Holds
         PROVE  k \in Holds
    <3>. DEFINE more == ElementSize(elem, item(k))
                null == ElementAsked(elem, item(k))
    <3>1. Adds(b, at[k-1], 4 + size(k-1), asked(k-1)) /\ at[k-1] \in Buffer
      BY <2>10 DEF Adds
    <3>2. Adds(at[k-1], at[k], more, null)
      BY <2>3, <2>5, <3>1
    <3>3. more \in Nat /\ 4 + size(k-1) \in Nat
      <4>1. size(k-1) \in Nat
        BY <2>2, <2>7
      <4>2. more \in Nat
        BY <2>6 DEF ElementSize
      <4>. QED
        BY <4>1, <4>2
    <3>4. 4 + size(k) = (4 + size(k-1)) + more
      <4>1. size(k) = size(k-1) + more /\ size(k-1) \in Nat
        BY <2>2, <2>7
      <4>. QED
        BY <3>3, <4>1
    <3>5. asked(k) <=> asked(k-1) \/ null
      <4>1. \A j : j \in 1..k <=> j \in 1..(k-1) \/ j = k
        BY <2>2
      <4>. QED
        BY <4>1
    <3>. HIDE DEF asked, more, null
    <3>6. Adds(b, at[k], (4 + size(k-1)) + more, asked(k-1) \/ null)
      BY <3>1, <3>2, <3>3, AddsTogether
    <3>7. Adds(b, at[k], 4 + size(k), asked(k))
      BY <3>4, <3>5, <3>6 DEF Adds
    <3>. QED
      BY <2>2, <3>7
  <2>11. 0..n \subseteq Holds
    <3>. HIDE DEF Holds
    <3>. QED
      BY <2>2, <2>9, <2>10, StepInduction
  <2>12. Adds(b, at[n], 4 + size(n), asked(n))
    <3>1. n \in 0..n
      BY <2>2
    <3>. QED
      BY <2>11, <3>1
  <2>. HIDE DEF asked
  <2>. QED
    BY <2>5, <2>7, <2>8, <2>12 DEF Adds
<1>. QED
  BY <1>4, <1>5

(* What a member adds. *)
MemberSize(t, v) == IF t.kind \in {"bitmask", "wstring"} THEN 0 ELSE SizeOf[t][v]

LEMMA PutMemberAdds ==
  ASSUME NEW b \in Buffer, NEW t \in Types,
         t.kind \in Nested => Serializes(t),
         t.kind = "sequence" /\ t.elem.kind \in Nested => Serializes(t.elem),
         NEW v \in Values[t], t.kind \in Scalars => v # NULL
  PROVE  Adds(b, PutMember(Serialize, b, t, v), MemberSize(t, v), NullAsked[t][v])
<1>1. /\ t.kind \in Scalars => t.kind \notin {"string", "wstring", "bitmask", "sequence"} \cup Nested
      /\ t.kind \in Nested => t.kind \notin {"string", "wstring", "bitmask", "sequence"}
      /\ {"string", "wstring", "bitmask", "sequence"} \cap (Scalars \cup Nested) = {}
  BY ScalarWidths DEF Nested
<1>2. /\ SizeOf[t][v] = Size(SizeOf, t, v)
      /\ NullAsked[t][v] = Asks(NullAsked, t, v)
  BY SizeOfDef, NullAskedDef
<1>3. t.kind \notin {"sequence"} \cup Nested => ~NullAsked[t][v]
  <2>1. t.kind \notin {"sequence"} \cup Nested => ~Asks(NullAsked, t, v)
    BY DEF Asks
  <2>. QED
    BY <1>2, <2>1
<1>4. CASE t.kind \in Scalars
  <2>1. Width[t.kind] \in 0..8 /\ v \in [number : Int]
    <3>1. Width[t.kind] \in 1..8
      BY <1>4, ScalarWidths
    <3>. QED
      BY <1>1, <1>4, <3>1, SentValues
  <2>2. Adds(b, PutNumber(b, v, Width[t.kind]), Width[t.kind], v = NULL)
    BY <2>1, PutNumberAdds
  <2>3. MemberSize(t, v) = Width[t.kind]
    BY <1>1, <1>2, <1>4 DEF MemberSize, Size
  <2>4. NullAsked[t][v] <=> v = NULL
    BY <1>1, <1>3, <1>4
  <2>5. PutMember(Serialize, b, t, v) = PutNumber(b, v, Width[t.kind])
    BY <1>1, <1>4 DEF PutMember
  <2>. QED
    BY <2>2, <2>3, <2>4, <2>5 DEF Adds
<1>5. CASE t.kind = "string"
  <2>1. Adds(b, PutText(b, v), SizeOf[t][v], FALSE)
    BY <1>5, PutTextAdds
  <2>2. MemberSize(t, v) = SizeOf[t][v]
    BY <1>5 DEF MemberSize
  <2>3. PutMember(Serialize, b, t, v) = PutText(b, v)
    BY <1>1, <1>5 DEF PutMember
  <2>4. ~NullAsked[t][v]
    BY <1>1, <1>3, <1>5
  <2>. QED
    BY <2>1, <2>2, <2>3, <2>4 DEF Adds
<1>6. CASE t.kind = "sequence"
  <2>1. Adds(b, PutSequence(Serialize, b, t, v), SizeOf[t][v], NullAsked[t][v])
    BY <1>6, PutSequenceAdds
  <2>2. MemberSize(t, v) = SizeOf[t][v]
    BY <1>6 DEF MemberSize
  <2>3. PutMember(Serialize, b, t, v) = PutSequence(Serialize, b, t, v)
    BY <1>1, <1>6 DEF PutMember
  <2>. QED
    BY <2>1, <2>2, <2>3
<1>7. CASE t.kind \in Nested
  <2>1. t \in Class
    BY <1>7 DEF Class
  <2>2. Adds(b, PutObject(Serialize, b, t, v), SizeOf[t][v], NullAsked[t][v])
    BY <1>7, <2>1, PutObjectAdds
  <2>3. MemberSize(t, v) = SizeOf[t][v]
    BY <1>1, <1>7 DEF MemberSize
  <2>4. PutMember(Serialize, b, t, v) = PutObject(Serialize, b, t, v)
    BY <1>1, <1>7 DEF PutMember
  <2>. QED
    BY <2>2, <2>3, <2>4
<1>8. CASE t.kind \notin Scalars \cup {"string", "sequence"} \cup Nested
  <2>1. PutMember(Serialize, b, t, v) = b
    BY <1>8 DEF PutMember
  <2>2. MemberSize(t, v) = 0
    <3>1. t.kind \notin {"bitmask", "wstring"} => Size(SizeOf, t, v) = 0
      BY <1>8 DEF Size
    <3>. QED
      BY <1>2, <3>1 DEF MemberSize
  <2>3. ~NullAsked[t][v]
    BY <1>3, <1>8
  <2>. QED
    BY <2>1, <2>2, <2>3, AddsNothing DEF Adds
<1>. QED
  BY <1>4, <1>5, <1>6, <1>7, <1>8

LEMMA PutMembersAdds ==
  ASSUME NEW t \in Class, NEW o \in Values[t] \ {NULL},
         \A p \in Class : Depth[p] < Depth[t] => Serializes(p)
  PROVE  Adds(Empty, Serialize[t][o], SizeOf[t][o], NullAsked[t][o])
<1>. DEFINE n == Len(o.items)
            field(k) == Fields(t)[k]
            item(k) == o.items[k]
            at == PutMembersAt(Serialize, t, o)
            size == FieldsSizeAt(SizeOf, t, o)
            asked(k) == \E j \in 1..k : NullAsked[field(j)][item(j)]
            Holds == {k \in 0..n : Adds(Empty, at[k], size[k], asked(k))}
<1>1. t \in Types /\ t.kind \in Nested
      /\ t.kind \notin Scalars \cup {"string", "wstring", "bitmask", "sequence"}
  BY ScalarWidths DEF Class, Nested
<1>2. n \in Nat /\ 1..n = DOMAIN Fields(t) /\ 1..n = DOMAIN o.items
  <2>1. n \in Nat /\ 1..n = DOMAIN Fields(t)
    BY ObjectValues
  <2>2. o.items \in Seq(ValuesUpTo[MaxDepth])
    BY <1>1, SentValues
  <2>. QED
    BY <2>1, <2>2
<1>3. \A k \in 1..n : /\ field(k) \in Types
                      /\ item(k) \in Values[field(k)]
                      /\ field(k).kind \in Scalars => item(k) # NULL
  <2>1. \A k \in 1..n : field(k) \in Types
    BY <1>2, BelowType
  <2>. QED
    BY <1>1, <1>2, <2>1, SentValues
<1>4. \A k \in 1..n : \A c \in Buffer :
        Adds(c, PutMember(Serialize, c, field(k), item(k)), MemberSize(field(k), item(k)),
             NullAsked[field(k)][item(k)])
  <2>1. SUFFICES ASSUME NEW k \in 1..n, NEW c \in Buffer
                 PROVE  Adds(c, PutMember(Serialize, c, field(k), item(k)),
                             MemberSize(field(k), item(k)), NullAsked[field(k)][item(k)])
    OBVIOUS
  <2>2. /\ field(k).kind \in Nested => Serializes(field(k))
        /\ field(k).kind = "sequence" /\ field(k).elem.kind \in Nested =>
             Serializes(field(k).elem)
    BY <1>2, BelowType
  <2>. HIDE DEF field, item
  <2>. QED
    BY <1>3, <2>2, PutMemberAdds
<1>5. /\ at[0] = Empty
      /\ \A k \in 1..n : at[k] = PutMember(Serialize, at[k-1], field(k), item(k))
      /\ PutMembers(Serialize, t, o) = at[n]
  <2>1. \A k \in 1..n : \A c \in Buffer : PutMember(Serialize, c, field(k), item(k)) \in Buffer
    BY <1>4 DEF Adds
  <2>. QED
    BY <1>2, <2>1, BufferIs, PutMembersAtIs
<1>6. Serialize[t][o] = at[n]
  BY <1>5, SerializeDef
<1>7. \A k \in 1..n : SizeOf[field(k)][item(k)] \in Nat
  BY <1>3, SizeIsNat
<1>8. /\ size \in [0..n -> Nat] /\ size[0] = 0
      /\ \A k \in 1..n : size[k] = size[k-1] + MemberSize(field(k), item(k))
      /\ SizeOf[t][o] = size[n]
  <2>1. \A k \in 1..n : \A c \in Nat :
          (IF Fields(t)[k].kind \in {"bitmask", "wstring"} THEN c
           ELSE c + SizeOf[Fields(t)[k]][o.items[k]]) \in Nat
    BY <1>7
  <2>2. /\ size \in [0..n -> Nat] /\ size[0] = 0
        /\ \A k \in 1..n :
             size[k] = (IF Fields(t)[k].kind \in {"bitmask", "wstring"} THEN size[k-1]
                        ELSE size[k-1] + SizeOf[Fields(t)[k]][o.items[k]])
        /\ FieldsSize(SizeOf, t, o) = size[n]
    <3>1. Len(o.items) \in Nat /\ 0 \in Nat
      BY <1>2
    <3>2. size \in [0..n -> Nat] /\ size[0] = 0
      BY <2>1, <3>1, FieldsSizeAtIs
    <3>3. FieldsSize(SizeOf, t, o) = size[n]
      BY <2>1, <3>1, FieldsSizeAtIs
    <3>4. \A k \in 1..n :
            size[k] = (IF Fields(t)[k].kind \in {"bitmask", "wstring"} THEN size[k-1]
                       ELSE size[k-1] + SizeOf[Fields(t)[k]][o.items[k]])
      BY <2>1, <3>1, FieldsSizeAtIs
    <3>. HIDE DEF size, n
    <3>. QED
      BY <3>2, <3>3, <3>4
  <2>3. SizeOf[t][o] = FieldsSize(SizeOf, t, o)
    <3>1. Size(SizeOf, t, o) = FieldsSize(SizeOf, t, o)
      BY <1>1 DEF Size
    <3>. QED
      BY <1>1, <3>1, SizeOfDef
  <2>. HIDE DEF size
  <2>4. ASSUME NEW k \in 1..n
        PROVE  size[k] = size[k-1] + MemberSize(field(k), item(k))
    <3>1. k - 1 \in 0..n
      BY <1>2
    <3>2. size[k-1] \in Nat /\ size[k-1] + 0 = size[k-1]
      BY <2>2, <3>1
    <3>3. CASE field(k).kind \in {"bitmask", "wstring"}
      BY <2>2, <3>2, <3>3 DEF MemberSize
    <3>4. CASE field(k).kind \notin {"bitmask", "wstring"}
      BY <2>2, <3>4 DEF MemberSize
    <3>. QED
      BY <3>3, <3>4
  <2>. QED
    BY <2>2, <2>3, <2>4
<1>9. NullAsked[t][o] <=> asked(n)
  <2>1. NullAsked[t][o] = Asks(NullAsked, t, o)
    BY <1>1, NullAskedDef
  <2>2. Asks(NullAsked, t, o) <=> \E k \in DOMAIN o.items : NullAsked[field(k)][item(k)]
    BY <1>1 DEF Asks
  <2>. QED
    BY <1>2, <2>1, <2>2
<1>. HIDE DEF n, field, item, at, size
<1>10. 0 \in Holds
  <2>1. ~asked(0)
    OBVIOUS
  <2>2. Adds(Empty, Empty, 0, FALSE)
    BY BufferIs, AddsNothing
  <2>. QED
    BY <1>2, <1>5, <1>8, <2>1, <2>2 DEF Adds
<1>11. ASSUME NEW k \in 1..n, k - 1 \in Holds
       PROVE  k \in Holds
  <2>. DEFINE more == MemberSize(field(k), item(k))
              null == NullAsked[field(k)][item(k)]
  <2>1. Adds(Empty, at[k-1], size[k-1], asked(k-1)) /\ at[k-1] \in Buffer
    BY <1>11 DEF Adds
  <2>2. Adds(at[k-1], at[k], more, null)
    BY <1>4, <1>5, <2>1
  <2>3. more \in Nat /\ size[k-1] \in Nat
    <3>1. size[k-1] \in Nat
      BY <1>2, <1>8
    <3>2. more \in Nat
      BY <1>7 DEF MemberSize
    <3>. QED
      BY <3>1, <3>2
  <2>4. size[k] = size[k-1] + more
    BY <1>8
  <2>5. asked(k) <=> asked(k-1) \/ null
    <3>1. \A j : j \in 1..k <=> j \in 1..(k-1) \/ j = k
      BY <1>2
    <3>. QED
      BY <3>1
  <2>. HIDE DEF asked, more, null
  <2>6. Adds(Empty, at[k], size[k-1] + more, asked(k-1) \/ null)
    BY <2>1, <2>2, <2>3, AddsTogether
  <2>7. Adds(Empty, at[k], size[k], asked(k))
    BY <2>4, <2>5, <2>6 DEF Adds
  <2>. QED
    BY <1>2, <2>7
<1>12. 0..n \subseteq Holds
  <2>. HIDE DEF Holds
  <2>. QED
    BY <1>2, <1>10, <1>11, StepInduction
<1>13. Adds(Empty, at[n], size[n], asked(n))
  <2>1. n \in 0..n
    BY <1>2
  <2>. QED
    BY <1>12, <2>1
<1>. HIDE DEF asked
<1>. QED
  BY <1>6, <1>8, <1>9, <1>13 DEF Adds

(* serialize() of every object of every class. *)
LEMMA SerializeAdds ==
  ASSUME NEW t \in Class, NEW o \in Values[t] \ {NULL}
  PROVE  Adds(Empty, Serialize[t][o], SizeOf[t][o], NullAsked[t][o])
<1>. DEFINE Right == {s \in Types : s \in Class => Serializes(s)}
<1>1. ASSUME NEW s \in Types, \A p \in Types : Depth[p] < Depth[s] => p \in Right
      PROVE  s \in Right
  <2>1. SUFFICES ASSUME s \in Class
                 PROVE  Serializes(s)
    OBVIOUS
  <2>2. \A p \in Class : Depth[p] < Depth[s] => Serializes(p)
    BY <1>1 DEF Class
  <2>. QED
    BY <2>1, <2>2, PutMembersAdds DEF Serializes
<1>2. Types \subseteq Right
  <2>. HIDE DEF Right
  <2>. QED
    BY <1>1, TypeInduction
<1>. QED
  BY <1>2 DEF Class, Serializes

-----------------------------------------------------------------------------
(* What a field may hold. *)

LEMMA ValuesUpToGrow ==
  ASSUME NEW d \in 0..MaxDepth, NEW e \in d..MaxDepth
  PROVE  ValuesUpTo[d] \subseteq ValuesUpTo[e]
<1>. DEFINE Grows == {n \in 0..MaxDepth : n = 0 \/ ValuesUpTo[n-1] \subseteq ValuesUpTo[n]}
            Above == {n \in 0..MaxDepth : n >= d => ValuesUpTo[d] \subseteq ValuesUpTo[n]}
<1>1. MaxDepth \in Nat
  BY TypesAssumption
<1>2. ASSUME NEW n \in 0..MaxDepth, n < MaxDepth,
             n = 0 \/ ValuesUpTo[n-1] \subseteq ValuesUpTo[n]
      PROVE  ValuesUpTo[n] \subseteq ValuesUpTo[n + 1]
  <2>. DEFINE inner == IF n = 0 THEN {} ELSE ValuesUpTo[n-1]
  <2>1. n + 1 \in 0..MaxDepth /\ n + 1 # 0 /\ (n + 1) - 1 = n
    BY <1>1, <1>2
  <2>2. inner \subseteq ValuesUpTo[n]
    BY <1>2
  <2>3. ValuesUpTo[n] = {NULL} \cup [number : Int \cup {GARBAGE}] \cup [text : Seq(Int)]
                        \cup [items : Seq(inner)]
    BY ValuesUpToDef
  <2>4. ValuesUpTo[n + 1] = {NULL} \cup [number : Int \cup {GARBAGE}] \cup [text : Seq(Int)]
                            \cup [items : Seq(ValuesUpTo[n])]
    BY <2>1, ValuesUpToDef
  <2>. HIDE DEF inner
  <2>5. Seq(inner) \subseteq Seq(ValuesUpTo[n])
    BY <2>2
  <2>6. [items : Seq(inner)] \subseteq [items : Seq(ValuesUpTo[n])]
    BY <2>5
  <2>. QED
    BY <2>3, <2>4, <2>6
<1>3. 0..MaxDepth \subseteq Grows
  <2>1. 0 \in Grows
    BY <1>1
  <2>2. \A n \in 0..MaxDepth : n < MaxDepth /\ n \in Grows => n + 1 \in Grows
    <3>1. SUFFICES ASSUME NEW n \in 0..MaxDepth, n < MaxDepth, n \in Grows
                   PROVE  n + 1 \in Grows
      OBVIOUS
    <3>2. n + 1 \in 0..MaxDepth /\ (n + 1) - 1 = n
      BY <1>1, <3>1
    <3>. QED
      BY <1>2, <3>1, <3>2
  <2>. HIDE DEF Grows
  <2>. QED
    BY <1>1, <2>1, <2>2, InductionUpTo
<1>4. 0..MaxDepth \subseteq Above
  <2>1. 0 \in Above
    BY <1>1
  <2>2. \A n \in 0..MaxDepth : n < MaxDepth /\ n \in Above => n + 1 \in Above
    <3>1. SUFFICES ASSUME NEW n \in 0..MaxDepth, n < MaxDepth, n \in Above
                   PROVE  n + 1 \in Above
      OBVIOUS
    <3>2. n + 1 \in 0..MaxDepth /\ (n + 1) - 1 = n /\ n + 1 # 0
          /\ (n + 1 >= d => n + 1 = d \/ n >= d)
      BY <1>1, <3>1
    <3>3. ValuesUpTo[n] \subseteq ValuesUpTo[n + 1]
      BY <1>3, <3>2
    <3>4. n + 1 >= d => ValuesUpTo[d] \subseteq ValuesUpTo[n + 1]
      BY <3>1, <3>2, <3>3
    <3>. QED
      BY <3>2, <3>4
  <2>. HIDE DEF Above
  <2>. QED
    BY <1>1, <2>1, <2>2, InductionUpTo
<1>5. e \in 0..MaxDepth /\ e >= d
  BY <1>1
<1>. QED
  BY <1>4, <1>5

(* The objects of a struct or a union. *)
Objects(t) ==
  {o \in [items : Seq(ValuesUpTo[MaxDepth])] :
     /\ Len(o.items) = Len(Fields(t))
     /\ \A k \in DOMAIN o.items : o.items[k] \in Held[Fields(t)[k]]}

(* What may be in a field of each kind. *)
LEMMA HeldIs ==
  ASSUME NEW t \in Types
  PROVE  /\ NULL \in Held[t]
         /\ t.kind \in {"string", "wstring"} => Held[t] = [text : Seq(Int)] \cup {NULL}
         /\ t.kind = "sequence" => Held[t] = [items : Seq(Held[t.elem])] \cup {NULL}
         /\ t.kind \in Nested => Held[t] = Objects(t) \cup {NULL}
         /\ t.kind \notin {"string", "wstring", "sequence"} \cup Nested =>
              Held[t] = [number : Int \cup {GARBAGE}] \cup {NULL}
<1>. DEFINE is == OfType(t, Int \cup {GARBAGE}, Held)
<1>1. Held[t] = is \cup {NULL}
  BY HeldDef
<1>2. t.kind \in {"string", "wstring"} => is = [text : Seq(Int)]
  BY DEF OfType, Nested
<1>3. t.kind = "sequence" => is = [items : Seq(Held[t.elem])]
  BY DEF OfType, Nested
<1>4. t.kind \in Nested => is = Objects(t)
  BY DEF OfType, Nested, Objects
<1>5. t.kind \notin {"string", "wstring", "sequence"} \cup Nested => is = [number : Int \cup {GARBAGE}]
  BY DEF OfType
<1>. HIDE DEF is
<1>. QED
  BY <1>1, <1>2, <1>3, <1>4, <1>5

(* It is not deeper than its type. *)
LEMMA HeldUpTo ==
  ASSUME NEW t \in Types
  PROVE  Held[t] \subseteq ValuesUpTo[MaxDepth]
<1>. DEFINE Fits == {s \in Types : Held[s] \subseteq ValuesUpTo[Depth[s]]}
<1>1. \A s \in Types : Depth[s] \in 0..MaxDepth
  BY TypesAssumption
<1>2. ASSUME NEW s \in Types, \A p \in Types : Depth[p] < Depth[s] => p \in Fits
      PROVE  Held[s] \subseteq ValuesUpTo[Depth[s]]
  <2>. DEFINE d == Depth[s]
              inner == IF d = 0 THEN {} ELSE ValuesUpTo[d-1]
  <2>1. ValuesUpTo[d] = {NULL} \cup [number : Int \cup {GARBAGE}] \cup [text : Seq(Int)]
                        \cup [items : Seq(inner)]
    BY <1>1, ValuesUpToDef
  <2>2. ASSUME NEW p \in Parts(s)
        PROVE  Held[p] \subseteq inner
    <3>1. p \in Types /\ Depth[p] < d /\ Held[p] \subseteq ValuesUpTo[Depth[p]]
      BY <1>2, TypeParts
    <3>2. d # 0 /\ d - 1 \in 0..MaxDepth /\ Depth[p] \in 0..MaxDepth /\ d - 1 \in Depth[p]..MaxDepth
      BY <1>1, <3>1, TypesAssumption
    <3>3. ValuesUpTo[Depth[p]] \subseteq ValuesUpTo[d-1]
      BY <3>2, ValuesUpToGrow
    <3>. QED
      BY <3>1, <3>2, <3>3
  <2>. HIDE DEF inner, d
  <2>3. CASE s.kind = "sequence"
    <3>1. Held[s.elem] \subseteq inner
      BY <2>2, <2>3, TypeParts
    <3>2. [items : Seq(Held[s.elem])] \subseteq [items : Seq(inner)]
      BY <3>1
    <3>. QED
      BY <2>1, <2>3, <3>2, HeldIs DEF d
  <2>4. CASE s.kind \in Nested
    <3>1. ASSUME NEW o \in Objects(s)
          PROVE  o \in [items : Seq(inner)]
      <4>1. o.items \in Seq(ValuesUpTo[MaxDepth]) /\ o = [items |-> o.items]
        BY DEF Objects
      <4>2. DOMAIN o.items = DOMAIN Fields(s)
        <5>1. Len(o.items) = Len(Fields(s)) /\ Fields(s) \in Seq(Types)
          BY <2>4, TypeParts DEF Objects
        <5>. QED
          BY <4>1, <5>1
      <4>3. \A k \in DOMAIN o.items : o.items[k] \in inner
        <5>1. \A k \in DOMAIN o.items : o.items[k] \in Held[Fields(s)[k]]
          BY DEF Objects
        <5>2. \A k \in DOMAIN o.items : Fields(s)[k] \in Parts(s)
          BY <2>4, <4>2, TypeParts
        <5>. QED
          BY <2>2, <5>1, <5>2
      <4>4. o.items \in Seq(inner)
        BY <4>1, <4>3
      <4>. QED
        BY <4>1, <4>4
    <3>. QED
      BY <2>1, <2>4, <3>1, HeldIs DEF d
  <2>5. CASE s.kind \notin {"sequence"} \cup Nested
    <3>1. Held[s] \subseteq {NULL} \cup [number : Int \cup {GARBAGE}] \cup [text : Seq(Int)]
      BY <2>5, HeldIs
    <3>. QED
      BY <2>1, <3>1 DEF d
  <2>. QED
    BY <2>3, <2>4, <2>5
<1>3. Types \subseteq Fits
  <2>. HIDE DEF Fits
  <2>1. \A s \in Types : (\A p \in Types : Depth[p] < Depth[s] => p \in Fits) => s \in Fits
    BY <1>2 DEF Fits
  <2>. QED
    BY <2>1, TypeInduction
<1>4. ValuesUpTo[Depth[t]] \subseteq ValuesUpTo[MaxDepth]
  <2>1. MaxDepth \in Depth[t]..MaxDepth
    BY TypesAssumption
  <2>. QED
    BY <1>1, <2>1, ValuesUpToGrow
<1>. QED
  BY <1>3, <1>4

(* The program's values may be in a field. *)
LEMMA SentIsHeld ==
  ASSUME NEW t \in Types
  PROVE  Values[t] \subseteq Held[t]
<1>. DEFINE Known == {s \in Types : Values[s] \subseteq Held[s]}
<1>1. ASSUME NEW s \in Types, \A p \in Types : Depth[p] < Depth[s] => p \in Known
      PROVE  s \in Known
  <2>1. SUFFICES ASSUME NEW v \in Values[s], v # NULL
                 PROVE  v \in Held[s]
    BY HeldIs
  <2>2. CASE s.kind = "sequence"
    <3>1. v \in [items : Seq(Values[s.elem])] /\ Values[s.elem] \subseteq Held[s.elem]
      BY <1>1, <2>1, <2>2, SentValues, TypeParts
    <3>2. v \in [items : Seq(Held[s.elem])]
      BY <3>1
    <3>. QED
      BY <2>2, <3>2, HeldIs
  <2>3. CASE s.kind \in Nested
    <3>1. /\ v.items \in Seq(ValuesUpTo[MaxDepth]) /\ v = [items |-> v.items]
          /\ Len(v.items) = Len(Fields(s))
          /\ \A k \in DOMAIN v.items : v.items[k] \in Values[Fields(s)[k]]
      BY <2>1, <2>3, SentValues
    <3>2. \A k \in DOMAIN v.items : k \in DOMAIN Fields(s)
      <4>1. Fields(s) \in Seq(Types)
        BY <2>3, TypeParts
      <4>. QED
        BY <3>1, <4>1
    <3>3. \A k \in DOMAIN v.items : Values[Fields(s)[k]] \subseteq Held[Fields(s)[k]]
      BY <1>1, <2>3, <3>2, TypeParts
    <3>4. v \in Objects(s)
      BY <3>1, <3>3 DEF Objects
    <3>. QED
      BY <2>3, <3>4, HeldIs
  <2>4. CASE s.kind \notin {"sequence"} \cup Nested
    <3>1. /\ s.kind \in {"string", "wstring"} => v \in [text : Seq(Int)]
          /\ s.kind \notin {"string", "wstring"} => v \in [number : Int \cup {GARBAGE}]
      BY <2>1, <2>4, SentValues
    <3>. QED
      BY <2>4, <3>1, HeldIs
  <2>. QED
    BY <2>2, <2>3, <2>4
<1>2. Types \subseteq Known
  <2>. HIDE DEF Known
  <2>. QED
    BY <1>1, TypeInduction
<1>. QED
  BY <1>2

(* An object is no null. *)
LEMMA ObjectIsHeld ==
  ASSUME NEW t \in Class
  PROVE  Held[t] \ {NULL} = Objects(t)
<1>1. t \in Types /\ Held[t] = Objects(t) \cup {NULL}
  BY HeldIs DEF Class
<1>2. NULL \notin Objects(t)
  BY NullAssumption DEF Objects
<1>. QED
  BY <1>1, <1>2

LEMMA ObjectFields ==
  ASSUME NEW t \in Class, NEW o \in Objects(t)
  PROVE  /\ o = [items |-> o.items] /\ o.items \in Seq(ValuesUpTo[MaxDepth])
         /\ Len(o.items) = Len(Fields(t)) /\ DOMAIN o.items = DOMAIN Fields(t)
         /\ \A k \in DOMAIN Fields(t) :
              /\ Fields(t)[k] \in Types /\ o.items[k] \in Held[Fields(t)[k]]
              /\ \A v \in Held[Fields(t)[k]] : [items |-> [o.items EXCEPT ![k] = v]] \in Objects(t)
<1>1. Fields(t) \in Seq(Types)
  BY TypeParts DEF Class
<1>2. /\ o = [items |-> o.items] /\ o.items \in Seq(ValuesUpTo[MaxDepth])
      /\ Len(o.items) = Len(Fields(t))
      /\ \A k \in DOMAIN o.items : o.items[k] \in Held[Fields(t)[k]]
  BY DEF Objects
<1>3. DOMAIN o.items = DOMAIN Fields(t)
  BY <1>1, <1>2
<1>4. ASSUME NEW k \in DOMAIN Fields(t), NEW v \in Held[Fields(t)[k]]
      PROVE  [items |-> [o.items EXCEPT ![k] = v]] \in Objects(t)
  <2>. DEFINE new == [o.items EXCEPT ![k] = v]
  <2>1. v \in ValuesUpTo[MaxDepth]
    BY <1>1, HeldUpTo
  <2>2. new \in Seq(ValuesUpTo[MaxDepth]) /\ Len(new) = Len(o.items) /\ DOMAIN new = DOMAIN o.items
    BY <1>2, <2>1
  <2>3. \A j \in DOMAIN new : new[j] \in Held[Fields(t)[j]]
    BY <1>2
  <2>. HIDE DEF new
  <2>4. [items |-> new] \in Objects(t)
    BY <1>2, <2>2, <2>3 DEF Objects
  <2>. QED
    BY <2>4 DEF new
<1>. QED
  BY <1>1, <1>2, <1>3, <1>4

LEMMA FreshIsHeld ==
  ASSUME NEW t \in Class
  PROVE  Fresh(t) \in Objects(t)
<1>. DEFINE item(k) == IF Fields(t)[k].kind \in Scalars THEN [number |-> 0] ELSE NULL
            items == [k \in DOMAIN Fields(t) |-> item(k)]
<1>1. Fields(t) \in Seq(Types)
  BY TypeParts DEF Class
<1>2. ASSUME NEW k \in DOMAIN Fields(t)
      PROVE  item(k) \in Held[Fields(t)[k]] /\ item(k) \in ValuesUpTo[MaxDepth]
  <2>1. Fields(t)[k] \in Types
    BY <1>1
  <2>2. CASE Fields(t)[k].kind \in Scalars
    <3>1. Fields(t)[k].kind \notin {"string", "wstring", "sequence"} \cup Nested
      BY <2>2, ScalarWidths DEF Nested
    <3>2. Held[Fields(t)[k]] = [number : Int \cup {GARBAGE}] \cup {NULL}
      BY <2>1, <3>1, HeldIs
    <3>3. item(k) = [number |-> 0]
      BY <2>2
    <3>. QED
      BY <2>1, <3>2, <3>3, HeldUpTo
  <2>3. CASE Fields(t)[k].kind \notin Scalars
    BY <2>1, <2>3, HeldIs, HeldUpTo
  <2>. QED
    BY <2>2, <2>3
<1>. HIDE DEF item
<1>3. Len(Fields(t)) \in Nat /\ DOMAIN Fields(t) = 1..Len(Fields(t))
  BY <1>1
<1>4. items \in Seq(ValuesUpTo[MaxDepth]) /\ Len(items) = Len(Fields(t))
  BY <1>2, <1>3
<1>5. \A k \in DOMAIN items : items[k] \in Held[Fields(t)[k]]
  BY <1>2
<1>6. Fresh(t) = [items |-> items]
  BY DEF Fresh, item
<1>. HIDE DEF items
<1>. QED
  BY <1>4, <1>5, <1>6 DEF Objects

-----------------------------------------------------------------------------
(* deserialize(). *)

(* What a read gives whose value is in S. *)
Results(S) == [pos : Nat, error : Errors, value : S]

LEMMA ResultsAre ==
  ASSUME NEW S, NEW pos \in Nat, NEW v \in S
  PROVE  /\ Read(pos, v) \in Results(S)
         /\ \A error \in Errors : Failed(pos, error, v) \in Results(S)
BY DEF Read, Failed, Results, Errors

LEMMA GetNumberIs ==
  ASSUME NEW data \in Seq(Byte), NEW pos \in Nat, NEW width \in 1..8, NEW old
  PROVE  \/ GetNumber(data, pos, width, old) = Failed(pos, "BufferUnderflow", old)
         \/ /\ pos + width <= Len(data)
            /\ \E x \in Int \cup {GARBAGE} :
                 GetNumber(data, pos, width, old) = Read(pos + width, [number |-> x])
<1>1. CASE pos + width > Len(data)
  BY <1>1 DEF GetNumber
<1>2. CASE ~(pos + width > Len(data))
  <2>. DEFINE n == data[pos + 1][2]
              x == IF \A j \in 1..width : data[pos + j] = <<j, n>> THEN n ELSE GARBAGE
  <2>1. GetNumber(data, pos, width, old) = Read(pos + width, [number |-> x])
    BY <1>2 DEF GetNumber
  <2>2. pos + 1 \in 1..Len(data)
    BY <1>2
  <2>3. data[pos + 1] \in Byte
    BY <2>2
  <2>4. n \in Int
    BY <2>3 DEF Byte
  <2>5. x \in Int \cup {GARBAGE}
    <3>. HIDE DEF n
    <3>. QED
      BY <2>4
  <2>6. pos + width <= Len(data)
    BY <1>2
  <2>. HIDE DEF x, n
  <2>. QED
    BY <2>1, <2>5, <2>6
<1>. QED
  BY <1>1, <1>2

LEMMA GetNumberTyped ==
  ASSUME NEW data \in Seq(Byte), NEW pos \in Nat, NEW width \in 1..8,
         NEW S, NEW old \in S, [number : Int \cup {GARBAGE}] \subseteq S
  PROVE  GetNumber(data, pos, width, old) \in Results(S)
<1>1. "BufferUnderflow" \in Errors
  BY DEF Errors, Exceptions
<1>2. CASE GetNumber(data, pos, width, old) = Failed(pos, "BufferUnderflow", old)
  BY <1>1, <1>2, ResultsAre
<1>3. ASSUME NEW x \in Int \cup {GARBAGE},
             GetNumber(data, pos, width, old) = Read(pos + width, [number |-> x])
      PROVE  GetNumber(data, pos, width, old) \in Results(S)
  <2>1. [number |-> x] \in S /\ pos + width \in Nat
    OBVIOUS
  <2>. QED
    BY <1>3, <2>1, ResultsAre
<1>. QED
  BY <1>2, <1>3, GetNumberIs

LEMMA TextAtIs ==
  ASSUME NEW data \in Seq(Byte), NEW pos \in Nat, NEW n \in Nat, pos + n <= Len(data)
  PROVE  TextAt(data, pos, n) \in [text : Seq(Int)]
<1>. DEFINE text == [j \in 1..n |-> data[pos + j][2]]
<1>1. ASSUME NEW j \in 1..n
      PROVE  data[pos + j][2] \in Int
  <2>1. pos + j \in 1..Len(data)
    OBVIOUS
  <2>2. data[pos + j] \in Byte
    BY <2>1
  <2>. QED
    BY <2>2 DEF Byte
<1>2. text \in Seq(Int)
  BY <1>1
<1>3. TextAt(data, pos, n) = [text |-> text]
  BY DEF TextAt
<1>. HIDE DEF text
<1>. QED
  BY <1>2, <1>3

LEMMA GetTextTyped ==
  ASSUME NEW data \in Seq(Byte), NEW pos \in Nat, NEW exception \in Errors,
         NEW S, NEW old \in S, NULL \in S, [text : Seq(Int)] \subseteq S
  PROVE  GetText(data, pos, old, exception) \in Results(S)
<1>. DEFINE n == GetNumber(data, pos, 4, old)
            len == n.value.number
<1>1. "BufferUnderflow" \in Errors /\ "Garbled" \in Errors /\ "BufferUnderflow" # "none"
  BY DEF Errors, Exceptions
<1>2. CASE n = Failed(pos, "BufferUnderflow", old)
  <2>1. n.error # "none"
    BY <1>1, <1>2 DEF Failed
  <2>2. GetText(data, pos, old, exception) = n
    BY <2>1 DEF GetText
  <2>. HIDE DEF n
  <2>. QED
    BY <1>1, <1>2, <2>2, ResultsAre
<1>3. ASSUME NEW x \in Int \cup {GARBAGE}, n = Read(pos + 4, [number |-> x])
      PROVE  GetText(data, pos, old, exception) \in Results(S)
  <2>1. n.pos = pos + 4 /\ n.error = "none" /\ len = x /\ pos + 4 \in Nat
    BY <1>3 DEF Read
  <2>2. GetText(data, pos, old, exception) =
          IF x = GARBAGE THEN Failed(pos + 4, "Garbled", old)
          ELSE IF x <= 0 THEN Read(pos + 4, NULL)
          ELSE IF pos + 4 + x > Len(data) THEN Failed(pos + 4, exception, old)
          ELSE Read(pos + 4 + x, TextAt(data, pos + 4, x))
    BY <2>1 DEF GetText
  <2>3. CASE x = GARBAGE
    BY <1>1, <2>1, <2>2, <2>3, ResultsAre
  <2>4. CASE x # GARBAGE /\ x <= 0
    BY <2>1, <2>2, <2>4, ResultsAre
  <2>5. CASE x # GARBAGE /\ ~(x <= 0) /\ pos + 4 + x > Len(data)
    BY <2>1, <2>2, <2>5, ResultsAre
  <2>6. CASE x # GARBAGE /\ ~(x <= 0) /\ ~(pos + 4 + x > Len(data))
    <3>1. x \in Nat /\ pos + 4 + x \in Nat /\ (pos + 4) + x <= Len(data)
      BY <2>6
    <3>2. TextAt(data, pos + 4, x) \in S
      BY <2>1, <3>1, TextAtIs
    <3>3. GetText(data, pos, old, exception) = Read(pos + 4 + x, TextAt(data, pos + 4, x))
      BY <2>2, <2>6
    <3>. QED
      BY <3>1, <3>2, <3>3, ResultsAre
  <2>. QED
    BY <2>3, <2>4, <2>5, <2>6
<1>4. \/ n = Failed(pos, "BufferUnderflow", old)
      \/ \E x \in Int \cup {GARBAGE} : n = Read(pos + 4, [number |-> x])
  BY GetNumberIs
<1>. QED
  BY <1>2, <1>3, <1>4

(* deserialize() of class t takes any bytes and leaves an object of t. *)
Deserializes(h, t) ==
  \A data \in Seq(Byte) : \A o \in Objects(t) : h[t][data][o] \in Results(Objects(t))

LEMMA GetObjectTyped ==
  ASSUME NEW h, NEW t \in Class, Deserializes(h, t),
         NEW data \in Seq(Byte), NEW pos \in Nat, NEW old \in Held[t]
  PROVE  GetObject(h, data, pos, t, old) \in Results(Held[t])
<1>. DEFINE target == IF old = NULL THEN Fresh(t) ELSE old
            rest == SubSeq(data, pos + 1, Len(data))
            inner == h[t][rest][target]
<1>1. target \in Objects(t)
  BY FreshIsHeld, ObjectIsHeld
<1>2. rest \in Seq(Byte)
  <2>1. \A i \in (pos + 1)..Len(data) : i \in 1..Len(data)
    OBVIOUS
  <2>2. \A i \in (pos + 1)..Len(data) : data[i] \in Byte
    BY <2>1
  <2>3. pos + 1 \in Int /\ Len(data) \in Int
    OBVIOUS
  <2>. QED
    BY <2>2, <2>3, SubSeqProperties
<1>3. GetObject(h, data, pos, t, old) = [inner EXCEPT !.pos = Len(data)]
  BY DEF GetObject
<1>. HIDE DEF target, rest
<1>4. inner \in Results(Objects(t))
  BY <1>1, <1>2 DEF Deserializes
<1>5. Objects(t) \subseteq Held[t]
  BY ObjectIsHeld
<1>6. Len(data) \in Nat
  OBVIOUS
<1>. HIDE DEF inner
<1>. QED
  BY <1>3, <1>4, <1>5, <1>6 DEF Results

LEMMA GetElementTyped ==
  ASSUME NEW h, NEW t \in Types, t.kind \in Nested => Deserializes(h, t),
         t.kind \in CodedElements, NEW data \in Seq(Byte), NEW pos \in Nat
  PROVE  GetElement(h, data, pos, t) \in Results(Held[t])
<1>1. NULL \in Held[t]
  BY HeldIs
<1>2. CASE t.kind \in Scalars
  <2>1. t.kind \notin {"string", "wstring", "sequence", "bitmask"} \cup Nested
    BY <1>2, ScalarWidths DEF Nested
  <2>2. [number : Int \cup {GARBAGE}] \subseteq Held[t]
    BY <2>1, HeldIs
  <2>3. GetElement(h, data, pos, t) = GetNumber(data, pos, Width[t.kind], NULL)
    BY <1>2, <2>1 DEF GetElement
  <2>4. Width[t.kind] \in 1..8
    BY <1>2, ScalarWidths
  <2>. QED
    BY <1>1, <2>2, <2>3, <2>4, GetNumberTyped
<1>3. CASE t.kind = "wstring"
  <2>1. t.kind \notin Scalars \cup {"bitmask"} \cup Nested
    BY <1>3, ScalarWidths DEF Nested
  <2>2. GetElement(h, data, pos, t) = GetText(data, pos, NULL, "BufferUnderflow")
    BY <1>3, <2>1 DEF GetElement
  <2>3. [text : Seq(Int)] \subseteq Held[t] /\ "BufferUnderflow" \in Errors
    BY <1>3, HeldIs DEF Errors, Exceptions
  <2>. QED
    BY <1>1, <2>2, <2>3, GetTextTyped
<1>4. CASE t.kind = "bitmask"
  <2>1. t.kind \notin Scalars \cup {"string", "wstring", "sequence"} \cup Nested
    BY <1>4, ScalarWidths DEF Nested
  <2>2. [number : Int \cup {GARBAGE}] \subseteq Held[t]
    BY <2>1, HeldIs
  <2>3. GetElement(h, data, pos, t) = GetNumber(data, pos, 8, NULL)
    BY <1>4, <2>1 DEF GetElement
  <2>. QED
    BY <1>1, <2>2, <2>3, GetNumberTyped
<1>5. CASE t.kind \in Nested
  <2>1. t.kind \notin Scalars \cup {"bitmask", "wstring"}
    BY <1>5, ScalarWidths DEF Nested
  <2>2. GetElement(h, data, pos, t) = GetObject(h, data, pos, t, NULL)
    BY <1>5, <2>1 DEF GetElement
  <2>3. t \in Class
    BY <1>5 DEF Class
  <2>. QED
    BY <1>1, <1>5, <2>2, <2>3, GetObjectTyped
<1>. QED
  BY <1>2, <1>3, <1>4, <1>5 DEF CodedElements

(* The lists of elements of type t. *)
Lists(t) == [items : Seq(Held[t])]

LEMMA AddElementTyped ==
  ASSUME NEW h, NEW t \in Types, t.kind \in Nested => Deserializes(h, t),
         NEW data \in Seq(Byte), NEW list \in Results(Lists(t))
  PROVE  AddElement(h, data, t, list) \in Results(Lists(t))
<1>. DEFINE e == GetElement(h, data, list.pos, t)
<1>1. CASE list.error # "none" \/ t.kind \notin CodedElements
  BY <1>1 DEF AddElement
<1>2. CASE ~(list.error # "none" \/ t.kind \notin CodedElements)
  <2>1. list.pos \in Nat /\ list.value \in Lists(t)
    BY DEF Results
  <2>2. e \in Results(Held[t])
    BY <1>2, <2>1, GetElementTyped
  <2>. HIDE DEF e
  <2>3. e.pos \in Nat /\ e.error \in Errors /\ e.value \in Held[t]
    BY <2>2 DEF Results
  <2>4. CASE e.error # "none"
    <3>1. AddElement(h, data, t, list) = Failed(e.pos, e.error, list.value)
      BY <1>2, <2>4 DEF AddElement, e
    <3>. QED
      BY <2>1, <2>3, <3>1, ResultsAre
  <2>5. CASE e.error = "none"
    <3>1. AddElement(h, data, t, list) = Read(e.pos, [items |-> Append(list.value.items, e.value)])
      BY <1>2, <2>5 DEF AddElement, e
    <3>2. list.value.items \in Seq(Held[t])
      BY <2>1 DEF Lists
    <3>3. Append(list.value.items, e.value) \in Seq(Held[t])
      BY <2>3, <3>2, AppendProperties
    <3>4. [items |-> Append(list.value.items, e.value)] \in Lists(t)
      BY <3>3 DEF Lists
    <3>. QED
      BY <2>3, <3>1, <3>4, ResultsAre
  <2>. QED
    BY <2>4, <2>5
<1>. QED
  BY <1>1, <1>2

(* The list that is built of count elements, beginning with first. *)
GetList(h, data, t, first, count) ==
  After(LAMBDA k, list : AddElement(h, data, t, list), first, count)

GetListAt(h, data, t, first, count) ==
  CHOOSE f : f = [k \in 0..count |-> IF k = 0 THEN first ELSE AddElement(h, data, t, f[k-1])]

LEMMA GetListAtIs ==
  ASSUME NEW h, NEW data, NEW t, NEW first, NEW count,
         count \in Nat, first \in Results(Lists(t)),
         \A k \in 1..count : \A b \in Results(Lists(t)) : AddElement(h, data, t, b) \in Results(Lists(t))
  PROVE  /\ GetListAt(h, data, t, first, count) \in [0..count -> Results(Lists(t))]
         /\ GetListAt(h, data, t, first, count)[0] = first
         /\ \A k \in 1..count :
              GetListAt(h, data, t, first, count)[k]
                      = AddElement(h, data, t, GetListAt(h, data, t, first, count)[k-1])
         /\ GetList(h, data, t, first, count) = GetListAt(h, data, t, first, count)[count]
<1>. DEFINE n == count
            start == first
            Step(k, b) == AddElement(h, data, t, b)
            Is(f) == f = [k \in 0..n |-> IF k = 0 THEN start ELSE Step(k, f[k-1])]
            at == GetListAt(h, data, t, first, count)
            step == [k \in 1..n |-> [b \in Results(Lists(t)) |-> Step(k, b)]]
<1>1. GetList(h, data, t, first, count) = at[n] /\ at = CHOOSE f : Is(f)
  BY DEF After, GetListAt, GetList
<1>2. step \in [1..n -> [Results(Lists(t)) -> Results(Lists(t))]] /\ n \in Nat /\ start \in Results(Lists(t))
  OBVIOUS
<1>3. \A k \in 1..n : \A b \in Results(Lists(t)) : step[k][b] = Step(k, b)
  OBVIOUS
<1>. HIDE DEF Step, step, n, at, start
<1>4. PICK run \in [0..n -> Results(Lists(t))] : Steps(run, n, start, step)
  BY <1>2, Iterates
<1>5. Is(run)
  <2>1. \A k \in 1..n : step[k][run[k-1]] = Step(k, run[k-1])
    <3>1. \A k \in 1..n : k - 1 \in 0..n
      BY <1>2
    <3>. QED
      BY <1>3, <3>1
  <2>2. \A k \in 0..n : k = 0 \/ k \in 1..n
    BY <1>2
  <2>. QED
    BY <1>4, <2>1, <2>2 DEF Steps
<1>6. Is(at)
  <2>. HIDE DEF Is
  <2>. QED
    BY <1>1, <1>5
<1>7. /\ at = [k \in 0..n |-> at[k]] /\ at[0] = start
      /\ \A k \in 1..n : at[k] = Step(k, at[k-1])
  <2>1. 0 \in 0..n /\ \A k \in 1..n : k \in 0..n /\ k # 0
    BY <1>2
  <2>2. \A k \in 0..n : at[k] = IF k = 0 THEN start ELSE Step(k, at[k-1])
    BY <1>6
  <2>3. at = [k \in 0..n |-> at[k]]
    BY <1>6
  <2>. HIDE DEF Is
  <2>4. at[0] = start
    BY <2>1, <2>2
  <2>5. \A k \in 1..n : at[k] = Step(k, at[k-1])
    BY <2>1, <2>2
  <2>. QED
    BY <2>3, <2>4, <2>5
<1>8. \A k \in 0..n : at[k] \in Results(Lists(t))
  <2>1. StepsIn(Results(Lists(t)), at, n, start, step)
    BY <1>3, <1>7 DEF StepsIn
  <2>. QED
    BY <1>2, <2>1, Trace
<1>9. at \in [0..n -> Results(Lists(t))]
  BY <1>7, <1>8
<1>. QED
  BY <1>1, <1>7, <1>9 DEF at, n, Step, start

LEMMA GetListTyped ==
  ASSUME NEW h, NEW t \in Types, t.kind \in Nested => Deserializes(h, t),
         NEW data \in Seq(Byte), NEW first \in Results(Lists(t)), NEW count \in Nat
  PROVE  GetList(h, data, t, first, count) \in Results(Lists(t))
<1>1. \A k \in 1..count : \A b \in Results(Lists(t)) : AddElement(h, data, t, b) \in Results(Lists(t))
  BY AddElementTyped
<1>2. GetListAt(h, data, t, first, count) \in [0..count -> Results(Lists(t))]
  BY <1>1, GetListAtIs
<1>3. GetList(h, data, t, first, count) = GetListAt(h, data, t, first, count)[count]
  BY <1>1, GetListAtIs
<1>4. count \in 0..count
  OBVIOUS
<1>. QED
  BY <1>2, <1>3, <1>4

LEMMA GetSequenceTyped ==
  ASSUME NEW h, NEW t \in Types, t.kind = "sequence",
         t.elem.kind \in Nested => Deserializes(h, t.elem),
         NEW data \in Seq(Byte), NEW pos \in Nat, NEW old \in Held[t]
  PROVE  GetSequence(h, data, pos, t, old) \in Results(Held[t])
<1>. DEFINE n == GetNumber(data, pos, 4, old)
<1>1. "BufferUnderflow" \in Errors /\ "Garbled" \in Errors /\ "BufferUnderflow" # "none"
  BY DEF Errors, Exceptions
<1>2. CASE n = Failed(pos, "BufferUnderflow", old)
  <2>1. n.error # "none"
    BY <1>1, <1>2 DEF Failed
  <2>2. GetSequence(h, data, pos, t, old) = n
    BY <2>1 DEF GetSequence
  <2>. HIDE DEF n
  <2>. QED
    BY <1>1, <1>2, <2>2, ResultsAre
<1>3. ASSUME NEW x \in Int \cup {GARBAGE}, n = Read(pos + 4, [number |-> x])
      PROVE  GetSequence(h, data, pos, t, old) \in Results(Held[t])
  <2>. DEFINE count == IF x < 0 THEN 0 ELSE x
              first == Read(pos + 4, [items |-> <<>>])
  <2>1. n.pos = pos + 4 /\ n.error = "none" /\ n.value.number = x /\ pos + 4 \in Nat
    BY <1>3 DEF Read
  <2>2. GetSequence(h, data, pos, t, old) =
          IF x = GARBAGE THEN Failed(pos + 4, "Garbled", old)
          ELSE GetList(h, data, t.elem, first, count)
    BY <2>1 DEF GetSequence, GetList
  <2>3. CASE x = GARBAGE
    BY <1>1, <2>1, <2>2, <2>3, ResultsAre
  <2>4. CASE x # GARBAGE
    <3>1. count \in Nat
      BY <2>4
    <3>2. t.elem \in Types
      BY TypeParts
    <3>3. first \in Results(Lists(t.elem))
      <4>1. [items |-> <<>>] \in Lists(t.elem)
        BY DEF Lists
      <4>. QED
        BY <2>1, <4>1, ResultsAre
    <3>4. GetList(h, data, t.elem, first, count) \in Results(Lists(t.elem))
      <4>. HIDE DEF first, count
      <4>. QED
        BY <3>1, <3>2, <3>3, GetListTyped
    <3>5. Lists(t.elem) \subseteq Held[t]
      BY HeldIs DEF Lists
    <3>6. Results(Lists(t.elem)) \subseteq Results(Held[t])
      BY <3>5 DEF Results
    <3>. QED
      BY <2>2, <2>4, <3>4, <3>6
  <2>. QED
    BY <2>3, <2>4
<1>4. \/ n = Failed(pos, "BufferUnderflow", old)
      \/ \E x \in Int \cup {GARBAGE} : n = Read(pos + 4, [number |-> x])
  BY GetNumberIs
<1>. QED
  BY <1>2, <1>3, <1>4

LEMMA GetMemberTyped ==
  ASSUME NEW h, NEW t \in Types, t.kind \in Nested => Deserializes(h, t),
         t.kind = "sequence" /\ t.elem.kind \in Nested => Deserializes(h, t.elem),
         NEW data \in Seq(Byte), NEW pos \in Nat, NEW old \in Held[t]
  PROVE  GetMember(h, data, pos, t, old) \in Results(Held[t])
<1>1. CASE t.kind \in Scalars
  <2>1. t.kind \notin {"string", "wstring", "sequence"} \cup Nested
    BY <1>1, ScalarWidths DEF Nested
  <2>2. [number : Int \cup {GARBAGE}] \subseteq Held[t]
    BY <2>1, HeldIs
  <2>3. GetMember(h, data, pos, t, old) = GetNumber(data, pos, Width[t.kind], old)
    BY <1>1, <2>1 DEF GetMember
  <2>. QED
    BY <1>1, <2>2, <2>3, ScalarWidths, GetNumberTyped
<1>2. CASE t.kind = "string"
  <2>1. t.kind \notin Scalars \cup {"sequence"} \cup Nested
    BY <1>2, ScalarWidths DEF Nested
  <2>2. GetMember(h, data, pos, t, old) = GetText(data, pos, old, "IndexOutOfBounds")
    BY <1>2, <2>1 DEF GetMember
  <2>3. NULL \in Held[t] /\ [text : Seq(Int)] \subseteq Held[t] /\ "IndexOutOfBounds" \in Errors
    BY <1>2, HeldIs DEF Errors, Exceptions
  <2>. QED
    BY <2>2, <2>3, GetTextTyped
<1>3. CASE t.kind = "sequence"
  <2>1. t.kind \notin Scalars \cup {"string"} \cup Nested
    BY <1>3, ScalarWidths DEF Nested
  <2>2. GetMember(h, data, pos, t, old) = GetSequence(h, data, pos, t, old)
    BY <1>3, <2>1 DEF GetMember
  <2>. QED
    BY <1>3, <2>2, GetSequenceTyped
<1>4. CASE t.kind \in Nested
  <2>1. t.kind \notin Scalars \cup {"string", "sequence"}
    BY <1>4, ScalarWidths DEF Nested
  <2>2. GetMember(h, data, pos, t, old) = GetObject(h, data, pos, t, old)
    BY <1>4, <2>1 DEF GetMember
  <2>3. t \in Class
    BY <1>4 DEF Class
  <2>. QED
    BY <1>4, <2>2, <2>3, GetObjectTyped
<1>5. CASE t.kind \notin Scalars \cup {"string", "sequence"} \cup Nested
  <2>1. GetMember(h, data, pos, t, old) = Read(pos, old)
    BY <1>5 DEF GetMember
  <2>. QED
    BY <2>1, ResultsAre
<1>. QED
  BY <1>1, <1>2, <1>3, <1>4, <1>5

(* The fields that are read are fields. *)
LEMMA FieldsAreRead ==
  ASSUME NEW t \in Class
  PROVE  FieldsRead(t) \in Nat /\ 1..FieldsRead(t) \subseteq DOMAIN Fields(t)
<1>1. t \in Types /\ t.kind \in Nested /\ Fields(t) \in Seq(Types)
  BY TypeParts DEF Class
<1>2. CASE t.kind = "union"
  <2>. DEFINE d == <<[kind |-> IF Discriminator(t.disc) = "long" THEN "llong" ELSE "long"]>>
  <2>1. t.cases \in Seq(Types) /\ t.cases # <<>> /\ Fields(t) = d \o t.cases
    BY <1>1, <1>2, TypesAssumption DEF Fields
  <2>2. Len(t.cases) \in Nat /\ Len(t.cases) # 0
    BY <2>1
  <2>3. Len(Fields(t)) = 1 + Len(t.cases)
    BY <2>1
  <2>4. FieldsRead(t) = 2
    BY <1>2 DEF FieldsRead
  <2>5. DOMAIN Fields(t) = 1..Len(Fields(t))
    BY <1>1
  <2>. QED
    BY <2>2, <2>3, <2>4, <2>5
<1>3. CASE t.kind # "union"
  BY <1>1, <1>3 DEF FieldsRead
<1>. QED
  BY <1>2, <1>3

LEMMA GetFieldTyped ==
  ASSUME NEW h, NEW t \in Class, \A p \in Class : Depth[p] < Depth[t] => Deserializes(h, p),
         NEW data \in Seq(Byte), NEW o \in Objects(t), NEW k \in 1..FieldsRead(t),
         NEW d \in Results(Objects(t))
  PROVE  GetField(h, data, t, o, k, d) \in Results(Objects(t))
<1>. DEFINE field == Fields(t)[k]
            old == Old(t, o, k)
            r == GetMember(h, data, d.pos, field, old)
<1>1. k \in DOMAIN Fields(t)
  BY FieldsAreRead
<1>2. field \in Types
  BY <1>1, BelowType
<1>3. field.kind \in Nested => Deserializes(h, field)
  BY <1>1, BelowType
<1>4. field.kind = "sequence" /\ field.elem.kind \in Nested => Deserializes(h, field.elem)
  BY <1>1, BelowType
<1>5. old \in Held[field]
  <2>1. o.items[k] \in Held[field]
    BY <1>1, ObjectFields
  <2>2. NULL \in Held[field]
    BY <1>2, HeldIs
  <2>. QED
    BY <2>1, <2>2 DEF Old
<1>6. d.pos \in Nat /\ d.value \in Objects(t)
  BY DEF Results
<1>7. GetField(h, data, t, o, k, d) =
        IF d.error # "none" THEN d
        ELSE [r EXCEPT !.value = [items |-> [d.value.items EXCEPT ![k] = r.value]]]
  BY DEF GetField
<1>8. \A v \in Held[field] : [items |-> [d.value.items EXCEPT ![k] = v]] \in Objects(t)
  BY <1>1, <1>6, ObjectFields
<1>. HIDE DEF field, old
<1>9. r \in Results(Held[field])
  BY <1>2, <1>3, <1>4, <1>5, <1>6, GetMemberTyped
<1>. HIDE DEF r
<1>10. r.value \in Held[field]
  BY <1>9 DEF Results
<1>. DEFINE new == [items |-> [d.value.items EXCEPT ![k] = r.value]]
<1>11. new \in Objects(t)
  BY <1>8, <1>10
<1>12. GetField(h, data, t, o, k, d) = IF d.error # "none" THEN d ELSE [r EXCEPT !.value = new]
  BY <1>7
<1>. HIDE DEF new
<1>. QED
  BY <1>9, <1>11, <1>12 DEF Results

GetMembersAt(h, data, t, o) ==
  CHOOSE f : f = [k \in 0..FieldsRead(t) |->
                  IF k = 0 THEN Read(0, o) ELSE GetField(h, data, t, o, k, f[k-1])]

LEMMA GetMembersAtIs ==
  ASSUME NEW h, NEW data, NEW t, NEW o,
         FieldsRead(t) \in Nat, Read(0, o) \in Results(Objects(t)),
         \A k \in 1..FieldsRead(t) :
                  \A b \in Results(Objects(t)) : GetField(h, data, t, o, k, b) \in Results(Objects(t))
  PROVE  /\ GetMembersAt(h, data, t, o) \in [0..FieldsRead(t) -> Results(Objects(t))]
         /\ GetMembersAt(h, data, t, o)[0] = Read(0, o)
         /\ \A k \in 1..FieldsRead(t) :
              GetMembersAt(h, data, t, o)[k] = GetField(h, data, t, o, k, GetMembersAt(h, data, t, o)[k-1])
         /\ GetMembers(h, data, t, o) = GetMembersAt(h, data, t, o)[FieldsRead(t)]
<1>. DEFINE n == FieldsRead(t)
            start == Read(0, o)
            Step(k, b) == GetField(h, data, t, o, k, b)
            Is(f) == f = [k \in 0..n |-> IF k = 0 THEN start ELSE Step(k, f[k-1])]
            at == GetMembersAt(h, data, t, o)
            step == [k \in 1..n |-> [b \in Results(Objects(t)) |-> Step(k, b)]]
<1>1. GetMembers(h, data, t, o) = at[n] /\ at = CHOOSE f : Is(f)
  BY DEF After, GetMembersAt, GetMembers
<1>2. step \in [1..n -> [Results(Objects(t)) -> Results(Objects(t))]] /\ n \in Nat /\ start \in Results(Objects(t))
  OBVIOUS
<1>3. \A k \in 1..n : \A b \in Results(Objects(t)) : step[k][b] = Step(k, b)
  OBVIOUS
<1>. HIDE DEF Step, step, n, at, start
<1>4. PICK run \in [0..n -> Results(Objects(t))] : Steps(run, n, start, step)
  BY <1>2, Iterates
<1>5. Is(run)
  <2>1. \A k \in 1..n : step[k][run[k-1]] = Step(k, run[k-1])
    <3>1. \A k \in 1..n : k - 1 \in 0..n
      BY <1>2
    <3>. QED
      BY <1>3, <3>1
  <2>2. \A k \in 0..n : k = 0 \/ k \in 1..n
    BY <1>2
  <2>. QED
    BY <1>4, <2>1, <2>2 DEF Steps
<1>6. Is(at)
  <2>. HIDE DEF Is
  <2>. QED
    BY <1>1, <1>5
<1>7. /\ at = [k \in 0..n |-> at[k]] /\ at[0] = start
      /\ \A k \in 1..n : at[k] = Step(k, at[k-1])
  <2>1. 0 \in 0..n /\ \A k \in 1..n : k \in 0..n /\ k # 0
    BY <1>2
  <2>2. \A k \in 0..n : at[k] = IF k = 0 THEN start ELSE Step(k, at[k-1])
    BY <1>6
  <2>3. at = [k \in 0..n |-> at[k]]
    BY <1>6
  <2>. HIDE DEF Is
  <2>4. at[0] = start
    BY <2>1, <2>2
  <2>5. \A k \in 1..n : at[k] = Step(k, at[k-1])
    BY <2>1, <2>2
  <2>. QED
    BY <2>3, <2>4, <2>5
<1>8. \A k \in 0..n : at[k] \in Results(Objects(t))
  <2>1. StepsIn(Results(Objects(t)), at, n, start, step)
    BY <1>3, <1>7 DEF StepsIn
  <2>. QED
    BY <1>2, <2>1, Trace
<1>9. at \in [0..n -> Results(Objects(t))]
  BY <1>7, <1>8
<1>. QED
  BY <1>1, <1>7, <1>9 DEF at, n, Step, start

LEMMA GetMembersTyped ==
  ASSUME NEW h, NEW t \in Class, \A p \in Class : Depth[p] < Depth[t] => Deserializes(h, p),
         NEW data \in Seq(Byte), NEW o \in Objects(t)
  PROVE  GetMembers(h, data, t, o) \in Results(Objects(t))
<1>1. FieldsRead(t) \in Nat
  BY FieldsAreRead
<1>2. Read(0, o) \in Results(Objects(t))
  BY ResultsAre
<1>3. \A k \in 1..FieldsRead(t) : \A b \in Results(Objects(t)) :
        GetField(h, data, t, o, k, b) \in Results(Objects(t))
  BY GetFieldTyped
<1>4. GetMembersAt(h, data, t, o) \in [0..FieldsRead(t) -> Results(Objects(t))]
  BY <1>1, <1>2, <1>3, GetMembersAtIs
<1>5. GetMembers(h, data, t, o) = GetMembersAt(h, data, t, o)[FieldsRead(t)]
  BY <1>1, <1>2, <1>3, GetMembersAtIs
<1>6. FieldsRead(t) \in 0..FieldsRead(t)
  BY <1>1
<1>. QED
  BY <1>4, <1>5, <1>6

LEMMA GetElementRelies ==
  ASSUME NEW t, NEW h, NEW g, t.kind \in Nested => h[t] = g[t],
         NEW data, NEW pos
  PROVE  GetElement(h, data, pos, t) = GetElement(g, data, pos, t)
<1>1. CASE t.kind \in Nested
  <2>1. GetObject(h, data, pos, t, NULL) = GetObject(g, data, pos, t, NULL)
    BY <1>1 DEF GetObject
  <2>. QED
    BY <2>1 DEF GetElement
<1>2. CASE t.kind \notin Nested
  BY <1>2 DEF GetElement
<1>. QED
  BY <1>1, <1>2

LEMMA GetListRelies ==
  ASSUME NEW t, NEW h, NEW g, t.kind \in Nested => h[t] = g[t],
         NEW data, NEW first, NEW count
  PROVE  GetList(h, data, t, first, count) = GetList(g, data, t, first, count)
<1>. DEFINE H(k, list) == AddElement(h, data, t, list)
            G(k, list) == AddElement(g, data, t, list)
            ofH(f) == [k \in 0..count |-> IF k = 0 THEN first ELSE H(k, f[k-1])]
            ofG(f) == [k \in 0..count |-> IF k = 0 THEN first ELSE G(k, f[k-1])]
<1>1. \A k, list : H(k, list) = G(k, list)
  <2>1. \A list : GetElement(h, data, list.pos, t) = GetElement(g, data, list.pos, t)
    BY GetElementRelies
  <2>2. \A list : AddElement(h, data, t, list) = AddElement(g, data, t, list)
    BY <2>1 DEF AddElement
  <2>. QED
    BY <2>2
<1>2. GetList(h, data, t, first, count) = (CHOOSE f : f = ofH(f))[count]
  BY DEF After, GetList
<1>3. GetList(g, data, t, first, count) = (CHOOSE f : f = ofG(f))[count]
  BY DEF After, GetList
<1>4. \A f : ofH(f) = ofG(f)
  <2>. HIDE DEF H, G
  <2>. QED
    BY <1>1
<1>5. (CHOOSE f : f = ofH(f)) = CHOOSE f : f = ofG(f)
  <2>. HIDE DEF ofH, ofG
  <2>. QED
    BY <1>4
<1>. HIDE DEF ofH, ofG, H, G
<1>. QED
  BY <1>2, <1>3, <1>5

LEMMA GetMemberRelies ==
  ASSUME NEW t, NEW h, NEW g, t.kind \in Nested => h[t] = g[t],
         t.kind = "sequence" /\ t.elem.kind \in Nested => h[t.elem] = g[t.elem],
         NEW data, NEW pos, NEW old
  PROVE  GetMember(h, data, pos, t, old) = GetMember(g, data, pos, t, old)
<1>1. CASE t.kind \in Nested
  <2>1. GetObject(h, data, pos, t, old) = GetObject(g, data, pos, t, old)
    BY <1>1 DEF GetObject
  <2>. QED
    BY <1>1, <2>1 DEF GetMember, Nested
<1>2. CASE t.kind = "sequence"
  <2>1. \A first, count : GetList(h, data, t.elem, first, count) = GetList(g, data, t.elem, first, count)
    BY <1>2, GetListRelies
  <2>2. GetSequence(h, data, pos, t, old) = GetSequence(g, data, pos, t, old)
    <3>. DEFINE n == GetNumber(data, pos, 4, old)
                first == Read(n.pos, [items |-> <<>>])
                count == IF n.value.number < 0 THEN 0 ELSE n.value.number
                either(list) == IF n.error # "none" THEN n
                                ELSE IF n.value.number = GARBAGE THEN Failed(n.pos, "Garbled", old)
                                ELSE list
    <3>1. GetSequence(h, data, pos, t, old) = either(GetList(h, data, t.elem, first, count))
      BY DEF GetSequence, GetList
    <3>2. GetSequence(g, data, pos, t, old) = either(GetList(g, data, t.elem, first, count))
      BY DEF GetSequence, GetList
    <3>. HIDE DEF either, first, count
    <3>. QED
      BY <2>1, <3>1, <3>2
  <2>. QED
    BY <1>2, <2>2 DEF GetMember, Nested
<1>3. CASE t.kind \notin Nested \cup {"sequence"}
  BY <1>3 DEF GetMember
<1>. QED
  BY <1>1, <1>2, <1>3

LEMMA GetMembersRelies ==
  ASSUME NEW t \in Class, NEW h, NEW g,
         \A p \in Class : Depth[p] < Depth[t] => h[p] = g[p],
         NEW data, NEW o
  PROVE  GetMembers(h, data, t, o) = GetMembers(g, data, t, o)
<1>. DEFINE n == FieldsRead(t)
            H(k, d) == GetField(h, data, t, o, k, d)
            G(k, d) == GetField(g, data, t, o, k, d)
            start == Read(0, o)
            ofH(f) == [k \in 0..n |-> IF k = 0 THEN start ELSE H(k, f[k-1])]
            ofG(f) == [k \in 0..n |-> IF k = 0 THEN start ELSE G(k, f[k-1])]
<1>1. n \in Nat /\ 1..n \subseteq DOMAIN Fields(t)
  BY FieldsAreRead
<1>2. \A k \in 1..n : \A d : H(k, d) = G(k, d)
  <2>1. SUFFICES ASSUME NEW k \in DOMAIN Fields(t), NEW d
                 PROVE  GetField(h, data, t, o, k, d) = GetField(g, data, t, o, k, d)
    BY <1>1
  <2>2. Fields(t)[k].kind \in Nested => h[Fields(t)[k]] = g[Fields(t)[k]]
    BY BelowType
  <2>3. Fields(t)[k].kind = "sequence" /\ Fields(t)[k].elem.kind \in Nested =>
          h[Fields(t)[k].elem] = g[Fields(t)[k].elem]
    BY BelowType
  <2>4. GetMember(h, data, d.pos, Fields(t)[k], Old(t, o, k))
          = GetMember(g, data, d.pos, Fields(t)[k], Old(t, o, k))
    BY <2>2, <2>3, GetMemberRelies
  <2>. QED
    BY <2>4 DEF GetField
<1>3. GetMembers(h, data, t, o) = (CHOOSE f : f = ofH(f))[n]
  BY DEF After, GetMembers
<1>4. GetMembers(g, data, t, o) = (CHOOSE f : f = ofG(f))[n]
  BY DEF After, GetMembers
<1>5. \A f : ofH(f) = ofG(f)
  <2>1. \A k \in 0..n : k = 0 \/ k \in 1..n
    BY <1>1
  <2>. HIDE DEF H, G, start, n
  <2>. QED
    BY <1>2, <2>1
<1>6. (CHOOSE f : f = ofH(f)) = CHOOSE f : f = ofG(f)
  <2>. HIDE DEF ofH, ofG
  <2>. QED
    BY <1>5
<1>. HIDE DEF ofH, ofG, H, G, start, n
<1>. QED
  BY <1>3, <1>4, <1>6

LEMMA DeserializeDef ==
  /\ DOMAIN Deserialize = Class
  /\ \A t \in Class : Deserialize[t] = [data \in Seq(Byte) |->
                  [o \in Held[t] \ {NULL} |-> GetMembers(Deserialize, data, t, o)]]
<1>. DEFINE Body(t, h) == [data \in Seq(Byte) |-> [o \in Held[t] \ {NULL} |-> GetMembers(h, data, t, o)]]
            Known == {n \in Nat : \E h : h = [t \in Below(n) \cap Class |-> Body(t, h)]}
<1>1. ASSUME NEW t \in Class, NEW h, NEW g,
             \A p \in Class : Depth[p] < Depth[t] => h[p] = g[p]
      PROVE  Body(t, h) = Body(t, g)
  <2>1. \A data, o : GetMembers(h, data, t, o) = GetMembers(g, data, t, o)
    BY <1>1, GetMembersRelies
  <2>. QED
    BY <2>1
<1>. HIDE DEF Body
<1>2. 0 \in Known
  <2>1. <<>> = [t \in Below(0) \cap Class |-> Body(t, <<>>)]
    BY BelowAll
  <2>. QED
    BY <2>1
<1>3. \A n \in 0..(MaxDepth + 1) : n < MaxDepth + 1 /\ n \in Known => n + 1 \in Known
  <2>1. SUFFICES ASSUME NEW n \in Nat, n \in Known
                 PROVE  n + 1 \in Known
    OBVIOUS
  <2>2. PICK h : h = [t \in Below(n) \cap Class |-> Body(t, h)]
    BY <2>1
  <2>. DEFINE g == [t \in Below(n + 1) \cap Class |-> Body(t, h)]
  <2>3. \A t \in Below(n) \cap Class : g[t] = h[t]
    BY <2>1, <2>2, BelowAll
  <2>4. ASSUME NEW t \in Below(n + 1) \cap Class
        PROVE  Body(t, g) = Body(t, h)
    <3>1. t \in Class /\ \A p \in Class : Depth[p] < Depth[t] => p \in Below(n) \cap Class
      BY <2>1, BelowAll DEF Class
    <3>. HIDE DEF g
    <3>2. \A p \in Class : Depth[p] < Depth[t] => g[p] = h[p]
      BY <3>1, <2>3
    <3>. QED
      BY <3>1, <3>2, <1>1
  <2>5. g = [t \in Below(n + 1) \cap Class |-> Body(t, g)]
    BY <2>4
  <2>. HIDE DEF g
  <2>. QED
    BY <2>5
<1>4. MaxDepth + 1 \in Known
  <2>. HIDE DEF Known
  <2>. QED
    BY <1>2, <1>3, BelowAll, InductionUpTo
<1>5. Deserialize = [t \in Class |-> Body(t, Deserialize)]
  <2>1. Deserialize = CHOOSE h : h = [t \in Class |-> Body(t, h)]
    BY DEF Deserialize, Body
  <2>2. Below(MaxDepth + 1) \cap Class = Class
    BY BelowAll DEF Class
  <2>. QED
    BY <1>4, <2>1, <2>2
<1>6. ASSUME NEW t \in Class
      PROVE  Deserialize[t] = Body(t, Deserialize)
  BY <1>5
<1>. QED
  BY <1>5, <1>6 DEF Body

(* deserialize() of every class. *)
LEMMA DeserializeTyped ==
  ASSUME NEW t \in Class
  PROVE  Deserializes(Deserialize, t)
<1>. DEFINE Right == {s \in Types : s \in Class => Deserializes(Deserialize, s)}
<1>1. ASSUME NEW s \in Types, \A p \in Types : Depth[p] < Depth[s] => p \in Right
      PROVE  s \in Right
  <2>1. SUFFICES ASSUME s \in Class, NEW data \in Seq(Byte), NEW o \in Objects(s)
                 PROVE  Deserialize[s][data][o] \in Results(Objects(s))
    BY DEF Deserializes
  <2>2. \A p \in Class : Depth[p] < Depth[s] => Deserializes(Deserialize, p)
    BY <1>1 DEF Class
  <2>3. Deserialize[s][data] = [b \in Held[s] \ {NULL} |-> GetMembers(Deserialize, data, s, b)]
    BY <2>1, DeserializeDef
  <2>4. o \in Held[s] \ {NULL}
    BY <2>1, ObjectIsHeld
  <2>5. Deserialize[s][data][o] = GetMembers(Deserialize, data, s, o)
    BY <2>3, <2>4
  <2>. QED
    BY <2>1, <2>2, <2>5, GetMembersTyped
<1>2. Types \subseteq Right
  <2>. HIDE DEF Right
  <2>. QED
    BY <1>1, TypeInduction
<1>. QED
  BY <1>2 DEF Class

-----------------------------------------------------------------------------
(* What classes and objects have to be like for a message to arrive.  The  *)
(* recursive functions are what their definitions say.                     *)

AgreesIf(agrees, t) ==
  /\ t.kind = "struct" => StructAgrees(t)
  /\ t.kind = "union" => UnionAgrees(t)
  /\ \A p \in Parts(t) : agrees[p]

LEMMA AgreesRelies ==
  ASSUME NEW t \in Types, NEW h, NEW g, \A p \in Types : Depth[p] < Depth[t] => h[p] = g[p]
  PROVE  AgreesIf(h, t) = AgreesIf(g, t)
<1>1. \A p \in Parts(t) : h[p] = g[p]
  BY TypeParts
<1>2. (\A p \in Parts(t) : h[p]) = (\A p \in Parts(t) : g[p])
  BY <1>1
<1>. QED
  BY <1>2 DEF AgreesIf

LEMMA AgreesDef ==
  /\ DOMAIN Agrees = Types
  /\ \A t \in Types : Agrees[t] = AgreesIf(Agrees, t)
<1>. DEFINE Body(t, h) == AgreesIf(h, t)
            Known == {n \in Nat : \E h : h = [t \in Below(n) |-> Body(t, h)]}
<1>1. ASSUME NEW t \in Types, NEW h, NEW g,
             \A p \in Types : Depth[p] < Depth[t] => h[p] = g[p]
      PROVE  Body(t, h) = Body(t, g)
  BY <1>1, AgreesRelies
<1>. HIDE DEF Body
<1>2. 0 \in Known
  <2>1. <<>> = [t \in Below(0) |-> Body(t, <<>>)]
    BY BelowAll
  <2>. QED
    BY <2>1
<1>3. \A n \in 0..(MaxDepth + 1) : n < MaxDepth + 1 /\ n \in Known => n + 1 \in Known
  <2>1. SUFFICES ASSUME NEW n \in Nat, n \in Known
                 PROVE  n + 1 \in Known
    OBVIOUS
  <2>2. PICK h : h = [t \in Below(n) |-> Body(t, h)]
    BY <2>1
  <2>. DEFINE g == [t \in Below(n + 1) |-> Body(t, h)]
  <2>3. \A t \in Below(n) : g[t] = h[t]
    BY <2>1, <2>2, BelowAll
  <2>4. ASSUME NEW t \in Below(n + 1)
        PROVE  Body(t, g) = Body(t, h)
    <3>1. t \in Types /\ \A p \in Types : Depth[p] < Depth[t] => p \in Below(n)
      BY <2>1, BelowAll DEF Class
    <3>. HIDE DEF g
    <3>2. \A p \in Types : Depth[p] < Depth[t] => g[p] = h[p]
      BY <3>1, <2>3
    <3>. QED
      BY <3>1, <3>2, <1>1
  <2>5. g = [t \in Below(n + 1) |-> Body(t, g)]
    BY <2>4
  <2>. HIDE DEF g
  <2>. QED
    BY <2>5
<1>4. MaxDepth + 1 \in Known
  <2>. HIDE DEF Known
  <2>. QED
    BY <1>2, <1>3, BelowAll, InductionUpTo
<1>5. Agrees = [t \in Types |-> Body(t, Agrees)]
  <2>1. Agrees = CHOOSE h : h = [t \in Types |-> Body(t, h)]
    BY DEF Agrees, AgreesIf, Body
  <2>2. Below(MaxDepth + 1) = Types
    BY BelowAll DEF Class
  <2>. QED
    BY <1>4, <2>1, <2>2
<1>6. ASSUME NEW t \in Types
      PROVE  Agrees[t] = Body(t, Agrees)
  BY <1>5
<1>. QED
  BY <1>5, <1>6 DEF Body

FramedIf(framed, t) ==
  \A k \in 1..FieldsRead(t) :
    /\ Fields(t)[k].kind \in Nested => k = FieldsRead(t) /\ framed[Fields(t)[k]]
    /\ Fields(t)[k].kind = "sequence" =>
         Fields(t)[k].elem.kind \in Scalars \cup {"wstring", "bitmask"}

LEMMA FramedRelies ==
  ASSUME NEW t \in Class, NEW h, NEW g, \A p \in Class : Depth[p] < Depth[t] => h[p] = g[p]
  PROVE  FramedIf(h, t) = FramedIf(g, t)
<1>1. \A k \in 1..FieldsRead(t) :
        Fields(t)[k].kind \in Nested => h[Fields(t)[k]] = g[Fields(t)[k]]
  BY FieldsAreRead, BelowType
<1>. QED
  BY <1>1 DEF FramedIf

LEMMA FramedDef ==
  /\ DOMAIN Framed = Class
  /\ \A t \in Class : Framed[t] = FramedIf(Framed, t)
<1>. DEFINE Body(t, h) == FramedIf(h, t)
            Known == {n \in Nat : \E h : h = [t \in Below(n) \cap Class |-> Body(t, h)]}
<1>1. ASSUME NEW t \in Class, NEW h, NEW g,
             \A p \in Class : Depth[p] < Depth[t] => h[p] = g[p]
      PROVE  Body(t, h) = Body(t, g)
  BY <1>1, FramedRelies
<1>. HIDE DEF Body
<1>2. 0 \in Known
  <2>1. <<>> = [t \in Below(0) \cap Class |-> Body(t, <<>>)]
    BY BelowAll
  <2>. QED
    BY <2>1
<1>3. \A n \in 0..(MaxDepth + 1) : n < MaxDepth + 1 /\ n \in Known => n + 1 \in Known
  <2>1. SUFFICES ASSUME NEW n \in Nat, n \in Known
                 PROVE  n + 1 \in Known
    OBVIOUS
  <2>2. PICK h : h = [t \in Below(n) \cap Class |-> Body(t, h)]
    BY <2>1
  <2>. DEFINE g == [t \in Below(n + 1) \cap Class |-> Body(t, h)]
  <2>3. \A t \in Below(n) \cap Class : g[t] = h[t]
    BY <2>1, <2>2, BelowAll
  <2>4. ASSUME NEW t \in Below(n + 1) \cap Class
        PROVE  Body(t, g) = Body(t, h)
    <3>1. t \in Class /\ \A p \in Class : Depth[p] < Depth[t] => p \in Below(n) \cap Class
      BY <2>1, BelowAll DEF Class
    <3>. HIDE DEF g
    <3>2. \A p \in Class : Depth[p] < Depth[t] => g[p] = h[p]
      BY <3>1, <2>3
    <3>. QED
      BY <3>1, <3>2, <1>1
  <2>5. g = [t \in Below(n + 1) \cap Class |-> Body(t, g)]
    BY <2>4
  <2>. HIDE DEF g
  <2>. QED
    BY <2>5
<1>4. MaxDepth + 1 \in Known
  <2>. HIDE DEF Known
  <2>. QED
    BY <1>2, <1>3, BelowAll, InductionUpTo
<1>5. Framed = [t \in Class |-> Body(t, Framed)]
  <2>1. Framed = CHOOSE h : h = [t \in Class |-> Body(t, h)]
    BY DEF Framed, FramedIf, Body
  <2>2. Below(MaxDepth + 1) \cap Class = Class
    BY BelowAll DEF Class
  <2>. QED
    BY <1>4, <2>1, <2>2
<1>6. ASSUME NEW t \in Class
      PROVE  Framed[t] = Body(t, Framed)
  BY <1>5
<1>. QED
  BY <1>5, <1>6 DEF Body

CompleteIf(complete, t, o) ==
  \A k \in DOMAIN o.items :
    Fields(t)[k].kind \in Nested /\ (t.kind = "union" => k = 2) =>
      o.items[k] # NULL /\ complete[Fields(t)[k]][o.items[k]]

OneCaseIf(onecase, t, o) ==
  \A k \in DOMAIN o.items :
    Fields(t)[k].kind \in Nested /\ o.items[k] # NULL =>
      (t.kind = "union" => k = 2) /\ onecase[Fields(t)[k]][o.items[k]]

LEMMA ObjectIfRelies ==
  ASSUME NEW t \in Class, NEW h, NEW g, \A p \in Class : Depth[p] < Depth[t] => h[p] = g[p],
         NEW o \in Values[t] \ {NULL}
  PROVE  /\ CompleteIf(h, t, o) = CompleteIf(g, t, o)
         /\ OneCaseIf(h, t, o) = OneCaseIf(g, t, o)
<1>1. DOMAIN o.items = DOMAIN Fields(t)
  <2>1. o.items \in Seq(ValuesUpTo[MaxDepth])
    BY SentValues DEF Class
  <2>. QED
    BY <2>1, ObjectValues
<1>2. \A k \in DOMAIN o.items : Fields(t)[k].kind \in Nested => h[Fields(t)[k]] = g[Fields(t)[k]]
  BY <1>1, BelowType
<1>. QED
  BY <1>2 DEF CompleteIf, OneCaseIf

LEMMA CompleteDef ==
  /\ DOMAIN Complete = Class
  /\ \A t \in Class : Complete[t] = [o \in Values[t] \ {NULL} |-> CompleteIf(Complete, t, o)]
<1>. DEFINE Body(t, h) == [o \in Values[t] \ {NULL} |-> CompleteIf(h, t, o)]
            Known == {n \in Nat : \E h : h = [t \in Below(n) \cap Class |-> Body(t, h)]}
<1>1. ASSUME NEW t \in Class, NEW h, NEW g,
             \A p \in Class : Depth[p] < Depth[t] => h[p] = g[p]
      PROVE  Body(t, h) = Body(t, g)
  <2>1. \A o \in Values[t] \ {NULL} : CompleteIf(h, t, o) = CompleteIf(g, t, o)
    BY <1>1, ObjectIfRelies
  <2>. QED
    BY <2>1
<1>. HIDE DEF Body
<1>2. 0 \in Known
  <2>1. <<>> = [t \in Below(0) \cap Class |-> Body(t, <<>>)]
    BY BelowAll
  <2>. QED
    BY <2>1
<1>3. \A n \in 0..(MaxDepth + 1) : n < MaxDepth + 1 /\ n \in Known => n + 1 \in Known
  <2>1. SUFFICES ASSUME NEW n \in Nat, n \in Known
                 PROVE  n + 1 \in Known
    OBVIOUS
  <2>2. PICK h : h = [t \in Below(n) \cap Class |-> Body(t, h)]
    BY <2>1
  <2>. DEFINE g == [t \in Below(n + 1) \cap Class |-> Body(t, h)]
  <2>3. \A t \in Below(n) \cap Class : g[t] = h[t]
    BY <2>1, <2>2, BelowAll
  <2>4. ASSUME NEW t \in Below(n + 1) \cap Class
        PROVE  Body(t, g) = Body(t, h)
    <3>1. t \in Class /\ \A p \in Class : Depth[p] < Depth[t] => p \in Below(n) \cap Class
      BY <2>1, BelowAll DEF Class
    <3>. HIDE DEF g
    <3>2. \A p \in Class : Depth[p] < Depth[t] => g[p] = h[p]
      BY <3>1, <2>3
    <3>. QED
      BY <3>1, <3>2, <1>1
  <2>5. g = [t \in Below(n + 1) \cap Class |-> Body(t, g)]
    BY <2>4
  <2>. HIDE DEF g
  <2>. QED
    BY <2>5
<1>4. MaxDepth + 1 \in Known
  <2>. HIDE DEF Known
  <2>. QED
    BY <1>2, <1>3, BelowAll, InductionUpTo
<1>5. Complete = [t \in Class |-> Body(t, Complete)]
  <2>1. Complete = CHOOSE h : h = [t \in Class |-> Body(t, h)]
    BY DEF Complete, CompleteIf, Body
  <2>2. Below(MaxDepth + 1) \cap Class = Class
    BY BelowAll DEF Class
  <2>. QED
    BY <1>4, <2>1, <2>2
<1>6. ASSUME NEW t \in Class
      PROVE  Complete[t] = Body(t, Complete)
  BY <1>5
<1>. QED
  BY <1>5, <1>6 DEF Body

LEMMA OneCaseDef ==
  /\ DOMAIN OneCase = Class
  /\ \A t \in Class : OneCase[t] = [o \in Values[t] \ {NULL} |-> OneCaseIf(OneCase, t, o)]
<1>. DEFINE Body(t, h) == [o \in Values[t] \ {NULL} |-> OneCaseIf(h, t, o)]
            Known == {n \in Nat : \E h : h = [t \in Below(n) \cap Class |-> Body(t, h)]}
<1>1. ASSUME NEW t \in Class, NEW h, NEW g,
             \A p \in Class : Depth[p] < Depth[t] => h[p] = g[p]
      PROVE  Body(t, h) = Body(t, g)
  <2>1. \A o \in Values[t] \ {NULL} : OneCaseIf(h, t, o) = OneCaseIf(g, t, o)
    BY <1>1, ObjectIfRelies
  <2>. QED
    BY <2>1
<1>. HIDE DEF Body
<1>2. 0 \in Known
  <2>1. <<>> = [t \in Below(0) \cap Class |-> Body(t, <<>>)]
    BY BelowAll
  <2>. QED
    BY <2>1
<1>3. \A n \in 0..(MaxDepth + 1) : n < MaxDepth + 1 /\ n \in Known => n + 1 \in Known
  <2>1. SUFFICES ASSUME NEW n \in Nat, n \in Known
                 PROVE  n + 1 \in Known
    OBVIOUS
  <2>2. PICK h : h = [t \in Below(n) \cap Class |-> Body(t, h)]
    BY <2>1
  <2>. DEFINE g == [t \in Below(n + 1) \cap Class |-> Body(t, h)]
  <2>3. \A t \in Below(n) \cap Class : g[t] = h[t]
    BY <2>1, <2>2, BelowAll
  <2>4. ASSUME NEW t \in Below(n + 1) \cap Class
        PROVE  Body(t, g) = Body(t, h)
    <3>1. t \in Class /\ \A p \in Class : Depth[p] < Depth[t] => p \in Below(n) \cap Class
      BY <2>1, BelowAll DEF Class
    <3>. HIDE DEF g
    <3>2. \A p \in Class : Depth[p] < Depth[t] => g[p] = h[p]
      BY <3>1, <2>3
    <3>. QED
      BY <3>1, <3>2, <1>1
  <2>5. g = [t \in Below(n + 1) \cap Class |-> Body(t, g)]
    BY <2>4
  <2>. HIDE DEF g
  <2>. QED
    BY <2>5
<1>4. MaxDepth + 1 \in Known
  <2>. HIDE DEF Known
  <2>. QED
    BY <1>2, <1>3, BelowAll, InductionUpTo
<1>5. OneCase = [t \in Class |-> Body(t, OneCase)]
  <2>1. OneCase = CHOOSE h : h = [t \in Class |-> Body(t, h)]
    BY DEF OneCase, OneCaseIf, Body
  <2>2. Below(MaxDepth + 1) \cap Class = Class
    BY BelowAll DEF Class
  <2>. QED
    BY <1>4, <2>1, <2>2
<1>6. ASSUME NEW t \in Class
      PROVE  OneCase[t] = Body(t, OneCase)
  BY <1>5
<1>. QED
  BY <1>5, <1>6 DEF Body

LEMMA ArrivalRelies ==
  ASSUME NEW t \in Types, NEW h, NEW g, \A p \in Types : Depth[p] < Depth[t] => h[p] = g[p],
         NEW v, NEW old
  PROVE  Arrival(h, t, v, old) = Arrival(g, t, v, old)
<1>1. CASE t.kind \in Nested
  <2>1. \A k \in DOMAIN Fields(t) : h[Fields(t)[k]] = g[Fields(t)[k]]
    BY <1>1, BelowType DEF Class
  <2>. DEFINE into == IF old = NULL THEN Fresh(t) ELSE old
              fields(f) == [k \in DOMAIN Fields(t) |->
                              IF t.kind = "union" /\ k > 2 THEN into.items[k]
                              ELSE f[Fields(t)[k]][v.items[k]]
                                    [IF t.kind = "union" THEN NULL ELSE into.items[k]]]
  <2>2. fields(h) = fields(g)
    <3>. HIDE DEF into
    <3>. QED
      BY <2>1
  <2>3. t.kind \notin Scalars \cup {"string", "sequence"}
    BY <1>1, ScalarWidths DEF Nested
  <2>4. Arrival(h, t, v, old) = [items |-> fields(h)]
    BY <1>1, <2>3 DEF Arrival
  <2>5. Arrival(g, t, v, old) = [items |-> fields(g)]
    BY <1>1, <2>3 DEF Arrival
  <2>. HIDE DEF fields
  <2>. QED
    BY <2>2, <2>4, <2>5
<1>2. CASE t.kind \notin Nested
  BY <1>2 DEF Arrival
<1>. QED
  BY <1>1, <1>2

LEMMA ArrivesDef ==
  /\ DOMAIN Arrives = Types
  /\ \A t \in Types : Arrives[t] = [v \in Values[t] |-> [old \in Held[t] |-> Arrival(Arrives, t, v, old)]]
<1>. DEFINE Body(t, h) == [v \in Values[t] |-> [old \in Held[t] |-> Arrival(h, t, v, old)]]
            Known == {n \in Nat : \E h : h = [t \in Below(n) |-> Body(t, h)]}
<1>1. ASSUME NEW t \in Types, NEW h, NEW g,
             \A p \in Types : Depth[p] < Depth[t] => h[p] = g[p]
      PROVE  Body(t, h) = Body(t, g)
  <2>1. \A v, old : Arrival(h, t, v, old) = Arrival(g, t, v, old)
    BY <1>1, ArrivalRelies
  <2>. QED
    BY <2>1
<1>. HIDE DEF Body
<1>2. 0 \in Known
  <2>1. <<>> = [t \in Below(0) |-> Body(t, <<>>)]
    BY BelowAll
  <2>. QED
    BY <2>1
<1>3. \A n \in 0..(MaxDepth + 1) : n < MaxDepth + 1 /\ n \in Known => n + 1 \in Known
  <2>1. SUFFICES ASSUME NEW n \in Nat, n \in Known
                 PROVE  n + 1 \in Known
    OBVIOUS
  <2>2. PICK h : h = [t \in Below(n) |-> Body(t, h)]
    BY <2>1
  <2>. DEFINE g == [t \in Below(n + 1) |-> Body(t, h)]
  <2>3. \A t \in Below(n) : g[t] = h[t]
    BY <2>1, <2>2, BelowAll
  <2>4. ASSUME NEW t \in Below(n + 1)
        PROVE  Body(t, g) = Body(t, h)
    <3>1. t \in Types /\ \A p \in Types : Depth[p] < Depth[t] => p \in Below(n)
      BY <2>1, BelowAll DEF Class
    <3>. HIDE DEF g
    <3>2. \A p \in Types : Depth[p] < Depth[t] => g[p] = h[p]
      BY <3>1, <2>3
    <3>. QED
      BY <3>1, <3>2, <1>1
  <2>5. g = [t \in Below(n + 1) |-> Body(t, g)]
    BY <2>4
  <2>. HIDE DEF g
  <2>. QED
    BY <2>5
<1>4. MaxDepth + 1 \in Known
  <2>. HIDE DEF Known
  <2>. QED
    BY <1>2, <1>3, BelowAll, InductionUpTo
<1>5. Arrives = [t \in Types |-> Body(t, Arrives)]
  <2>1. Arrives = CHOOSE h : h = [t \in Types |-> Body(t, h)]
    BY DEF Arrives, Body
  <2>2. Below(MaxDepth + 1) = Types
    BY BelowAll DEF Class
  <2>. QED
    BY <1>4, <2>1, <2>2
<1>6. ASSUME NEW t \in Types
      PROVE  Arrives[t] = Body(t, Arrives)
  BY <1>5
<1>. QED
  BY <1>5, <1>6 DEF Body

-----------------------------------------------------------------------------
(* What was put stays where it was put. *)

(* The bytes w begin with the bytes s. *)
Begins(s, w) == Len(s) <= Len(w) /\ \A j \in 1..Len(s) : w[j] = s[j]

(* If there is no exception after it, there was none before. *)
Extends(b, c) ==
  /\ b \in Buffer /\ c \in Buffer
  /\ c.error = "none" => b.error = "none" /\ Begins(b.bytes, c.bytes)

LEMMA ExtendsItself ==
  ASSUME NEW b \in Buffer
  PROVE  Extends(b, b)
<1>1. b.bytes \in Seq(Byte)
  BY BufferIs
<1>2. Begins(b.bytes, b.bytes)
  BY <1>1 DEF Begins
<1>. QED
  BY <1>2 DEF Extends

LEMMA ExtendsTogether ==
  ASSUME NEW b, NEW c, NEW d, Extends(b, c), Extends(c, d)
  PROVE  Extends(b, d)
<1>1. b \in Buffer /\ c \in Buffer /\ d \in Buffer
  BY DEF Extends
<1>2. SUFFICES ASSUME d.error = "none"
               PROVE  b.error = "none" /\ Begins(b.bytes, d.bytes)
  BY <1>1 DEF Extends
<1>3. b.error = "none" /\ Begins(b.bytes, c.bytes) /\ Begins(c.bytes, d.bytes)
  BY <1>2 DEF Extends
<1>. DEFINE x == b.bytes
            y == c.bytes
            z == d.bytes
<1>4. x \in Seq(Byte) /\ y \in Seq(Byte) /\ z \in Seq(Byte)
  BY <1>1, BufferIs
<1>5. Begins(x, y) /\ Begins(y, z)
  BY <1>3
<1>. HIDE DEF x, y, z
<1>6. Len(x) \in Nat /\ Len(y) \in Nat /\ Len(z) \in Nat
  BY <1>4
<1>7. Begins(x, z)
  <2>1. Len(x) <= Len(y) /\ Len(y) <= Len(z)
    BY <1>5 DEF Begins
  <2>2. ASSUME NEW j \in 1..Len(x)
        PROVE  z[j] = x[j]
    <3>1. j \in 1..Len(y)
      BY <1>6, <2>1
    <3>. QED
      BY <1>5, <3>1 DEF Begins
  <2>. QED
    BY <1>6, <2>1, <2>2 DEF Begins
<1>. QED
  BY <1>3, <1>7 DEF x, z

(* A put without exception. *)
LEMMA PutGives ==
  ASSUME NEW b \in Buffer, NEW bytes \in Seq(Byte)
  PROVE  /\ Extends(b, Put(b, bytes))
         /\ Put(b, bytes).error = "none" => b.error = "none" /\ Put(b, bytes).bytes = b.bytes \o bytes
<1>. DEFINE c == Put(b, bytes)
            s == b.bytes
<1>1. s \in Seq(Byte) /\ b.error \in Errors
  BY BufferIs
<1>2. c \in Buffer
  BY PutAdds DEF Adds
<1>3. ASSUME c.error = "none"
      PROVE  b.error = "none" /\ c.bytes = s \o bytes
  <2>1. b \in [bytes : {r \in Seq(Byte) : Len(r) <= Capacity}, error : Errors]
    BY DEF Buffer
  <2>2. \A e : Throw(b, e) = IF b.error = "none" THEN [b EXCEPT !.error = e] ELSE b
    BY DEF Throw
  <2>3. "BufferOverflow" # "none"
    OBVIOUS
  <2>4. Throw(b, "BufferOverflow").error # "none"
    BY <2>1, <2>2, <2>3
  <2>5. ~(Len(s) + Len(bytes) > Capacity)
    <3>1. Len(s) + Len(bytes) > Capacity => c = Throw(b, "BufferOverflow")
      BY DEF Put
    <3>. HIDE DEF c
    <3>. QED
      BY <1>3, <2>4, <3>1
  <2>6. c = IF b.error = "none" THEN [b EXCEPT !.bytes = s \o bytes] ELSE b
    BY <2>5 DEF Put
  <2>. DEFINE all == s \o bytes
  <2>7. c = IF b.error = "none" THEN [b EXCEPT !.bytes = all] ELSE b
    BY <2>6
  <2>. HIDE DEF all, c, s
  <2>8. b.error = "none"
    BY <1>3, <2>7
  <2>9. c.bytes = all
    BY <2>1, <2>7, <2>8
  <2>. QED
    BY <2>8, <2>9 DEF all
<1>. HIDE DEF s, c
<1>4. Begins(s, s \o bytes)
  <2>1. Len(s \o bytes) = Len(s) + Len(bytes) /\ Len(s) \in Nat /\ Len(bytes) \in Nat
    BY <1>1
  <2>2. \A j \in 1..Len(s) : (s \o bytes)[j] = s[j]
    BY <1>1, <2>1
  <2>3. Len(s) <= Len(s \o bytes)
    BY <2>1
  <2>. QED
    BY <2>2, <2>3 DEF Begins
<1>. QED
  BY <1>2, <1>3, <1>4 DEF Extends, c, s

LEMMA ThrowExtends ==
  ASSUME NEW b \in Buffer, NEW exception \in Exceptions
  PROVE  Extends(b, Throw(b, exception)) /\ Throw(b, exception).error # "none"
<1>1. Adds(b, Throw(b, exception), 0, TRUE)
  BY ThrowAdds
<1>2. Throw(b, exception).error # "none"
  BY <1>1 DEF Adds
<1>. QED
  BY <1>1, <1>2 DEF Adds, Extends

LEMMA PutTextExtends ==
  ASSUME NEW b \in Buffer, NEW v, v = NULL \/ v \in [text : Seq(Int)]
  PROVE  Extends(b, PutText(b, v))
<1>1. CASE v = NULL
  <2>1. Number(-1, 4) \in Seq(Byte)
    <3>1. -1 \in Int
      OBVIOUS
    <3>. QED
      BY <3>1, NumberBytes
  <2>2. PutText(b, v) = Put(b, Number(-1, 4))
    BY <1>1 DEF PutText
  <2>. QED
    BY <2>1, <2>2, PutGives
<1>2. CASE v # NULL
  <2>. DEFINE c == Put(b, Number(Len(v.text), 4))
  <2>1. v.text \in Seq(Int)
    BY <1>2
  <2>2. Len(v.text) \in Int
    BY <2>1
  <2>3. Number(Len(v.text), 4) \in Seq(Byte) /\ Chars(v.text) \in Seq(Byte)
    BY <2>1, <2>2, NumberBytes, CharsBytes
  <2>4. Extends(b, c)
    BY <2>3, PutGives
  <2>5. PutText(b, v) = Put(c, Chars(v.text))
    BY <1>2 DEF PutText
  <2>. HIDE DEF c
  <2>6. Extends(c, Put(c, Chars(v.text)))
    BY <2>3, <2>4, PutGives DEF Extends
  <2>. QED
    BY <2>4, <2>5, <2>6, ExtendsTogether
<1>. QED
  BY <1>1, <1>2

LEMMA PutNumberExtends ==
  ASSUME NEW b \in Buffer, NEW v, v = NULL \/ v \in [number : Int], NEW width \in 0..8
  PROVE  Extends(b, PutNumber(b, v, width))
<1>1. CASE v = NULL
  <2>1. "NullPointer" \in Exceptions
    BY DEF Exceptions
  <2>. QED
    BY <1>1, <2>1, ThrowExtends DEF PutNumber
<1>2. CASE v # NULL
  <2>1. Number(v.number, width) \in Seq(Byte)
    BY <1>2, NumberBytes
  <2>. QED
    BY <1>2, <2>1, PutGives DEF PutNumber
<1>. QED
  BY <1>1, <1>2

(* What serialize() returns, of a class at any depth. *)
LEMMA SerializeGives ==
  ASSUME NEW t \in Class, NEW o \in Values[t] \ {NULL}
  PROVE  /\ Serialize[t][o].bytes \in Seq(Byte)
         /\ Serialize[t][o].error = "none" \/ Serialize[t][o].error \in Exceptions
<1>1. Serialize[t][o] \in Buffer
  BY SerializeAdds DEF Adds
<1>. HIDE DEF Serialize
<1>. QED
  BY <1>1, BufferIs DEF Errors

LEMMA PutObjectExtends ==
  ASSUME NEW b \in Buffer, NEW t \in Class, NEW o \in Values[t]
  PROVE  Extends(b, PutObject(Serialize, b, t, o))
<1>1. CASE o = NULL
  BY <1>1, ExtendsItself DEF PutObject
<1>2. CASE o # NULL
  <2>. DEFINE inner == Serialize[t][o]
  <2>1. inner.bytes \in Seq(Byte) /\ (inner.error = "none" \/ inner.error \in Exceptions)
    BY <1>2, SerializeGives
  <2>2. PutObject(Serialize, b, t, o)
          = IF inner.error = "none" THEN Put(b, inner.bytes) ELSE Throw(b, inner.error)
    BY <1>2 DEF PutObject
  <2>. HIDE DEF inner
  <2>. QED
    BY <2>1, <2>2, PutGives, ThrowExtends
<1>. QED
  BY <1>1, <1>2

LEMMA PutElementExtends ==
  ASSUME NEW b \in Buffer, NEW t \in Types, NEW e \in Values[t]
  PROVE  Extends(b, PutElement(Serialize, b, t, e))
<1>1. CASE t.kind \in Scalars
  <2>1. t.kind \notin {"string", "wstring", "bitmask", "sequence"} \cup Nested
    BY <1>1, ScalarWidths DEF Nested
  <2>2. e = NULL \/ e \in [number : Int]
    BY <2>1, SentValues
  <2>3. Width[t.kind] \in 0..8
    BY <1>1, ScalarWidths
  <2>4. PutElement(Serialize, b, t, e) = PutNumber(b, e, Width[t.kind])
    BY <1>1, <2>1 DEF PutElement
  <2>. QED
    BY <2>2, <2>3, <2>4, PutNumberExtends
<1>2. CASE t.kind = "bitmask"
  <2>1. t.kind \notin Scalars \cup {"string", "wstring", "sequence"} \cup Nested
    BY <1>2, ScalarWidths DEF Nested
  <2>2. e = NULL \/ e \in [number : Int]
    BY <2>1, SentValues
  <2>3. PutElement(Serialize, b, t, e) = PutNumber(b, e, 8)
    BY <1>2, <2>1 DEF PutElement
  <2>. QED
    BY <2>2, <2>3, PutNumberExtends
<1>3. CASE t.kind = "wstring"
  <2>1. t.kind \notin Scalars \cup {"bitmask"} \cup Nested
    BY <1>3, ScalarWidths DEF Nested
  <2>2. e = NULL \/ e \in [text : Seq(Int)]
    BY <1>3, SentValues
  <2>3. PutElement(Serialize, b, t, e) = PutText(b, e)
    BY <1>3, <2>1 DEF PutElement
  <2>. QED
    BY <2>2, <2>3, PutTextExtends
<1>4. CASE t.kind \in Nested
  <2>1. t.kind \notin Scalars \cup {"bitmask", "wstring"}
    BY <1>4, ScalarWidths DEF Nested
  <2>2. PutElement(Serialize, b, t, e) = PutObject(Serialize, b, t, e)
    BY <1>4, <2>1 DEF PutElement
  <2>3. t \in Class
    BY <1>4 DEF Class
  <2>. QED
    BY <2>2, <2>3, PutObjectExtends
<1>5. CASE t.kind \notin CodedElements
  <2>1. PutElement(Serialize, b, t, e) = b
    BY <1>5 DEF PutElement, CodedElements
  <2>. QED
    BY <2>1, ExtendsItself
<1>. QED
  BY <1>1, <1>2, <1>3, <1>4, <1>5 DEF CodedElements

(* What extends at every step extends to the end. *)
LEMMA ExtendsAlong ==
  ASSUME NEW n \in Nat, NEW at, at[0] \in Buffer,
         \A k \in 1..n : at[k-1] \in Buffer => Extends(at[k-1], at[k])
  PROVE  \A k \in 0..n : at[k] \in Buffer /\ Extends(at[0], at[k])
                         /\ Extends(at[k], at[n])
<1>. DEFINE Up == {k \in 0..n : at[k] \in Buffer}
            From0 == {k \in 0..n : Extends(at[0], at[k])}
<1>1. 0..n \subseteq Up
  <2>1. 0 \in Up
    OBVIOUS
  <2>2. ASSUME NEW k \in 1..n, k - 1 \in Up
        PROVE  k \in Up
    BY <2>2 DEF Extends
  <2>. HIDE DEF Up
  <2>. QED
    BY <2>1, <2>2, StepInduction
<1>2. \A k \in 1..n : k - 1 \in 0..n /\ Extends(at[k-1], at[k])
  <2>1. \A k \in 1..n : k - 1 \in 0..n
    OBVIOUS
  <2>. QED
    BY <1>1, <2>1
<1>3. 0..n \subseteq From0
  <2>1. 0 \in From0
    BY ExtendsItself
  <2>2. ASSUME NEW k \in 1..n, k - 1 \in From0
        PROVE  k \in From0
    BY <1>2, <2>2, ExtendsTogether
  <2>. HIDE DEF From0
  <2>. QED
    BY <2>1, <2>2, StepInduction
<1>4. ASSUME NEW k \in 0..n
      PROVE  Extends(at[k], at[n])
  <2>. DEFINE Later == {m \in 0..n : k <= m => Extends(at[k], at[m])}
  <2>1. 0 \in Later
    <3>1. k <= 0 => k = 0
      OBVIOUS
    <3>. QED
      BY <3>1, ExtendsItself
  <2>2. ASSUME NEW m \in 1..n, m - 1 \in Later
        PROVE  m \in Later
    <3>1. k <= m => k = m \/ k <= m - 1
      OBVIOUS
    <3>2. k = m => Extends(at[k], at[m])
      BY <1>1, ExtendsItself
    <3>3. k <= m - 1 => Extends(at[k], at[m])
      BY <1>2, <2>2, ExtendsTogether
    <3>4. k <= m => Extends(at[k], at[m])
      BY <3>1, <3>2, <3>3
    <3>. QED
      BY <3>4
  <2>3. 0..n \subseteq Later
    <3>. HIDE DEF Later
    <3>. QED
      BY <2>1, <2>2, StepInduction
  <2>4. n \in 0..n /\ k <= n
    OBVIOUS
  <2>. QED
    BY <2>3, <2>4
<1>. QED
  BY <1>1, <1>3, <1>4

(* The steps of a list that is put. *)
LEMMA PutSequenceSteps ==
  ASSUME NEW b \in Buffer, NEW t \in Types, t.kind = "sequence", NEW list \in Values[t], list # NULL
  PROVE  /\ list.items \in Seq(Values[t.elem]) /\ t.elem \in Types
         /\ PutSequenceAt(Serialize, b, t, list)[0] = Put(b, Number(Len(list.items), 4))
         /\ \A k \in 1..Len(list.items) :
              PutSequenceAt(Serialize, b, t, list)[k]
                = PutElement(Serialize, PutSequenceAt(Serialize, b, t, list)[k-1], t.elem, list.items[k])
         /\ PutSequence(Serialize, b, t, list) = PutSequenceAt(Serialize, b, t, list)[Len(list.items)]
         /\ \A k \in 0..Len(list.items) :
              /\ PutSequenceAt(Serialize, b, t, list)[k] \in Buffer
              /\ Extends(PutSequenceAt(Serialize, b, t, list)[0], PutSequenceAt(Serialize, b, t, list)[k])
              /\ Extends(PutSequenceAt(Serialize, b, t, list)[k], PutSequence(Serialize, b, t, list))
<1>. DEFINE n == Len(list.items)
            start == Put(b, Number(n, 4))
            at == PutSequenceAt(Serialize, b, t, list)
<1>1. list.items \in Seq(Values[t.elem]) /\ t.elem \in Types
  BY SentValues, TypeParts
<1>2. n \in Nat /\ n \in Int /\ \A k \in 1..n : list.items[k] \in Values[t.elem]
  BY <1>1
<1>3. \A k \in 1..n : \A c \in Buffer : Extends(c, PutElement(Serialize, c, t.elem, list.items[k]))
  BY <1>1, <1>2, PutElementExtends
<1>4. start \in Buffer
  <2>. HIDE DEF n
  <2>1. Number(n, 4) \in Seq(Byte)
    BY <1>2, NumberBytes
  <2>. QED
    BY <2>1, PutGives DEF Extends
<1>5. /\ at[0] = start
      /\ \A k \in 1..n : at[k] = PutElement(Serialize, at[k-1], t.elem, list.items[k])
      /\ PutSequence(Serialize, b, t, list) = at[n]
  <2>1. \A k \in 1..n : \A c \in Buffer : PutElement(Serialize, c, t.elem, list.items[k]) \in Buffer
    BY <1>3 DEF Extends
  <2>. QED
    BY <1>2, <1>4, <2>1, PutSequenceAtIs
<1>. HIDE DEF at, start, n
<1>6. \A k \in 0..n : at[k] \in Buffer /\ Extends(at[0], at[k]) /\ Extends(at[k], at[n])
  <2>1. \A k \in 1..n : at[k-1] \in Buffer => Extends(at[k-1], at[k])
    BY <1>3, <1>5
  <2>. QED
    BY <1>2, <1>4, <1>5, <2>1, ExtendsAlong
<1>. QED
  BY <1>1, <1>5, <1>6 DEF at, start, n

LEMMA PutSequenceExtends ==
  ASSUME NEW b \in Buffer, NEW t \in Types, t.kind = "sequence", NEW list \in Values[t]
  PROVE  Extends(b, PutSequence(Serialize, b, t, list))
<1>1. \A n \in Int : Extends(b, Put(b, Number(n, 4)))
  <2>1. \A n \in Int : Number(n, 4) \in Seq(Byte)
    BY NumberBytes
  <2>. QED
    BY <2>1, PutGives
<1>2. CASE list = NULL
  <2>1. -1 \in Int
    OBVIOUS
  <2>. QED
    BY <1>1, <1>2, <2>1 DEF PutSequence
<1>3. CASE list # NULL
  <2>. DEFINE n == Len(list.items)
              at == PutSequenceAt(Serialize, b, t, list)
  <2>1. list.items \in Seq(Values[t.elem])
    BY <1>3, PutSequenceSteps
  <2>2. n \in Int /\ 0 \in 0..n
    BY <2>1
  <2>3. at[0] = Put(b, Number(n, 4))
    BY <1>3, PutSequenceSteps
  <2>4. Extends(at[0], PutSequence(Serialize, b, t, list))
    BY <1>3, <2>2, PutSequenceSteps
  <2>. HIDE DEF n, at
  <2>5. Extends(b, at[0])
    BY <1>1, <2>2, <2>3
  <2>. QED
    BY <2>4, <2>5, ExtendsTogether
<1>. QED
  BY <1>2, <1>3

LEMMA PutMemberExtends ==
  ASSUME NEW b \in Buffer, NEW t \in Types, NEW v \in Values[t]
  PROVE  Extends(b, PutMember(Serialize, b, t, v))
<1>1. CASE t.kind \in Scalars
  <2>1. t.kind \notin {"string", "wstring", "bitmask", "sequence"} \cup Nested
    BY <1>1, ScalarWidths DEF Nested
  <2>2. v = NULL \/ v \in [number : Int]
    BY <2>1, SentValues
  <2>3. Width[t.kind] \in 0..8
    BY <1>1, ScalarWidths
  <2>4. PutMember(Serialize, b, t, v) = PutNumber(b, v, Width[t.kind])
    BY <1>1, <2>1 DEF PutMember
  <2>. QED
    BY <2>2, <2>3, <2>4, PutNumberExtends
<1>2. CASE t.kind = "string"
  <2>1. t.kind \notin Scalars \cup {"sequence"} \cup Nested
    BY <1>2, ScalarWidths DEF Nested
  <2>2. v = NULL \/ v \in [text : Seq(Int)]
    BY <1>2, SentValues
  <2>3. PutMember(Serialize, b, t, v) = PutText(b, v)
    BY <1>2, <2>1 DEF PutMember
  <2>. QED
    BY <2>2, <2>3, PutTextExtends
<1>3. CASE t.kind = "sequence"
  <2>1. t.kind \notin Scalars \cup {"string"} \cup Nested
    BY <1>3, ScalarWidths DEF Nested
  <2>2. PutMember(Serialize, b, t, v) = PutSequence(Serialize, b, t, v)
    BY <1>3, <2>1 DEF PutMember
  <2>. QED
    BY <1>3, <2>2, PutSequenceExtends
<1>4. CASE t.kind \in Nested
  <2>1. t.kind \notin Scalars \cup {"string", "sequence"}
    BY <1>4, ScalarWidths DEF Nested
  <2>2. PutMember(Serialize, b, t, v) = PutObject(Serialize, b, t, v)
    BY <1>4, <2>1 DEF PutMember
  <2>3. t \in Class
    BY <1>4 DEF Class
  <2>. QED
    BY <2>2, <2>3, PutObjectExtends
<1>5. CASE t.kind \notin Scalars \cup {"string", "sequence"} \cup Nested
  <2>1. PutMember(Serialize, b, t, v) = b
    BY <1>5 DEF PutMember
  <2>. QED
    BY <2>1, ExtendsItself
<1>. QED
  BY <1>1, <1>2, <1>3, <1>4, <1>5

(* The steps of an object that is put. *)
LEMMA PutMembersSteps ==
  ASSUME NEW t \in Class, NEW o \in Values[t] \ {NULL}
  PROVE  /\ PutMembersAt(Serialize, t, o)[0] = Empty
         /\ \A k \in DOMAIN Fields(t) :
              PutMembersAt(Serialize, t, o)[k]
                = PutMember(Serialize, PutMembersAt(Serialize, t, o)[k-1], Fields(t)[k], o.items[k])
         /\ Serialize[t][o] = PutMembersAt(Serialize, t, o)[Len(Fields(t))]
         /\ \A k \in 0..Len(Fields(t)) :
              /\ PutMembersAt(Serialize, t, o)[k] \in Buffer
              /\ Extends(PutMembersAt(Serialize, t, o)[k], Serialize[t][o])
<1>. DEFINE n == Len(o.items)
            at == PutMembersAt(Serialize, t, o)
<1>1. n \in Nat /\ 1..n = DOMAIN Fields(t) /\ n = Len(Fields(t))
  BY ObjectValues, SentValues DEF Class
<1>2. \A k \in 1..n : o.items[k] \in Values[Fields(t)[k]] /\ Fields(t)[k] \in Types
  <2>1. /\ o.items \in Seq(ValuesUpTo[MaxDepth])
        /\ \A k \in DOMAIN o.items : o.items[k] \in Values[Fields(t)[k]]
    BY SentValues DEF Class
  <2>2. DOMAIN o.items = 1..n
    BY <2>1
  <2>. QED
    BY <1>1, <2>1, <2>2, BelowType
<1>3. \A k \in 1..n : \A c \in Buffer : Extends(c, PutMember(Serialize, c, Fields(t)[k], o.items[k]))
  BY <1>2, PutMemberExtends
<1>4. Empty \in Buffer
  BY BufferIs
<1>5. /\ at[0] = Empty
      /\ \A k \in 1..n : at[k] = PutMember(Serialize, at[k-1], Fields(t)[k], o.items[k])
      /\ PutMembers(Serialize, t, o) = at[n]
  <2>1. \A k \in 1..n : \A c \in Buffer : PutMember(Serialize, c, Fields(t)[k], o.items[k]) \in Buffer
    BY <1>3 DEF Extends
  <2>. QED
    BY <1>1, <1>4, <2>1, PutMembersAtIs
<1>6. Serialize[t][o] = at[n]
  BY <1>5, SerializeDef
<1>. HIDE DEF at
<1>7. \A k \in 0..n : at[k] \in Buffer /\ Extends(at[0], at[k]) /\ Extends(at[k], at[n])
  <2>1. \A k \in 1..n : at[k-1] \in Buffer => Extends(at[k-1], at[k])
    BY <1>3, <1>5
  <2>. HIDE DEF n
  <2>. QED
    BY <1>1, <1>4, <1>5, <2>1, ExtendsAlong
<1>. QED
  BY <1>1, <1>5, <1>6, <1>7 DEF at

-----------------------------------------------------------------------------
(* What was put is read again, as far as it arrives. *)

(* What arrived, data, are the bytes w as far as both go. *)
Matches(data, w) == \A j \in 1..Len(w) : j <= Len(data) => data[j] = w[j]

(* The read r in data gives value if the buffer c went that far when value
   had been put, and an exception if data ends before. *)
Comes(r, data, c, value) ==
  /\ Len(c.bytes) <= Len(data) =>
       r.error = "none" /\ r.pos = Len(c.bytes) /\ r.value = value
  /\ Len(c.bytes) > Len(data) => r.error # "none"

LEMMA MatchesLess ==
  ASSUME NEW data \in Seq(Byte), NEW w \in Seq(Byte), Matches(data, w),
         NEW s \in Seq(Byte), Begins(s, w)
  PROVE  Matches(data, s)
<1>1. \A j \in 1..Len(s) : j \in 1..Len(w) /\ w[j] = s[j]
  BY DEF Begins
<1>. QED
  BY <1>1 DEF Matches

(* The same for the buffer on the way to another. *)
LEMMA MatchesBefore ==
  ASSUME NEW data \in Seq(Byte), NEW b, NEW c, Extends(b, c), c.error = "none",
         Matches(data, c.bytes)
  PROVE  /\ b.error = "none" /\ Matches(data, b.bytes)
         /\ b.bytes \in Seq(Byte) /\ c.bytes \in Seq(Byte)
         /\ Len(b.bytes) \in Nat /\ Len(c.bytes) \in Nat /\ Len(b.bytes) <= Len(c.bytes)
<1>1. b \in Buffer /\ c \in Buffer /\ b.error = "none" /\ Begins(b.bytes, c.bytes)
  BY DEF Extends
<1>2. b.bytes \in Seq(Byte) /\ c.bytes \in Seq(Byte)
  BY <1>1, BufferIs
<1>3. Len(b.bytes) <= Len(c.bytes)
  BY <1>1 DEF Begins
<1>. QED
  BY <1>1, <1>2, <1>3, MatchesLess

(* The read of the number n at pos: nothing of it if the data ends before. *)
ReadsNumber(data, pos, n, width, old) ==
  /\ pos + width <= Len(data) =>
       GetNumber(data, pos, width, old) = Read(pos + width, [number |-> n])
  /\ pos + width > Len(data) =>
       GetNumber(data, pos, width, old) = Failed(pos, "BufferUnderflow", old)

(* A number that was put is read, or the buffer underflows. *)
LEMMA NumberComes ==
  ASSUME NEW data \in Seq(Byte), NEW b \in Buffer, NEW n \in Int, NEW width \in 1..8, NEW old,
         Put(b, Number(n, width)).error = "none", Matches(data, Put(b, Number(n, width)).bytes),
         Len(b.bytes) <= Len(data)
  PROVE  /\ Len(Put(b, Number(n, width)).bytes) = Len(b.bytes) + width
         /\ ReadsNumber(data, Len(b.bytes), n, width, old)
<1>. DEFINE bytes == Number(n, width)
            c == Put(b, bytes)
            s == b.bytes
            pos == Len(b.bytes)
<1>1. bytes \in Seq(Byte) /\ Len(bytes) = width
  <2>1. width \in 0..8
    OBVIOUS
  <2>. QED
    BY <2>1, NumberBytes
<1>2. s \in Seq(Byte) /\ pos \in Nat /\ width \in Nat /\ width >= 1
  BY BufferIs
<1>3. \A j \in 1..width : bytes[j] = <<j, n>>
  BY DEF Number
<1>. HIDE DEF bytes
<1>4. c.bytes = s \o bytes
  BY <1>1, PutGives DEF bytes
<1>5. Len(c.bytes) = pos + width /\ \A j \in 1..width : c.bytes[pos + j] = <<j, n>>
  BY <1>1, <1>2, <1>3, <1>4
<1>6. Matches(data, c.bytes)
  BY DEF bytes
<1>. HIDE DEF c, s, pos
<1>7. CASE pos + width <= Len(data)
  <2>1. \A j \in 1..width : pos + j \in 1..Len(c.bytes) /\ pos + j <= Len(data)
    BY <1>2, <1>5, <1>7
  <2>2. \A j \in 1..width : data[pos + j] = <<j, n>>
    BY <1>5, <1>6, <2>1 DEF Matches
  <2>3. 1 \in 1..width
    BY <1>2
  <2>4. data[pos + 1] = <<1, n>>
    BY <2>2, <2>3
  <2>5. data[pos + 1][2] = n
    BY <2>4
  <2>6. ~(pos + width > Len(data))
    BY <1>2, <1>7
  <2>7. GetNumber(data, pos, width, old)
          = Read(pos + width, [number |-> IF \A j \in 1..width : data[pos + j] = <<j, data[pos + 1][2]>>
                                          THEN data[pos + 1][2] ELSE GARBAGE])
    BY <2>6 DEF GetNumber
  <2>8. GetNumber(data, pos, width, old) = Read(pos + width, [number |-> n])
    BY <2>2, <2>5, <2>7
  <2>. QED
    BY <1>5, <2>6, <2>8 DEF ReadsNumber, c, pos, bytes
<1>8. CASE pos + width > Len(data)
  <2>1. GetNumber(data, pos, width, old) = Failed(pos, "BufferUnderflow", old)
    BY <1>8 DEF GetNumber
  <2>2. ~(pos + width <= Len(data))
    BY <1>2, <1>8
  <2>. QED
    BY <1>5, <1>8, <2>1, <2>2 DEF ReadsNumber, c, pos, bytes
<1>9. pos + width <= Len(data) \/ pos + width > Len(data)
  BY <1>2
<1>. QED
  BY <1>7, <1>8, <1>9

(* A text that was put is read; an empty one as null. *)
LEMMA TextComes ==
  ASSUME NEW data \in Seq(Byte), NEW b \in Buffer, NEW v, v = NULL \/ v \in [text : Seq(Int)],
         PutText(b, v).error = "none", Matches(data, PutText(b, v).bytes),
         Len(b.bytes) <= Len(data), NEW old, NEW exception \in Exceptions
  PROVE  Comes(GetText(data, Len(b.bytes), old, exception), data, PutText(b, v), ArrivesText(v))
<1>. DEFINE pos == Len(b.bytes)
            len == IF v = NULL THEN -1 ELSE Len(v.text)
            m == Put(b, Number(len, 4))
            c == PutText(b, v)
            n == GetNumber(data, pos, 4, old)
            r == GetText(data, pos, old, exception)
<1>1. len \in Int /\ (v = NULL => len = -1) /\ (v # NULL => len = Len(v.text) /\ len >= 0)
  OBVIOUS
<1>2. v = NULL => c = m
  BY DEF PutText
<1>3. v # NULL => c = Put(m, Chars(v.text)) /\ Chars(v.text) \in Seq(Byte) /\ Len(Chars(v.text)) = len
  BY CharsBytes DEF PutText
<1>. HIDE DEF len, c
<1>4. Extends(b, m)
  <2>1. Number(len, 4) \in Seq(Byte)
    BY <1>1, NumberBytes
  <2>. QED
    BY <2>1, PutGives
<1>5. c.error = "none" /\ Matches(data, c.bytes)
  BY DEF c
<1>6. Extends(m, c)
  <2>. HIDE DEF m
  <2>1. m \in Buffer
    BY <1>4 DEF Extends
  <2>2. v # NULL => Extends(m, c)
    BY <1>3, <2>1, PutGives
  <2>. QED
    BY <1>2, <2>1, <2>2, ExtendsItself
<1>7. m.error = "none" /\ Matches(data, m.bytes)
  <2>. HIDE DEF m
  <2>. QED
    BY <1>5, <1>6, MatchesBefore
<1>8. pos \in Nat
  BY BufferIs
<1>9. /\ Len(m.bytes) = pos + 4
      /\ pos + 4 <= Len(data) => n = Read(pos + 4, [number |-> len])
      /\ pos + 4 > Len(data) => n = Failed(pos, "BufferUnderflow", old)
  <2>1. 4 \in 1..8
    OBVIOUS
  <2>2. Put(b, Number(len, 4)).error = "none" /\ Matches(data, Put(b, Number(len, 4)).bytes)
    BY <1>7
  <2>3. len \in Int /\ Len(b.bytes) <= Len(data)
    BY <1>1
  <2>4. Len(Put(b, Number(len, 4)).bytes) = Len(b.bytes) + 4
        /\ ReadsNumber(data, Len(b.bytes), len, 4, old)
    <3>. HIDE DEF m, n, pos
    <3>. QED
      BY <2>1, <2>2, <2>3, NumberComes
  <2>. QED
    BY <2>4 DEF ReadsNumber
<1>10. v # NULL => /\ Len(c.bytes) = pos + 4 + len
                   /\ \A j \in 1..len : c.bytes[pos + 4 + j] = <<0, v.text[j]>>
  <2>1. SUFFICES ASSUME v # NULL
                 PROVE  /\ Len(c.bytes) = pos + 4 + len
                        /\ \A j \in 1..len : c.bytes[pos + 4 + j] = <<0, v.text[j]>>
    OBVIOUS
  <2>. DEFINE bytes == Chars(v.text)
  <2>2. bytes \in Seq(Byte) /\ Len(bytes) = len /\ c = Put(m, bytes)
    BY <1>3, <2>1
  <2>3. \A j \in 1..len : bytes[j] = <<0, v.text[j]>>
    BY <1>1, <2>1 DEF Chars
  <2>. HIDE DEF bytes, m
  <2>4. m \in Buffer
    BY <1>4 DEF Extends
  <2>5. m.bytes \in Seq(Byte)
    BY <2>4, BufferIs
  <2>6. c.bytes = m.bytes \o bytes
    BY <1>5, <2>2, <2>4, PutGives
  <2>7. len \in Nat
    BY <1>1, <2>1
  <2>. DEFINE x == m.bytes
  <2>8. x \in Seq(Byte) /\ Len(x) = pos + 4 /\ c.bytes = x \o bytes
    BY <1>9, <2>5, <2>6
  <2>. HIDE DEF x, pos
  <2>9. Len(c.bytes) = pos + 4 + len
    <3>1. x \in Seq(Byte) /\ bytes \in Seq(Byte)
      BY <2>2, <2>8
    <3>2. Len(x \o bytes) = Len(x) + Len(bytes)
      BY <3>1
    <3>. QED
      BY <2>2, <2>8, <3>2
  <2>10. \A j \in 1..len : c.bytes[pos + 4 + j] = bytes[j]
    BY <1>8, <2>2, <2>7, <2>8
  <2>. QED
    BY <2>3, <2>9, <2>10
<1>11. v = NULL => Len(c.bytes) = pos + 4
  BY <1>2, <1>9
<1>12. r = IF n.error # "none" THEN n
           ELSE IF n.value.number = GARBAGE THEN Failed(n.pos, "Garbled", old)
           ELSE IF n.value.number <= 0 THEN Read(n.pos, NULL)
           ELSE IF n.pos + n.value.number > Len(data) THEN Failed(n.pos, exception, old)
           ELSE Read(n.pos + n.value.number, TextAt(data, n.pos, n.value.number))
  BY DEF GetText
<1>13. len # GARBAGE
  BY <1>1, GarbageAssumption
<1>. HIDE DEF n, r, m, pos
<1>14. CASE pos + 4 > Len(data)
  <2>1. n.error = "BufferUnderflow"
    BY <1>9, <1>14 DEF Failed
  <2>2. r.error # "none"
    BY <1>12, <2>1
  <2>3. Len(c.bytes) > Len(data)
    BY <1>1, <1>8, <1>10, <1>11, <1>14
  <2>4. ~(Len(c.bytes) <= Len(data))
    BY <1>1, <1>8, <1>10, <1>11, <1>14
  <2>. QED
    BY <2>2, <2>4 DEF Comes, c, r, pos
<1>15. CASE pos + 4 <= Len(data)
  <2>1. n.error = "none" /\ n.value.number = len /\ n.pos = pos + 4
    BY <1>9, <1>15 DEF Read
  <2>2. r = IF len <= 0 THEN Read(pos + 4, NULL)
            ELSE IF pos + 4 + len > Len(data) THEN Failed(pos + 4, exception, old)
            ELSE Read(pos + 4 + len, TextAt(data, pos + 4, len))
    BY <1>12, <1>13, <2>1
  <2>3. CASE len <= 0
    <3>1. Len(c.bytes) = pos + 4
      BY <1>1, <1>8, <1>10, <1>11, <2>3
    <3>2. ArrivesText(v) = NULL
      <4>1. CASE v = NULL
        BY <4>1 DEF ArrivesText
      <4>2. CASE v # NULL
        <5>1. v.text = <<>> /\ v = [text |-> v.text]
          BY <1>1, <2>3, <4>2
        <5>. QED
          BY <5>1 DEF ArrivesText
      <4>. QED
        BY <4>1, <4>2
    <3>3. r.error = "none" /\ r.pos = pos + 4 /\ r.value = NULL
      BY <2>2, <2>3 DEF Read
    <3>4. ~(Len(c.bytes) > Len(data))
      BY <1>8, <1>15, <3>1
    <3>. QED
      BY <3>1, <3>2, <3>3, <3>4 DEF Comes, c, r, pos
  <2>4. CASE len > 0
    <3>1. v # NULL /\ v \in [text : Seq(Int)] /\ Len(v.text) = len /\ len \in Nat
      BY <1>1, <2>4
    <3>2. Len(c.bytes) = pos + 4 + len
      BY <1>10, <3>1
    <3>3. ArrivesText(v) = v
      <4>1. v.text # <<>>
        BY <2>4, <3>1
      <4>2. [text |-> <<>>].text = <<>>
        OBVIOUS
      <4>3. v # [text |-> <<>>]
        BY <4>1, <4>2
      <4>. QED
        BY <4>3 DEF ArrivesText
    <3>4. ~(len <= 0)
      BY <2>4, <3>1
    <3>5. CASE pos + 4 + len > Len(data)
      <4>1. r.error = exception
        BY <2>2, <3>4, <3>5 DEF Failed
      <4>2. exception # "none"
        BY DEF Exceptions
      <4>3. ~(Len(c.bytes) <= Len(data))
        BY <1>8, <3>1, <3>2, <3>5
      <4>. QED
        BY <4>1, <4>2, <4>3 DEF Comes, c, r, pos
    <3>6. CASE pos + 4 + len <= Len(data)
      <4>1. ~(pos + 4 + len > Len(data)) /\ ~(Len(c.bytes) > Len(data))
        BY <1>8, <3>1, <3>2, <3>6
      <4>2. \A j \in 1..len : data[pos + 4 + j] = <<0, v.text[j]>>
        <5>1. \A j \in 1..len : pos + 4 + j \in 1..Len(c.bytes) /\ pos + 4 + j <= Len(data)
          BY <1>8, <3>1, <3>2, <3>6
        <5>2. \A j \in 1..len : c.bytes[pos + 4 + j] = <<0, v.text[j]>>
          BY <1>10, <3>1
        <5>. QED
          BY <1>5, <5>1, <5>2 DEF Matches
      <4>3. \A j \in 1..len : data[pos + 4 + j][2] = v.text[j]
        BY <4>2
      <4>4. v.text = [j \in 1..len |-> v.text[j]]
        BY <3>1
      <4>5. TextAt(data, pos + 4, len) = [text |-> [j \in 1..len |-> v.text[j]]]
        BY <4>3 DEF TextAt
      <4>6. TextAt(data, pos + 4, len) = v
        <5>1. v = [text |-> v.text]
          BY <3>1
        <5>. QED
          BY <4>4, <4>5, <5>1
      <4>7. r.error = "none" /\ r.pos = pos + 4 + len /\ r.value = v
        BY <2>2, <3>4, <4>1, <4>6 DEF Read
      <4>. QED
        BY <3>2, <3>3, <4>1, <4>7 DEF Comes, c, r, pos
    <3>7. pos + 4 + len <= Len(data) \/ pos + 4 + len > Len(data)
      BY <1>8, <3>1
    <3>. QED
      BY <3>5, <3>6, <3>7
  <2>. QED
    BY <1>1, <2>3, <2>4
<1>. QED
  BY <1>8, <1>14, <1>15

LEMMA ScalarComes ==
  ASSUME NEW data \in Seq(Byte), NEW b \in Buffer, NEW v, v = NULL \/ v \in [number : Int],
         NEW width \in 1..8, NEW old,
         PutNumber(b, v, width).error = "none", Matches(data, PutNumber(b, v, width).bytes),
         Len(b.bytes) <= Len(data)
  PROVE  Comes(GetNumber(data, Len(b.bytes), width, old), data, PutNumber(b, v, width), v)
<1>1. v # NULL
  <2>1. "NullPointer" \in Exceptions
    BY DEF Exceptions
  <2>2. Throw(b, "NullPointer").error # "none"
    BY <2>1, ThrowExtends
  <2>. QED
    BY <2>2 DEF PutNumber
<1>. DEFINE n == v.number
            c == Put(b, Number(n, width))
            pos == Len(b.bytes)
<1>2. n \in Int /\ v = [number |-> n]
  BY <1>1
<1>3. PutNumber(b, v, width) = c
  BY <1>1 DEF PutNumber
<1>. HIDE DEF n
<1>4. c.error = "none" /\ Matches(data, c.bytes)
  BY <1>3
<1>5. Len(c.bytes) = pos + width /\ ReadsNumber(data, pos, n, width, old)
  BY <1>2, <1>4, NumberComes
<1>6. pos \in Nat /\ width \in Nat
  BY BufferIs
<1>. HIDE DEF c, pos
<1>7. CASE pos + width <= Len(data)
  <2>1. GetNumber(data, pos, width, old) = Read(pos + width, v)
    BY <1>2, <1>5, <1>7 DEF ReadsNumber
  <2>2. ~(Len(c.bytes) > Len(data))
    BY <1>5, <1>6, <1>7
  <2>. QED
    BY <1>3, <1>5, <2>1, <2>2 DEF Comes, Read, pos
<1>8. CASE pos + width > Len(data)
  <2>1. GetNumber(data, pos, width, old) = Failed(pos, "BufferUnderflow", old)
    BY <1>5, <1>8 DEF ReadsNumber
  <2>2. ~(Len(c.bytes) <= Len(data))
    BY <1>5, <1>6, <1>8
  <2>3. GetNumber(data, pos, width, old).error # "none"
    BY <2>1 DEF Failed
  <2>. QED
    BY <1>3, <2>2, <2>3 DEF Comes, pos
<1>9. pos + width <= Len(data) \/ pos + width > Len(data)
  BY <1>6
<1>. QED
  BY <1>7, <1>8, <1>9

(* The elements that come one by one, and what arrives of one. *)
FlatElements == Scalars \cup {"wstring", "bitmask"}

ElementArrives(t, e) == IF t.kind = "wstring" THEN ArrivesText(e) ELSE e

LEMMA ElementComes ==
  ASSUME NEW data \in Seq(Byte), NEW b \in Buffer, NEW t \in Types, t.kind \in FlatElements,
         NEW e \in Values[t],
         PutElement(Serialize, b, t, e).error = "none",
         Matches(data, PutElement(Serialize, b, t, e).bytes),
         Len(b.bytes) <= Len(data)
  PROVE  Comes(GetElement(Deserialize, data, Len(b.bytes), t), data,
               PutElement(Serialize, b, t, e), ElementArrives(t, e))
<1>. DEFINE c == PutElement(Serialize, b, t, e)
            r == GetElement(Deserialize, data, Len(b.bytes), t)
<1>1. c.error = "none" /\ Matches(data, c.bytes)
  OBVIOUS
<1>2. CASE t.kind \in Scalars
  <2>. DEFINE width == Width[t.kind]
  <2>1. t.kind \notin {"string", "wstring", "bitmask", "sequence"} \cup Nested
    BY <1>2, ScalarWidths DEF Nested
  <2>2. e = NULL \/ e \in [number : Int]
    BY <2>1, SentValues
  <2>3. width \in 1..8
    BY <1>2, ScalarWidths
  <2>4. c = PutNumber(b, e, width) /\ r = GetNumber(data, Len(b.bytes), width, NULL)
    BY <1>2, <2>1 DEF PutElement, GetElement
  <2>5. ElementArrives(t, e) = e
    BY <2>1 DEF ElementArrives
  <2>. HIDE DEF width, c, r
  <2>. QED
    BY <1>1, <2>2, <2>3, <2>4, <2>5, ScalarComes DEF c, r
<1>3. CASE t.kind = "bitmask"
  <2>. DEFINE width == 8
  <2>1. t.kind \notin Scalars \cup {"string", "wstring", "sequence"} \cup Nested
    BY <1>3, ScalarWidths DEF Nested
  <2>2. e = NULL \/ e \in [number : Int]
    BY <2>1, SentValues
  <2>3. width \in 1..8
    OBVIOUS
  <2>4. c = PutNumber(b, e, width) /\ r = GetNumber(data, Len(b.bytes), width, NULL)
    BY <1>3, <2>1 DEF PutElement, GetElement
  <2>5. ElementArrives(t, e) = e
    BY <2>1 DEF ElementArrives
  <2>. HIDE DEF width, c, r
  <2>. QED
    BY <1>1, <2>2, <2>3, <2>4, <2>5, ScalarComes DEF c, r
<1>4. CASE t.kind = "wstring"
  <2>1. t.kind \notin Scalars \cup {"bitmask"} \cup Nested
    BY <1>4, ScalarWidths DEF Nested
  <2>2. e = NULL \/ e \in [text : Seq(Int)]
    BY <1>4, SentValues
  <2>3. c = PutText(b, e) /\ r = GetText(data, Len(b.bytes), NULL, "BufferUnderflow")
    BY <1>4, <2>1 DEF PutElement, GetElement
  <2>4. ElementArrives(t, e) = ArrivesText(e)
    BY <1>4 DEF ElementArrives
  <2>5. "BufferUnderflow" \in Exceptions
    BY DEF Exceptions
  <2>. HIDE DEF c, r
  <2>. QED
    BY <1>1, <2>2, <2>3, <2>4, <2>5, TextComes DEF c, r
<1>. QED
  BY <1>2, <1>3, <1>4 DEF FlatElements

(* An element that is added to a list. *)
LEMMA AddElementComes ==
  ASSUME NEW data \in Seq(Byte), NEW b \in Buffer, NEW t \in Types, t.kind \in FlatElements,
         NEW e \in Values[t],
         PutElement(Serialize, b, t, e).error = "none",
         Matches(data, PutElement(Serialize, b, t, e).bytes),
         Len(b.bytes) <= Len(data),
         NEW list, list.error = "none", list.pos = Len(b.bytes)
  PROVE  Comes(AddElement(Deserialize, data, t, list), data, PutElement(Serialize, b, t, e),
               [items |-> Append(list.value.items, ElementArrives(t, e))])
<1>. DEFINE c == PutElement(Serialize, b, t, e)
            r == GetElement(Deserialize, data, Len(b.bytes), t)
            value == ElementArrives(t, e)
<1>1. Comes(r, data, c, value)
  BY ElementComes
<1>2. t.kind \in CodedElements
  BY DEF FlatElements, CodedElements
<1>3. AddElement(Deserialize, data, t, list)
        = IF r.error # "none" THEN Failed(r.pos, r.error, list.value)
          ELSE Read(r.pos, [items |-> Append(list.value.items, r.value)])
  BY <1>2 DEF AddElement
<1>. HIDE DEF c, r, value
<1>4. CASE Len(c.bytes) <= Len(data)
  <2>1. r.error = "none" /\ r.pos = Len(c.bytes) /\ r.value = value
    BY <1>1, <1>4 DEF Comes
  <2>2. AddElement(Deserialize, data, t, list)
          = Read(Len(c.bytes), [items |-> Append(list.value.items, value)])
    BY <1>3, <2>1
  <2>3. c \in Buffer
    BY PutElementExtends DEF Extends, c
  <2>4. Len(c.bytes) \in Nat
    BY <2>3, BufferIs
  <2>5. ~(Len(c.bytes) > Len(data))
    BY <1>4, <2>4
  <2>. QED
    BY <2>2, <2>5 DEF Comes, Read, c, value
<1>5. CASE ~(Len(c.bytes) <= Len(data))
  <2>1. c \in Buffer
    BY PutElementExtends DEF Extends, c
  <2>2. Len(c.bytes) \in Nat
    BY <2>1, BufferIs
  <2>3. r.error # "none"
    BY <1>1, <1>5, <2>2 DEF Comes
  <2>4. AddElement(Deserialize, data, t, list).error # "none"
    BY <1>3, <2>3 DEF Failed
  <2>. QED
    BY <1>5, <2>4 DEF Comes, c
<1>. QED
  BY <1>4, <1>5

(* The first k items were read into list, if c, the buffer with them, came. *)
SoFar(data, c, list, t, items, k) ==
  /\ Len(c.bytes) <= Len(data) =>
       /\ list.error = "none" /\ list.pos = Len(c.bytes)
       /\ Len(list.value.items) = k
       /\ \A j \in 1..k : list.value.items[j] = ElementArrives(t, items[j])
  /\ Len(c.bytes) > Len(data) => list.error # "none"

LEMMA SoFarStep ==
  ASSUME NEW data \in Seq(Byte), NEW b \in Buffer, NEW t \in Types, t.kind \in FlatElements,
         NEW items, NEW k \in Nat, items[k + 1] \in Values[t],
         PutElement(Serialize, b, t, items[k + 1]).error = "none",
         Matches(data, PutElement(Serialize, b, t, items[k + 1]).bytes),
         NEW list \in Results(Lists(t)), SoFar(data, b, list, t, items, k)
  PROVE  SoFar(data, PutElement(Serialize, b, t, items[k + 1]),
               AddElement(Deserialize, data, t, list), t, items, k + 1)
<1>. DEFINE e == items[k + 1]
            c == PutElement(Serialize, b, t, e)
            next == AddElement(Deserialize, data, t, list)
            arrives == ElementArrives(t, e)
            l == list.value.items
<1>1. e \in Values[t] /\ c.error = "none" /\ Matches(data, c.bytes)
  OBVIOUS
<1>2. b.bytes \in Seq(Byte) /\ c.bytes \in Seq(Byte) /\ Len(b.bytes) <= Len(c.bytes)
  <2>1. Extends(b, c)
    BY <1>1, PutElementExtends
  <2>. HIDE DEF c
  <2>. QED
    BY <1>1, <2>1, MatchesBefore
<1>3. Len(b.bytes) \in Nat /\ Len(c.bytes) \in Nat /\ Len(data) \in Nat
  BY <1>2
<1>4. l \in Seq(Held[t])
  BY DEF Results, Lists
<1>5. CASE Len(b.bytes) <= Len(data)
  <2>1. /\ list.error = "none" /\ list.pos = Len(b.bytes) /\ Len(l) = k
        /\ \A j \in 1..k : l[j] = ElementArrives(t, items[j])
    BY <1>5 DEF SoFar
  <2>. DEFINE longer == Append(l, arrives)
  <2>2. Comes(next, data, c, [items |-> longer])
    BY <1>1, <1>5, <2>1, AddElementComes
  <2>3. Len(longer) = k + 1 /\ longer[k + 1] = arrives /\ \A j \in 1..k : longer[j] = l[j]
    <3>. HIDE DEF l, arrives
    <3>1. l \in Seq(Held[t] \cup {arrives}) /\ arrives \in Held[t] \cup {arrives} /\ Len(l) = k
      BY <1>4, <2>1
    <3>. QED
      BY <3>1, AppendProperties
  <2>. HIDE DEF longer, next, c, l, arrives
  <2>4. \A j \in 1..(k + 1) : longer[j] = ElementArrives(t, items[j])
    <3>1. \A j \in 1..(k + 1) : j = k + 1 \/ j \in 1..k
      OBVIOUS
    <3>2. longer[k + 1] = ElementArrives(t, items[k + 1])
      BY <2>3 DEF arrives, e
    <3>. QED
      BY <2>1, <2>3, <3>1, <3>2
  <2>5. SoFar(data, c, next, t, items, k + 1)
    BY <2>2, <2>3, <2>4 DEF SoFar, Comes
  <2>. QED
    BY <2>5 DEF c, e, next
<1>6. CASE Len(b.bytes) > Len(data)
  <2>1. list.error # "none"
    BY <1>6 DEF SoFar
  <2>2. next = list
    BY <2>1 DEF AddElement
  <2>3. ~(Len(c.bytes) <= Len(data))
    BY <1>2, <1>3, <1>6
  <2>. HIDE DEF c, next
  <2>4. SoFar(data, c, next, t, items, k + 1)
    BY <2>1, <2>2, <2>3 DEF SoFar
  <2>. QED
    BY <2>4 DEF c, e, next
<1>7. Len(b.bytes) <= Len(data) \/ Len(b.bytes) > Len(data)
  BY <1>3
<1>. QED
  BY <1>5, <1>6, <1>7

LEMMA SoFarAll ==
  ASSUME NEW data \in Seq(Byte), NEW t \in Types, t.kind \in FlatElements,
         NEW n \in Nat, NEW items, \A k \in 1..n : items[k] \in Values[t],
         NEW at, \A k \in 0..n : at[k] \in Buffer /\ at[k].error = "none" /\ Matches(data, at[k].bytes),
         \A k \in 1..n : at[k] = PutElement(Serialize, at[k-1], t, items[k]),
         NEW got, \A k \in 0..n : got[k] \in Results(Lists(t)),
         \A k \in 1..n : got[k] = AddElement(Deserialize, data, t, got[k-1]),
         SoFar(data, at[0], got[0], t, items, 0)
  PROVE  SoFar(data, at[n], got[n], t, items, n)
<1>. DEFINE Good == {k \in 0..n : SoFar(data, at[k], got[k], t, items, k)}
<1>1. 0 \in Good
  OBVIOUS
<1>2. ASSUME NEW k \in 1..n, k - 1 \in Good
      PROVE  k \in Good
  <2>. DEFINE i == k - 1
  <2>1. i \in Nat /\ i \in 0..n /\ i + 1 = k /\ k \in 0..n
    OBVIOUS
  <2>2. at[i] \in Buffer /\ got[i] \in Results(Lists(t)) /\ SoFar(data, at[i], got[i], t, items, i)
    BY <1>2, <2>1
  <2>3. at[i + 1] = PutElement(Serialize, at[i], t, items[i + 1])
    BY <2>1
  <2>4. got[i + 1] = AddElement(Deserialize, data, t, got[i])
    BY <2>1
  <2>5. items[i + 1] \in Values[t]
    BY <2>1
  <2>6. at[i + 1].error = "none" /\ Matches(data, at[i + 1].bytes)
    BY <2>1
  <2>. HIDE DEF i
  <2>7. SoFar(data, at[i + 1], got[i + 1], t, items, i + 1)
    BY <2>1, <2>2, <2>3, <2>4, <2>5, <2>6, SoFarStep
  <2>. QED
    BY <2>1, <2>7
<1>3. 0..n \subseteq Good
  <2>. HIDE DEF Good
  <2>. QED
    BY <1>1, <1>2, StepInduction
<1>4. n \in 0..n
  OBVIOUS
<1>. QED
  BY <1>3, <1>4

ListArrives(t, v) ==
  IF v = NULL THEN <<>> ELSE [k \in DOMAIN v.items |-> ElementArrives(t.elem, v.items[k])]

LEMMA SequenceComes ==
  ASSUME NEW data \in Seq(Byte), NEW b \in Buffer, NEW t \in Types, t.kind = "sequence",
         t.elem.kind \in FlatElements, NEW v \in Values[t],
         PutSequence(Serialize, b, t, v).error = "none",
         Matches(data, PutSequence(Serialize, b, t, v).bytes),
         Len(b.bytes) <= Len(data), NEW old
  PROVE  Comes(GetSequence(Deserialize, data, Len(b.bytes), t, old), data,
               PutSequence(Serialize, b, t, v), [items |-> ListArrives(t, v)])
<1>. DEFINE pos == Len(b.bytes)
            len == IF v = NULL THEN -1 ELSE Len(v.items)
            count == IF len < 0 THEN 0 ELSE len
            m == Put(b, Number(len, 4))
            c == PutSequence(Serialize, b, t, v)
            n == GetNumber(data, pos, 4, old)
            r == GetSequence(Deserialize, data, pos, t, old)
            first == Read(pos + 4, [items |-> <<>>])
            got == GetListAt(Deserialize, data, t.elem, first, count)
<1>1. t.elem \in Types /\ (v # NULL => v.items \in Seq(Values[t.elem]))
  BY SentValues, TypeParts
<1>2. /\ len \in Int /\ len # GARBAGE /\ count \in Nat
      /\ v = NULL => len = -1 /\ count = 0
      /\ v # NULL => len = Len(v.items) /\ count = Len(v.items)
  <2>1. len \in Int
    BY <1>1
  <2>2. len # GARBAGE
    <3>. HIDE DEF len
    <3>. QED
      BY <2>1, GarbageAssumption
  <2>3. v # NULL => Len(v.items) \in Nat
    BY <1>1
  <2>. QED
    BY <2>1, <2>2, <2>3
<1>3. c.error = "none" /\ Matches(data, c.bytes)
  OBVIOUS
<1>4. Extends(b, m)
  <2>. HIDE DEF len
  <2>1. Number(len, 4) \in Seq(Byte)
    BY <1>2, NumberBytes
  <2>. QED
    BY <2>1, PutGives
<1>5. v = NULL => c = m
  BY DEF PutSequence
<1>6. Extends(m, c)
  <2>1. CASE v = NULL
    <3>. HIDE DEF m, c
    <3>. QED
      BY <1>4, <1>5, <2>1, ExtendsItself DEF Extends
  <2>2. CASE v # NULL
    <3>1. 0 \in 0..Len(v.items)
      BY <1>1, <2>2
    <3>2. Extends(PutSequenceAt(Serialize, b, t, v)[0], c)
      BY <2>2, <3>1, PutSequenceSteps
    <3>3. PutSequenceAt(Serialize, b, t, v)[0] = m
      BY <2>2, PutSequenceSteps
    <3>. QED
      BY <3>2, <3>3
  <2>. QED
    BY <2>1, <2>2
<1>7. m.error = "none" /\ Matches(data, m.bytes) /\ Len(m.bytes) \in Nat /\ Len(c.bytes) \in Nat
      /\ Len(m.bytes) <= Len(c.bytes)
  <2>. HIDE DEF m, c
  <2>. QED
    BY <1>3, <1>6, MatchesBefore
<1>8. pos \in Nat /\ Len(data) \in Nat
  BY BufferIs
<1>9. Len(m.bytes) = pos + 4 /\ ReadsNumber(data, pos, len, 4, old)
  <2>1. 4 \in 1..8
    OBVIOUS
  <2>. HIDE DEF len
  <2>2. Put(b, Number(len, 4)).error = "none" /\ Matches(data, Put(b, Number(len, 4)).bytes)
    BY <1>7
  <2>. QED
    BY <1>2, <2>1, <2>2, NumberComes
<1>10. r = IF n.error # "none" THEN n
           ELSE IF n.value.number = GARBAGE THEN Failed(n.pos, "Garbled", old)
           ELSE GetList(Deserialize, data, t.elem, Read(n.pos, [items |-> <<>>]),
                        IF n.value.number < 0 THEN 0 ELSE n.value.number)
  BY DEF GetSequence, GetList
<1>11. first \in Results(Lists(t.elem))
  <2>1. [items |-> <<>>] \in Lists(t.elem) /\ pos + 4 \in Nat
    BY <1>8 DEF Lists
  <2>. QED
    BY <2>1, ResultsAre
<1>12. /\ \A k \in 0..count : got[k] \in Results(Lists(t.elem))
       /\ got[0] = first
       /\ \A k \in 1..count : got[k] = AddElement(Deserialize, data, t.elem, got[k-1])
       /\ GetList(Deserialize, data, t.elem, first, count) = got[count]
  <2>1. t.elem.kind \in Nested => Deserializes(Deserialize, t.elem)
    BY <1>1, DeserializeTyped DEF Class
  <2>2. \A k \in 1..count : \A l \in Results(Lists(t.elem)) :
          AddElement(Deserialize, data, t.elem, l) \in Results(Lists(t.elem))
    BY <1>1, <2>1, AddElementTyped
  <2>. HIDE DEF first, count
  <2>3. got \in [0..count -> Results(Lists(t.elem))]
    BY <1>2, <1>11, <2>2, GetListAtIs
  <2>. QED
    BY <1>2, <1>11, <2>2, <2>3, GetListAtIs
<1>. HIDE DEF n, r, m, c, len, count, first, got, pos
<1>13. CASE pos + 4 > Len(data)
  <2>1. n.error = "BufferUnderflow"
    BY <1>9, <1>13 DEF ReadsNumber, Failed, n
  <2>2. r.error # "none"
    BY <1>10, <2>1
  <2>3. ~(Len(c.bytes) <= Len(data))
    BY <1>7, <1>8, <1>9, <1>13
  <2>. QED
    BY <2>2, <2>3 DEF Comes, c, r, pos
<1>14. CASE pos + 4 <= Len(data)
  <2>1. n.error = "none" /\ n.value.number = len /\ n.pos = pos + 4
    BY <1>9, <1>14 DEF ReadsNumber, Read, n
  <2>2. r = got[count]
    BY <1>2, <1>10, <1>12, <2>1 DEF first, count
  <2>3. SoFar(data, m, first, t.elem, v.items, 0)
    <3>1. first.error = "none" /\ first.pos = Len(m.bytes) /\ first.value.items = <<>>
      BY <1>9 DEF first, Read
    <3>2. ~(Len(m.bytes) > Len(data))
      BY <1>7, <1>8, <1>9, <1>14
    <3>3. Len(<<>>) = 0 /\ 1..0 = {}
      OBVIOUS
    <3>. QED
      BY <3>1, <3>2, <3>3 DEF SoFar
  <2>4. SoFar(data, c, r, t.elem, v.items, count)
    <3>1. CASE v = NULL
      <4>1. c = m /\ r = first /\ count = 0
        BY <1>2, <1>5, <1>12, <2>2, <3>1
      <4>. QED
        BY <2>3, <4>1
    <3>2. CASE v # NULL
      <4>. DEFINE at == PutSequenceAt(Serialize, b, t, v)
                  items == v.items
      <4>1. count = Len(items) /\ items \in Seq(Values[t.elem])
        BY <1>1, <1>2, <3>2
      <4>2. \A k \in 1..count : items[k] \in Values[t.elem]
        BY <4>1
      <4>3. at[0] = m /\ c = at[count]
        BY <1>2, <3>2, PutSequenceSteps DEF m, c
      <4>4. \A k \in 1..count : at[k] = PutElement(Serialize, at[k-1], t.elem, items[k])
        BY <3>2, <4>1, PutSequenceSteps
      <4>5. \A k \in 0..count : at[k] \in Buffer /\ Extends(at[k], c)
        BY <3>2, <4>1, PutSequenceSteps DEF c
      <4>. HIDE DEF at, items
      <4>6. \A k \in 0..count : at[k].error = "none" /\ Matches(data, at[k].bytes)
        BY <1>3, <4>5, MatchesBefore
      <4>7. SoFar(data, at[0], got[0], t.elem, items, 0)
        BY <1>12, <2>3, <4>3 DEF items
      <4>8. SoFar(data, at[count], got[count], t.elem, items, count)
        BY <1>1, <1>2, <1>12, <4>2, <4>4, <4>5, <4>6, <4>7, SoFarAll
      <4>. QED
        BY <2>2, <4>3, <4>8 DEF items
    <3>. QED
      BY <3>1, <3>2
  <2>5. r \in Results(Lists(t.elem))
    <3>1. count \in 0..count
      BY <1>2
    <3>. QED
      BY <1>12, <2>2, <3>1
  <2>6. r.value = [items |-> r.value.items] /\ r.value.items \in Seq(Held[t.elem])
    BY <2>5 DEF Results, Lists
  <2>7. CASE Len(c.bytes) <= Len(data)
    <3>. DEFINE l == r.value.items
    <3>1. /\ r.error = "none" /\ r.pos = Len(c.bytes) /\ Len(l) = count
          /\ \A j \in 1..count : l[j] = ElementArrives(t.elem, v.items[j])
      BY <2>4, <2>7 DEF SoFar
    <3>2. l = ListArrives(t, v)
      <4>. HIDE DEF l
      <4>1. l \in Seq(Held[t.elem])
        BY <2>6 DEF l
      <4>2. CASE v = NULL
        <5>1. Len(l) = 0
          BY <1>2, <3>1, <4>2
        <5>. QED
          BY <4>1, <4>2, <5>1 DEF ListArrives
      <4>3. CASE v # NULL
        <5>1. DOMAIN v.items = 1..count
          BY <1>1, <1>2, <4>3
        <5>2. l = [j \in 1..count |-> l[j]]
          BY <3>1, <4>1
        <5>. QED
          BY <3>1, <4>3, <5>1, <5>2 DEF ListArrives
      <4>. QED
        BY <4>2, <4>3
    <3>3. r.value = [items |-> ListArrives(t, v)]
      BY <2>6, <3>2
    <3>4. ~(Len(c.bytes) > Len(data))
      BY <1>7, <1>8, <2>7
    <3>. QED
      BY <3>1, <3>3, <3>4 DEF Comes, c, r, pos
  <2>8. CASE ~(Len(c.bytes) <= Len(data))
    <3>1. r.error # "none"
      BY <1>7, <1>8, <2>4, <2>8 DEF SoFar
    <3>. QED
      BY <2>8, <3>1 DEF Comes, c, r, pos
  <2>. QED
    BY <2>7, <2>8
<1>. QED
  BY <1>8, <1>13, <1>14

LEMMA MemberComes ==
  ASSUME NEW data \in Seq(Byte), NEW b \in Buffer, NEW t \in Types, t.kind \notin Nested,
         t.kind = "sequence" => t.elem.kind \in FlatElements, NEW v \in Values[t],
         PutMember(Serialize, b, t, v).error = "none",
         Matches(data, PutMember(Serialize, b, t, v).bytes),
         Len(b.bytes) <= Len(data), NEW old
  PROVE  Comes(GetMember(Deserialize, data, Len(b.bytes), t, old), data,
               PutMember(Serialize, b, t, v), Arrival(Arrives, t, v, old))
<1>. DEFINE c == PutMember(Serialize, b, t, v)
            r == GetMember(Deserialize, data, Len(b.bytes), t, old)
            new == Arrival(Arrives, t, v, old)
<1>1. c.error = "none" /\ Matches(data, c.bytes)
  OBVIOUS
<1>2. CASE t.kind \in Scalars
  <2>. DEFINE width == Width[t.kind]
  <2>1. t.kind \notin {"string", "wstring", "bitmask", "sequence"} \cup Nested
    BY <1>2, ScalarWidths DEF Nested
  <2>2. v = NULL \/ v \in [number : Int]
    BY <2>1, SentValues
  <2>3. width \in 1..8
    BY <1>2, ScalarWidths
  <2>4. c = PutNumber(b, v, width) /\ r = GetNumber(data, Len(b.bytes), width, old)
    BY <1>2, <2>1 DEF PutMember, GetMember
  <2>5. new = v
    BY <1>2, <2>1 DEF Arrival
  <2>. HIDE DEF width, c, r, new
  <2>6. PutNumber(b, v, width).error = "none" /\ Matches(data, PutNumber(b, v, width).bytes)
    BY <1>1, <2>4
  <2>7. Comes(GetNumber(data, Len(b.bytes), width, old), data, PutNumber(b, v, width), v)
    BY <2>2, <2>3, <2>6, ScalarComes
  <2>8. Comes(r, data, c, new)
    BY <2>4, <2>5, <2>7
  <2>. QED
    BY <2>8 DEF c, r, new
<1>3. CASE t.kind = "string"
  <2>1. t.kind \notin Scalars \cup {"sequence"} \cup Nested
    BY <1>3, ScalarWidths DEF Nested
  <2>2. v = NULL \/ v \in [text : Seq(Int)]
    BY <1>3, SentValues
  <2>3. c = PutText(b, v) /\ r = GetText(data, Len(b.bytes), old, "IndexOutOfBounds")
    BY <1>3, <2>1 DEF PutMember, GetMember
  <2>4. new = ArrivesText(v)
    BY <1>3, <2>1 DEF Arrival
  <2>5. "IndexOutOfBounds" \in Exceptions
    BY DEF Exceptions
  <2>. HIDE DEF c, r, new
  <2>. QED
    BY <1>1, <2>2, <2>3, <2>4, <2>5, TextComes DEF c, r, new
<1>4. CASE t.kind = "sequence"
  <2>1. t.kind \notin Scalars \cup {"string"} \cup Nested
    BY <1>4, ScalarWidths DEF Nested
  <2>2. c = PutSequence(Serialize, b, t, v) /\ r = GetSequence(Deserialize, data, Len(b.bytes), t, old)
    BY <1>4, <2>1 DEF PutMember, GetMember
  <2>3. new = [items |-> ListArrives(t, v)]
    BY <1>4, <2>1 DEF Arrival, ListArrives, ElementArrives
  <2>. HIDE DEF c, r, new
  <2>. QED
    BY <1>1, <1>4, <2>2, <2>3, SequenceComes DEF c, r, new
<1>5. CASE t.kind \notin Scalars \cup {"string", "sequence"} \cup Nested
  <2>1. c = b /\ r = Read(Len(b.bytes), old)
    BY <1>5 DEF PutMember, GetMember
  <2>2. new = old
    BY <1>5 DEF Arrival
  <2>3. b.bytes \in Seq(Byte)
    BY BufferIs
  <2>4. ~(Len(b.bytes) > Len(data))
    BY <2>3
  <2>5. r.error = "none" /\ r.pos = Len(b.bytes) /\ r.value = old
    BY <2>1 DEF Read
  <2>. HIDE DEF c, r, new
  <2>6. Comes(r, data, c, new)
    BY <2>1, <2>2, <2>4, <2>5 DEF Comes
  <2>. QED
    BY <2>6 DEF c, r, new
<1>. QED
  BY <1>2, <1>3, <1>4, <1>5

(* The fields up to some field are new, those after it old. *)
Mixed(t, value, new, old) ==
  \E m \in DOMAIN Fields(t) : \A j \in DOMAIN Fields(t) :
    /\ j < m => value.items[j] = new.items[j]
    /\ j > m => value.items[j] = old.items[j]

(* What r, deserialize() of data into old, is when o was sent. *)
Decoded(t, o, data, old, r) ==
  /\ Len(Serialize[t][o].bytes) <= Len(data) =>
       r.error = "none" /\ r.value = Arrival(Arrives, t, o, old)
  /\ OneCase[t][o] /\ Len(Serialize[t][o].bytes) > Len(data) => r.error # "none"
  /\ r.error # "none" => Mixed(t, r.value, Arrival(Arrives, t, o, old), old)

Decodes(t) ==
  \A o \in Values[t] \ {NULL} : \A data \in Seq(Byte) : \A old \in Objects(t) :
    Complete[t][o] /\ Serialize[t][o].error = "none" /\ Matches(data, Serialize[t][o].bytes) =>
      Decoded(t, o, data, old, Deserialize[t][data][old])

(* A nested object, which comes last. *)
ObjectComes(r, data, c, t, v, old) ==
  /\ Len(c.bytes) <= Len(data) => r.error = "none" /\ r.value = Arrival(Arrives, t, v, old)
  /\ OneCase[t][v] /\ Len(c.bytes) > Len(data) => r.error # "none"

LEMMA NestedComes ==
  ASSUME NEW data \in Seq(Byte), NEW b \in Buffer, NEW t \in Class, Decodes(t),
         NEW v \in Values[t] \ {NULL}, Complete[t][v],
         PutObject(Serialize, b, t, v).error = "none",
         Matches(data, PutObject(Serialize, b, t, v).bytes),
         Len(b.bytes) <= Len(data), NEW old \in Held[t]
  PROVE  ObjectComes(GetObject(Deserialize, data, Len(b.bytes), t, old), data,
                     PutObject(Serialize, b, t, v), t, v, old)
<1>. DEFINE inner == Serialize[t][v]
            c == PutObject(Serialize, b, t, v)
            pos == Len(b.bytes)
            w == inner.bytes
            rest == SubSeq(data, pos + 1, Len(data))
            target == IF old = NULL THEN Fresh(t) ELSE old
            d == Deserialize[t][rest][target]
            r == GetObject(Deserialize, data, pos, t, old)
<1>1. w \in Seq(Byte) /\ (inner.error = "none" \/ inner.error \in Exceptions)
  BY SerializeGives
<1>2. c = IF inner.error = "none" THEN Put(b, w) ELSE Throw(b, inner.error)
  BY DEF PutObject
<1>3. c.error = "none" /\ Matches(data, c.bytes)
  OBVIOUS
<1>4. target \in Objects(t) /\ target # NULL
  BY FreshIsHeld, ObjectIsHeld
<1>5. Arrival(Arrives, t, v, target) = Arrival(Arrives, t, v, old)
  <2>. DEFINE into(x) == IF x = NULL THEN Fresh(t) ELSE x
  <2>1. into(target) = into(old)
    BY <1>4
  <2>2. t.kind \in Nested /\ t.kind \notin Scalars \cup {"string", "sequence"}
    BY ScalarWidths DEF Class, Nested
  <2>. DEFINE fields(x) == [k \in DOMAIN Fields(t) |->
                              IF t.kind = "union" /\ k > 2 THEN into(x).items[k]
                              ELSE Arrives[Fields(t)[k]][v.items[k]]
                                     [IF t.kind = "union" THEN NULL ELSE into(x).items[k]]]
  <2>3. \A x : Arrival(Arrives, t, v, x) = [items |-> fields(x)]
    BY <2>2 DEF Arrival
  <2>4. fields(target) = fields(old)
    <3>. HIDE DEF into, target
    <3>. QED
      BY <2>1
  <2>. HIDE DEF fields, target
  <2>. QED
    BY <2>3, <2>4
<1>6. r = [d EXCEPT !.pos = Len(data)]
  BY DEF GetObject
<1>7. pos \in Nat /\ Len(data) \in Nat /\ Len(w) \in Nat /\ pos <= Len(data)
  BY <1>1, BufferIs
<1>8. rest \in Seq(Byte) /\ Len(rest) = Len(data) - pos
      /\ \A j \in 1..(Len(data) - pos) : rest[j] = data[pos + j]
  <2>. HIDE DEF pos
  <2>1. \A i \in (pos + 1)..Len(data) : data[i] \in Byte
    BY <1>7
  <2>2. pos + 1 \in Int /\ Len(data) \in Int
    BY <1>7
  <2>3. rest \in Seq(Byte)
    BY <2>1, <2>2, SubSeqProperties
  <2>4. Len(rest) = Len(data) - pos
    BY <1>7
  <2>5. \A j \in 1..(Len(data) - pos) : rest[j] = data[pos + j]
    BY <1>7
  <2>. QED
    BY <2>3, <2>4, <2>5
<1>9. inner.error = "none" /\ c = Put(b, w)
  <2>. HIDE DEF inner, c, w
  <2>. QED
    BY <1>1, <1>2, <1>3, ThrowExtends
<1>10. c.bytes = b.bytes \o w
  <2>. HIDE DEF c, w
  <2>. QED
    BY <1>1, <1>3, <1>9, PutGives
<1>11. Len(c.bytes) = pos + Len(w) /\ \A j \in 1..Len(w) : c.bytes[pos + j] = w[j]
  <2>. DEFINE s == b.bytes
  <2>1. s \in Seq(Byte) /\ c.bytes = s \o w /\ pos = Len(s)
    BY <1>10, BufferIs
  <2>. HIDE DEF s, w, pos, c
  <2>2. Len(s \o w) = Len(s) + Len(w) /\ \A j \in 1..Len(w) : (s \o w)[Len(s) + j] = w[j]
    BY <1>1, <2>1
  <2>. QED
    BY <2>1, <2>2
<1>12. Matches(rest, w)
  <2>. HIDE DEF rest, w, pos, c
  <2>1. ASSUME NEW j \in 1..Len(w), j <= Len(rest)
        PROVE  rest[j] = w[j]
    <3>1. j \in 1..(Len(data) - pos) /\ pos + j \in 1..Len(c.bytes) /\ pos + j <= Len(data)
      BY <1>7, <1>8, <1>11, <2>1
    <3>2. data[pos + j] = c.bytes[pos + j]
      BY <1>3, <3>1 DEF Matches
    <3>. QED
      BY <1>8, <1>11, <3>1, <3>2
  <2>. QED
    BY <2>1 DEF Matches
<1>13. Decoded(t, v, rest, target, d)
  <2>. HIDE DEF rest, target
  <2>. QED
    BY <1>4, <1>8, <1>9, <1>12 DEF Decodes
<1>14. d \in Results(Objects(t))
  <2>. HIDE DEF rest, target
  <2>. QED
    BY <1>4, <1>8, DeserializeTyped DEF Deserializes
<1>. HIDE DEF d, rest, target
<1>15. r.error = d.error /\ r.value = d.value
  BY <1>6, <1>14 DEF Results
<1>. HIDE DEF r, pos
<1>16. Len(c.bytes) <= Len(data) => Len(w) <= Len(rest)
  BY <1>7, <1>8, <1>11
<1>17. Len(c.bytes) > Len(data) => Len(w) > Len(rest)
  BY <1>7, <1>8, <1>11
<1>18. Len(w) <= Len(rest) => d.error = "none" /\ d.value = Arrival(Arrives, t, v, old)
  BY <1>5, <1>13 DEF Decoded
<1>19. OneCase[t][v] /\ Len(w) > Len(rest) => d.error # "none"
  BY <1>13 DEF Decoded
<1>. HIDE DEF w, c
<1>. QED
  BY <1>15, <1>16, <1>17, <1>18, <1>19 DEF ObjectComes, r, c, pos

-----------------------------------------------------------------------------
(* An object is read as it was put, field by field. *)

LEMMA UnionFields ==
  ASSUME NEW t \in Class, t.kind = "union"
  PROVE  /\ FieldsRead(t) = 2 /\ 1 \in DOMAIN Fields(t) /\ 2 \in DOMAIN Fields(t)
         /\ Fields(t)[1].kind \in Scalars
         /\ Agrees[t] => \A k \in DOMAIN Fields(t) : k > 1 => Fields(t)[k].kind \in Nested
<1>. DEFINE first == [kind |-> IF Discriminator(t.disc) = "long" THEN "llong" ELSE "long"]
            d == <<first>>
<1>1. t \in Types /\ t.cases \in Seq(Types) /\ t.cases # <<>> /\ Fields(t) = d \o t.cases
  BY TypesAssumption DEF Fields, Class
<1>2. Len(t.cases) \in Nat /\ Len(t.cases) # 0 /\ Len(d) = 1 /\ d[1] = first
  BY <1>1
<1>3. d \in Seq({first})
  OBVIOUS
<1>4. first.kind \in Scalars
  BY ScalarWidths
<1>. HIDE DEF d, first
<1>5. d \in Seq(Types \cup {first}) /\ t.cases \in Seq(Types \cup {first})
  BY <1>1, <1>3
<1>6. /\ Len(Fields(t)) = 1 + Len(t.cases) /\ DOMAIN Fields(t) = 1..(1 + Len(t.cases))
      /\ Fields(t)[1] = first
      /\ \A k \in 2..(1 + Len(t.cases)) : Fields(t)[k] = t.cases[k - 1]
  <2>. DEFINE cases == t.cases
              n == Len(cases)
              S == Types \cup {first}
  <2>1. cases \in Seq(S) /\ d \in Seq(S) /\ n \in Nat /\ Fields(t) = d \o cases
    BY <1>1, <1>2, <1>5
  <2>2. Len(d) = 1 /\ d[1] = first
    BY <1>2
  <2>. DEFINE fields == d \o cases
  <2>. HIDE DEF cases, S, n
  <2>3. /\ fields \in Seq(S) /\ Len(fields) = 1 + n
        /\ \A k \in 1..(1 + n) : fields[k] = IF k <= 1 THEN d[k] ELSE cases[k - 1]
    BY <2>1, <2>2, ConcatProperties DEF n
  <2>. HIDE DEF fields
  <2>4. DOMAIN fields = 1..(1 + n)
    BY <2>3
  <2>5. fields[1] = first
    BY <2>1, <2>2, <2>3
  <2>6. \A k \in 2..(1 + n) : fields[k] = cases[k - 1]
    BY <2>1, <2>3
  <2>. QED
    BY <2>1, <2>3, <2>4, <2>5, <2>6 DEF cases, n, fields
<1>7. 1 \in DOMAIN Fields(t) /\ 2 \in DOMAIN Fields(t)
  BY <1>2, <1>6
<1>8. ASSUME Agrees[t], NEW k \in DOMAIN Fields(t), k > 1
      PROVE  Fields(t)[k].kind \in Nested
  <2>1. UnionAgrees(t)
    BY <1>1, <1>8, AgreesDef DEF AgreesIf
  <2>2. k \in 2..(1 + Len(t.cases)) /\ k - 1 \in 1..Len(t.cases)
    BY <1>2, <1>6, <1>8
  <2>3. t.cases[k - 1].kind \in Nested
    BY <2>1, <2>2 DEF UnionAgrees
  <2>. QED
    BY <1>6, <2>2, <2>3
<1>9. FieldsRead(t) = 2
  BY DEF FieldsRead
<1>. QED
  BY <1>4, <1>6, <1>7, <1>8, <1>9

(* What the receiver had in a field has the field's type. *)
LEMMA OldIsHeld ==
  ASSUME NEW t \in Class, NEW o \in Objects(t), NEW k \in DOMAIN Fields(t)
  PROVE  Fields(t)[k] \in Types /\ Old(t, o, k) \in Held[Fields(t)[k]]
<1>1. Fields(t)[k] \in Types /\ o.items[k] \in Held[Fields(t)[k]]
  BY ObjectFields
<1>2. NULL \in Held[Fields(t)[k]]
  BY <1>1, HeldIs
<1>. QED
  BY <1>1, <1>2 DEF Old

(* The object that is to arrive. *)
LEMMA ArrivalFields ==
  ASSUME NEW t \in Class, NEW o \in Values[t] \ {NULL}, NEW old \in Objects(t)
  PROVE  /\ Arrival(Arrives, t, o, old) = [items |-> Arrival(Arrives, t, o, old).items]
         /\ Arrival(Arrives, t, o, old).items
              = [k \in DOMAIN Fields(t) |-> Arrival(Arrives, t, o, old).items[k]]
         /\ \A k \in 1..FieldsRead(t) :
              Arrival(Arrives, t, o, old).items[k]
                = Arrival(Arrives, Fields(t)[k], o.items[k], Old(t, old, k))
         /\ \A k \in DOMAIN Fields(t) :
              k > FieldsRead(t) => Arrival(Arrives, t, o, old).items[k] = old.items[k]
<1>. DEFINE item(k) == IF t.kind = "union" /\ k > 2 THEN old.items[k]
                       ELSE Arrives[Fields(t)[k]][o.items[k]]
                              [IF t.kind = "union" THEN NULL ELSE old.items[k]]
            new == Arrival(Arrives, t, o, old)
<1>1. new = [items |-> [k \in DOMAIN Fields(t) |-> item(k)]]
  <2>1. t.kind \in Nested /\ t.kind \notin Scalars \cup {"string", "sequence"}
    BY ScalarWidths DEF Class, Nested
  <2>2. old # NULL
    BY ObjectIsHeld
  <2>. QED
    BY <2>1, <2>2 DEF Arrival
<1>2. ASSUME NEW k \in 1..FieldsRead(t)
      PROVE  item(k) = Arrival(Arrives, Fields(t)[k], o.items[k], Old(t, old, k))
  <2>. DEFINE field == Fields(t)[k]
              v == o.items[k]
              x == IF t.kind = "union" THEN NULL ELSE old.items[k]
  <2>1. k \in DOMAIN Fields(t) /\ k \in Nat
    BY FieldsAreRead
  <2>2. field \in Types /\ old.items[k] \in Held[field] /\ NULL \in Held[field]
    BY <2>1, ObjectFields, HeldIs
  <2>3. v \in Values[field]
    <3>1. k \in DOMAIN o.items
      <4>1. o.items \in Seq(ValuesUpTo[MaxDepth])
        BY SentValues DEF Class
      <4>. QED
        BY <2>1, <4>1, ObjectValues
    <3>. QED
      BY <3>1, SentValues DEF Class
  <2>4. ~(t.kind = "union" /\ k > 2)
    <3>1. t.kind = "union" => FieldsRead(t) = 2
      BY DEF FieldsRead
    <3>. QED
      BY <3>1
  <2>5. item(k) = Arrives[field][v][x]
    BY <2>4
  <2>6. x \in Held[field]
    BY <2>2
  <2>. HIDE DEF field, v, x
  <2>7. Arrives[field][v][x] = Arrival(Arrives, field, v, x)
    <3>1. Arrives[field] = [u \in Values[field] |-> [y \in Held[field] |-> Arrival(Arrives, field, u, y)]]
      BY <2>2, ArrivesDef
    <3>2. Arrives[field][v] = [y \in Held[field] |-> Arrival(Arrives, field, v, y)]
      BY <2>3, <3>1
    <3>. QED
      BY <2>6, <3>2
  <2>8. Arrival(Arrives, field, v, x) = Arrival(Arrives, field, v, Old(t, old, k))
    <3>1. CASE t.kind = "union" /\ k = 1
      <4>1. field.kind \in Scalars
        BY <3>1, UnionFields DEF field
      <4>2. \A y : Arrival(Arrives, field, v, y) = v
        <5>1. field.kind \notin {"string", "sequence"} \cup Nested
          BY <4>1, ScalarWidths DEF Nested
        <5>. QED
          BY <4>1, <5>1 DEF Arrival
      <4>. QED
        BY <4>2
    <3>2. CASE t.kind # "union" \/ k = 2
      <4>1. x = Old(t, old, k)
        BY <3>2 DEF Old, x
      <4>. QED
        BY <4>1
    <3>. QED
      BY <2>1, <2>4, <3>1, <3>2
  <2>9. item(k) = Arrival(Arrives, field, v, Old(t, old, k))
    BY <2>5, <2>7, <2>8
  <2>. QED
    BY <2>9 DEF field, v
<1>3. ASSUME NEW k \in DOMAIN Fields(t), k > FieldsRead(t)
      PROVE  item(k) = old.items[k]
  <2>1. Fields(t) \in Seq(Types)
    BY TypeParts DEF Class
  <2>2. t.kind = "union"
    BY <1>3, <2>1 DEF FieldsRead
  <2>3. k > 2
    BY <1>3, <2>2 DEF FieldsRead
  <2>. QED
    BY <2>2, <2>3
<1>. HIDE DEF item, new
<1>4. new.items = [k \in DOMAIN Fields(t) |-> item(k)]
  BY <1>1
<1>5. \A k \in DOMAIN Fields(t) : new.items[k] = item(k)
  BY <1>4
<1>6. new.items = [k \in DOMAIN Fields(t) |-> new.items[k]] /\ new = [items |-> new.items]
  BY <1>1, <1>4, <1>5
<1>7. \A k \in 1..FieldsRead(t) :
        new.items[k] = Arrival(Arrives, Fields(t)[k], o.items[k], Old(t, old, k))
  BY <1>2, <1>5, FieldsAreRead
<1>8. \A k \in DOMAIN Fields(t) : k > FieldsRead(t) => new.items[k] = old.items[k]
  BY <1>3, <1>5
<1>. QED
  BY <1>6, <1>7, <1>8 DEF new

(* The steps of an object that is read. *)
LEMMA GetMembersSteps ==
  ASSUME NEW t \in Class, NEW data \in Seq(Byte), NEW old \in Objects(t)
  PROVE  /\ GetMembersAt(Deserialize, data, t, old)[0] = Read(0, old)
         /\ \A k \in 1..FieldsRead(t) :
              GetMembersAt(Deserialize, data, t, old)[k]
                = GetField(Deserialize, data, t, old, k, GetMembersAt(Deserialize, data, t, old)[k-1])
         /\ Deserialize[t][data][old] = GetMembersAt(Deserialize, data, t, old)[FieldsRead(t)]
         /\ \A k \in 0..FieldsRead(t) :
              GetMembersAt(Deserialize, data, t, old)[k] \in Results(Objects(t))
<1>1. FieldsRead(t) \in Nat
  BY FieldsAreRead
<1>2. Read(0, old) \in Results(Objects(t))
  BY ResultsAre
<1>3. \A k \in 1..FieldsRead(t) : \A b \in Results(Objects(t)) :
        GetField(Deserialize, data, t, old, k, b) \in Results(Objects(t))
  <2>1. \A p \in Class : Depth[p] < Depth[t] => Deserializes(Deserialize, p)
    BY DeserializeTyped
  <2>. QED
    BY <2>1, GetFieldTyped
<1>4. GetMembersAt(Deserialize, data, t, old) \in [0..FieldsRead(t) -> Results(Objects(t))]
  BY <1>1, <1>2, <1>3, GetMembersAtIs
<1>5. /\ GetMembersAt(Deserialize, data, t, old)[0] = Read(0, old)
      /\ \A k \in 1..FieldsRead(t) :
           GetMembersAt(Deserialize, data, t, old)[k]
             = GetField(Deserialize, data, t, old, k, GetMembersAt(Deserialize, data, t, old)[k-1])
      /\ GetMembers(Deserialize, data, t, old) = GetMembersAt(Deserialize, data, t, old)[FieldsRead(t)]
  BY <1>1, <1>2, <1>3, GetMembersAtIs
<1>6. Deserialize[t][data][old] = GetMembers(Deserialize, data, t, old)
  <2>1. Deserialize[t][data] = [x \in Held[t] \ {NULL} |-> GetMembers(Deserialize, data, t, x)]
    BY DeserializeDef
  <2>2. old \in Held[t] \ {NULL}
    BY ObjectIsHeld
  <2>. QED
    BY <2>1, <2>2
<1>. QED
  BY <1>4, <1>5, <1>6

(* One field is set, the others stay. *)
LEMMA GetFieldIs ==
  ASSUME NEW t \in Class, NEW data \in Seq(Byte), NEW o \in Objects(t),
         NEW k \in 1..FieldsRead(t), NEW d \in Results(Objects(t)), d.error = "none",
         NEW r, r = GetMember(Deserialize, data, d.pos, Fields(t)[k], Old(t, o, k))
  PROVE  /\ GetField(Deserialize, data, t, o, k, d).error = r.error
         /\ GetField(Deserialize, data, t, o, k, d).pos = r.pos
         /\ GetField(Deserialize, data, t, o, k, d).value.items[k] = r.value
         /\ \A j \in DOMAIN Fields(t) :
              j # k => GetField(Deserialize, data, t, o, k, d).value.items[j] = d.value.items[j]
<1>. DEFINE g == GetField(Deserialize, data, t, o, k, d)
            old == Old(t, o, k)
            new == [d.value.items EXCEPT ![k] = r.value]
<1>1. k \in DOMAIN Fields(t)
  BY FieldsAreRead
<1>2. Fields(t)[k] \in Types /\ old \in Held[Fields(t)[k]]
  BY <1>1, OldIsHeld
<1>3. d.pos \in Nat /\ d.value \in Objects(t)
  BY DEF Results
<1>4. r \in Results(Held[Fields(t)[k]])
  <2>1. Fields(t)[k].kind \in Nested => Deserializes(Deserialize, Fields(t)[k])
    BY <1>1, BelowType, DeserializeTyped
  <2>2. Fields(t)[k].kind = "sequence" /\ Fields(t)[k].elem.kind \in Nested =>
          Deserializes(Deserialize, Fields(t)[k].elem)
    BY <1>1, BelowType, DeserializeTyped
  <2>. HIDE DEF old
  <2>3. GetMember(Deserialize, data, d.pos, Fields(t)[k], old) \in Results(Held[Fields(t)[k]])
    BY <1>2, <1>3, <2>1, <2>2, GetMemberTyped
  <2>. QED
    BY <2>3 DEF old
<1>5. g = [r EXCEPT !.value = [items |-> new]]
  BY DEF GetField
<1>6. d.value.items \in Seq(ValuesUpTo[MaxDepth]) /\ DOMAIN d.value.items = DOMAIN Fields(t)
  BY <1>3, ObjectFields
<1>7. new[k] = r.value /\ \A j \in DOMAIN Fields(t) : j # k => new[j] = d.value.items[j]
  BY <1>1, <1>6
<1>. HIDE DEF g, new
<1>8. g.error = r.error /\ g.pos = r.pos /\ g.value.items = new
  BY <1>4, <1>5 DEF Results
<1>. QED
  BY <1>7, <1>8 DEF g

(* The first k fields are those of new and the others those of old. *)
UpTo(t, value, new, old, k) ==
  \A j \in DOMAIN Fields(t) : value.items[j] = IF j <= k THEN new.items[j] ELSE old.items[j]

(* The first k fields were read into d, if c, the buffer with them, came. *)
FieldsSoFar(data, c, d, t, new, old, k) ==
  /\ Len(c.bytes) <= Len(data) =>
       d.error = "none" /\ d.pos = Len(c.bytes) /\ UpTo(t, d.value, new, old, k)
  /\ Len(c.bytes) > Len(data) => d.error # "none" /\ Mixed(t, d.value, new, old)

(* What reading one more field makes of it. *)
LEMMA UpToStep ==
  ASSUME NEW t \in Class, NEW k \in 1..FieldsRead(t), NEW x, NEW y, NEW new, NEW old,
         UpTo(t, x, new, old, k - 1),
         \A j \in DOMAIN Fields(t) : j # k => y.items[j] = x.items[j]
  PROVE  /\ Mixed(t, y, new, old)
         /\ y.items[k] = new.items[k] => UpTo(t, y, new, old, k)
<1>1. k \in DOMAIN Fields(t) /\ FieldsRead(t) \in Nat
  BY FieldsAreRead
<1>2. DOMAIN Fields(t) \subseteq Int
  <2>1. Fields(t) \in Seq(Types)
    BY TypeParts DEF Class
  <2>. QED
    BY <2>1
<1>3. \A j \in DOMAIN Fields(t) : j < k => y.items[j] = new.items[j]
  BY <1>1, <1>2 DEF UpTo
<1>4. \A j \in DOMAIN Fields(t) : j > k => y.items[j] = old.items[j]
  BY <1>1, <1>2 DEF UpTo
<1>5. Mixed(t, y, new, old)
  BY <1>1, <1>3, <1>4 DEF Mixed
<1>6. ASSUME y.items[k] = new.items[k], NEW j \in DOMAIN Fields(t)
      PROVE  y.items[j] = IF j <= k THEN new.items[j] ELSE old.items[j]
  <2>1. j < k \/ j = k \/ j > k
    BY <1>1, <1>2
  <2>2. (j < k => j <= k) /\ (j > k => ~(j <= k))
    BY <1>1, <1>2
  <2>. QED
    BY <1>3, <1>4, <1>6, <2>1, <2>2
<1>. QED
  BY <1>5, <1>6 DEF UpTo

(* What was sent of a field has the field's type. *)
LEMMA SentFields ==
  ASSUME NEW t \in Class, NEW o \in Values[t] \ {NULL}, NEW k \in DOMAIN Fields(t)
  PROVE  Fields(t)[k] \in Types /\ o.items[k] \in Values[Fields(t)[k]]
<1>1. o.items \in Seq(ValuesUpTo[MaxDepth])
  BY SentValues DEF Class
<1>2. k \in DOMAIN o.items
  BY <1>1, ObjectValues
<1>. QED
  BY <1>2, SentValues, BelowType DEF Class

(* A field without a class of its own. *)
LEMMA FieldsStep ==
  ASSUME NEW t \in Class, NEW o \in Values[t] \ {NULL}, NEW data \in Seq(Byte),
         NEW old \in Objects(t), NEW k \in 1..FieldsRead(t),
         Fields(t)[k].kind \notin Nested,
         Fields(t)[k].kind = "sequence" => Fields(t)[k].elem.kind \in FlatElements,
         NEW b \in Buffer,
         PutMember(Serialize, b, Fields(t)[k], o.items[k]).error = "none",
         Matches(data, PutMember(Serialize, b, Fields(t)[k], o.items[k]).bytes),
         NEW d \in Results(Objects(t)),
         FieldsSoFar(data, b, d, t, Arrival(Arrives, t, o, old), old, k - 1)
  PROVE  FieldsSoFar(data, PutMember(Serialize, b, Fields(t)[k], o.items[k]),
                     GetField(Deserialize, data, t, old, k, d), t,
                     Arrival(Arrives, t, o, old), old, k)
<1>. DEFINE field == Fields(t)[k]
            v == o.items[k]
            c == PutMember(Serialize, b, field, v)
            g == GetField(Deserialize, data, t, old, k, d)
            new == Arrival(Arrives, t, o, old)
            x == Old(t, old, k)
<1>1. k \in DOMAIN Fields(t) /\ field \in Types /\ v \in Values[field]
  BY FieldsAreRead, SentFields
<1>2. c.error = "none" /\ Matches(data, c.bytes)
  OBVIOUS
<1>3. Extends(b, c)
  BY <1>1, PutMemberExtends
<1>4. /\ Len(b.bytes) \in Nat /\ Len(c.bytes) \in Nat /\ Len(data) \in Nat
      /\ Len(b.bytes) <= Len(c.bytes)
  <2>. HIDE DEF c
  <2>1. Len(b.bytes) \in Nat /\ Len(c.bytes) \in Nat /\ Len(b.bytes) <= Len(c.bytes)
    BY <1>2, <1>3, MatchesBefore
  <2>. QED
    BY <2>1
<1>5. CASE Len(b.bytes) <= Len(data)
  <2>. DEFINE r == GetMember(Deserialize, data, Len(b.bytes), field, x)
  <2>1. d.error = "none" /\ d.pos = Len(b.bytes) /\ UpTo(t, d.value, new, old, k - 1)
    BY <1>5 DEF FieldsSoFar
  <2>2. Comes(r, data, c, Arrival(Arrives, field, v, x))
    <3>. HIDE DEF x
    <3>. QED
      BY <1>1, <1>2, <1>5, MemberComes
  <2>3. r = GetMember(Deserialize, data, d.pos, field, x)
    BY <2>1
  <2>4. new.items[k] = Arrival(Arrives, field, v, x)
    BY ArrivalFields
  <2>. HIDE DEF r
  <2>5. /\ g.error = r.error /\ g.pos = r.pos /\ g.value.items[k] = r.value
        /\ \A j \in DOMAIN Fields(t) : j # k => g.value.items[j] = d.value.items[j]
    BY <2>1, <2>3, GetFieldIs
  <2>. HIDE DEF g, new, c, x
  <2>. DEFINE y == g.value
  <2>6. \A j \in DOMAIN Fields(t) : j # k => y.items[j] = d.value.items[j]
    BY <2>5
  <2>. HIDE DEF y
  <2>7. /\ Mixed(t, y, new, old)
        /\ y.items[k] = new.items[k] => UpTo(t, y, new, old, k)
    BY <2>1, <2>6, UpToStep
  <2>8. CASE Len(c.bytes) <= Len(data)
    <3>1. r.error = "none" /\ r.pos = Len(c.bytes) /\ r.value = new.items[k]
      BY <2>2, <2>4, <2>8 DEF Comes
    <3>2. y.items[k] = new.items[k]
      BY <2>5, <3>1 DEF y
    <3>3. ~(Len(c.bytes) > Len(data))
      BY <1>4, <2>8
    <3>4. FieldsSoFar(data, c, g, t, new, old, k)
      BY <2>5, <2>7, <3>1, <3>2, <3>3 DEF FieldsSoFar, y
    <3>. QED
      BY <3>4 DEF c, g, new, field, v
  <2>9. CASE Len(c.bytes) > Len(data)
    <3>1. r.error # "none"
      BY <2>2, <2>9 DEF Comes
    <3>2. ~(Len(c.bytes) <= Len(data))
      BY <1>4, <2>9
    <3>3. FieldsSoFar(data, c, g, t, new, old, k)
      BY <2>5, <2>7, <3>1, <3>2 DEF FieldsSoFar, y
    <3>. QED
      BY <3>3 DEF c, g, new, field, v
  <2>. QED
    BY <1>4, <2>8, <2>9
<1>6. CASE Len(b.bytes) > Len(data)
  <2>1. d.error # "none" /\ Mixed(t, d.value, new, old)
    BY <1>6 DEF FieldsSoFar
  <2>2. g = d
    BY <2>1 DEF GetField
  <2>. HIDE DEF g, new, c
  <2>3. ~(Len(c.bytes) <= Len(data))
    BY <1>4, <1>6
  <2>4. FieldsSoFar(data, c, g, t, new, old, k)
    BY <2>1, <2>2, <2>3 DEF FieldsSoFar
  <2>. QED
    BY <2>4 DEF c, g, new, field, v
<1>. QED
  BY <1>4, <1>5, <1>6

(* All fields were read into d, if c, the buffer with them, came. *)
FieldsRight(data, c, d, t, new, old, onecase) ==
  /\ Len(c.bytes) <= Len(data) => d.error = "none" /\ UpTo(t, d.value, new, old, FieldsRead(t))
  /\ onecase /\ Len(c.bytes) > Len(data) => d.error # "none"
  /\ d.error # "none" => Mixed(t, d.value, new, old)

(* A nested object, which is the last field. *)
LEMMA FieldsLast ==
  ASSUME NEW t \in Class, NEW o \in Values[t] \ {NULL}, NEW data \in Seq(Byte),
         NEW old \in Objects(t), NEW k \in 1..FieldsRead(t), k = FieldsRead(t),
         Fields(t)[k].kind \in Nested, Decodes(Fields(t)[k]),
         o.items[k] # NULL, Complete[Fields(t)[k]][o.items[k]],
         NEW b \in Buffer,
         PutMember(Serialize, b, Fields(t)[k], o.items[k]).error = "none",
         Matches(data, PutMember(Serialize, b, Fields(t)[k], o.items[k]).bytes),
         NEW d \in Results(Objects(t)),
         FieldsSoFar(data, b, d, t, Arrival(Arrives, t, o, old), old, k - 1)
  PROVE  FieldsRight(data, PutMember(Serialize, b, Fields(t)[k], o.items[k]),
                     GetField(Deserialize, data, t, old, k, d), t,
                     Arrival(Arrives, t, o, old), old, OneCase[Fields(t)[k]][o.items[k]])
<1>. DEFINE field == Fields(t)[k]
            v == o.items[k]
            c == PutMember(Serialize, b, field, v)
            g == GetField(Deserialize, data, t, old, k, d)
            new == Arrival(Arrives, t, o, old)
            x == Old(t, old, k)
            onecase == OneCase[field][v]
<1>1. k \in DOMAIN Fields(t) /\ field \in Class /\ field \in Types /\ v \in Values[field] \ {NULL}
  BY FieldsAreRead, SentFields, BelowType
<1>2. c.error = "none" /\ Matches(data, c.bytes)
  OBVIOUS
<1>3. Extends(b, c)
  BY <1>1, PutMemberExtends
<1>4. /\ Len(b.bytes) \in Nat /\ Len(c.bytes) \in Nat /\ Len(data) \in Nat
      /\ Len(b.bytes) <= Len(c.bytes)
  <2>. HIDE DEF c
  <2>1. Len(b.bytes) \in Nat /\ Len(c.bytes) \in Nat /\ Len(b.bytes) <= Len(c.bytes)
    BY <1>2, <1>3, MatchesBefore
  <2>. QED
    BY <2>1
<1>5. field.kind \notin Scalars \cup {"string", "sequence"}
  BY ScalarWidths DEF Nested
<1>6. x \in Held[field]
  BY <1>1, OldIsHeld
<1>7. CASE Len(b.bytes) <= Len(data)
  <2>. DEFINE r == GetObject(Deserialize, data, Len(b.bytes), field, x)
  <2>1. d.error = "none" /\ d.pos = Len(b.bytes) /\ UpTo(t, d.value, new, old, k - 1)
    BY <1>7 DEF FieldsSoFar
  <2>2. c = PutObject(Serialize, b, field, v)
    BY <1>5 DEF PutMember
  <2>3. ObjectComes(r, data, c, field, v, x)
    <3>. HIDE DEF x, field, v, c
    <3>1. Decodes(field) /\ Complete[field][v]
      BY DEF field, v
    <3>2. ObjectComes(r, data, PutObject(Serialize, b, field, v), field, v, x)
      BY <1>1, <1>2, <1>6, <1>7, <2>2, <3>1, NestedComes
    <3>. QED
      BY <2>2, <3>2
  <2>4. r = GetMember(Deserialize, data, d.pos, field, x)
    BY <1>5, <2>1 DEF GetMember
  <2>5. new.items[k] = Arrival(Arrives, field, v, x)
    <3>1. \A i \in 1..FieldsRead(t) :
            new.items[i] = Arrival(Arrives, Fields(t)[i], o.items[i], Old(t, old, i))
      BY ArrivalFields
    <3>. HIDE DEF new
    <3>. QED
      BY <3>1
  <2>. HIDE DEF r
  <2>6. /\ g.error = r.error /\ g.value.items[k] = r.value
        /\ \A j \in DOMAIN Fields(t) : j # k => g.value.items[j] = d.value.items[j]
    BY <2>1, <2>4, GetFieldIs
  <2>. HIDE DEF g, new, c, x, onecase
  <2>. DEFINE y == g.value
  <2>7. \A j \in DOMAIN Fields(t) : j # k => y.items[j] = d.value.items[j]
    BY <2>6
  <2>. HIDE DEF y
  <2>8. /\ Mixed(t, y, new, old)
        /\ y.items[k] = new.items[k] => UpTo(t, y, new, old, k)
    BY <2>1, <2>7, UpToStep
  <2>9. Len(c.bytes) <= Len(data) => g.error = "none" /\ UpTo(t, g.value, new, old, FieldsRead(t))
    <3>1. SUFFICES ASSUME Len(c.bytes) <= Len(data)
                   PROVE  g.error = "none" /\ UpTo(t, g.value, new, old, FieldsRead(t))
      OBVIOUS
    <3>2. r.error = "none" /\ r.value = new.items[k]
      BY <2>3, <2>5, <3>1 DEF ObjectComes
    <3>3. y.items[k] = new.items[k]
      BY <2>6, <3>2 DEF y
    <3>. QED
      BY <2>6, <2>8, <3>2, <3>3 DEF y
  <2>10. onecase /\ Len(c.bytes) > Len(data) => g.error # "none"
    BY <2>3, <2>6 DEF ObjectComes, onecase
  <2>11. FieldsRight(data, c, g, t, new, old, onecase)
    BY <2>8, <2>9, <2>10 DEF FieldsRight, y
  <2>. QED
    BY <2>11 DEF c, g, new, onecase, field, v
<1>8. CASE Len(b.bytes) > Len(data)
  <2>1. d.error # "none" /\ Mixed(t, d.value, new, old)
    BY <1>8 DEF FieldsSoFar
  <2>2. g = d
    BY <2>1 DEF GetField
  <2>. HIDE DEF g, new, c, onecase
  <2>3. ~(Len(c.bytes) <= Len(data))
    BY <1>4, <1>8
  <2>4. FieldsRight(data, c, g, t, new, old, onecase)
    BY <2>1, <2>2, <2>3 DEF FieldsRight
  <2>. QED
    BY <2>4 DEF c, g, new, onecase, field, v
<1>. QED
  BY <1>4, <1>7, <1>8

(* An object whose every field is the new one. *)
LEMMA AllUpTo ==
  ASSUME NEW t \in Class, NEW o \in Values[t] \ {NULL}, NEW old \in Objects(t),
         NEW value \in Objects(t),
         UpTo(t, value, Arrival(Arrives, t, o, old), old, FieldsRead(t))
  PROVE  value = Arrival(Arrives, t, o, old)
<1>. DEFINE new == Arrival(Arrives, t, o, old)
<1>1. /\ new = [items |-> new.items] /\ new.items = [k \in DOMAIN Fields(t) |-> new.items[k]]
      /\ \A k \in DOMAIN Fields(t) : k > FieldsRead(t) => new.items[k] = old.items[k]
  BY ArrivalFields
<1>. HIDE DEF new
<1>2. FieldsRead(t) \in Nat /\ DOMAIN Fields(t) \subseteq Int
  <2>1. Fields(t) \in Seq(Types)
    BY TypeParts DEF Class
  <2>. QED
    BY <2>1, FieldsAreRead
<1>3. \A k \in DOMAIN Fields(t) : value.items[k] = new.items[k]
  <2>1. \A k \in DOMAIN Fields(t) : ~(k <= FieldsRead(t)) => k > FieldsRead(t)
    BY <1>2
  <2>. QED
    BY <1>1, <2>1 DEF UpTo, new
<1>4. value = [items |-> value.items] /\ value.items = [k \in DOMAIN Fields(t) |-> value.items[k]]
  <2>1. value.items \in Seq(ValuesUpTo[MaxDepth]) /\ DOMAIN value.items = DOMAIN Fields(t)
    BY ObjectFields
  <2>2. value = [items |-> value.items]
    BY ObjectFields
  <2>. QED
    BY <2>1, <2>2
<1>5. value.items = new.items
  BY <1>1, <1>3, <1>4
<1>6. value = new
  BY <1>1, <1>4, <1>5
<1>. QED
  BY <1>6 DEF new

(* Of a union with one case set nothing is written after the first. *)
LEMMA OneCaseEnds ==
  ASSUME NEW t \in Class, Agrees[t], NEW o \in Values[t] \ {NULL}, OneCase[t][o]
  PROVE  PutMembersAt(Serialize, t, o)[FieldsRead(t)] = Serialize[t][o]
<1>. DEFINE put == PutMembersAt(Serialize, t, o)
            n == Len(Fields(t))
<1>1. Fields(t) \in Seq(Types) /\ n \in Nat /\ DOMAIN Fields(t) = 1..n
  BY TypeParts DEF Class
<1>2. Serialize[t][o] = put[n]
  BY PutMembersSteps
<1>3. CASE t.kind # "union"
  BY <1>2, <1>3 DEF FieldsRead
<1>4. CASE t.kind = "union"
  <2>. DEFINE Same == {k \in 0..n : k >= 2 => put[k] = put[2]}
  <2>1. OneCaseIf(OneCase, t, o)
    BY OneCaseDef
  <2>2. DOMAIN o.items = 1..n
    <3>1. o.items \in Seq(ValuesUpTo[MaxDepth])
      BY SentValues DEF Class
    <3>. QED
      BY <1>1, <3>1, ObjectValues
  <2>3. ASSUME NEW k \in 1..n, k > 2
        PROVE  put[k] = put[k-1]
    <3>1. Fields(t)[k].kind \in Nested
      BY <1>1, <1>4, <2>3, UnionFields
    <3>2. o.items[k] = NULL
      BY <1>4, <2>1, <2>2, <2>3, <3>1 DEF OneCaseIf
    <3>3. put[k] = PutMember(Serialize, put[k-1], Fields(t)[k], o.items[k])
      BY <1>1, PutMembersSteps
    <3>4. Fields(t)[k].kind \notin Scalars \cup {"string", "sequence"}
      BY <3>1, ScalarWidths DEF Nested
    <3>. HIDE DEF put
    <3>5. PutMember(Serialize, put[k-1], Fields(t)[k], o.items[k])
            = PutObject(Serialize, put[k-1], Fields(t)[k], o.items[k])
      BY <3>1, <3>4 DEF PutMember
    <3>6. PutObject(Serialize, put[k-1], Fields(t)[k], o.items[k]) = put[k-1]
      BY <3>2 DEF PutObject
    <3>. QED
      BY <3>3, <3>5, <3>6
  <2>. HIDE DEF put
  <2>4. 0 \in Same
    BY <1>1
  <2>5. ASSUME NEW k \in 1..n, k - 1 \in Same
        PROVE  k \in Same
    <3>1. k >= 2 => k = 2 \/ (k > 2 /\ k - 1 >= 2)
      BY <1>1
    <3>. QED
      BY <2>3, <2>5, <3>1
  <2>6. 0..n \subseteq Same
    <3>. HIDE DEF Same, n
    <3>. QED
      BY <1>1, <2>4, <2>5, StepInduction
  <2>7. n \in 0..n /\ n >= 2 /\ FieldsRead(t) = 2
    BY <1>1, <1>4, UnionFields
  <2>. QED
    BY <1>2, <2>6, <2>7 DEF put
<1>. QED
  BY <1>3, <1>4

(* An object whose nested objects are read as they were put. *)
LEMMA DecodedOne ==
  ASSUME NEW t \in Class, Framed[t], Agrees[t],
         \A p \in Class : Depth[p] < Depth[t] /\ Framed[p] /\ Agrees[p] => Decodes(p),
         NEW o \in Values[t] \ {NULL}, NEW data \in Seq(Byte), NEW old \in Objects(t),
         Complete[t][o], Serialize[t][o].error = "none", Matches(data, Serialize[t][o].bytes)
  PROVE  Decoded(t, o, data, old, Deserialize[t][data][old])
<1>. DEFINE n == FieldsRead(t)
            put == PutMembersAt(Serialize, t, o)
            got == GetMembersAt(Deserialize, data, t, old)
            new == Arrival(Arrives, t, o, old)
            all == Serialize[t][o]
            r == Deserialize[t][data][old]
            Flat(k) == Fields(t)[k].kind \notin Nested
            Good == {k \in 0..n : (\A j \in 1..k : Flat(j)) =>
                                     FieldsSoFar(data, put[k], got[k], t, new, old, k)}
<1>1. n \in Nat /\ Len(Fields(t)) \in Nat /\ \A k \in 1..n : k \in DOMAIN Fields(t)
  <2>1. Fields(t) \in Seq(Types)
    BY TypeParts DEF Class
  <2>. QED
    BY <2>1, FieldsAreRead
<1>2. \A k \in 0..n : k \in 0..Len(Fields(t))
  <2>1. Fields(t) \in Seq(Types)
    BY TypeParts DEF Class
  <2>2. n <= Len(Fields(t))
    <3>1. n = 0 \/ n \in 1..n
      BY <1>1
    <3>2. DOMAIN Fields(t) = 1..Len(Fields(t))
      BY <2>1
    <3>. QED
      BY <1>1, <3>1, <3>2
  <2>. QED
    BY <1>1, <2>2
<1>3. \A k \in 1..n :
        /\ Fields(t)[k].kind \in Nested => k = n /\ Framed[Fields(t)[k]]
        /\ Fields(t)[k].kind = "sequence" => Fields(t)[k].elem.kind \in FlatElements
  BY FramedDef DEF FramedIf, FlatElements
<1>4. all.error = "none" /\ Matches(data, all.bytes)
  OBVIOUS
<1>5. \A k \in 0..n : put[k] \in Buffer /\ Extends(put[k], all)
  BY <1>2, PutMembersSteps
<1>6. /\ put[0] = Empty
      /\ \A k \in 1..n : put[k] = PutMember(Serialize, put[k-1], Fields(t)[k], o.items[k])
  BY <1>1, PutMembersSteps
<1>7. /\ got[0] = Read(0, old) /\ r = got[n]
      /\ \A k \in 1..n : got[k] = GetField(Deserialize, data, t, old, k, got[k-1])
      /\ \A k \in 0..n : got[k] \in Results(Objects(t))
  BY GetMembersSteps
<1>. HIDE DEF put, got, all, r
<1>8. \A k \in 0..n : put[k].error = "none" /\ Matches(data, put[k].bytes)
  BY <1>4, <1>5, MatchesBefore
<1>9. 0 \in Good
  <2>1. put[0].bytes = <<>> /\ Len(put[0].bytes) = 0
    BY <1>6 DEF Empty
  <2>2. ~(Len(put[0].bytes) > Len(data)) /\ Len(data) \in Nat
    BY <2>1
  <2>3. got[0].error = "none" /\ got[0].pos = 0 /\ got[0].value = old
    BY <1>7 DEF Read
  <2>4. UpTo(t, old, new, old, 0)
    <3>1. Fields(t) \in Seq(Types)
      BY TypeParts DEF Class
    <3>2. \A j \in DOMAIN Fields(t) : ~(j <= 0)
      BY <3>1
    <3>. HIDE DEF new
    <3>. QED
      BY <3>2 DEF UpTo
  <2>. HIDE DEF new
  <2>5. FieldsSoFar(data, put[0], got[0], t, new, old, 0)
    BY <2>1, <2>2, <2>3, <2>4 DEF FieldsSoFar
  <2>. QED
    BY <1>1, <2>5
<1>10. ASSUME NEW k \in 1..n, k - 1 \in Good
       PROVE  k \in Good
  <2>1. k - 1 \in 0..n /\ k \in 0..n /\ k \in 1..k /\ \A j \in 1..(k - 1) : j \in 1..k
    BY <1>1
  <2>2. SUFFICES ASSUME \A j \in 1..k : Flat(j)
                 PROVE  FieldsSoFar(data, put[k], got[k], t, new, old, k)
    BY <2>1
  <2>3. FieldsSoFar(data, put[k-1], got[k-1], t, new, old, k - 1)
    BY <1>10, <2>1, <2>2
  <2>4. Fields(t)[k].kind \notin Nested
    BY <2>1, <2>2
  <2>5. put[k-1] \in Buffer /\ got[k-1] \in Results(Objects(t))
    BY <1>5, <1>7, <2>1
  <2>. DEFINE b == put[k-1]
              d == got[k-1]
              c == PutMember(Serialize, b, Fields(t)[k], o.items[k])
  <2>6. c.error = "none" /\ Matches(data, c.bytes)
    BY <1>6, <1>8, <2>1
  <2>7. b \in Buffer /\ d \in Results(Objects(t)) /\ FieldsSoFar(data, b, d, t, new, old, k - 1)
    BY <2>3, <2>5
  <2>8. put[k] = c /\ got[k] = GetField(Deserialize, data, t, old, k, d)
    BY <1>6, <1>7
  <2>9. Fields(t)[k].kind = "sequence" => Fields(t)[k].elem.kind \in FlatElements
    BY <1>3
  <2>. HIDE DEF b, d, n
  <2>10. k \in 1..FieldsRead(t)
    BY DEF n
  <2>11. FieldsSoFar(data, c, GetField(Deserialize, data, t, old, k, d), t, new, old, k)
    BY <2>4, <2>6, <2>7, <2>9, <2>10, FieldsStep
  <2>. QED
    BY <2>8, <2>11
<1>11. 0..n \subseteq Good
  <2>. HIDE DEF Good, n
  <2>. QED
    BY <1>1, <1>9, <1>10, StepInduction
<1>12. FieldsRight(data, put[n], r, t, new, old, OneCase[t][o])
  <2>1. n \in 0..n
    BY <1>1
  <2>2. CASE \A j \in 1..n : Flat(j)
    <3>1. FieldsSoFar(data, put[n], got[n], t, new, old, n)
      BY <1>11, <2>1, <2>2
    <3>2. put[n].bytes \in Seq(Byte)
      BY <1>5, <2>1, BufferIs
    <3>3. Len(put[n].bytes) <= Len(data) \/ Len(put[n].bytes) > Len(data)
      BY <3>2
    <3>. HIDE DEF new
    <3>. QED
      BY <1>7, <3>1, <3>3 DEF FieldsSoFar, FieldsRight
  <2>3. CASE \E j \in 1..n : ~Flat(j)
    <3>1. n \in 1..n /\ Fields(t)[n].kind \in Nested /\ Framed[Fields(t)[n]]
      BY <1>3, <2>3
    <3>2. n - 1 \in 0..n /\ \A j \in 1..(n - 1) : j \in 1..n /\ j # n
      BY <1>1, <3>1
    <3>3. FieldsSoFar(data, put[n-1], got[n-1], t, new, old, n - 1)
      BY <1>3, <1>11, <3>2
    <3>. DEFINE k == n
                field == Fields(t)[k]
                v == o.items[k]
                b == put[k-1]
                d == got[k-1]
                c == PutMember(Serialize, b, field, v)
    <3>4. field \in Types /\ Depth[field] < Depth[t] /\ field \in Class /\ k \in DOMAIN Fields(t)
      BY <1>1, <3>1, BelowType
    <3>5. Decodes(field)
      <4>1. AgreesIf(Agrees, t)
        BY AgreesDef DEF Class
      <4>2. field \in Parts(t)
        BY <3>4, TypeParts DEF Class
      <4>3. Agrees[field]
        BY <4>1, <4>2 DEF AgreesIf
      <4>. QED
        BY <3>1, <3>4, <4>3
    <3>6. k \in DOMAIN o.items
      <4>1. o.items \in Seq(ValuesUpTo[MaxDepth])
        BY SentValues DEF Class
      <4>. QED
        BY <3>4, <4>1, ObjectValues
    <3>7. t.kind = "union" => k = 2
      BY DEF FieldsRead
    <3>8. v # NULL /\ Complete[field][v]
      <4>1. CompleteIf(Complete, t, o)
        BY CompleteDef
      <4>. QED
        BY <3>1, <3>6, <3>7, <4>1 DEF CompleteIf
    <3>9. OneCase[t][o] => OneCase[field][v]
      <4>1. OneCase[t][o] => OneCaseIf(OneCase, t, o)
        BY OneCaseDef
      <4>. QED
        BY <3>1, <3>6, <3>8, <4>1 DEF OneCaseIf
    <3>10. put[k] = c /\ got[k] = GetField(Deserialize, data, t, old, k, d)
      BY <1>6, <1>7, <3>1
    <3>11. c.error = "none" /\ Matches(data, c.bytes)
      BY <1>8, <2>1, <3>10
    <3>12. b \in Buffer /\ d \in Results(Objects(t)) /\ FieldsSoFar(data, b, d, t, new, old, k - 1)
      BY <1>5, <1>7, <3>2, <3>3
    <3>13. k \in 1..FieldsRead(t) /\ k = FieldsRead(t) /\ Fields(t)[k].kind \in Nested
           /\ Decodes(Fields(t)[k]) /\ o.items[k] # NULL /\ Complete[Fields(t)[k]][o.items[k]]
      BY <3>1, <3>5, <3>8
    <3>14. PutMember(Serialize, b, Fields(t)[k], o.items[k]).error = "none"
           /\ Matches(data, PutMember(Serialize, b, Fields(t)[k], o.items[k]).bytes)
      BY <3>11
    <3>15. put[n] = c /\ r = GetField(Deserialize, data, t, old, k, d)
      BY <1>7, <3>10
    <3>. HIDE DEF k, n, b, d
    <3>16. FieldsRight(data, c, GetField(Deserialize, data, t, old, k, d), t, new, old,
                       OneCase[Fields(t)[k]][o.items[k]])
      BY <3>12, <3>13, <3>14, FieldsLast
    <3>. HIDE DEF new, c, field, v
    <3>17. FieldsRight(data, put[n], r, t, new, old, OneCase[field][v])
      BY <3>15, <3>16 DEF field, v
    <3>. QED
      BY <3>9, <3>17 DEF FieldsRight
  <2>. QED
    BY <2>2, <2>3
<1>13. n \in 0..n
  BY <1>1
<1>14. Len(put[n].bytes) \in Nat /\ Len(all.bytes) \in Nat /\ Len(put[n].bytes) <= Len(all.bytes)
  BY <1>4, <1>5, <1>13, MatchesBefore
<1>15. OneCase[t][o] => put[n] = all
  BY OneCaseEnds DEF put, all
<1>16. r.value \in Objects(t)
  BY <1>7, <1>13 DEF Results
<1>17. UpTo(t, r.value, new, old, n) => r.value = new
  <2>. HIDE DEF r
  <2>. QED
    BY <1>16, AllUpTo
<1>. HIDE DEF n, new
<1>18. Len(all.bytes) <= Len(data) => r.error = "none" /\ r.value = new
  <2>1. Len(all.bytes) <= Len(data) => Len(put[n].bytes) <= Len(data)
    BY <1>14
  <2>. QED
    BY <1>12, <1>17, <2>1 DEF FieldsRight, n
<1>19. OneCase[t][o] /\ Len(all.bytes) > Len(data) => r.error # "none"
  BY <1>12, <1>15 DEF FieldsRight
<1>20. r.error # "none" => Mixed(t, r.value, new, old)
  BY <1>12 DEF FieldsRight
<1>. QED
  BY <1>18, <1>19, <1>20 DEF Decoded, all, r, new

(* A message is read as it was put, whatever the receiver had. *)
LEMMA AllDecode ==
  ASSUME NEW t \in Class, Framed[t], Agrees[t]
  PROVE  Decodes(t)
<1>. DEFINE Right == {s \in Types : s \in Class /\ Framed[s] /\ Agrees[s] => Decodes(s)}
<1>1. ASSUME NEW s \in Types, \A p \in Types : Depth[p] < Depth[s] => p \in Right
      PROVE  s \in Right
  <2>1. SUFFICES ASSUME s \in Class, Framed[s], Agrees[s]
                 PROVE  Decodes(s)
    OBVIOUS
  <2>2. \A p \in Class : Depth[p] < Depth[s] /\ Framed[p] /\ Agrees[p] => Decodes(p)
    BY <1>1 DEF Class
  <2>3. ASSUME NEW o \in Values[s] \ {NULL}, NEW data \in Seq(Byte), NEW old \in Objects(s),
               Complete[s][o], Serialize[s][o].error = "none",
               Matches(data, Serialize[s][o].bytes)
        PROVE  Decoded(s, o, data, old, Deserialize[s][data][old])
    BY <2>1, <2>2, <2>3, DecodedOne
  <2>. QED
    BY <2>3 DEF Decodes
<1>2. Types \subseteq Right
  <2>. HIDE DEF Right
  <2>. QED
    BY <1>1, TypeInduction
<1>. QED
  BY <1>2 DEF Class

-----------------------------------------------------------------------------
(* The specification. *)

(* Something was sent before it can arrive. *)
SentSomething == pc \in {"sent", "refused", "received"} => sent # NULL

(* The inductive invariant: RefusesExactly relies on sent being an object. *)
IInv == TypeOK /\ SentSomething /\ RefusesExactly

LEMMA ClassIs ==
  ASSUME class \in Classes
  PROVE  class \in Class /\ class \in Types
BY ClassesAssumption DEF Class

(* What serialize() of an object the program sends returns or throws. *)
LEMMA SerializeIs ==
  ASSUME NEW t \in Class, NEW o \in Values[t] \ {NULL}
  PROVE  /\ Serialize[t][o].bytes \in Seq(Byte) /\ Len(Serialize[t][o].bytes) <= Capacity
         /\ Serialize[t][o].error \in Errors
         /\ Serialize[t][o].error = "none" =>
              SizeOf[t][o] = Len(Serialize[t][o].bytes) /\ ~NullAsked[t][o]
         /\ Serialize[t][o].error # "none" => SizeOf[t][o] > Capacity \/ NullAsked[t][o]
<1>. DEFINE b == Serialize[t][o]
            n == SizeOf[t][o]
            asked == NullAsked[t][o]
<1>1. n \in Nat
  BY SizeIsNat DEF Class
<1>2. Adds(Empty, b, n, asked)
  BY SerializeAdds
<1>. HIDE DEF b, n, asked
<1>3. b \in Buffer /\ Empty.error = "none" /\ Len(Empty.bytes) = 0
  BY <1>2 DEF Adds, Empty
<1>4. b.bytes \in Seq(Byte) /\ Len(b.bytes) \in 0..Capacity /\ b.error \in Errors
  BY <1>3, BufferIs
<1>5. b.error = "none" => ~asked /\ Len(b.bytes) = 0 + n
  BY <1>2, <1>3 DEF Adds
<1>6. b.error # "none" => asked \/ 0 + n > Capacity
  BY <1>2, <1>3 DEF Adds
<1>7. Len(b.bytes) <= Capacity
  BY <1>4, CapacityAssumption
<1>8. 0 + n = n
  BY <1>1
<1>. QED
  BY <1>4, <1>5, <1>6, <1>7, <1>8 DEF b, n, asked

LEMMA InitInv ==
  ASSUME Init
  PROVE  IInv
<1>1. class \in Classes /\ class \in Class /\ class \in Types
  BY ClassIs DEF Init
<1>2. receiver \in Held[class] \ {NULL} /\ before \in Held[class] \ {NULL}
  BY <1>1, FreshIsHeld, ObjectIsHeld DEF Init
<1>3. sent \in Values[class]
  BY <1>1, ValuesAssumption DEF Init
<1>4. wire \in Seq(Byte) /\ Len(wire) = 0 /\ cut = 0
  BY DEF Init
<1>5. Len(wire) <= Capacity /\ cut \in 0..Len(wire)
  BY <1>4, CapacityAssumption
<1>6. thrown \in Errors /\ messages \in 0..MaxMessages
  BY MaxMessagesAssumption DEF Init, Errors
<1>7. pc = "new"
  BY DEF Init
<1>8. TypeOK
  BY <1>1, <1>2, <1>3, <1>4, <1>5, <1>6, <1>7 DEF TypeOK
<1>. QED
  BY <1>7, <1>8 DEF IInv, SentSomething, RefusesExactly

LEMMA CompileInv ==
  ASSUME IInv, Compile
  PROVE  IInv'
<1>1. TypeOK'
  BY DEF IInv, TypeOK, Compile
<1>2. pc' \notin {"sent", "refused", "received"}
  BY DEF Compile
<1>. QED
  BY <1>1, <1>2 DEF IInv, SentSomething, RefusesExactly

LEMMA SendInv ==
  ASSUME IInv, Send
  PROVE  IInv'
<1>1. PICK o \in Values[class] \ {NULL} :
        /\ sent' = o
        /\ thrown' = Serialize[class][o].error
        /\ wire' = IF Serialize[class][o].error = "none" THEN Serialize[class][o].bytes ELSE <<>>
        /\ pc' = IF Serialize[class][o].error = "none" THEN "sent" ELSE "refused"
  BY DEF Send
<1>2. class' = class /\ receiver' = receiver /\ before' = before /\ cut' = 0
      /\ messages < MaxMessages /\ messages' = messages + 1
  BY DEF Send
<1>3. class \in Class /\ class \in Classes
  BY ClassIs DEF IInv, TypeOK
<1>. DEFINE b == Serialize[class][o]
<1>4. /\ b.bytes \in Seq(Byte) /\ Len(b.bytes) <= Capacity /\ b.error \in Errors
      /\ b.error = "none" => SizeOf[class][o] = Len(b.bytes) /\ ~NullAsked[class][o]
      /\ b.error # "none" => SizeOf[class][o] > Capacity \/ NullAsked[class][o]
  BY <1>3, SerializeIs
<1>. HIDE DEF b
<1>5. /\ thrown' = b.error
      /\ wire' = IF b.error = "none" THEN b.bytes ELSE <<>>
      /\ pc' = IF b.error = "none" THEN "sent" ELSE "refused"
  BY <1>1 DEF b
<1>6. wire' \in Seq(Byte) /\ Len(wire') <= Capacity /\ cut' \in 0..Len(wire')
  <2>1. wire' \in Seq(Byte) /\ Len(wire') <= Capacity
    BY <1>4, <1>5, CapacityAssumption
  <2>2. Len(wire') \in Nat
    BY <2>1
  <2>. QED
    BY <1>2, <2>1, <2>2
<1>7. messages' \in 0..MaxMessages
  BY <1>2, MaxMessagesAssumption DEF IInv, TypeOK
<1>8. TypeOK'
  <2>1. sent' \in Values[class'] /\ thrown' \in Errors
    BY <1>1, <1>2, <1>4, <1>5
  <2>2. pc' \in {"sent", "refused"}
    BY <1>5
  <2>3. receiver' \in Held[class'] \ {NULL} /\ before' \in Held[class'] \ {NULL}
    BY <1>2 DEF IInv, TypeOK
  <2>4. class' \in Classes
    BY <1>2, <1>3
  <2>. QED
    BY <1>6, <1>7, <2>1, <2>2, <2>3, <2>4 DEF TypeOK
<1>9. SentSomething'
  BY <1>1 DEF SentSomething
<1>10. RefusesExactly'
  <2>1. CASE b.error = "none"
    <3>1. pc' = "sent" /\ wire' = b.bytes /\ class' = class /\ sent' = o
      BY <1>1, <1>2, <1>5, <2>1
    <3>. QED
      BY <1>4, <2>1, <3>1 DEF RefusesExactly
  <2>2. CASE b.error # "none"
    <3>1. pc' = "refused" /\ class' = class /\ sent' = o
      BY <1>1, <1>2, <1>5, <2>2
    <3>. QED
      BY <1>4, <2>2, <3>1 DEF RefusesExactly
  <2>. QED
    BY <2>1, <2>2
<1>. QED
  BY <1>8, <1>9, <1>10 DEF IInv

LEMMA ReceiveInv ==
  ASSUME IInv, Receive
  PROVE  IInv'
<1>1. /\ pc = "sent" /\ pc' = "received" /\ cut' \in 0..Len(wire)
      /\ class' = class /\ sent' = sent /\ wire' = wire /\ messages' = messages
      /\ before' = receiver
      /\ receiver' = Deserialize[class][SubSeq(wire, 1, Len(wire) - cut')][receiver].value
      /\ thrown' = Deserialize[class][SubSeq(wire, 1, Len(wire) - cut')][receiver].error
  BY DEF Receive, Deliver
<1>2. class \in Class /\ receiver \in Objects(class) /\ wire \in Seq(Byte)
  BY ClassIs, ObjectIsHeld DEF IInv, TypeOK
<1>. DEFINE data == SubSeq(wire, 1, Len(wire) - cut')
            d == Deserialize[class][data][receiver]
<1>3. data \in Seq(Byte)
  <2>1. Len(wire) - cut' \in Int /\ \A i \in 1..(Len(wire) - cut') : i \in 1..Len(wire)
    BY <1>1, <1>2
  <2>2. \A i \in 1..(Len(wire) - cut') : wire[i] \in Byte
    BY <1>2, <2>1
  <2>. QED
    BY <2>1, <2>2, SubSeqProperties
<1>. HIDE DEF data
<1>4. d \in Results(Objects(class))
  BY <1>2, <1>3, DeserializeTyped DEF Deserializes
<1>5. receiver' = d.value /\ thrown' = d.error
  BY <1>1 DEF data
<1>. HIDE DEF d
<1>6. receiver' \in Held[class] \ {NULL} /\ thrown' \in Errors
  BY <1>2, <1>4, <1>5, ObjectIsHeld DEF Results
<1>7. TypeOK'
  BY <1>1, <1>6 DEF IInv, TypeOK
<1>8. SentSomething' /\ RefusesExactly'
  BY <1>1 DEF IInv, SentSomething, RefusesExactly
<1>. QED
  BY <1>7, <1>8 DEF IInv

LEMMA ReceiveIntoSentInv ==
  ASSUME IInv, ReceiveIntoSent
  PROVE  IInv'
<1>1. /\ pc \in {"sent", "refused"} /\ receiver' = sent /\ pc' = "idle"
      /\ UNCHANGED <<class, sent, wire, thrown, cut, before, messages>>
  BY DEF ReceiveIntoSent
<1>2. sent \in Held[class] \ {NULL}
  BY <1>1, ClassIs, SentIsHeld DEF IInv, TypeOK, SentSomething
<1>3. TypeOK'
  BY <1>1, <1>2 DEF IInv, TypeOK
<1>4. SentSomething' /\ RefusesExactly'
  BY <1>1 DEF SentSomething, RefusesExactly
<1>. QED
  BY <1>3, <1>4 DEF IInv

LEMMA NextInv ==
  ASSUME IInv, [Next]_vars
  PROVE  IInv'
<1>1. CASE Compile
  BY <1>1, CompileInv
<1>2. CASE Send
  BY <1>2, SendInv
<1>3. CASE Receive
  BY <1>3, ReceiveInv
<1>4. CASE ReceiveIntoSent
  BY <1>4, ReceiveIntoSentInv
<1>5. CASE UNCHANGED vars
  BY <1>5 DEF vars, IInv, TypeOK, SentSomething, RefusesExactly
<1>. QED
  BY <1>1, <1>2, <1>3, <1>4, <1>5 DEF Next

THEOREM CdrInvariant == Spec => []IInv
<1>1. Init => IInv
  BY InitInv
<1>2. IInv /\ [Next]_vars => IInv'
  BY NextInv
<1>. QED
  BY <1>1, <1>2, PTL DEF Spec

(* TypeOK: every variable keeps its type; above all, whatever bytes arrive
   and however much is missing, deserialize() of any struct or union leaves
   an object whose every field has its declared type
   (src/src/java_record.c:277-462 and 795-815). *)
THEOREM CdrTypeOK == Spec => []TypeOK
BY CdrInvariant, PTL DEF IInv

(* RefusesExactly: serialize() of any struct or union, however deep, throws
   exactly for the objects that need more than the buffer has or have a
   null number in a list; what it returns has the bytes of that size
   (src/src/java_record.c:131-276 and 777-794). *)
THEOREM CdrRefusesExactly == Spec => []RefusesExactly
BY CdrInvariant, PTL DEF IInv

-----------------------------------------------------------------------------
(* What was sent and what arrived. *)

(* Only a class that the compiler took is run. *)
Compiled == pc \notin {"new", "rejected"} => Agrees[class]

(* The wire has what serialize() of the object made. *)
OnTheWire ==
  pc \in {"sent", "received"} =>
    wire = Serialize[class][sent].bytes /\ Serialize[class][sent].error = "none"

Arrived == Deserialize[class][SubSeq(wire, 1, Len(wire) - cut)][before]

(* The receiver has what deserialize() made of the part that arrived. *)
WhatArrived == pc = "received" => receiver = Arrived.value /\ thrown = Arrived.error

Message == Compiled /\ OnTheWire /\ WhatArrived

LEMMA NextMessage ==
  ASSUME IInv, Message, [Next]_vars
  PROVE  Message'
<1>1. CASE Compile
  <2>1. class' = class /\ pc' = IF Agrees[class] THEN "idle" ELSE "rejected"
    BY <1>1 DEF Compile
  <2>2. Compiled'
    BY <2>1 DEF Compiled
  <2>3. pc' \notin {"sent", "received"}
    BY <2>1
  <2>. QED
    BY <2>2, <2>3 DEF Message, OnTheWire, WhatArrived
<1>2. CASE Send
  <2>1. PICK o \in Values[class] \ {NULL} :
          /\ sent' = o
          /\ wire' = IF Serialize[class][o].error = "none" THEN Serialize[class][o].bytes ELSE <<>>
          /\ pc' = IF Serialize[class][o].error = "none" THEN "sent" ELSE "refused"
    BY <1>2 DEF Send
  <2>2. class' = class /\ pc \in {"idle", "refused", "received"}
    BY <1>2 DEF Send
  <2>3. Compiled'
    BY <2>2 DEF Message, Compiled
  <2>4. OnTheWire'
    <3>. DEFINE b == Serialize[class][o]
    <3>1. CASE b.error = "none"
      <4>1. wire' = b.bytes
        BY <2>1, <3>1
      <4>. QED
        BY <2>1, <2>2, <3>1, <4>1 DEF OnTheWire
    <3>2. CASE b.error # "none"
      <4>1. pc' = "refused"
        BY <2>1, <3>2
      <4>. QED
        BY <4>1 DEF OnTheWire
    <3>. QED
      BY <3>1, <3>2
  <2>5. pc' # "received"
    BY <2>1
  <2>. QED
    BY <2>3, <2>4, <2>5 DEF Message, WhatArrived
<1>3. CASE Receive
  <2>1. /\ pc = "sent" /\ pc' = "received"
        /\ class' = class /\ sent' = sent /\ wire' = wire /\ before' = receiver
        /\ receiver' = Deserialize[class][SubSeq(wire, 1, Len(wire) - cut')][receiver].value
        /\ thrown' = Deserialize[class][SubSeq(wire, 1, Len(wire) - cut')][receiver].error
    BY <1>3 DEF Receive, Deliver
  <2>2. Compiled' /\ OnTheWire'
    BY <2>1 DEF Message, Compiled, OnTheWire
  <2>3. WhatArrived'
    BY <2>1 DEF WhatArrived, Arrived
  <2>. QED
    BY <2>2, <2>3 DEF Message
<1>4. CASE ReceiveIntoSent
  <2>1. pc \in {"sent", "refused"} /\ pc' = "idle" /\ class' = class
    BY <1>4 DEF ReceiveIntoSent
  <2>. QED
    BY <2>1 DEF Message, Compiled, OnTheWire, WhatArrived
<1>5. CASE UNCHANGED vars
  <2>1. UNCHANGED <<class, pc, sent, wire, thrown, cut, receiver, before>>
    BY <1>5 DEF vars
  <2>2. Compiled' /\ OnTheWire'
    BY <2>1 DEF Message, Compiled, OnTheWire
  <2>3. WhatArrived'
    BY <2>1 DEF Message, WhatArrived, Arrived
  <2>. QED
    BY <2>2, <2>3 DEF Message
<1>. QED
  BY <1>1, <1>2, <1>3, <1>4, <1>5 DEF Next

(* What a receiver has of a message that can be read. *)
LEMMA ReceivedDecodes ==
  ASSUME IInv, Message, pc = "received", Sound
  PROVE  /\ class \in Class /\ sent \in Values[class] \ {NULL}
         /\ receiver \in Objects(class) /\ before \in Objects(class)
         /\ Expected = Arrival(Arrives, class, sent, before)
         /\ cut = 0 => thrown = "none" /\ receiver = Expected
         /\ cut > 0 /\ OneCase[class][sent] => thrown # "none"
         /\ thrown # "none" => Mixed(class, receiver, Expected, before)
<1>1. /\ class \in Class /\ class \in Types /\ sent \in Values[class] \ {NULL}
      /\ receiver \in Objects(class) /\ before \in Objects(class)
      /\ wire \in Seq(Byte) /\ cut \in 0..Len(wire)
  BY ClassIs, ObjectIsHeld DEF IInv, TypeOK, SentSomething
<1>2. Framed[class] /\ Complete[class][sent] /\ Agrees[class]
  BY DEF Sound, Message, Compiled
<1>3. wire = Serialize[class][sent].bytes /\ Serialize[class][sent].error = "none"
  BY DEF Message, OnTheWire
<1>4. receiver = Arrived.value /\ thrown = Arrived.error
  BY DEF Message, WhatArrived
<1>5. Expected = Arrival(Arrives, class, sent, before)
  <2>1. Arrives[class] = [v \in Values[class] |-> [old \in Held[class] |-> Arrival(Arrives, class, v, old)]]
    BY <1>1, ArrivesDef
  <2>2. before \in Held[class]
    BY <1>1, ObjectIsHeld
  <2>. QED
    BY <1>1, <2>1, <2>2 DEF Expected
<1>. DEFINE data == SubSeq(wire, 1, Len(wire) - cut)
<1>6. data \in Seq(Byte) /\ Len(data) = Len(wire) - cut /\ \A j \in 1..Len(data) : data[j] = wire[j]
  <2>1. Len(wire) \in Nat /\ Len(wire) - cut \in Nat /\ 1..(Len(wire) - cut) \subseteq 1..Len(wire)
    BY <1>1
  <2>2. \A i \in 1..(Len(wire) - cut) : wire[i] \in Byte
    BY <1>1, <2>1
  <2>3. Len(wire) - cut \in Int
    BY <2>1
  <2>4. data \in Seq(Byte)
    BY <2>2, <2>3, SubSeqProperties
  <2>5. Len(data) = Len(wire) - cut
    BY <1>1, <2>1
  <2>6. \A j \in 1..(Len(wire) - cut) : data[j] = wire[j]
    BY <1>1, <2>1
  <2>. QED
    BY <2>4, <2>5, <2>6
<1>7. Arrived = Deserialize[class][data][before]
  BY DEF Arrived
<1>. HIDE DEF data
<1>8. Matches(data, wire)
  <2>1. \A j \in 1..Len(wire) : j <= Len(data) => j \in 1..Len(data)
    BY <1>1, <1>6
  <2>. QED
    BY <1>6, <2>1 DEF Matches
<1>9. Decodes(class)
  BY <1>1, <1>2, AllDecode
<1>10. Decoded(class, sent, data, before, Arrived)
  BY <1>1, <1>2, <1>3, <1>6, <1>7, <1>8, <1>9 DEF Decodes
<1>11. cut = 0 => Len(wire) <= Len(data)
  BY <1>1, <1>6
<1>12. cut > 0 => Len(wire) > Len(data)
  BY <1>1, <1>6
<1>. HIDE DEF Arrived, Expected
<1>13. cut = 0 => thrown = "none" /\ receiver = Expected
  BY <1>3, <1>4, <1>5, <1>10, <1>11 DEF Decoded
<1>14. cut > 0 /\ OneCase[class][sent] => thrown # "none"
  BY <1>3, <1>4, <1>10, <1>12 DEF Decoded
<1>15. thrown # "none" => Mixed(class, receiver, Expected, before)
  BY <1>4, <1>5, <1>10 DEF Decoded
<1>. QED
  BY <1>1, <1>5, <1>13, <1>14, <1>15

LEMMA MixedSplits ==
  ASSUME NEW t \in Class, NEW value \in Objects(t), NEW new, NEW old, Mixed(t, value, new, old)
  PROVE  \E k \in DOMAIN value.items :
           /\ \A j \in 1..(k - 1) : value.items[j] = new.items[j]
           /\ \A j \in (k + 1)..Len(value.items) : value.items[j] = old.items[j]
<1>. DEFINE items == value.items
<1>1. items \in Seq(ValuesUpTo[MaxDepth]) /\ DOMAIN items = DOMAIN Fields(t)
  BY ObjectFields
<1>2. Len(items) \in Nat /\ DOMAIN items = 1..Len(items)
  BY <1>1
<1>3. PICK k \in DOMAIN Fields(t) : \A j \in DOMAIN Fields(t) :
        /\ j < k => value.items[j] = new.items[j]
        /\ j > k => value.items[j] = old.items[j]
  BY DEF Mixed
<1>4. k \in DOMAIN items /\ k \in 1..Len(items)
  BY <1>1, <1>2, <1>3
<1>5. \A j \in 1..(k - 1) : j \in DOMAIN Fields(t) /\ j < k
  BY <1>1, <1>2, <1>4
<1>6. \A j \in (k + 1)..Len(items) : j \in DOMAIN Fields(t) /\ j > k
  BY <1>1, <1>2, <1>4
<1>. QED
  BY <1>3, <1>4, <1>5, <1>6

THEOREM CdrMessages == Spec => [](IInv /\ Message)
<1>1. Init => IInv /\ Message
  <2>1. Init => Message
    BY DEF Init, Message, Compiled, OnTheWire, WhatArrived
  <2>. QED
    BY <2>1, InitInv
<1>2. IInv /\ Message /\ [Next]_vars => (IInv /\ Message)'
  BY NextInv, NextMessage
<1>. QED
  BY <1>1, <1>2, PTL DEF Spec

(* RoundTrip: for every class whose nested objects come last and whose lists
   are of numbers or wide strings, deserialize() into any object restores
   every object without null nested ones that serialize() did not refuse,
   whatever the object had before
   (src/src/java_record.c:262, 317, 423 and 803). *)
THEOREM CdrRoundTrip == Spec => []RoundTrip
<1>1. IInv /\ Message => RoundTrip
  BY ReceivedDecodes DEF RoundTrip
<1>. QED
  BY <1>1, CdrMessages, PTL

(* CutIsNoticed: for the same classes deserialize() throws whenever a byte
   at the end is missing, however many are
   (src/src/java_record.c:285-458 and 799-814). *)
THEOREM CdrCutIsNoticed == Spec => []CutIsNoticed
<1>1. IInv /\ Message => CutIsNoticed
  BY ReceivedDecodes DEF CutIsNoticed
<1>. QED
  BY <1>1, CdrMessages, PTL

(* FailureSplits: for the same classes a deserialize() that throws leaves
   the new values in the fields before some field and the old ones in those
   after it (src/src/java_record.c:285-458 and 799-814). *)
THEOREM CdrFailureSplits == Spec => []FailureSplits
<1>1. IInv /\ Message => FailureSplits
  <2>1. SUFFICES ASSUME IInv, Message, pc = "received", thrown # "none", Sound
                 PROVE  \E k \in DOMAIN receiver.items :
                          /\ \A j \in 1..(k - 1) : receiver.items[j] = Expected.items[j]
                          /\ \A j \in (k + 1)..Len(receiver.items) :
                               receiver.items[j] = before.items[j]
    BY DEF FailureSplits
  <2>2. class \in Class /\ receiver \in Objects(class) /\ Mixed(class, receiver, Expected, before)
    BY <2>1, ReceivedDecodes
  <2>. QED
    BY <2>2, MixedSplits
<1>. QED
  BY <1>1, CdrMessages, PTL

=============================================================================
