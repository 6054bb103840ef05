------------------------------ MODULE MCCdrCodec ------------------------------
(***************************************************************************)
(* CdrCodec on structs of up to three members of every kind, with nested   *)
(* structs, unions and lists at the end and before it, and on unions of    *)
(* one and two cases.                                                      *)
(***************************************************************************)
EXTENDS CdrCodec, SequencesExt, FiniteSetsExt

T(kind) == [kind |-> kind]
List(t) == [kind |-> "sequence", elem |-> t]
Struct(members) == [kind |-> "struct", members |-> members]
Union(disc, cases) == [kind |-> "union", disc |-> disc, cases |-> cases]

Octet == T("octet")
Point == Struct(<<Octet, T("short")>>)
Label == Struct(<<T("string")>>)

FramedClasses ==
  {Struct(m) : m \in
    {<<T("long"), Octet>>, <<Octet, T("string")>>, <<T("string"), T("string")>>,
     <<List(Octet), Octet>>, <<T("short"), List(T("bitmask"))>>,
     <<List(T("wstring")), Octet>>, <<Octet, Point>>,
     <<T("string"), Struct(<<List(Octet), T("string")>>)>>,
     <<T("llong"), T("float"), Octet>>, <<T("double"), T("char"), T("ullong")>>,
     <<T("bitmask"), Octet>>, <<T("wstring"), T("typedef"), T("ulong")>>,
     <<T("other")>>, <<Octet, Union("long", <<Point, Label>>)>>}}
  \cup {Union("enum", <<Point>>), Union("ulong", <<Label, Point>>),
        Union("llong", <<Union("long", <<Struct(<<T("bitmask"), Octet>>)>>)>>)}

OtherClasses ==
  {Struct(m) : m \in
    {<<Point, Octet>>, <<List(Point)>>, <<List(Point), Octet>>,
     <<List(List(Octet)), Octet>>, <<Union("long", <<Point>>), Octet>>,
     <<List(Union("long", <<Label>>))>>}}

BooleanOnly == {Struct(<<T("bool")>>)}

RejectedClasses ==
  BooleanOnly \cup {Struct(<<>>)}
  \cup {Struct(<<t>>) : t \in
    {T("ushort"), T("enum"), List(T("bool")), List(T("ushort")),
     List(T("enum")), List(T("string"))}}
  \cup {Union("octet", <<Point>>), Union("long", <<T("short")>>)}

AllClasses == FramedClasses \cup OtherClasses \cup RejectedClasses

(* A nested struct with a union in it, between members of other kinds. *)
Mixed == Struct(<<T("bitmask"), T("typedef"),
                  Struct(<<Union("long", <<Point, Point>>)>>), Octet>>)
MixedOnly == {Mixed}

(* These and their parts, and the parts of those. *)
TypesDownTo[d \in Nat] ==
  IF d = 0 THEN AllClasses \cup MixedOnly
  ELSE TypesDownTo[d-1] \cup UNION {Parts(t) : t \in TypesDownTo[d-1]}

AllTypes == TypesDownTo[MaxDepth]

DepthOf[t \in AllTypes] ==
  IF Parts(t) = {} THEN 0 ELSE 1 + Max({DepthOf[p] : p \in Parts(t)})

(* The function as a table. *)
Table(F(_)) == FoldSet(LAMBDA t, f : f @@ (t :> F(t)), <<>>, AllTypes)

AllDepths == Table(LAMBDA t : DepthOf[t])

Numbers == {[number |-> n] : n \in {0, 1}}
Texts == {[text |-> s] : s \in {<<>>, <<7>>, <<7, 8>>}}
MaxList == 2

(* Lists of up to MaxList elements and objects with every value in every
   field, and null. *)
ValuesOf[t \in AllTypes] ==
  LET rows[k \in 0..Len(Fields(t))] ==
        IF k = 0 THEN {<<>>}
        ELSE {Append(row, v) :
                row \in rows[k-1],
                v \in IF Fields(t)[k].kind \in Scalars THEN Numbers
                                                       ELSE ValuesOf[Fields(t)[k]]}
  IN {NULL} \cup
     CASE t.kind \in {"string", "wstring"} -> Texts
       [] t.kind = "sequence" ->
            {[items |-> list] : list \in UNION {[1..n -> ValuesOf[t.elem]] : n \in 0..MaxList}}
       [] t.kind \in Nested -> {[items |-> row] : row \in rows[Len(Fields(t))]}
       [] OTHER -> Numbers

AllValues == Table(LAMBDA t : ValuesOf[t])

(* An object with something new in every field, and the second case set. *)
MixedObject ==
  LET one == [number |-> 1]
      point == [items |-> <<one, one>>]
      choice == [items |-> <<one, NULL, point>>]
  IN [items |-> <<one, one, [items |-> <<choice>>], one>>]

MixedValues == [AllValues EXCEPT ![Mixed] = {NULL, MixedObject}]

(* TLC evaluates a definition once, but not one that a constant stands for. *)
MCTypes == AllTypes
MCDepth == AllDepths
MCValues == AllValues
MCMixedValues == MixedValues

=============================================================================
