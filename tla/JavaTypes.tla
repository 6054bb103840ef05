------------------------------ MODULE JavaTypes ------------------------------
(***************************************************************************)
(* The types of members and cases: as the parser hands them over, as       *)
(* java_type_name() (src/src/java_type.c) names them in the Java class,    *)
(* and as the methods of ByteBuffer that serialize() and deserialize() use *)
(* for them want them.                                                     *)
(*                                                                         *)
(* An IDL type is a record with a kind; a sequence has the type `elem' of  *)
(* its elements, a struct the sequence `members' of its members' types, a  *)
(* union the kind `disc' of its discriminator and the types `cases'.       *)
(* A Java type is a sequence of words: <<"int">>, <<"List", "Integer">>.   *)
(***************************************************************************)
EXTENDS Sequences, Integers

CONSTANTS
  Types,        \* the types of an IDL file and those they are made of
  Depth,        \* how deep each of them is
  MaxDepth

(* Java's primitive types, each with the class that boxes it. *)
Boxed == [boolean |-> "Boolean", byte |-> "Byte", short |-> "Short",
          char |-> "Character", int |-> "Integer", long |-> "Long",
          float |-> "Float", double |-> "Double"]

(* The primitive type that stands for an IDL type. *)
Primitive == [bool |-> "boolean", octet |-> "byte", char |-> "byte",
              short |-> "short", ushort |-> "char",
              long |-> "int", ulong |-> "int",
              llong |-> "long", ullong |-> "long",
              float |-> "float", double |-> "double"]

Scalars == DOMAIN Primitive

(* The kinds with a class of their own.  Any other kind ("other": int32,
   long double, a wide character, ...) is an Object. *)
Named == {"struct", "union", "enum", "bitmask", "typedef"}

Nested == {"struct", "union"}

(* The Java type of a union's discriminator. *)
Discriminator(disc) ==
  CASE disc \in {"char", "octet", "bool"} -> "byte"
    [] disc \in {"short", "ushort"}      -> "short"
    [] disc \in {"llong", "ullong"}      -> "long"
    [] OTHER                             -> "int"

(* The types of an object's fields; a union's are its discriminator, an int
   or a long where the class compiles, and its cases. *)
Fields(t) ==
  IF t.kind = "struct" THEN t.members
  ELSE <<[kind |-> IF Discriminator(t.disc) = "long" THEN "llong" ELSE "long"]>>
       \o t.cases

Parts(t) ==
  CASE t.kind = "sequence" -> {t.elem}
    [] t.kind \in Nested   -> {Fields(t)[k] : k \in DOMAIN Fields(t)}
    [] OTHER               -> {}

(* No type is part of itself. *)
ASSUME TypesAssumption ==
  /\ MaxDepth \in Nat /\ Depth \in [Types -> 0..MaxDepth]
  /\ \A t \in Types :
       /\ t.kind = "struct" => t.members \in Seq(Types)
       /\ t.kind = "union" => t.cases \in Seq(Types) \ {<<>>}
       /\ \A p \in Parts(t) : p \in Types /\ Depth[p] < Depth[t]

JavaTypeName[t \in Types, boxed \in BOOLEAN] ==
  CASE t.kind \in Scalars /\ boxed       -> <<Boxed[Primitive[t.kind]]>>
    [] t.kind \in Scalars /\ ~boxed      -> <<Primitive[t.kind]>>
    [] t.kind \in {"string", "wstring"}  -> <<"String">>
    [] t.kind = "sequence"               -> <<"List">> \o JavaTypeName[t.elem, TRUE]
    [] t.kind \in Named                  -> <<"class", t.kind>>
    [] OTHER                             -> <<"Object">>

(* What ByteBuffer's put and get take and return for a scalar. *)
BufferType == [bool |-> "byte", octet |-> "byte", char |-> "byte",
               short |-> "short", ushort |-> "short",
               long |-> "int", ulong |-> "int",
               llong |-> "long", ullong |-> "long",
               float |-> "float", double |-> "double"]

(* The bytes they use. *)
Width == [bool |-> 1, octet |-> 1, char |-> 1, short |-> 2, ushort |-> 2,
          long |-> 4, ulong |-> 4, llong |-> 8, ullong |-> 8,
          float |-> 4, double |-> 8]

(* javac accepts what serialize() and deserialize() do with an element: the
   types agree, an enum has no valueOf(int), and the element of a sequence
   of strings is printed by a format whose argument is missing. *)
ElementAgrees(t) ==
  /\ t.kind \notin {"enum", "string"}
  /\ t.kind \in Scalars => JavaTypeName[t, TRUE] = <<Boxed[BufferType[t.kind]]>>

MemberAgrees(t) ==
  /\ t.kind # "enum"
  /\ t.kind \in Scalars => JavaTypeName[t, FALSE] = <<BufferType[t.kind]>>
  /\ t.kind = "sequence" => ElementAgrees(t.elem)

(* getInt() does not fit a byte or a short, and only the classes of structs
   and unions can be serialized. *)
UnionAgrees(t) ==
  /\ Discriminator(t.disc) \in {"int", "long"}
  /\ \A k \in 1..Len(t.cases) : t.cases[k].kind \in Nested

(* The expression in toString() begins with the name of the class and ends
   with a bracket; a struct without members has two plus signs between them. *)
StructAgrees(t) ==
  /\ t.members # <<>>
  /\ \A k \in DOMAIN t.members : MemberAgrees(t.members[k])

Agrees[t \in Types] ==
  /\ t.kind = "struct" => StructAgrees(t)
  /\ t.kind = "union" => UnionAgrees(t)
  /\ \A p \in Parts(t) : Agrees[p]

=============================================================================
