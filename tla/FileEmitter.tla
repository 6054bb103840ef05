------------------------------ MODULE FileEmitter ------------------------------
(***************************************************************************)
(* One call of generate_java_record(), _enum(), _typedef(), _union() or    *)
(* _bitmask() (src/src/java_record.c): resolve the package, build the text *)
(* of the Java class in a string builder, open the file, write the text,   *)
(* give everything back.  Memory may run out at any allocation, the file   *)
(* may not open and the disk may be full; the result of sb_append(),       *)
(* sb_appendf(), fputs() and fclose() is never looked at.                  *)
(*                                                                         *)
(* The text is a sequence of pieces; a piece is a run of appends that      *)
(* belong together, lost if one of them is, and the text in the builder    *)
(* and in the file is kept as the positions of its pieces.  What the       *)
(* arguments NULL would do is left out: process_node() passes a definition *)
(* and generate() an output_dir.  Where the file lies is the matter of     *)
(* OutputPath.                                                             *)
(*                                                                         *)
(* A definition named X_Bug is X with a bug a change of the code might     *)
(* bring in; no specification uses it, it shows that a property can fail.  *)
(***************************************************************************)
EXTENDS Integers, Sequences, FiniteSets

(* What the text of a struct's member depends on: a sequence is a list, of
   structs or unions a list of objects; numbers, strings and the types the
   code skips are plain. *)
TypeKinds == {"plain", "enum", "struct", "union", "list", "list of objects"}

CONSTANTS
  Kinds,        \* the kinds of definition: struct, enum, typedef, union, bitmask
  ItemTypes,    \* the types its members may have, in their order
  MaxLost       \* how many pieces may be lost in one call, to bound TLC

ASSUME KindsAssumption ==
  Kinds \subseteq {"struct", "enum", "typedef", "union", "bitmask"}
ASSUME ItemTypesAssumption == ItemTypes \subseteq Seq(TypeKinds)
ASSUME MaxLostAssumption == MaxLost \in Nat

VARIABLES
  kind,          \* of the definition
  types,         \* of its members, enumerators, cases or bit values
  declared,      \* a typedef: it has a declarator with a name
  disable_cdr,   \* of a struct
  pc,            \* check, package, builder, text, scratch, write, free, done,
                 \* or crashed
  next,          \* the piece to be appended next
  heap,          \* the blocks the call owns
  null,          \* the names strdup() had no memory for
  sb,            \* the pieces in the builder
  lost,          \* the pieces an append had no memory for
  stream,        \* f is open
  file,          \* the pieces in the file, or OLD
  short,         \* fputs or fclose failed
  frees,         \* what is still to be freed on the way out
  ret

definition == <<kind, types, declared, disable_cdr>>
vars == <<definition, pc, next, heap, null, sb, lost, stream, file, short, frees, ret>>

OLD == <<0>>      \* what the file holds before the call, if there is one
NONE == 99
items == Len(types)

-----------------------------------------------------------------------------
(* The texts. *)

One(what) == <<[what |-> what, item |-> 0]>>
Each(what) == [k \in 1..items |-> [what |-> what, item |-> k]]
First(what) == IF items > 0 THEN <<[what |-> what, item |-> 1]>> ELSE <<>>

CdrText ==
  One("serialize") \o Each("putMember") \o One("deserialize") \o Each("getMember")

RecordText ==
  One("header") \o One("fieldOrder") \o Each("field") \o One("describeType")
  \o (IF disable_cdr THEN <<>> ELSE CdrText) \o One("toString") \o One("end")

EnumText ==
  One("header") \o Each("constant") \o One("value") \o One("describeType")
  \o Each("addEnumerator") \o One("end")

TypedefText ==
  One("header") \o One("value") \o One("constructors") \o One("accessors")
  \o One("end")

(* The disable-cdr option does not reach a union; only the first case is
   deserialized. *)
UnionText ==
  One("header") \o One("discriminator") \o Each("caseField") \o Each("setter")
  \o One("describeType") \o One("serialize") \o Each("putCase")
  \o One("deserialize") \o First("getCase") \o One("toString") \o One("end")

BitmaskText ==
  One("header") \o One("value") \o Each("bitConstant") \o One("constructors")
  \o One("accessors") \o One("flags") \o One("describeType") \o One("toString")
  \o One("end")

Text == CASE kind = "struct"  -> RecordText
          [] kind = "enum"    -> EnumText
          [] kind = "typedef" -> TypedefText
          [] kind = "union"   -> UnionText
          [] kind = "bitmask" -> BitmaskText

(* The blocks a piece needs while it is appended: the names of types, of which
   member_type stands for java_type, struct_type, union_type and enum_type.
   What java_type_name() allocates for itself it has freed when it returns. *)
TypeNames(what, type) ==
  CASE what \in {"caseField", "setter", "getCase"} -> {"field_type"}
    [] what = "field" -> {"member_type"}
    [] what \in {"putMember", "getMember"} /\ type = "list" -> {"elem_type"}
    [] what = "putMember" /\ type = "list of objects" -> {"elem_type"}
    [] what = "getMember" /\ type = "list of objects" -> {"elem_type", "boxed_elem"}
    [] what = "getMember" /\ type \in {"struct", "union", "enum"} -> {"member_type"}
    [] OTHER -> {}

Scratch(piece) ==
  TypeNames(piece.what, IF piece.item = 0 THEN "plain" ELSE types[piece.item])
  \cup (IF piece.what = "setter" THEN {"setter_name"} ELSE {})

(* The blocks freed on the way out, in the order of the code. *)
Owned_PackageOnly == <<"package">>
Owned == IF kind = "typedef" THEN <<"java_type", "package">> ELSE <<"package">>

-----------------------------------------------------------------------------

Init ==
  /\ kind \in Kinds
  /\ types \in ItemTypes
  /\ kind # "struct" => \A k \in 1..items : types[k] = "plain"
  /\ declared \in BOOLEAN /\ (kind # "typedef" => declared)
  /\ disable_cdr \in BOOLEAN /\ (kind # "struct" => ~disable_cdr)
  /\ pc = "check"
  /\ next = 1
  /\ heap = {} /\ null = {} /\ sb = <<>> /\ lost = {}
  /\ stream = FALSE /\ file = OLD /\ short = FALSE
  /\ frees = <<>> /\ ret = NONE

(* An allocation nobody checks returns NULL, and is written through. *)
Crash ==
  /\ pc' = "crashed"
  /\ UNCHANGED <<definition, next, heap, null, sb, lost, stream, file, short, frees, ret>>

(* A typedef without a declarator: return 0. *)
NothingDeclared ==
  /\ pc = "check" /\ kind = "typedef" /\ ~declared
  /\ ret' = 0
  /\ pc' = "done"
  /\ UNCHANGED <<definition, next, heap, null, sb, lost, stream, file, short, frees>>

(* A name that is returned by strdup() may be a null pointer: it is printed as
   "(null)", and free() takes it. *)
Strdup(name) ==
  \/ heap' = heap \cup {name} /\ UNCHANGED null
  \/ null' = null \cup {name} /\ UNCHANGED heap

(* The typedef alone names its type before everything else. *)
NameType ==
  /\ pc = "check" /\ (kind = "typedef" => declared)
  /\ IF kind = "typedef" THEN Strdup("java_type") ELSE UNCHANGED <<heap, null>>
  /\ pc' = "package"
  /\ UNCHANGED <<definition, next, sb, lost, stream, file, short, frees, ret>>

(* The package of a definition outside of modules comes from strdup() when
   there is no prefix; every other package from a malloc() nobody checks. *)
ResolvePackage ==
  /\ pc = "package"
  /\ Strdup("package")
  /\ pc' = "builder"
  /\ UNCHANGED <<definition, next, sb, lost, stream, file, short, frees, ret>>

CreateBuilder ==
  /\ pc = "builder"
  /\ heap' = heap \cup {"sb"}
  /\ pc' = "text"
  /\ UNCHANGED <<definition, next, null, sb, lost, stream, file, short, frees, ret>>

(* sb_create() returns NULL. *)
CreateFails_ReturnsZero ==
  /\ pc = "builder"
  /\ frees' = Owned
  /\ ret' = 0
  /\ pc' = "free"
  /\ UNCHANGED <<definition, next, heap, null, sb, lost, stream, file, short>>

CreateFails ==
  /\ pc = "builder"
  /\ frees' = Owned
  /\ ret' = -1
  /\ pc' = "free"
  /\ UNCHANGED <<definition, next, heap, null, sb, lost, stream, file, short>>

(* java_type_name() of a sequence, resolve_package() and sb_create() write
   through the block malloc() gave them, and so do sb_appendf() with a text
   that is too long for its array and the setter of a union case;
   deserialize() of a sequence of strings is formatted with an argument that
   is not there. *)
Crashes ==
  /\ \/ pc = "check" /\ kind = "typedef" /\ declared
     \/ pc \in {"package", "builder"}
     \/ pc \in {"text", "scratch"} /\ next <= Len(Text)
  /\ Crash

(* Any name but the setter's may be a null pointer. *)
AllocateScratch ==
  /\ pc = "text" /\ next <= Len(Text) /\ Scratch(Text[next]) # {}
  /\ \E got \in SUBSET Scratch(Text[next]) :
       /\ "setter_name" \in Scratch(Text[next]) => "setter_name" \in got
       /\ heap' = heap \cup got
  /\ pc' = "scratch"
  /\ UNCHANGED <<definition, next, null, sb, lost, stream, file, short, frees, ret>>

(* The piece is next, and the blocks it needs are there. *)
Ready ==
  /\ next <= Len(Text)
  /\ pc = IF Scratch(Text[next]) = {} THEN "text" ELSE "scratch"

FreeScratch == heap' = heap \ Scratch(Text[next])

AppendPiece ==
  /\ Ready
  /\ sb' = Append(sb, next)
  /\ next' = next + 1
  /\ FreeScratch
  /\ pc' = "text"
  /\ UNCHANGED <<definition, null, lost, stream, file, short, frees, ret>>

(* sb_append() returns -1 and leaves the builder as it is; the caller goes
   on with the next piece. *)
LosePiece_AndTheText ==
  /\ Ready /\ Cardinality(lost) < MaxLost
  /\ sb' = <<>>
  /\ lost' = lost \cup {next}
  /\ next' = next + 1
  /\ FreeScratch
  /\ pc' = "text"
  /\ UNCHANGED <<definition, null, stream, file, short, frees, ret>>

LosePiece ==
  /\ Ready /\ Cardinality(lost) < MaxLost
  /\ lost' = lost \cup {next}
  /\ next' = next + 1
  /\ FreeScratch
  /\ pc' = "text"
  /\ UNCHANGED <<definition, null, sb, stream, file, short, frees, ret>>

(* fopen(file_path, "w"): an old file is emptied. *)
OpenFile ==
  /\ pc = "text" /\ next > Len(Text)
  /\ stream' = TRUE
  /\ file' = <<>>
  /\ pc' = "write"
  /\ UNCHANGED <<definition, next, heap, null, sb, lost, short, frees, ret>>

OpenFails ==
  /\ pc = "text" /\ next > Len(Text)
  /\ frees' = Append(Owned, "sb")
  /\ ret' = -1
  /\ pc' = "free"
  /\ UNCHANGED <<definition, next, heap, null, sb, lost, stream, file, short>>

(* fputs() and fclose(): the text, or as much of it as the disk took. *)
WriteFile_ReturnsFputs ==
  /\ pc = "write"
  /\ \E m \in 0..Len(sb) :
       /\ file' = SubSeq(sb, 1, m)
       /\ short' = (m < Len(sb))
       /\ ret' = m
  /\ stream' = FALSE
  /\ frees' = Append(Owned, "sb")
  /\ pc' = "free"
  /\ UNCHANGED <<definition, next, heap, null, sb, lost>>

WriteFile ==
  /\ pc = "write"
  /\ \E m \in 0..Len(sb) :
       /\ file' = SubSeq(sb, 1, m)
       /\ short' = (m < Len(sb))
  /\ stream' = FALSE
  /\ frees' = Append(Owned, "sb")
  /\ ret' = 0
  /\ pc' = "free"
  /\ UNCHANGED <<definition, next, heap, null, sb, lost>>

Free ==
  /\ pc = "free" /\ frees # <<>>
  /\ heap' = heap \ {Head(frees)}
  /\ frees' = Tail(frees)
  /\ UNCHANGED <<definition, pc, next, null, sb, lost, stream, file, short, ret>>

Return ==
  /\ pc = "free" /\ frees = <<>>
  /\ pc' = "done"
  /\ UNCHANGED <<definition, next, heap, null, sb, lost, stream, file, short, frees, ret>>

Next == \/ NothingDeclared \/ NameType \/ ResolvePackage
        \/ CreateBuilder \/ CreateFails \/ Crashes
        \/ AllocateScratch \/ AppendPiece \/ LosePiece
        \/ OpenFile \/ OpenFails \/ WriteFile \/ Free \/ Return

Spec == Init /\ [][Next]_vars

-----------------------------------------------------------------------------

(* The type of every variable. *)
TypeOK ==
  /\ kind \in Kinds /\ types \in Seq(TypeKinds)
  /\ declared \in BOOLEAN /\ disable_cdr \in BOOLEAN
  /\ pc \in {"check", "package", "builder", "text", "scratch", "write", "free",
             "done", "crashed"}
  /\ next \in Nat \ {0}
  /\ heap \subseteq {"java_type", "package", "sb", "member_type", "field_type",
                      "setter_name", "elem_type", "boxed_elem"}
  /\ null \subseteq {"java_type", "package"}
  /\ sb \in Seq(Nat \ {0})
  /\ lost \subseteq Nat \ {0}
  /\ stream \in BOOLEAN /\ short \in BOOLEAN
  /\ file \in {OLD} \cup Seq(Nat \ {0})
  /\ frees \in Seq({"java_type", "package", "sb"})
  /\ ret \in {NONE, 0, -1}

(* On every way out of the call, what is freed is what the call owns, each
   block once, and nothing is left: no early return, failed open, break out
   of the loop over a union's cases or branch over a member's type leaks or
   frees twice (src/src/java_record.c:172-248, 325-448, 651-655, 693-697,
   803-814). *)
FreedOnce ==
  /\ pc \in {"free", "done"} =>
       /\ heap = {frees[k] : k \in 1..Len(frees)} \ null
       /\ \A j, k \in 1..Len(frees) : frees[j] = frees[k] => j = k
       /\ ~stream
  /\ pc = "done" => frees = <<>>
  /\ pc \in {"text", "scratch", "write"} => "sb" \in heap

(* A new file holds the pieces of the text in their order, each once; one
   that is missing was lost for want of memory, or the disk took only the
   beginning.  No refused append spoils what was there before or comes
   after it (src/src/java_record.c:501-536). *)
HolesOnly ==
  /\ \A j, k \in 1..Len(file) : j < k => file[j] < file[k]
  /\ pc \in {"free", "done"} /\ file # OLD /\ ~short =>
       {file[k] : k \in 1..Len(file)} = 1..Len(Text) \ lost

(* The call updates the file as FileUpdate says: once or not at all, 0 only
   when it did so or there was nothing to write, and never -1 for a file that
   is whole (src/src/java_record.c:533-543, 641-655). *)
Update == INSTANCE FileUpdate
  WITH wanted <- ~(kind = "typedef" /\ ~declared),
       state  <- IF file = OLD THEN "old"
                 ELSE IF pc = "write" THEN "empty"
                 ELSE IF short THEN "cut" ELSE "new",
       result <- IF pc = "done" THEN ret ELSE NONE

UpdateKept == Update!Spec

-----------------------------------------------------------------------------
(***************************************************************************)
(* The inductive invariant: what is allocated, what of the text is where,  *)
(* and what can be said of the file, at every step of the call.            *)
(***************************************************************************)
InOwned == {Owned[k] : k \in 1..Len(Owned)}
InFrees == {frees[k] : k \in 1..Len(frees)}
Before == {"check", "package", "builder", "text", "scratch"}

Blocks ==
  /\ pc = "check" => heap = {} /\ null = {}
  /\ pc = "package" => /\ heap = (InOwned \ {"package"}) \ null
                       /\ "package" \notin null
  /\ pc = "builder" => heap = InOwned \ null
  /\ pc \in {"text", "write"} => heap = (InOwned \ null) \cup {"sb"}
  /\ pc = "scratch" =>
       /\ next <= Len(Text)
       /\ heap \ Scratch(Text[next]) = (InOwned \ null) \cup {"sb"}
  /\ pc \in {"free", "done"} => heap = InFrees \ null
  /\ \A j, k \in 1..Len(frees) : frees[j] = frees[k] => j = k
  /\ pc = "done" => frees = <<>>

Pieces ==
  /\ \A j, k \in 1..Len(sb) : j < k => sb[j] < sb[k]
  /\ {sb[k] : k \in 1..Len(sb)} = 1..(next - 1) \ lost
  /\ lost \subseteq 1..(next - 1)
  /\ next <= Len(Text) + 1
  /\ pc \in {"check", "package", "builder"} => next = 1
  /\ pc = "write" => next = Len(Text) + 1

Outcome ==
  /\ pc \notin {"check", "done"} => (kind = "typedef" => declared)
  /\ stream <=> pc = "write"
  /\ pc \in Before => file = OLD /\ ret = NONE /\ frees = <<>>
  /\ pc = "crashed" => file = OLD /\ ret = NONE
  /\ pc = "write" => file = <<>> /\ ret = NONE
  /\ pc \in {"free", "done"} => ret \in {0, -1}
  /\ pc = "free" /\ ret = 0 => file # OLD
  /\ ret = -1 => file = OLD

EInv == TypeOK /\ Blocks /\ Pieces /\ Outcome /\ HolesOnly

=============================================================================
