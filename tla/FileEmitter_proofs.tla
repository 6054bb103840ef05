--------------------------- MODULE FileEmitter_proofs ---------------------------
(***************************************************************************)
(* FileEmitter: the call owns what it frees, the file is a text with holes *)
(* at worst, and it is replaced once or not at all, whatever the kinds of  *)
(* definition and the numbers of their items.                              *)
(***************************************************************************)
EXTENDS FileEmitter, TLAPS

Names == {"header", "fieldOrder", "field", "describeType", "serialize",
          "putMember", "deserialize", "getMember", "toString", "end", "constant", "value", "addEnumerator",
          "constructors", "accessors", "discriminator", "caseField", "setter",
          "putCase", "getCase", "bitConstant", "flags"}
Piece == [what : Names, item : Nat]

ScratchNames == {"member_type", "field_type", "setter_name", "elem_type", "boxed_elem"}

(* A definition has a number of items. *)
LEMMA ItemsNat ==
  ASSUME types \in Seq(TypeKinds)
  PROVE  items \in Nat
  BY DEF items

(* One(w), Each(w) and First(w) are sequences of pieces. *)
LEMMA PartsAreSeqs ==
  ASSUME items \in Nat, NEW w \in Names
  PROVE  One(w) \in Seq(Piece) /\ Each(w) \in Seq(Piece) /\ First(w) \in Seq(Piece)
<1>1. One(w) \in Seq(Piece)
  BY DEF One, Piece
<1>2. Each(w) \in Seq(Piece)
  BY DEF Each, Piece
<1>3. First(w) \in Seq(Piece)
  <2>1. <<>> \in Seq(Piece)
    OBVIOUS
  <2>2. <<[what |-> w, item |-> 1]>> \in Seq(Piece)
    BY DEF Piece
  <2> QED
    BY <2>1, <2>2 DEF First
<1> QED
  BY <1>1, <1>2, <1>3

(* So is the text of every kind of definition. *)
LEMMA TextIsSeq ==
  ASSUME types \in Seq(TypeKinds), kind \in Kinds, disable_cdr \in BOOLEAN
  PROVE  Text \in Seq(Piece)
<1> DEFINE S == Seq(Piece)
<1>1. \A a, b \in S : a \o b \in S
  OBVIOUS
<1>2. \A w \in Names : One(w) \in S /\ Each(w) \in S /\ First(w) \in S
  BY ItemsNat, PartsAreSeqs
<1>3. <<>> \in S
  OBVIOUS
<1>4. kind \in {"struct", "enum", "typedef", "union", "bitmask"}
  BY KindsAssumption
<1> HIDE DEF S
<1>5. RecordText \in S
  <2>1. One("header") \in S /\ One("fieldOrder") \in S /\ Each("field") \in S
        /\ One("describeType") \in S /\ One("serialize") \in S
        /\ Each("putMember") \in S /\ One("deserialize") \in S
        /\ Each("getMember") \in S /\ One("toString") \in S /\ One("end") \in S
    BY <1>2 DEF Names
  <2>2. CdrText \in S
    BY <1>1, <2>1 DEF CdrText
  <2>3. (IF disable_cdr THEN <<>> ELSE CdrText) \in S
    BY <1>3, <2>2
  <2> QED
    BY <1>1, <2>1, <2>3 DEF RecordText
<1>6. EnumText \in S
  <2>1. One("header") \in S /\ Each("constant") \in S /\ One("value") \in S
        /\ One("describeType") \in S /\ Each("addEnumerator") \in S
        /\ One("end") \in S
    BY <1>2 DEF Names
  <2> QED
    BY <1>1, <2>1 DEF EnumText
<1>7. TypedefText \in S
  <2>1. One("header") \in S /\ One("value") \in S /\ One("constructors") \in S
        /\ One("accessors") \in S /\ One("end") \in S
    BY <1>2 DEF Names
  <2> QED
    BY <1>1, <2>1 DEF TypedefText
<1>8. UnionText \in S
  <2>1. One("header") \in S /\ One("discriminator") \in S /\ Each("caseField") \in S
        /\ Each("setter") \in S /\ One("describeType") \in S
        /\ One("serialize") \in S /\ Each("putCase") \in S
        /\ One("deserialize") \in S /\ First("getCase") \in S
        /\ One("toString") \in S /\ One("end") \in S
    BY <1>2 DEF Names
  <2> QED
    BY <1>1, <2>1 DEF UnionText
<1>9. BitmaskText \in S
  <2>1. One("header") \in S /\ One("value") \in S /\ Each("bitConstant") \in S
        /\ One("constructors") \in S /\ One("accessors") \in S
        /\ One("flags") \in S /\ One("describeType") \in S
        /\ One("toString") \in S /\ One("end") \in S
    BY <1>2 DEF Names
  <2> QED
    BY <1>1, <2>1 DEF BitmaskText
<1>10. Text \in S
  BY <1>4, <1>5, <1>6, <1>7, <1>8, <1>9 DEF Text
<1> QED
  BY <1>10 DEF S

(* A text has a length. *)
LEMMA TextLength ==
  ASSUME types \in Seq(TypeKinds), kind \in Kinds, disable_cdr \in BOOLEAN
  PROVE  Len(Text) \in Nat
  BY TextIsSeq

(* A step leaves the definition, and so its text and its blocks. *)
LEMMA SameDefinition ==
  ASSUME UNCHANGED definition
  PROVE  /\ Text' = Text /\ Owned' = Owned /\ InOwned' = InOwned
         /\ \A k : Scratch(Text[k])' = Scratch(Text[k])
<1>1. UNCHANGED <<kind, types, declared, disable_cdr>>
  BY DEF definition
<1>2. Text' = Text
  BY <1>1 DEF Text, RecordText, CdrText, EnumText, TypedefText, UnionText,
              BitmaskText, One, Each, First, items
<1>3. Owned' = Owned
  BY <1>1 DEF Owned
<1>4. \A k : Scratch(Text[k])' = Scratch(Text[k])
  BY <1>1, <1>2 DEF Scratch, TypeNames
<1> QED
  BY <1>2, <1>3, <1>4 DEF InOwned

(* What the call owns besides the builder and a piece's blocks. *)
LEMMA OwnedBlocks ==
  /\ Owned \in Seq({"java_type", "package"})
  /\ InOwned = IF kind = "typedef" THEN {"java_type", "package"} ELSE {"package"}
  /\ \A j, k \in 1..Len(Owned) : Owned[j] = Owned[k] => j = k
<1>1. CASE kind = "typedef"
  <2>1. Owned = <<"java_type", "package">>
    BY <1>1 DEF Owned
  <2>2. Len(Owned) = 2 /\ Owned[1] = "java_type" /\ Owned[2] = "package"
    BY <2>1
  <2>3. 1..Len(Owned) = {1, 2}
    BY <2>2
  <2>4. InOwned = {"java_type", "package"}
    BY <2>2, <2>3 DEF InOwned
  <2> QED
    BY <1>1, <2>1, <2>2, <2>3, <2>4
<1>2. CASE kind # "typedef"
  <2>1. Owned = <<"package">>
    BY <1>2 DEF Owned
  <2>2. Len(Owned) = 1 /\ Owned[1] = "package"
    BY <2>1
  <2>3. 1..Len(Owned) = {1}
    BY <2>2
  <2>4. InOwned = {"package"}
    BY <2>2, <2>3 DEF InOwned
  <2> QED
    BY <1>2, <2>1, <2>2, <2>3, <2>4
<1> QED
  BY <1>1, <1>2


(* A piece's blocks are its own, and never the ones freed on the way out. *)
LEMMA ScratchBlocks ==
  \A piece : Scratch(piece) \subseteq ScratchNames
<1>1. \A what, type : TypeNames(what, type) \subseteq ScratchNames
  BY DEF TypeNames, ScratchNames
<1> QED
  BY <1>1 DEF Scratch, ScratchNames

(* With the builder appended, what is freed on the way out. *)
LEMMA OwnedWithBuilder ==
  LET all == Append(Owned, "sb")
  IN /\ all \in Seq({"java_type", "package", "sb"})
     /\ {all[k] : k \in 1..Len(all)} = InOwned \cup {"sb"}
     /\ \A j, k \in 1..Len(all) : all[j] = all[k] => j = k
<1> DEFINE all == Append(Owned, "sb")
           n == Len(Owned)
<1>1. n \in Nat /\ Owned \in Seq({"java_type", "package"})
  BY OwnedBlocks
<1>2. \A k \in 1..n : Owned[k] \in {"java_type", "package"}
  BY <1>1
<1>3. /\ all \in Seq({"java_type", "package", "sb"})
      /\ Len(all) = n + 1 /\ all[n + 1] = "sb"
      /\ \A k \in 1..n : all[k] = Owned[k]
  BY <1>1
<1>4. {all[k] : k \in 1..Len(all)} = {Owned[k] : k \in 1..n} \cup {"sb"}
  BY <1>1, <1>3
<1>5. \A j, k \in 1..Len(all) : all[j] = all[k] => j = k
  BY <1>1, <1>2, <1>3, OwnedBlocks
<1> QED
  BY <1>3, <1>4, <1>5 DEF InOwned

(* Freeing the first of a list of different blocks leaves the others. *)
LEMMA TailOfDistinct ==
  ASSUME NEW S, NEW f \in Seq(S), f # <<>>,
         \A j, k \in 1..Len(f) : f[j] = f[k] => j = k
  PROVE  LET t == Tail(f)
         IN /\ t \in Seq(S)
            /\ {t[k] : k \in 1..Len(t)} = {f[k] : k \in 1..Len(f)} \ {Head(f)}
            /\ \A j, k \in 1..Len(t) : t[j] = t[k] => j = k
<1> DEFINE t == Tail(f)
           n == Len(f)
<1>1. n \in Nat \ {0} /\ t \in Seq(S) /\ Len(t) = n - 1 /\ Head(f) = f[1]
  OBVIOUS
<1>2. \A k \in 1..Len(t) : t[k] = f[k + 1]
  BY <1>1
<1>3. {t[k] : k \in 1..Len(t)} \subseteq {f[k] : k \in 1..n} \ {f[1]}
  BY <1>1, <1>2
<1>4. ASSUME NEW k \in 1..n, f[k] # f[1]
      PROVE  f[k] \in {t[j] : j \in 1..Len(t)}
  <2>1. k - 1 \in 1..Len(t) /\ t[k - 1] = f[k]
    BY <1>1, <1>2, <1>4
  <2> QED
    BY <2>1
<1>5. \A j, k \in 1..Len(t) : t[j] = t[k] => j = k
  <2> SUFFICES ASSUME NEW j \in 1..Len(t), NEW k \in 1..Len(t), t[j] = t[k]
               PROVE  j = k
    OBVIOUS
  <2>1. f[j + 1] = f[k + 1] /\ j + 1 \in 1..n /\ k + 1 \in 1..n
    BY <1>1, <1>2
  <2> QED
    BY <2>1
<1> QED
  BY <1>1, <1>3, <1>4, <1>5

(* The call starts in the inductive invariant. *)
LEMMA EInvInit == Init => EInv
<1> SUFFICES ASSUME Init PROVE EInv
  OBVIOUS
<1>1. TypeOK
  <2>1. sb \in Seq(Nat \ {0}) /\ frees \in Seq({"java_type", "package", "sb"})
    BY DEF Init
  <2>2. types \in Seq(TypeKinds) /\ lost = {} /\ file = OLD
    BY ItemTypesAssumption DEF Init
  <2>3. next \in Nat \ {0} /\ ret \in {NONE, 0, -1}
    BY DEF Init
  <2> QED
    BY <2>1, <2>2, <2>3, Zenon DEF Init, TypeOK
<1>2. Len(Text) \in Nat
  BY <1>1, TextLength DEF TypeOK
<1>3. Blocks
  BY DEF Init, Blocks, InFrees
<1>4. Pieces
  BY <1>2 DEF Init, Pieces
<1>5. Outcome
  BY DEF Init, Outcome, Before, NONE
<1>6. HolesOnly
  BY DEF Init, HolesOnly, OLD
<1> QED
  BY <1>1, <1>3, <1>4, <1>5, <1>6 DEF EInv

(* The step of the inductive invariant: nothing happens to the file before
   the text is complete, and what is freed is what was allocated. *)
LEMMA EInvNext == EInv /\ [Next]_vars => EInv'
<1> SUFFICES ASSUME EInv, [Next]_vars
             PROVE  EInv'
  OBVIOUS
<1>def. UNCHANGED definition
  BY DEF Next, vars, NothingDeclared, NameType, ResolvePackage, CreateBuilder,
     CreateFails, Crashes, Crash, AllocateScratch, AppendPiece, LosePiece,
     OpenFile, OpenFails, WriteFile, Free, Return
<1>same. /\ Text' = Text /\ Owned' = Owned /\ InOwned' = InOwned
         /\ \A k : Scratch(Text[k])' = Scratch(Text[k])
  BY <1>def, SameDefinition
<1>len. Len(Text) \in Nat
  BY TextLength DEF EInv, TypeOK
<1>own. InOwned = IF kind = "typedef" THEN {"java_type", "package"} ELSE {"package"}
  BY OwnedBlocks
<1>scr. Scratch(Text[next]) \subseteq ScratchNames
  BY ScratchBlocks
<1>1. CASE NothingDeclared
  <2>1. TypeOK'
    BY <1>1 DEF EInv, TypeOK, NothingDeclared, definition
  <2>2. Blocks'
    <3>1. heap' = {} /\ frees' = <<>> /\ pc' = "done"
      BY <1>1 DEF EInv, Blocks, Outcome, Before, NothingDeclared
    <3> QED
      BY <3>1 DEF Blocks, InFrees
  <2>3. Pieces'
    BY <1>1, <1>same DEF EInv, Pieces, NothingDeclared
  <2>4. Outcome'
    BY <1>1, <1>def DEF EInv, definition, Outcome, Before, NothingDeclared
  <2>5. HolesOnly'
    BY <1>1, <1>same DEF EInv, Outcome, Before, HolesOnly, NothingDeclared
  <2> QED
    BY <2>1, <2>2, <2>3, <2>4, <2>5 DEF EInv
<1>2. CASE NameType
  <2>1. TypeOK'
    BY <1>2 DEF EInv, TypeOK, NameType, Strdup, definition
  <2>2. Blocks'
    <3>1. heap = {} /\ null = {} /\ pc' = "package" /\ frees' = frees
      BY <1>2 DEF EInv, Blocks, NameType
    <3>2. heap' = (InOwned \ {"package"}) \ null' /\ "package" \notin null'
      BY <1>2, <1>own, <3>1 DEF NameType, Strdup
    <3>3. heap' = (InOwned' \ {"package"}) \ null' /\ "package" \notin null'
      BY <1>same, <3>2
    <3>4. \A j, k \in 1..Len(frees') : frees'[j] = frees'[k] => j = k
      BY <3>1 DEF EInv, Blocks
    <3> QED
      BY <3>1, <3>3, <3>4 DEF Blocks
  <2>3. Pieces'
    BY <1>2, <1>same DEF EInv, Pieces, NameType
  <2>4. Outcome'
    BY <1>2, <1>def DEF EInv, definition, Outcome, Before, NameType
  <2>5. HolesOnly'
    BY <1>2, <1>same DEF EInv, HolesOnly, NameType
  <2> QED
    BY <2>1, <2>2, <2>3, <2>4, <2>5 DEF EInv
<1>3. CASE ResolvePackage
  <2>1. TypeOK'
    BY <1>3 DEF EInv, TypeOK, ResolvePackage, Strdup, definition
  <2>2. Blocks'
    <3>1. /\ heap = (InOwned \ {"package"}) \ null /\ "package" \notin null
          /\ pc' = "builder" /\ frees' = frees
      BY <1>3 DEF EInv, Blocks, ResolvePackage
    <3>2. heap' = InOwned \ null'
      BY <1>3, <1>own, <3>1 DEF ResolvePackage, Strdup
    <3>3. heap' = InOwned' \ null'
      BY <1>same, <3>2
    <3>4. \A j, k \in 1..Len(frees') : frees'[j] = frees'[k] => j = k
      BY <3>1 DEF EInv, Blocks
    <3> QED
      BY <3>1, <3>3, <3>4 DEF Blocks
  <2>3. Pieces'
    BY <1>3, <1>same DEF EInv, Pieces, ResolvePackage
  <2>4. Outcome'
    BY <1>3, <1>def DEF EInv, definition, Outcome, Before, ResolvePackage
  <2>5. HolesOnly'
    BY <1>3, <1>same DEF EInv, HolesOnly, ResolvePackage
  <2> QED
    BY <2>1, <2>2, <2>3, <2>4, <2>5 DEF EInv
<1>4. CASE CreateBuilder
  <2>1. TypeOK'
    BY <1>4 DEF EInv, TypeOK, CreateBuilder, definition
  <2>2. Blocks'
    BY <1>4, <1>same, <1>own DEF EInv, Blocks, InFrees, Outcome, Before, definition, CreateBuilder
  <2>3. Pieces'
    BY <1>4, <1>same DEF EInv, Pieces, CreateBuilder
  <2>4. Outcome'
    BY <1>4, <1>def DEF EInv, definition, Outcome, Before, CreateBuilder
  <2>5. HolesOnly'
    BY <1>4, <1>same DEF EInv, HolesOnly, CreateBuilder
  <2> QED
    BY <2>1, <2>2, <2>3, <2>4, <2>5 DEF EInv
<1>5. CASE CreateFails
  <2>1. TypeOK'
    BY <1>5, OwnedBlocks DEF EInv, TypeOK, NONE, OLD, Blocks, CreateFails, definition
  <2>2. Blocks'
    <3>1. heap' = InFrees' \ null'
      BY <1>5 DEF EInv, Blocks, CreateFails, InFrees, InOwned
    <3> QED
      BY <1>5, <3>1, OwnedBlocks DEF CreateFails, Blocks
  <2>3. Pieces'
    BY <1>5, <1>same DEF EInv, Pieces, CreateFails
  <2>4. Outcome'
    BY <1>5, <1>def DEF EInv, definition, Outcome, Before, CreateFails
  <2>5. HolesOnly'
    BY <1>5, <1>same DEF EInv, Outcome, Before, HolesOnly, CreateFails
  <2> QED
    BY <2>1, <2>2, <2>3, <2>4, <2>5 DEF EInv
<1>6. CASE Crashes
  <2>1. TypeOK'
    BY <1>6 DEF EInv, TypeOK, Crashes, Crash, definition
  <2>2. Blocks'
    BY <1>6, <1>same DEF EInv, Blocks, InFrees, Crashes, Crash
  <2>3. Pieces'
    BY <1>6, <1>same DEF EInv, Pieces, Crashes, Crash
  <2>4. Outcome'
    BY <1>6, <1>def DEF EInv, definition, Outcome, Before, Crashes, Crash
  <2>5. HolesOnly'
    BY <1>6, <1>same DEF EInv, HolesOnly, Crashes, Crash
  <2> QED
    BY <2>1, <2>2, <2>3, <2>4, <2>5 DEF EInv
<1>7. CASE AllocateScratch
  <2>1. TypeOK'
    BY <1>7, <1>scr DEF EInv, TypeOK, AllocateScratch, ScratchNames, definition
  <2>2. Blocks'
    <3>1. /\ pc = "text" /\ pc' = "scratch" /\ next' = next /\ next <= Len(Text)
          /\ heap = (InOwned \ null) \cup {"sb"} /\ null' = null /\ frees' = frees
      BY <1>7 DEF EInv, Blocks, AllocateScratch
    <3>2. heap' \ Scratch(Text[next]) = (InOwned \ null) \cup {"sb"}
      <4>1. PICK got \in SUBSET Scratch(Text[next]) : heap' = heap \cup got
        BY <1>7 DEF AllocateScratch
      <4>2. heap \cap ScratchNames = {}
        BY <1>own, <3>1 DEF ScratchNames
      <4> QED
        BY <1>scr, <3>1, <4>1, <4>2
    <3>3. Scratch(Text[next])' = Scratch(Text[next])
      BY <1>def, <1>same, <3>1 DEF Scratch, TypeNames, definition
    <3>4. \A j, k \in 1..Len(frees') : frees'[j] = frees'[k] => j = k
      BY <3>1 DEF EInv, Blocks
    <3> QED
      BY <1>same, <3>1, <3>2, <3>3, <3>4 DEF Blocks
  <2>3. Pieces'
    BY <1>7, <1>same DEF EInv, Pieces, AllocateScratch
  <2>4. Outcome'
    BY <1>7, <1>def DEF EInv, definition, Outcome, Before, AllocateScratch
  <2>5. HolesOnly'
    BY <1>7, <1>same DEF EInv, HolesOnly, AllocateScratch
  <2> QED
    BY <2>1, <2>2, <2>3, <2>4, <2>5 DEF EInv
<1>8. CASE AppendPiece
  <2>1. TypeOK'
    <3>1. sb' \in Seq(Nat \ {0}) /\ next' \in Nat \ {0} /\ lost' \subseteq Nat \ {0}
      BY <1>8 DEF EInv, TypeOK, Ready, AppendPiece
    <3>2. heap' \subseteq heap
      BY <1>8 DEF FreeScratch, AppendPiece
    <3> QED
      BY <1>8, <3>1, <3>2 DEF EInv, TypeOK, AppendPiece, definition
  <2>2. Blocks'
    <3>0. heap \ Scratch(Text[next]) = (InOwned \ null) \cup {"sb"}
      BY <1>8, <1>own, <1>scr DEF EInv, Blocks, Ready, AppendPiece
    <3>1. heap' = (InOwned \ null) \cup {"sb"}
      BY <1>8, <3>0 DEF FreeScratch, AppendPiece
    <3> QED
      BY <1>8, <1>same, <3>1 DEF EInv, Blocks, InFrees, AppendPiece
  <2>3. Pieces'
    <3> DEFINE n == Len(sb)
    <3>1. /\ sb \in Seq(Nat \ {0}) /\ n \in Nat /\ next \in Nat \ {0}
          /\ next <= Len(Text) /\ sb' = Append(sb, next) /\ next' = next + 1
          /\ lost' = lost /\ pc' = "text"
      BY <1>8 DEF EInv, TypeOK, Ready, AppendPiece
    <3>2. /\ \A j, k \in 1..n : j < k => sb[j] < sb[k]
          /\ {sb[k] : k \in 1..n} = 1..(next - 1) \ lost
          /\ lost \subseteq 1..(next - 1)
      BY DEF EInv, Pieces
    <3>3. /\ Len(sb') = n + 1 /\ sb'[n + 1] = next
          /\ \A k \in 1..n : sb'[k] = sb[k]
      BY <3>1
    <3>4. \A k \in 1..n : sb[k] < next
      BY <3>1, <3>2
    <3>5. \A j, k \in 1..Len(sb') : j < k => sb'[j] < sb'[k]
      BY <3>1, <3>2, <3>3, <3>4
    <3>6. {sb'[k] : k \in 1..Len(sb')} = {sb[k] : k \in 1..n} \cup {next}
      BY <3>1, <3>3
    <3>7. 1..(next' - 1) \ lost' = (1..(next - 1) \ lost) \cup {next}
      BY <3>1, <3>2
    <3> QED
      BY <1>same, <1>len, <3>1, <3>2, <3>5, <3>6, <3>7 DEF Pieces
  <2>4. Outcome'
    BY <1>8, <1>def DEF EInv, definition, Outcome, Before, AppendPiece, Ready, FreeScratch
  <2>5. HolesOnly'
    BY <1>8, <1>same DEF EInv, HolesOnly, AppendPiece, Ready, FreeScratch
  <2> QED
    BY <2>1, <2>2, <2>3, <2>4, <2>5 DEF EInv
<1>9. CASE LosePiece
  <2>1. TypeOK'
    <3>1. sb' \in Seq(Nat \ {0}) /\ next' \in Nat \ {0} /\ lost' \subseteq Nat \ {0}
      BY <1>9 DEF EInv, TypeOK, Ready, LosePiece
    <3>2. heap' \subseteq heap
      BY <1>9 DEF FreeScratch, LosePiece
    <3> QED
      BY <1>9, <3>1, <3>2 DEF EInv, TypeOK, LosePiece, definition
  <2>2. Blocks'
    <3>0. heap \ Scratch(Text[next]) = (InOwned \ null) \cup {"sb"}
      BY <1>9, <1>own, <1>scr DEF EInv, Blocks, Ready, LosePiece
    <3>1. heap' = (InOwned \ null) \cup {"sb"}
      BY <1>9, <3>0 DEF FreeScratch, LosePiece
    <3> QED
      BY <1>9, <1>same, <3>1 DEF EInv, Blocks, InFrees, LosePiece
  <2>3. Pieces'
    <3>1. /\ next \in Nat \ {0} /\ next <= Len(Text) /\ next' = next + 1
          /\ lost' = lost \cup {next} /\ sb' = sb /\ pc' = "text"
      BY <1>9 DEF EInv, TypeOK, Ready, LosePiece
    <3>2. lost \subseteq 1..(next - 1)
      BY DEF EInv, Pieces
    <3>3. 1..(next' - 1) \ lost' = 1..(next - 1) \ lost
      BY <3>1, <3>2
    <3>4. /\ \A j, k \in 1..Len(sb') : j < k => sb'[j] < sb'[k]
          /\ {sb'[k] : k \in 1..Len(sb')} = 1..(next' - 1) \ lost'
      BY <3>1, <3>3 DEF EInv, Pieces
    <3>5. lost' \subseteq 1..(next' - 1) /\ next' <= Len(Text) + 1
      BY <1>len, <3>1, <3>2
    <3> HIDE DEF Text
    <3> QED
      BY <1>same, <3>1, <3>4, <3>5, Zenon DEF Pieces
  <2>4. Outcome'
    BY <1>9, <1>def DEF EInv, definition, Outcome, Before, LosePiece, Ready, FreeScratch
  <2>5. HolesOnly'
    BY <1>9, <1>same DEF EInv, HolesOnly, LosePiece, Ready, FreeScratch
  <2> QED
    BY <2>1, <2>2, <2>3, <2>4, <2>5 DEF EInv
<1>10. CASE OpenFile
  <2>1. TypeOK'
    BY <1>10 DEF EInv, TypeOK, OpenFile, definition
  <2>2. Blocks'
    BY <1>10, <1>same DEF EInv, Blocks, InFrees, OpenFile
  <2>3. Pieces'
    <3>1. next = Len(Text) + 1 /\ next' = next /\ sb' = sb /\ lost' = lost
      BY <1>10, <1>len DEF EInv, TypeOK, Pieces, OpenFile
    <3> QED
      BY <1>10, <1>same, <1>len, <3>1 DEF EInv, Pieces, OpenFile
  <2>4. Outcome'
    BY <1>10, <1>same, <1>def DEF EInv, definition, Outcome, Before, NONE, OpenFile
  <2>5. HolesOnly'
    BY <1>10, <1>same DEF EInv, HolesOnly, OpenFile
  <2> QED
    BY <2>1, <2>2, <2>3, <2>4, <2>5 DEF EInv
<1>11. CASE OpenFails
  <2>1. TypeOK'
    BY <1>11, OwnedWithBuilder DEF EInv, TypeOK, OpenFails, definition
  <2>2. Blocks'
    <3>1. heap' = InFrees' \ null'
      BY <1>11, OwnedWithBuilder DEF EInv, TypeOK, Blocks, OpenFails, InFrees
    <3> QED
      BY <1>11, <3>1, OwnedWithBuilder DEF OpenFails, Blocks
  <2>3. Pieces'
    BY <1>11, <1>same DEF EInv, Pieces, OpenFails
  <2>4. Outcome'
    BY <1>11, <1>def DEF EInv, definition, Outcome, Before, OpenFails
  <2>5. HolesOnly'
    BY <1>11, <1>same DEF EInv, Outcome, Before, HolesOnly, OpenFails
  <2> QED
    BY <2>1, <2>2, <2>3, <2>4, <2>5 DEF EInv
<1>12. CASE WriteFile
  <2>1. TypeOK'
    <3>1. file' \in Seq(Nat \ {0}) /\ short' \in BOOLEAN
      BY <1>12 DEF EInv, TypeOK, WriteFile
    <3> QED
      BY <1>12, <3>1, OwnedWithBuilder DEF EInv, TypeOK, WriteFile, definition
  <2>2. Blocks'
    <3>1. heap' = InFrees' \ null'
      BY <1>12, OwnedWithBuilder DEF EInv, TypeOK, Blocks, WriteFile, InFrees
    <3> QED
      BY <1>12, <3>1, OwnedWithBuilder DEF WriteFile, Blocks
  <2>3. Pieces'
    BY <1>12, <1>same DEF EInv, Pieces, WriteFile
  <2>4. Outcome'
    <3>1. file' \in Seq(Nat \ {0})
      BY <1>12 DEF EInv, TypeOK, WriteFile
    <3>2. file' # OLD
      <4>1. OLD[1] = 0 /\ Len(OLD) = 1
        BY DEF OLD
      <4>2. \A f \in Seq(Nat \ {0}) : Len(f) = 1 => f[1] # 0
        OBVIOUS
      <4> QED
        BY <3>1, <4>1, <4>2
    <3>3. ret' = 0 /\ pc' = "free" /\ stream' = FALSE
      BY <1>12 DEF WriteFile
    <3>4. kind' = "typedef" => declared'
      BY <1>12, <1>def DEF EInv, Outcome, WriteFile, definition
    <3> QED
      BY <3>2, <3>3, <3>4 DEF Outcome, Before
  <2>5. HolesOnly'
    <3>1. PICK m \in 0..Len(sb) : file' = SubSeq(sb, 1, m) /\ short' = (m < Len(sb))
      BY <1>12 DEF WriteFile
    <3>2. sb \in Seq(Nat \ {0}) /\ next = Len(Text) + 1
      BY <1>12 DEF EInv, TypeOK, Pieces, WriteFile
    <3>7. Len(sb) \in Nat /\ m \in Nat /\ m <= Len(sb)
      BY <3>1, <3>2
    <3>3. Len(file') = m /\ \A k \in 1..m : file'[k] = sb[k]
      BY <3>1, <3>2
    <3>4. \A j, k \in 1..Len(file') : j < k => file'[j] < file'[k]
      BY <3>3, <3>7 DEF EInv, Pieces
    <3>5. ~short' => {file'[k] : k \in 1..Len(file')} = {sb[k] : k \in 1..Len(sb)}
      <4> SUFFICES ASSUME ~short' PROVE m = Len(sb)
        BY <3>3, <3>7
      <4>1. short' \in BOOLEAN
        BY <2>1 DEF TypeOK
      <4>2. ~ (m < Len(sb))
        BY <3>1, <4>1, Zenon
      <4> QED
        BY <3>7, <4>2
    <3>6. lost' = lost /\ 1..(next - 1) = 1..Len(Text)
      BY <1>12, <1>len, <3>2 DEF WriteFile
    <3> QED
      BY <1>same, <3>4, <3>5, <3>6 DEF EInv, Pieces, HolesOnly
  <2> QED
    BY <2>1, <2>2, <2>3, <2>4, <2>5 DEF EInv
<1>13. CASE Free
  <2>1. TypeOK'
    <3>1. frees' \in Seq({"java_type", "package", "sb"})
      BY <1>13 DEF EInv, TypeOK, Free
    <3> QED
      BY <1>13, <3>1 DEF EInv, TypeOK, Free, definition
  <2>2. Blocks'
    <3>1. /\ frees \in Seq({"java_type", "package", "sb"}) /\ frees # <<>>
          /\ \A j, k \in 1..Len(frees) : frees[j] = frees[k] => j = k
          /\ heap = InFrees \ null
      BY <1>13 DEF EInv, TypeOK, Blocks, Free
    <3> DEFINE t == Tail(frees)
    <3>3. /\ {t[k] : k \in 1..Len(t)} = {frees[k] : k \in 1..Len(frees)} \ {Head(frees)}
          /\ \A j, k \in 1..Len(t) : t[j] = t[k] => j = k
      BY <3>1, TailOfDistinct
    <3>4. frees' = t
      BY <1>13 DEF Free
    <3> HIDE DEF t
    <3>2. /\ InFrees' = InFrees \ {Head(frees)}
          /\ \A j, k \in 1..Len(frees') : frees'[j] = frees'[k] => j = k
      BY <3>3, <3>4 DEF InFrees
    <3> QED
      BY <1>13, <3>1, <3>2 DEF Blocks, Free
  <2>3. Pieces'
    BY <1>13, <1>same DEF EInv, Pieces, Free
  <2>4. Outcome'
    BY <1>13, <1>def DEF EInv, definition, Outcome, Before, Free
  <2>5. HolesOnly'
    BY <1>13, <1>same DEF EInv, HolesOnly, Free
  <2> QED
    BY <2>1, <2>2, <2>3, <2>4, <2>5 DEF EInv
<1>14. CASE Return
  <2>1. TypeOK'
    BY <1>14 DEF EInv, TypeOK, Return, definition
  <2>2. Blocks'
    BY <1>14, <1>same DEF EInv, Blocks, InFrees, Return
  <2>3. Pieces'
    BY <1>14, <1>same DEF EInv, Pieces, Return
  <2>4. Outcome'
    BY <1>14, <1>def DEF EInv, definition, Outcome, Before, Return
  <2>5. HolesOnly'
    BY <1>14, <1>same DEF EInv, HolesOnly, Return
  <2> QED
    BY <2>1, <2>2, <2>3, <2>4, <2>5 DEF EInv
<1>15. CASE UNCHANGED vars
  <2>1. TypeOK'
    BY <1>15 DEF EInv, TypeOK, vars, definition
  <2>2. Blocks' /\ Pieces'
    BY <1>15, <1>same DEF EInv, Blocks, InFrees, Pieces, vars
  <2>3. Outcome' /\ HolesOnly'
    BY <1>15, <1>same DEF EInv, Outcome, HolesOnly, vars, definition
  <2> QED
    BY <2>1, <2>2, <2>3 DEF EInv
<1> QED
  BY <1>1, <1>2, <1>3, <1>4, <1>5, <1>6, <1>7, <1>8, <1>9, <1>10, <1>11, <1>12, <1>13, <1>14, <1>15 DEF Next

(* EInv holds throughout the call. *)
THEOREM EmitterInvariant == Spec => []EInv
<1>1. Init => EInv
  BY EInvInit
<1>2. EInv /\ [Next]_vars => EInv'
  BY EInvNext
<1> QED
  BY <1>1, <1>2, PTL DEF Spec

(* No variable leaves its type. *)
THEOREM EmitterTypeOK == Spec => []TypeOK
<1>1. EInv => TypeOK
  BY DEF EInv
<1> QED
  BY <1>1, EmitterInvariant, PTL

(* Every exit of the five functions frees what the call owns, each block
   once, and leaves nothing. *)
THEOREM EmitterFreedOnce == Spec => []FreedOnce
<1>1. EInv => FreedOnce
  <2> SUFFICES ASSUME EInv PROVE FreedOnce
    OBVIOUS
  <2>1. pc \in {"free", "done"} =>
          /\ heap = {frees[k] : k \in 1..Len(frees)} \ null
          /\ \A j, k \in 1..Len(frees) : frees[j] = frees[k] => j = k
    BY DEF EInv, Blocks, InFrees
  <2>2. pc \in {"free", "done"} => ~stream
    BY DEF EInv, Outcome
  <2>3. pc = "done" => frees = <<>>
    BY DEF EInv, Blocks
  <2>4. pc \in {"text", "scratch", "write"} => "sb" \in heap
    BY DEF EInv, Blocks
  <2> QED
    BY <2>1, <2>2, <2>3, <2>4 DEF FreedOnce
<1> QED
  BY <1>1, EmitterInvariant, PTL

(* A written file is the text with the refused pieces missing, cut off at
   the end at worst. *)
THEOREM EmitterHolesOnly == Spec => []HolesOnly
<1>1. EInv => HolesOnly
  BY DEF EInv
<1> QED
  BY <1>1, EmitterInvariant, PTL

-----------------------------------------------------------------------------

(* What FileUpdate sees of a state. *)
Wanted == ~(kind = "typedef" /\ ~declared)
State == IF file = OLD THEN "old"
         ELSE IF pc = "write" THEN "empty"
         ELSE IF short THEN "cut" ELSE "new"
Result == IF pc = "done" THEN ret ELSE NONE

(* The call starts with the old file. *)
LEMMA UpdateInit == Init => Update!Init
  BY DEF Init, Update!Init, Update!NONE, NONE

(* Every step of the call is a step of FileUpdate or leaves its variables. *)
LEMMA UpdateNext ==
  EInv /\ EInv' /\ [Next]_vars => [Update!Next]_Update!vars
<1> SUFFICES ASSUME EInv, EInv', [Next]_vars
             PROVE  \/ Update!Next
                    \/ Wanted' = Wanted /\ State' = State /\ Result' = Result
  BY DEF Update!vars, Wanted, State, Result
<1>old. OLD # <<>>
  BY DEF OLD
<1>none. NONE = Update!NONE /\ NONE # 0 /\ NONE # -1
  BY DEF Update!NONE, NONE
<1>def. UNCHANGED definition
  BY DEF Next, vars, NothingDeclared, NameType, ResolvePackage, CreateBuilder,
     CreateFails, Crashes, Crash, AllocateScratch, AppendPiece, LosePiece,
     OpenFile, OpenFails, WriteFile, Free, Return
<1>wanted. Wanted' = Wanted
  BY <1>def DEF definition, Wanted
<1>will. pc \notin {"check", "done", "crashed"} => Wanted
  BY DEF EInv, Outcome, Wanted
<1>1. CASE NothingDeclared
  <2>1. State = "old" /\ Result = NONE /\ State' = "old" /\ Result' = 0 /\ ~Wanted
    BY <1>1 DEF EInv, Outcome, Before, NothingDeclared, State, Result, Wanted
  <2> QED
    BY <2>1, <1>none, <1>wanted DEF State, Result, Wanted, Update!Next, Update!Succeed
<1>2. CASE OpenFile
  <2>1. State = "old" /\ Result = NONE /\ Wanted
    BY <1>2, <1>will DEF EInv, Outcome, Before, OpenFile, State, Result
  <2>2. State' = "empty" /\ Result' = NONE
    BY <1>2, <1>old DEF OpenFile, State, Result, OLD, NONE
  <2> QED
    BY <2>1, <2>2, <1>none, <1>wanted DEF State, Result, Wanted, Update!Next, Update!Empty
<1>3. CASE WriteFile
  <2>1. State = "empty" /\ Result = NONE
    BY <1>3, <1>old DEF EInv, Outcome, WriteFile, State, Result
  <2>2. pc' = "free" /\ ret' = 0
    BY <1>3 DEF WriteFile
  <2>3. file' # OLD /\ OLD' = OLD /\ NONE' = NONE
    BY <2>2 DEF EInv, Outcome, OLD, NONE
  <2>4. State' \in {"new", "cut"} /\ Result' = NONE
    BY <2>2, <2>3 DEF State, Result
  <2> QED
    BY <2>1, <2>4, <1>none, <1>wanted DEF State, Result, Wanted, Update!Next, Update!Fill
<1>4. CASE Return
  <2>1. /\ pc = "free" /\ pc' = "done" /\ file' = file /\ ret' = ret /\ short' = short
        /\ ret \in {0, -1} /\ (ret = 0 => file # OLD) /\ (ret = -1 => file = OLD)
    BY <1>4 DEF EInv, Outcome, Return
  <2>2. Result = NONE /\ Result' = ret /\ State' = State /\ Wanted
    BY <2>1, <1>will DEF Result, State, OLD, NONE
  <2>3. CASE ret = 0
    <3>1. State \in {"new", "cut"}
      BY <2>1, <2>3 DEF State
    <3> QED
      BY <2>2, <2>3, <3>1, <1>none, <1>wanted
      DEF State, Result, Wanted, Update!Next, Update!Succeed
  <2>4. CASE ret = -1
    <3>1. State = "old"
      BY <2>1, <2>4 DEF State
    <3> QED
      BY <2>2, <2>4, <3>1, <1>none, <1>wanted
      DEF State, Result, Wanted, Update!Next, Update!Fail
  <2> QED
    BY <2>1, <2>3, <2>4
<1>5. CASE Free
  BY <1>5, <1>wanted DEF Free, State, Result, OLD, NONE
<1>6. CASE NameType \/ ResolvePackage \/ CreateBuilder \/ CreateFails \/ Crashes
           \/ AllocateScratch \/ AppendPiece \/ LosePiece \/ OpenFails
  <2>1. pc \in Before
    BY <1>6 DEF Before, NameType, ResolvePackage, CreateBuilder, CreateFails,
       Crashes, AllocateScratch, AppendPiece, LosePiece, Ready, OpenFails
  <2>2. file = OLD /\ file' = file /\ pc # "done" /\ pc' # "done"
    BY <1>6, <2>1 DEF EInv, Outcome, Before, NameType, ResolvePackage,
       CreateBuilder, CreateFails, Crashes, Crash, AllocateScratch, AppendPiece,
       LosePiece, OpenFails
  <2> QED
    BY <2>2, <1>wanted DEF State, Result, OLD, NONE
<1>7. CASE UNCHANGED vars
  BY <1>7, <1>wanted DEF vars, State, Result, OLD, NONE
<1> QED
  BY <1>1, <1>2, <1>3, <1>4, <1>5, <1>6, <1>7 DEF Next

(* The call updates its file once or not at all. *)
THEOREM EmitterKeepsUpdate == Spec => UpdateKept
<1>1. Init => Update!Init
  BY UpdateInit
<1>2. EInv /\ EInv' /\ [Next]_vars => [Update!Next]_Update!vars
  BY UpdateNext
<1> QED
  BY <1>1, <1>2, EmitterInvariant, PTL DEF Spec, UpdateKept, Update!Spec

================================================================================
