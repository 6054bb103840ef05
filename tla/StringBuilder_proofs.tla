------------------------- MODULE StringBuilder_proofs -------------------------
(***************************************************************************)
(* Proofs about the text buffer, for every set of strings and every size.  *)
(***************************************************************************)
EXTENDS StringBuilder, TLAPS

(* The sizes the code computes do not wrap while the text fits into memory. *)
LEMMA NoWrap ==
  ASSUME NEW x \in Nat, NEW m \in Nat, x < m
  PROVE  x % m = x
OBVIOUS

(* The sum and its double do not wrap around. *)
LEMMA NeededIsExact ==
  ASSUME BInv, Busy
  PROVE  /\ needed = length + Len(str) + 1
         /\ needed \in Nat \ {0}
         /\ 2 * needed < SizeMod
<1>. DEFINE n == length + Len(str) + 1
<1>1. n \in Nat /\ n <= MaxLength + 1
  BY SizesAssumption DEF BInv, TypeOK, AskedFor, WorkFits
<1>2. n < SizeMod /\ 2 * n < SizeMod
  BY <1>1, SizesAssumption
<1>3. n % SizeMod = n
  BY <1>1, <1>2, NoWrap, SizesAssumption
<1>. QED
  BY <1>1, <1>2, <1>3 DEF needed, BInv, TypeOK

-----------------------------------------------------------------------------

(* The builder starts in its invariant. *)
LEMMA InitBInv == Init => BInv
<1>. SUFFICES ASSUME Init PROVE BInv
  OBVIOUS
<1>1. buffer \in Seq(Cell) /\ Len(buffer) = 0 /\ str \in Seq(Byte)
  BY DEF Init
<1>2. TypeOK
  BY <1>1 DEF Init, TypeOK
<1>. QED
  BY <1>1, <1>2
  DEF Init, BInv, TextInBlock, AskedFor, GrowthBounded, Live, Busy

(* sb_create() keeps the invariant. *)
LEMMA CreateBInv == BInv /\ Create => BInv'
<1>. SUFFICES ASSUME BInv, Create PROVE BInv'
  OBVIOUS
<1>1. /\ buffer' \in Seq(Cell)
      /\ Len(buffer') = InitCapacity
      /\ buffer'[1] = NUL
  BY SizesAssumption DEF Create, Cell
<1>2. TypeOK'
  BY <1>1, SizesAssumption DEF BInv, TypeOK, Create
<1>3. TextInBlock'
  BY <1>1, SizesAssumption DEF Create, TextInBlock, Live
<1>. QED
  BY <1>2, <1>3 DEF BInv, Create, AskedFor, GrowthBounded, Busy

(* So does a crash. *)
LEMMA CrashBInv == BInv /\ Crash => BInv'
BY DEF BInv, TypeOK, Crash, sb, TextInBlock, AskedFor, GrowthBounded, Live, Busy

(* Whatever sb_appendf printed into an array that is large enough is the
   whole string. *)
LEMMA PrintedWhole ==
  ASSUME NEW s \in Seq(Byte), NEW size \in Nat, Len(s) < size
  PROVE  Printed(s, size) = s
BY DEF Printed

(* So does the call of an append. *)
LEMMA AppendBInv ==
  ASSUME BInv, NEW s \in Strings, AppendString(s) \/ AppendFormatted(s)
  PROVE  BInv'
<1>1. s \in Seq(Byte) /\ Len(s) \in Nat
  BY StringsAssumption
<1>2. /\ pc = "idle" /\ pc' = "append" /\ asked' = s
      /\ length + Len(s) <= MaxLength
      /\ UNCHANGED <<sb, new_capacity, result>>
  BY DEF AppendString, AppendFormatted
<1>3. str' = s /\ scratch' \in BOOLEAN
  <2>1. CASE AppendString(s)
    BY <2>1 DEF AppendString, BInv, TypeOK
  <2>2. CASE AppendFormatted(s)
    <3>1. Len(s) < Len(s) + 1 /\ Len(s) + 1 \in Nat
      BY <1>1
    <3>2. Len(s) >= TmpSize \/ Len(s) < TmpSize
      BY <1>1, SizesAssumption
    <3>3. str' = s
      BY <1>1, <2>2, <3>1, <3>2, PrintedWhole, SizesAssumption
      DEF AppendFormatted
    <3>. QED
      BY <2>2, <3>3 DEF AppendFormatted, BInv, TypeOK
  <2>. QED
    BY <2>1, <2>2
<1>4. TypeOK'
  BY <1>1, <1>2, <1>3 DEF BInv, TypeOK, sb
<1>. QED
  BY <1>1, <1>2, <1>3, <1>4
  DEF BInv, sb, TextInBlock, AskedFor, GrowthBounded, Live, Busy, WorkFits

(* So does an append whose text cannot be formatted. *)
LEMMA AppendFormattedFailsBInv == BInv /\ AppendFormattedFails => BInv'
BY DEF BInv, TypeOK, AppendFormattedFails, sb, TextInBlock, AskedFor,
       GrowthBounded, Live, Busy, WorkFits

(* So does the choice between growing and copying. *)
LEMMA GrowBInv ==
  ASSUME BInv, Grow
  PROVE  BInv'
<1>1. needed = length + Len(str) + 1 /\ needed \in Nat /\ 2 * needed < SizeMod
  BY NeededIsExact DEF Grow, Busy
<1>2. capacity \in Nat /\ capacity > 0 /\ capacity < needed
  BY <1>1 DEF BInv, TypeOK, TextInBlock, Live, Grow
<1>3. new_capacity' = 2 * capacity
  BY <1>1, <1>2, NoWrap, SizesAssumption DEF Grow
<1>4. TypeOK'
  BY <1>2, <1>3 DEF BInv, TypeOK, Grow, sb
<1>. QED
  BY <1>1, <1>2, <1>3, <1>4
  DEF BInv, Grow, sb, TextInBlock, AskedFor, GrowthBounded, Live, Busy, WorkFits

(* So does a turn of the doubling loop. *)
LEMMA DoubleBInv ==
  ASSUME BInv, Double
  PROVE  BInv'
<1>1. needed = length + Len(str) + 1 /\ needed \in Nat /\ 2 * needed < SizeMod
  BY NeededIsExact DEF Double, Busy
<1>2. /\ new_capacity \in Nat /\ capacity \in Nat
      /\ new_capacity > capacity /\ new_capacity < needed
  BY <1>1 DEF BInv, TypeOK, GrowthBounded, Double
<1>3. new_capacity' = 2 * new_capacity
  <2>1. new_capacity * 2 \in Nat /\ new_capacity * 2 < SizeMod
    BY <1>1, <1>2, SizesAssumption
  <2>2. (new_capacity * 2) % SizeMod = new_capacity * 2
    BY <2>1, NoWrap, SizesAssumption
  <2>. QED
    BY <1>2, <2>2 DEF Double
<1>4. TypeOK'
  BY <1>2, <1>3 DEF BInv, TypeOK, Double, sb
<1>. QED
  BY <1>1, <1>2, <1>3, <1>4
  DEF BInv, Double, sb, TextInBlock, AskedFor, GrowthBounded, Live, Busy,
      WorkFits

(* So does a larger block with the old bytes in it. *)
LEMMA ReallocateBInv ==
  ASSUME BInv, Reallocate
  PROVE  BInv'
<1>1. needed = length + Len(str) + 1 /\ needed \in Nat
  BY NeededIsExact DEF Reallocate, Busy
<1>2. /\ new_capacity \in Nat /\ length \in Nat /\ capacity \in Nat
      /\ buffer \in Seq(Cell) /\ capacity = Len(buffer)
      /\ length + 1 <= capacity
      /\ new_capacity > capacity
  BY DEF BInv, TypeOK, TextInBlock, GrowthBounded, Reallocate, Live
<1>3. /\ buffer' \in Seq(Cell)
      /\ Len(buffer') = new_capacity
      /\ \A i \in 1..Len(buffer) : buffer'[i] = buffer[i]
  BY <1>2 DEF Reallocate, Cell
<1>4. TypeOK'
  BY <1>2, <1>3 DEF BInv, TypeOK, Reallocate
<1>5. TextInBlock'
  BY <1>2, <1>3 DEF BInv, TextInBlock, Reallocate, Live
<1>. QED
  BY <1>1, <1>2, <1>4, <1>5
  DEF BInv, Reallocate, AskedFor, GrowthBounded, Busy, WorkFits

(* So does a refused block: the old one stays. *)
LEMMA ReallocateFailsBInv ==
  ASSUME BInv, ReallocateFails
  PROVE  BInv'
BY DEF BInv, TypeOK, ReallocateFails, Done, sb, TextInBlock, AskedFor,
       GrowthBounded, Live, Busy, WorkFits

(* The copy ends with its terminator inside the block, whether the block
   was large enough or has just been made so. *)
LEMMA CopyFits ==
  ASSUME BInv, CopyReady
  PROVE  length + Len(str) + 1 <= Len(buffer)
<1>1. needed = length + Len(str) + 1
  BY NeededIsExact DEF CopyReady, Busy
<1>. QED
  BY <1>1 DEF CopyReady, BInv, TextInBlock, GrowthBounded

(* What memcpy leaves in the block. *)
LEMMA CopyEffect ==
  ASSUME BInv, Copy
  PROVE  /\ buffer' \in Seq(Cell)
         /\ Len(buffer') = Len(buffer)
         /\ length' = length + Len(str) /\ length' \in Nat
         /\ \A i \in 1..length : buffer'[i] = buffer[i] /\ buffer'[i] \in Byte
         /\ \A i \in length + 1..length' : /\ buffer'[i] = str[i - length]
                                           /\ buffer'[i] \in Byte
         /\ buffer'[length' + 1] = NUL
<1>1. /\ length \in Nat /\ str \in Seq(Byte) /\ Len(str) \in Nat
      /\ buffer \in Seq(Cell) /\ Len(buffer) \in Nat
      /\ length + Len(str) + 1 <= Len(buffer)
      /\ length' = length + Len(str)
      /\ \A i \in 1..length : buffer[i] \in Byte
  BY CopyFits DEF BInv, TypeOK, Copy, TextInBlock, CopyReady, Live
<1>2. /\ buffer' \in Seq(Cell)
      /\ Len(buffer') = Len(buffer)
      /\ \A i \in 1..Len(buffer) :
           buffer'[i] = IF i <= length \/ i > length + Len(str) + 1 THEN buffer[i]
                        ELSE IF i = length + Len(str) + 1 THEN NUL
                        ELSE str[i - length]
  <2>1. ASSUME NEW i \in 1..Len(buffer), ~(i <= length),
               ~(i > length + Len(str) + 1), i # length + Len(str) + 1
        PROVE  str[i - length] \in Byte
    <3>1. i - length \in 1..Len(str)
      BY <1>1, <2>1
    <3>. QED
      BY <1>1, <3>1
  <2>. QED
    BY <1>1, <2>1 DEF Copy, Cell
<1>3. \A i \in length + 1..length' : i - length \in 1..Len(str)
  BY <1>1
<1>4. \A i \in length + 1..length' : str[i - length] \in Byte
  BY <1>1, <1>3
<1>. QED
  BY <1>1, <1>2, <1>4

(* The copy stays inside the block. *)
LEMMA CopyBInv ==
  ASSUME BInv, Copy
  PROVE  BInv'
<1>1. TypeOK'
  BY CopyEffect DEF BInv, TypeOK, Copy, Done
<1>2. /\ length \in Nat /\ capacity \in Nat /\ Len(str) \in Nat
      /\ length + Len(str) + 1 <= Len(buffer)
      /\ capacity = Len(buffer)
      /\ length + Len(str) <= MaxLength
  BY CopyFits
  DEF BInv, TypeOK, Copy, TextInBlock, AskedFor, Busy, WorkFits, CopyReady
<1>3. TextInBlock'
  <2>1. \A i \in 1..length' : i \in 1..length \/ i \in length + 1..length'
    BY <1>2, CopyEffect
  <2>2. \A i \in 1..length' : buffer'[i] \in Byte
    BY <2>1, CopyEffect
  <2>3. pc' = "idle" /\ capacity' = capacity
    BY DEF Copy, Done
  <2>. QED
    BY <1>2, <2>2, <2>3, CopyEffect DEF TextInBlock
<1>4. capacity = InitCapacity \/ capacity < 2 * (length + Len(str) + 1)
  BY <1>2 DEF BInv, GrowthBounded, Copy, CopyReady
<1>. QED
  BY <1>1, <1>2, <1>3, <1>4, CopyEffect
  DEF BInv, Copy, Done, AskedFor, GrowthBounded, Busy

(* So does sb_destroy(). *)
LEMMA DestroyBInv == BInv /\ Destroy => BInv'
<1>. SUFFICES ASSUME BInv, Destroy PROVE BInv'
  OBVIOUS
<1>1. buffer' \in Seq(Cell) /\ Len(buffer') = 0
  BY DEF Destroy
<1>2. TypeOK'
  BY <1>1 DEF BInv, TypeOK, Destroy
<1>. QED
  BY <1>1, <1>2
  DEF BInv, Destroy, TextInBlock, AskedFor, GrowthBounded, Live, Busy

(* Every step keeps the invariant of the builder. *)
LEMMA NextBInv == BInv /\ [Next]_vars => BInv'
<1>. SUFFICES ASSUME BInv, [Next]_vars PROVE BInv'
  OBVIOUS
<1>1. CASE UNCHANGED vars
  BY <1>1 DEF vars, sb, BInv, TypeOK, TextInBlock, AskedFor, GrowthBounded,
              Live, Busy, WorkFits
<1>. QED
  BY <1>1, CreateBInv, CrashBInv, AppendBInv, AppendFormattedFailsBInv,
     GrowBInv, DoubleBInv, ReallocateBInv, ReallocateFailsBInv, CopyBInv,
     DestroyBInv
  DEF Next, Working, CreateCrashes, AppendFormattedCrashes

(* The strengthened invariant holds in every reachable state. *)
THEOREM BufferInvariant == Spec => []BInv
BY InitBInv, NextBInv, PTL DEF Spec

(* Every variable of the builder keeps its type. *)
THEOREM BufferTypeOK == Spec => []TypeOK
<1>1. BInv => TypeOK
  BY DEF BInv
<1>. QED
  BY <1>1, BufferInvariant, PTL

(* No append writes beyond the heap block, for any strings, any first
   capacity and any width of size_t in which the text fits. *)
THEOREM BufferCopyInBounds == Spec => []CopyInBounds
<1>1. BInv => CopyInBounds
  BY CopyFits DEF CopyInBounds
<1>. QED
  BY <1>1, BufferInvariant, PTL

(* The block stays below twice the size of the text, or at its first size. *)
THEOREM BufferCapacityBounded == Spec => []CapacityBounded
<1>1. BInv => CapacityBounded
  BY DEF BInv, GrowthBounded, CapacityBounded
<1>. QED
  BY <1>1, BufferInvariant, PTL

-----------------------------------------------------------------------------
(***************************************************************************)
(* The builder implements TextBuffer.                                      *)
(***************************************************************************)

(* sb_string() reads exactly the first length bytes. *)
LEMMA ReadableText ==
  ASSUME NEW b \in Seq(Cell), NEW n \in Nat, n + 1 <= Len(b),
         \A i \in 1..n : b[i] \in Byte, b[n + 1] = NUL
  PROVE  Readable(b) = SubSeq(b, 1, n)
<1>. DEFINE ends == {i \in 1..Len(b) : b[i] = NUL}
<1>1. n + 1 \in ends
  OBVIOUS
<1>2. \A i \in ends : n + 1 <= i
  BY BytesAssumption
<1>3. \A i \in ends : (\A j \in ends : i <= j) => i = n + 1
  BY <1>1, <1>2
<1>. DEFINE first == CHOOSE i \in ends : \A j \in ends : i <= j
<1>4. first = n + 1
  BY <1>1, <1>2, <1>3
<1>5. Readable(b) = SubSeq(b, 1, first - 1)
  BY <1>1, Zenon DEF Readable
<1>. HIDE DEF first
<1>. QED
  BY <1>4, <1>5

(* An empty block reads as the empty text. *)
LEMMA ReadableEmpty == Readable(<<>>) = <<>>
BY DEF Readable

(* The builder starts as the empty text. *)
LEMMA InitText == Init => Text!Init
BY ReadableEmpty DEF Init, Text!Init

(* Every step of the builder is a step of TextBuffer or a stutter. *)
LEMMA StepText == BInv /\ BInv' /\ [Next]_vars => [Text!Next]_(Text!vars)
<1>. SUFFICES ASSUME BInv, BInv', [Next]_vars
              PROVE  [Text!Next]_(Text!vars)
  OBVIOUS
<1>1. \A s \in Strings : s # NoString
  BY StringsAssumption
<1>2. CASE Create
  <2>1. Readable(buffer) = <<>>
    BY <1>2, ReadableEmpty DEF Create, BInv, TextInBlock
  <2>2. Readable(buffer') = SubSeq(buffer', 1, 0)
    BY <1>2, ReadableText DEF Create, BInv, TypeOK, TextInBlock, Live
  <2>3. SubSeq(buffer', 1, 0) = <<>>
    BY DEF BInv, TypeOK
  <2>. QED
    BY <1>2, <2>1, <2>2, <2>3 DEF Create, Text!vars
<1>3. CASE Destroy
  <2>1. Readable(buffer') = <<>>
    BY <1>3, ReadableEmpty DEF Destroy
  <2>2. asked = NoString
    BY <1>3 DEF Destroy, BInv, AskedFor
  <2>. QED
    BY <1>3, <2>1, <2>2 DEF Destroy, Text!Next, Text!Clear
<1>4. CASE \E s \in Strings : AppendString(s) \/ AppendFormatted(s)
  <2>1. PICK s \in Strings : AppendString(s) \/ AppendFormatted(s)
    BY <1>4
  <2>2. asked = NoString
    BY <2>1 DEF AppendString, AppendFormatted, BInv, AskedFor
  <2>3. Text!Ask(s)
    BY <2>1, <2>2 DEF AppendString, AppendFormatted, sb, Text!Ask
  <2>. QED
    BY <2>3 DEF Text!Next
<1>5. CASE AppendFormattedFails
  <2>1. asked = NoString
    BY <1>5 DEF AppendFormattedFails, BInv, AskedFor
  <2>. QED
    BY <1>5, <2>1 DEF AppendFormattedFails, sb, Text!Next, Text!RefuseAtOnce
<1>6. CASE Grow \/ Double \/ Crash \/ UNCHANGED vars
  BY <1>6 DEF Grow, Double, Crash, vars, sb, Text!vars
<1>7. CASE Reallocate
  <2>1. Readable(buffer) = SubSeq(buffer, 1, length)
    BY <1>7, ReadableText DEF Reallocate, BInv, TypeOK, TextInBlock, Live
  <2>2. Readable(buffer') = SubSeq(buffer', 1, length)
    BY <1>7, ReadableText DEF Reallocate, BInv, TypeOK, TextInBlock, Live
  <2>3. SubSeq(buffer', 1, length) = SubSeq(buffer, 1, length)
    <3>1. /\ length \in Nat /\ length <= Len(buffer)
          /\ length <= Len(buffer') /\ buffer \in Seq(Cell)
          /\ buffer' \in Seq(Cell)
      BY <1>7 DEF Reallocate, BInv, TypeOK, TextInBlock, Live
    <3>2. \A i \in 1..length : buffer'[i] = buffer[i]
      BY <1>7, <3>1 DEF Reallocate, BInv, GrowthBounded, TypeOK, TextInBlock
    <3>. QED
      BY <3>1, <3>2
  <2>. QED
    BY <1>7, <2>1, <2>2, <2>3 DEF Reallocate, Text!vars
<1>8. CASE ReallocateFails
  <2>1. asked # NoString
    BY <1>1, <1>8 DEF ReallocateFails, BInv, AskedFor, Busy
  <2>. QED
    BY <1>8, <2>1 DEF ReallocateFails, Done, sb, Text!Next, Text!Refuse
<1>9. CASE Copy
  <2>1. /\ asked # NoString /\ asked = str /\ str \in Seq(Byte)
    BY <1>1, <1>9
    DEF Copy, CopyReady, BInv, TypeOK, AskedFor, Busy
  <2>2. Readable(buffer) = SubSeq(buffer, 1, length)
    BY <1>9, ReadableText
    DEF Copy, CopyReady, BInv, TypeOK, TextInBlock, Live
  <2>3. Readable(buffer') = SubSeq(buffer', 1, length')
    BY <1>9, ReadableText DEF Copy, Done, BInv, TypeOK, TextInBlock, Live
  <2>4. /\ length \in Nat /\ Len(str) \in Nat
        /\ length + Len(str) + 1 <= Len(buffer)
        /\ buffer \in Seq(Cell)
    BY <1>9, CopyFits DEF Copy, BInv, TypeOK
  <2>5. SubSeq(buffer', 1, length') = SubSeq(buffer, 1, length) \o str
    BY <1>9, <2>1, <2>4, CopyEffect
  <2>. QED
    BY <1>9, <2>1, <2>2, <2>3, <2>5 DEF Copy, Done, Text!Next, Text!Accept
<1>. QED
  BY <1>2, <1>3, <1>4, <1>5, <1>6, <1>7, <1>8, <1>9
  DEF Next, Working, CreateCrashes, AppendFormattedCrashes

(* What sb_string() returns is always the concatenation of the strings that
   were accepted: growing, moving and refusing never lose, repeat or cut
   one. *)
THEOREM BufferKeepsText == Spec => TextKept
<1>. QED
  BY InitText, StepText, BufferInvariant, PTL DEF Spec, TextKept, Text!Spec

=============================================================================
