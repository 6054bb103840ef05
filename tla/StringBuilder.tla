---------------------------- MODULE StringBuilder ----------------------------
(***************************************************************************)
(* The growing text buffer in which a Java file is put together            *)
(* (src/src/string_builder.c).  A call of sb_append() or sb_appendf() is   *)
(* split where it can fail or loop: the test of the capacity, each turn of *)
(* the doubling loop, realloc(), and memcpy().  The heap block is a        *)
(* sequence of bytes as long as the block, so that a write beyond it, a    *)
(* lost byte or a misplaced terminator shows.                              *)
(*                                                                         *)
(* A definition named X_Bug is X with a bug a change of the code might     *)
(* bring in; no specification uses it, it shows that a property can fail.  *)
(***************************************************************************)
EXTENDS Integers, Sequences

CONSTANTS
  Byte,          \* the bytes a string is made of
  NUL,           \* the terminating byte
  JUNK,          \* a byte of the heap nobody wrote
  Strings,       \* what the callers append
  NoString,      \* no append is in progress
  InitCapacity,  \* the first capacity: 1024 in the code
  TmpSize,       \* sizeof(tmp) in sb_appendf: 1024 in the code
  MaxLength,     \* bound: the longest text that fits into memory
  SizeMod        \* size_t counts modulo this

ASSUME BytesAssumption == NUL \notin Byte /\ JUNK \notin Byte /\ NUL # JUNK
ASSUME StringsAssumption == Strings \subseteq Seq(Byte) /\ NoString \notin Seq(Byte)
ASSUME SizesAssumption ==
  /\ InitCapacity \in Nat \ {0} /\ TmpSize \in Nat \ {0} /\ MaxLength \in Nat
  /\ SizeMod \in Nat
  /\ 2 * InitCapacity < SizeMod /\ 2 * (MaxLength + 1) < SizeMod

VARIABLES
  pc,            \* absent, idle, append, grow, copy or crashed
  buffer,        \* the heap block sb->buffer points to
  length,        \* sb->length
  capacity,      \* sb->capacity
  asked,         \* the string the caller wants appended
  str,           \* the parameter str of sb_append
  new_capacity,  \* the local of sb_append
  scratch,       \* sb_appendf holds a heap copy of the formatted string
  result         \* what the last append returned

sb == <<buffer, length, capacity>>
vars == <<pc, sb, asked, str, new_capacity, scratch, result>>

Cell == Byte \cup {NUL, JUNK}

Init ==
  /\ pc = "absent"
  /\ buffer = <<>> /\ length = 0 /\ capacity = 0
  /\ asked = NoString
  /\ str = <<>>
  /\ new_capacity = 0
  /\ scratch = FALSE
  /\ result = 0

(* sb_create(): an empty string in a fresh block.  Without memory for the
   builder itself it returns NULL and nothing changes. *)
Create ==
  /\ pc = "absent"
  /\ buffer' = [i \in 1..InitCapacity |-> IF i = 1 THEN NUL ELSE JUNK]
  /\ capacity' = InitCapacity
  /\ length' = 0
  /\ pc' = "idle"
  /\ UNCHANGED <<asked, str, new_capacity, scratch, result>>

(* sb_create() does not look at malloc's answer before it writes the
   terminator; nor does sb_appendf before it formats into the block. *)
Crash ==
  /\ pc' = "crashed"
  /\ UNCHANGED <<sb, asked, str, new_capacity, scratch, result>>

CreateCrashes == pc = "absent" /\ Crash

AppendString(s) ==
  /\ pc = "idle"
  /\ length + Len(s) <= MaxLength
  /\ asked' = s
  /\ str' = s
  /\ pc' = "append"
  /\ UNCHANGED <<sb, new_capacity, scratch, result>>

(* What vsnprintf stores of s in an array of the given size. *)
Printed(s, size) == SubSeq(s, 1, IF Len(s) < size THEN Len(s) ELSE size - 1)

AppendFormatted_CutsAtTmpSize(s) ==
  /\ pc = "idle"
  /\ length + Len(s) <= MaxLength
  /\ asked' = s
  /\ IF Len(s) > TmpSize
     THEN str' = Printed(s, Len(s) + 1) /\ scratch' = TRUE
     ELSE str' = Printed(s, TmpSize) /\ UNCHANGED scratch
  /\ pc' = "append"
  /\ UNCHANGED <<sb, new_capacity, result>>

(* sb_appendf() of something that is formatted as s: through tmp if it fits
   there with its terminator, else through a block of the right size. *)
AppendFormatted(s) ==
  /\ pc = "idle"
  /\ length + Len(s) <= MaxLength
  /\ asked' = s
  /\ IF Len(s) >= TmpSize
     THEN str' = Printed(s, Len(s) + 1) /\ scratch' = TRUE
     ELSE str' = Printed(s, TmpSize) /\ UNCHANGED scratch
  /\ pc' = "append"
  /\ UNCHANGED <<sb, new_capacity, result>>

AppendFormattedCrashes(s) ==
  /\ pc = "idle"
  /\ length + Len(s) <= MaxLength
  /\ Len(s) >= TmpSize
  /\ Crash

(* vsnprintf returns a negative number. *)
AppendFormattedFails ==
  /\ pc = "idle"
  /\ result' = -1
  /\ UNCHANGED <<pc, sb, asked, str, new_capacity, scratch>>

needed_NoTerminator == (length + Len(str)) % SizeMod

(* The capacity it takes, as size_t computes it. *)
needed == (length + Len(str) + 1) % SizeMod

(* Back in the caller; sb_appendf frees its block on the way. *)
Done(answer) ==
  /\ pc' = "idle"
  /\ asked' = NoString
  /\ scratch' = FALSE
  /\ result' = answer

Grow_Twice ==
  /\ pc = "append"
  /\ needed > capacity
  /\ new_capacity' = (capacity * 2 * 2) % SizeMod
  /\ pc' = "grow"
  /\ UNCHANGED <<sb, asked, str, scratch, result>>

(* The string does not fit: double at least once. *)
Grow ==
  /\ pc = "append"
  /\ needed > capacity
  /\ new_capacity' = (capacity * 2) % SizeMod
  /\ pc' = "grow"
  /\ UNCHANGED <<sb, asked, str, scratch, result>>

Double_FromCapacity ==
  /\ pc = "grow"
  /\ needed > new_capacity
  /\ new_capacity' = (capacity * 2) % SizeMod
  /\ UNCHANGED <<pc, sb, asked, str, scratch, result>>

Double ==
  /\ pc = "grow"
  /\ needed > new_capacity
  /\ new_capacity' = (new_capacity * 2) % SizeMod
  /\ UNCHANGED <<pc, sb, asked, str, scratch, result>>

(* realloc() keeps what is in the block. *)
Reallocate ==
  /\ pc = "grow"
  /\ needed <= new_capacity
  /\ buffer' = [i \in 1..new_capacity |->
                  IF i <= Len(buffer) THEN buffer[i] ELSE JUNK]
  /\ capacity' = new_capacity
  /\ pc' = "copy"
  /\ UNCHANGED <<length, asked, str, new_capacity, scratch, result>>

(* realloc() fails: the text stays as it is and the append returns -1. *)
ReallocateFails ==
  /\ pc = "grow"
  /\ needed <= new_capacity
  /\ Done(-1)
  /\ UNCHANGED <<sb, str, new_capacity>>

(* memcpy of the string with its terminator to the end of the text. *)
CopyReady == pc = "copy" \/ (pc = "append" /\ needed <= capacity)

Copy_CountsTerminator ==
  /\ CopyReady
  /\ length' = length + Len(str) - 1
  /\ Done(0)
  /\ UNCHANGED <<buffer, capacity, str, new_capacity>>

Copy ==
  /\ CopyReady
  /\ buffer' = [i \in 1..Len(buffer) |->
                  IF i <= length \/ i > length + Len(str) + 1 THEN buffer[i]
                  ELSE IF i = length + Len(str) + 1 THEN NUL
                  ELSE str[i - length]]
  /\ length' = length + Len(str)
  /\ Done(0)
  /\ UNCHANGED <<capacity, str, new_capacity>>

Destroy ==
  /\ pc = "idle"
  /\ buffer' = <<>> /\ length' = 0 /\ capacity' = 0
  /\ pc' = "absent"
  /\ UNCHANGED <<asked, str, new_capacity, scratch, result>>

Working == Grow \/ Double \/ Reallocate \/ ReallocateFails \/ Copy

Next ==
  \/ Create \/ CreateCrashes
  \/ \E s \in Strings :
       AppendString(s) \/ AppendFormatted(s) \/ AppendFormattedCrashes(s)
  \/ AppendFormattedFails
  \/ Working
  \/ Destroy

Spec == Init /\ [][Next]_vars

(* A call that was made runs on; nobody has to make one. *)
FairSpec == Spec /\ WF_vars(Working)

-----------------------------------------------------------------------------

(* The type of every variable. *)
TypeOK ==
  /\ pc \in {"absent", "idle", "append", "grow", "copy", "crashed"}
  /\ buffer \in Seq(Cell)
  /\ length \in Nat /\ capacity \in Nat /\ new_capacity \in Nat
  /\ asked \in Strings \cup {NoString}
  /\ str \in Seq(Byte)
  /\ scratch \in BOOLEAN
  /\ result \in {0, -1}

(* memcpy in sb_append stays inside the heap block, terminator included
   (src/src/string_builder.c:54), whatever was appended and refused before
   and however often the block was moved. *)
CopyInBounds == CopyReady => length + Len(str) + 1 <= Len(buffer)

(* The block is never much larger than the text: at rest it has its first
   size or less than twice what the text needs
   (src/src/string_builder.c:45-48). *)
CapacityBounded ==
  pc = "idle" => capacity = InitCapacity \/ capacity < 2 * (length + 1)

(* Every append returns: the doubling loop ends before size_t wraps to 0
   (src/src/string_builder.c:46-48). *)
AppendReturns == pc \in {"append", "grow", "copy"} ~> pc = "idle"

(* sb_string(): what a reader finds up to the first terminator. *)
Readable(b) ==
  LET ends == {i \in 1..Len(b) : b[i] = NUL}
  IN IF ends = {} THEN b
     ELSE SubSeq(b, 1, (CHOOSE i \in ends : \A j \in ends : i <= j) - 1)

(* The builder implements TextBuffer: what sb_string() returns is the
   concatenation of the strings whose append returned 0, and a string that
   is as long as tmp is not cut (src/src/string_builder.c:42-79). *)
Text == INSTANCE TextBuffer WITH text <- Readable(buffer)
TextKept == Text!Spec

-----------------------------------------------------------------------------

(***************************************************************************)
(* The inductive invariant behind the properties above.                    *)
(***************************************************************************)
Live == pc \in {"idle", "append", "grow", "copy"}
Busy == pc \in {"append", "grow", "copy"}
WorkFits == length + Len(str) <= MaxLength

(* The block holds length bytes of text and a terminator. *)
TextInBlock ==
  /\ capacity = Len(buffer)
  /\ Live => /\ length + 1 <= capacity
             /\ \A i \in 1..length : buffer[i] \in Byte
             /\ buffer[length + 1] = NUL
             /\ length <= MaxLength
  /\ pc = "absent" => buffer = <<>>

(* What is being appended is what was asked for, and it fits into memory. *)
AskedFor ==
  /\ Busy => asked \in Strings /\ str = asked /\ WorkFits
  /\ pc \in {"absent", "idle"} => asked = NoString

(* The new capacity grows from the old one to less than twice the need. *)
GrowthBounded ==
  /\ pc \in {"idle", "append", "grow"} =>
       capacity = InitCapacity \/ capacity < 2 * (length + 1)
  /\ pc = "grow" => /\ new_capacity > capacity
                    /\ new_capacity < 2 * (length + Len(str) + 1)
  /\ pc = "copy" => /\ length + Len(str) + 1 <= capacity
                    /\ capacity < 2 * (length + Len(str) + 1)

BInv == TypeOK /\ TextInBlock /\ AskedFor /\ GrowthBounded

=============================================================================
