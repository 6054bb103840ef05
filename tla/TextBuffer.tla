------------------------------ MODULE TextBuffer ------------------------------
(***************************************************************************)
(* What a text under construction promises its users: a string that is     *)
(* handed to it is added at the end, whole and once, or refused, in which  *)
(* case the text stays what it was; nothing else changes the text.         *)
(***************************************************************************)
EXTENDS Sequences, Integers

CONSTANTS
  Strings,   \* what the users append
  NoString   \* no append is in progress

VARIABLES
  text,      \* what sb_string() reads
  asked,     \* the string being appended
  result     \* what the last append returned

vars == <<text, asked, result>>

Init == text = <<>> /\ asked = NoString /\ result = 0

Ask(s) ==
  /\ asked = NoString
  /\ asked' = s
  /\ UNCHANGED <<text, result>>

Accept ==
  /\ asked # NoString
  /\ text' = text \o asked
  /\ asked' = NoString
  /\ result' = 0

Refuse ==
  /\ asked # NoString
  /\ asked' = NoString
  /\ result' = -1
  /\ UNCHANGED text

(* A string that cannot even be formatted is refused at once. *)
RefuseAtOnce ==
  /\ asked = NoString
  /\ result' = -1
  /\ UNCHANGED <<text, asked>>

Clear ==
  /\ asked = NoString
  /\ text' = <<>>
  /\ UNCHANGED <<asked, result>>

Next == (\E s \in Strings : Ask(s)) \/ Accept \/ Refuse \/ RefuseAtOnce \/ Clear

Spec == Init /\ [][Next]_vars

=============================================================================
