------------------------------ MODULE FileUpdate ------------------------------
(***************************************************************************)
(* What one call of a generate_java_*() function (src/src/java_record.c)   *)
(* promises about the file of its definition: the file of an earlier run   *)
(* is replaced once or not at all.  A call that returns -1 before that     *)
(* leaves it alone; otherwise the file is emptied, then holds the new text *)
(* or what the disk took of it.  0 means that the file was replaced, or    *)
(* that there was nothing to write: a typedef that declares nothing.       *)
(* Whether a cut file is reported is left open.  FileEmitter implements    *)
(* this module.                                                            *)
(***************************************************************************)
EXTENDS Integers

VARIABLES
  wanted,  \* the definition has a file
  state,   \* of the file: old, empty, cut or new
  result   \* NONE until the call returns

NONE == 99

vars == <<wanted, state, result>>

Init == wanted \in BOOLEAN /\ state = "old" /\ result = NONE

Empty ==
  /\ wanted /\ state = "old" /\ result = NONE
  /\ state' = "empty"
  /\ UNCHANGED <<wanted, result>>

Fill ==
  /\ state = "empty" /\ result = NONE
  /\ state' \in {"new", "cut"}
  /\ UNCHANGED <<wanted, result>>

(* 0 when the text has been handed over, or when there was nothing to do. *)
Succeed ==
  /\ result = NONE
  /\ IF wanted THEN state \in {"new", "cut"} ELSE state = "old"
  /\ result' = 0
  /\ UNCHANGED <<wanted, state>>

(* -1 with the old file in place, or to report a cut one. *)
Fail ==
  /\ wanted /\ result = NONE
  /\ state \in {"old", "cut"}
  /\ result' = -1
  /\ UNCHANGED <<wanted, state>>

Next == Empty \/ Fill \/ Succeed \/ Fail

Spec == Init /\ [][Next]_vars

=============================================================================
