--------------------------- MODULE GenerateContract ---------------------------
(***************************************************************************)
(* What the plugin promises the IDL compiler, without saying how the tree  *)
(* is walked: it attempts to generate every definition, in any order and   *)
(* any number of times, and only then reports; it reports success exactly  *)
(* when no attempt failed, and success means that every definition was     *)
(* written.                                                                *)
(***************************************************************************)
EXTENDS IdlTree

VARIABLES
  ast,        \* the tree to generate code for
  attempted,  \* the definitions attempted so far
  written,    \* those for which an attempt succeeded
  failed,     \* whether an attempt failed
  status      \* "running", then "success", "failure" or "nothing"

vars == <<ast, attempted, written, failed, status>>

Init ==
  /\ WellFormed(ast)
  /\ attempted = {}
  /\ written = {}
  /\ failed = FALSE
  /\ status = "running"

Attempt(d, success) ==
  /\ status = "running"
  /\ attempted' = attempted \cup {d}
  /\ written' = IF success THEN written \cup {d} ELSE written
  /\ failed' = (failed \/ ~success)
  /\ UNCHANGED <<ast, status>>

ReportSuccess ==
  /\ status = "running"
  /\ ast.root # NULL
  /\ ~failed
  /\ attempted = Definitions(ast)
  /\ written = Definitions(ast)
  /\ status' = "success"
  /\ UNCHANGED <<ast, attempted, written, failed>>

ReportFailure ==
  /\ status = "running"
  /\ ast.root # NULL
  /\ failed
  /\ attempted = Definitions(ast)
  /\ status' = "failure"
  /\ UNCHANGED <<ast, attempted, written, failed>>

ReportNothing ==
  /\ status = "running"
  /\ ast.root = NULL
  /\ attempted = {}
  /\ status' = "nothing"
  /\ UNCHANGED <<ast, attempted, written, failed>>

Next ==
  \/ \E d \in Definitions(ast), success \in BOOLEAN : Attempt(d, success)
  \/ ReportSuccess
  \/ ReportFailure
  \/ ReportNothing

Spec == Init /\ [][Next]_vars

=============================================================================
