------------------------------ MODULE ClassFiles ------------------------------
(***************************************************************************)
(* What a user of the output directory may rely on: a file changes only to *)
(* hold a class that belongs there, a run that reports success has written *)
(* every file anew, and a run that was killed has spoilt one file at most. *)
(***************************************************************************)
VARIABLES
  path,    \* where the class of each definition belongs
  files,   \* what is there
  fresh,   \* the paths this run has written
  status   \* "running", then "success", "failure" or "killed"

vars == <<path, files, fresh, status>>

Holding(d, whole) ==
  [files EXCEPT ![path[d]] = [of |-> d, whole |-> whole]]

Init ==
  /\ DOMAIN files = {path[d] : d \in DOMAIN path}
  /\ fresh = {}
  /\ status = "running"

Write ==
  /\ status = "running"
  /\ \E d \in DOMAIN path, whole \in BOOLEAN :
       files' = Holding(d, whole) /\ fresh' = fresh \cup {path[d]}
  /\ UNCHANGED <<path, status>>

ReportSuccess ==
  /\ status = "running"
  /\ fresh = DOMAIN files
  /\ status' = "success"
  /\ UNCHANGED <<path, files, fresh>>

ReportFailure ==
  /\ status = "running"
  /\ status' = "failure"
  /\ UNCHANGED <<path, files, fresh>>

Kill ==
  /\ status = "running"
  /\ \/ UNCHANGED files
     \/ \E d \in DOMAIN path : files' = Holding(d, FALSE)
  /\ status' = "killed"
  /\ UNCHANGED <<path, fresh>>

Rerun ==
  /\ status # "running"
  /\ status' = "running"
  /\ fresh' = {}
  /\ UNCHANGED <<path, files>>

Next == Write \/ ReportSuccess \/ ReportFailure \/ Kill \/ Rerun

Spec == Init /\ [][Next]_vars

=============================================================================
