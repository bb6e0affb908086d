---------------------------- MODULE WriteService ----------------------------
(***************************************************************************)
(* What a namespace writer promises to the clients of its rows, whatever   *)
(* its queues, locks and flushes do: a row is accepted or refused once, an *)
(* accepted row is written at most once and only before its answer, and it *)
(* is acknowledged only after it was written.  A failed row may have been  *)
(* written: the client cannot tell.                                        *)
(***************************************************************************)
EXTENDS Sequences, SequencesExt

CONSTANT Row

VARIABLES
  status,  \* of each row
  log      \* the rows of the namespace, in file order

vars == <<status, log>>

Init ==
  /\ status = [r \in Row |-> "new"]
  /\ log = <<>>

\* The rows of one call are accepted together.
Accept ==
  \E S \in SUBSET Row :
    /\ \A r \in S : status[r] = "new"
    /\ status' = [r \in Row |-> IF r \in S THEN "pending" ELSE status[r]]
    /\ UNCHANGED log

\* A pending row is appended.
Write ==
  \E r \in Row :
    /\ status[r] = "pending"
    /\ r \notin ToSet(log)
    /\ log' = Append(log, r)
    /\ UNCHANGED status

\* What one row may be answered at this point.
Answers(r) ==
  CASE status[r] = "new" -> {"new", "refused"}
    [] status[r] = "pending" /\ r \in ToSet(log) -> {"pending", "ok", "failed"}
    [] status[r] = "pending" /\ r \notin ToSet(log) -> {"pending", "failed"}
    [] OTHER -> {status[r]}

\* Any number of rows are answered at once.
Answer ==
  /\ DOMAIN status' = Row
  /\ \A r \in Row : status'[r] \in Answers(r)
  /\ UNCHANGED log

Next == Accept \/ Write \/ Answer

Spec == Init /\ [][Next]_vars
=============================================================================
