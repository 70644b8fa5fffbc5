------------------------------ MODULE Request ------------------------------
(* What one API request promises its caller: it ends exactly once, with an    *)
(* answer, an error, or - only when the caller's context was cancelled - an   *)
(* abort.  Retry implements it; Collect is written in terms of it.            *)
VARIABLES cancelled, result

Init == cancelled = FALSE /\ result = "pending"

\* The caller's context ends: a signal, or a sibling's failure.
Cancel == /\ ~cancelled
          /\ cancelled' = TRUE
          /\ UNCHANGED result

\* The request ends with something to hand back, or with an error of its own.
Resolve == /\ result = "pending"
           /\ result' \in {"answer", "error"}
           /\ UNCHANGED cancelled

\* The request gives up because its caller did.
Abort == /\ result = "pending"
         /\ cancelled
         /\ result' = "aborted"
         /\ UNCHANGED cancelled

Next == Cancel \/ Resolve \/ Abort

Spec == Init /\ [][Next]_<<cancelled, result>>
=============================================================================
