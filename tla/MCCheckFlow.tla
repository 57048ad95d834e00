------------------------------ MODULE MCCheckFlow ------------------------------
(***************************************************************************)
(* CheckFlow for TLC.  Requests are taken up to permutation.                *)
(***************************************************************************)
EXTENDS CheckFlow, TLC

\* What happens to the reservation itself is interleaved with nothing, no property
\* of the requests that interleave being about it; nor are the edits of the
\* check-out's form, which are like those of the check-in's.  The last half-day
\* is like the one before.
OnlyFormsOverlap ==
    overlapped => /\ rental.payment = "paid" /\ now < 3
                  /\ \A q \in OutQuestions : form[q] = "required"
                  /\ \A r \in Requests : req[r].task \notin {"edit", "move"}

Symmetry == Permutations(Requests)
===============================================================================
