-------------------------- MODULE MCInstallmentPlan --------------------------
(***************************************************************************)
(* InstallmentPlan for TLC.                                                *)
(***************************************************************************)
EXTENDS InstallmentPlan, TLC

\* What makes a case harder: a request that dies, a second session, an
\* instalment settled at the agency, two forms open, a form that is stale.
Complications ==
    {c \in {"death", "session", "desk", "forms", "stale"} :
        \/ c = "death" /\ aborts > 0
        \/ c = "session" /\ \A s \in Sessions : stripe[s].state # "unused"
        \/ c = "desk" /\ declared # {}
        \/ c = "forms" /\ Cardinality(forms) > 1
        \/ c = "stale" /\ (undone \/ \E form \in forms : form.captured # row.captured)}

\* One at a time, or a stale form and a second session or form.
FewAtATime ==
    \/ Cardinality(Complications) <= 1
    \/ Complications \in {{"stale", c} : c \in {"session", "forms"}}

Symmetry == Permutations(Sessions)
=============================================================================
