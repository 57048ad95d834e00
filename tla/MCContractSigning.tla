-------------------------- MODULE MCContractSigning --------------------------
(***************************************************************************)
(* ContractSigning for TLC.  Requests and signatures are model values the  *)
(* specification never orders or names, so they are taken up to            *)
(* permutation.                                                            *)
(***************************************************************************)
EXTENDS ContractSigning, TLC

\* A request dies or two overlap, not both: a request that stops for good is
\* already one of the overlapping ones.
DiesOrOverlaps == aborts = 0 \/ ~overlapped

\* Once two have overlapped every document bears the terms as they are: what is
\* said of documents then does not look at their terms.
Documents == ({contract.html, mailed} \cup {req[r].html : r \in Requests}) \ {None}

SameTerms == overlapped => \A html \in Documents : html.terms = terms

Symmetry == Permutations(Requests) \cup Permutations(Clients)
                \cup Permutations(Versions) \cup Permutations(Terms)
=============================================================================
