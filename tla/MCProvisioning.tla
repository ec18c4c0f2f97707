--------------------------- MODULE MCProvisioning ---------------------------
(***************************************************************************)
(* Small instances of Provisioning for TLC.                                *)
(***************************************************************************)
EXTENDS Provisioning, TLC

\* Every application has a name of its own.
OwnNames == [x \in Apps \union {Starter} |-> x]

\* Bounds of the run with retries: at most two different rows read by retries, which
\* is enough for a late one to take back what an earlier one granted, and no duplicate
\* application, which the run about duplicates is for.
FewReads == Cardinality(retrying) <= 2
OneCopy == \A n \in Names : copies[n] <= 1

Symmetry == Permutations(Workers)
=============================================================================
