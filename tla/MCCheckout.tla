----------------------------- MODULE MCCheckout -----------------------------
(***************************************************************************)
(* Small instances of Checkout for TLC.                                    *)
(***************************************************************************)
EXTENDS Checkout, TLC

CONSTANT Stranger  \* a quote for another customer; the others share theirs

TwoCustomers == [c \in Checkouts |-> IF c = Stranger THEN "other" ELSE "one"]
OnePackage   == [c \in Checkouts |-> "package"]

Symmetry == Permutations(Attempts) \union Permutations(Requests)
=============================================================================
