----------------------------- MODULE MCDelivery -----------------------------
(***************************************************************************)
(* Small instances of Delivery: the commands are interchangeable.           *)
(***************************************************************************)
EXTENDS Delivery, TLC

\* Sound for the safety runs only.
Symmetry == Permutations(Commands)
===============================================================================
