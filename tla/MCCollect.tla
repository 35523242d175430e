------------------------------- MODULE MCCollect -------------------------------
(***************************************************************************)
(* A small instance of Collect: a conditional feed and a page that is asked *)
(* without cursor, with a document each.                                    *)
(***************************************************************************)
EXTENDS Collect, TLC

CONSTANTS d1, d2

MCDocs == {d1, d2}
MCSourceOf == d1 :> 1 @@ d2 :> 2
===============================================================================
