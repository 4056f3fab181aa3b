------------------------------ MODULE MCSemantic -----------------------------
(* SemanticExchange on small instances. *)
EXTENDS SemanticExchange, TLC

(* The nightly job reads every document, a repair the first.               *)
MCItems == [j \in Job |-> IF j \in Repairs THEN <<1>> ELSE SetToSortSeq(Doc, <)]

(* The nightly job and the repairs have a prompt each, so a later repair   *)
(* may be made from the readings of an earlier one.                        *)
MCPrompt == [j \in Job |-> j]

MCSymmetry == Permutations(Worker) \cup Permutations(Repairs)
=============================================================================
