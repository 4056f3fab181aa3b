------------------------------- MODULE MCPaper ------------------------------
(* PaperAccount on small instances. *)
EXTENDS PaperAccount, TLC

(* A normal row, and a limit price that forbids selling.                   *)
MCBans == {{}, {"sell"}}

(* No definition tells one code from another.                              *)
MCSymmetry == Permutations(Codes)
=============================================================================
