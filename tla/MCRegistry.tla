----------------------------- MODULE MCRegistry ------------------------------
(* ModelRegistry on a small instance. *)
EXTENDS ModelRegistry

MCRoleOrder == <<"ranker", "portfolio">>
=============================================================================
