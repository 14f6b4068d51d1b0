------------------------------ MODULE MCServices ------------------------------
(* The services of one type of credential, or of two. *)
EXTENDS Services
=============================================================================
