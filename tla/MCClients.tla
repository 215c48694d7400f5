----------------------------- MODULE MCClients -----------------------------
(* Clients with few clients and short limits; clients of one protocol are  *)
(* alike.                                                                  *)
EXTENDS Clients

Symmetry == Permutations(PgxlClients) \cup Permutations(TgxlClients)
=============================================================================
