-------------------------- MODULE MCAdvertisement --------------------------
(* Advertisement with one client: what a client writes late competes with  *)
(* the polls and with the session.                                         *)
EXTENDS Advertisement
=============================================================================
