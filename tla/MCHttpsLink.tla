---------------------------- MODULE MCHttpsLink ----------------------------
(* HttpsLink needs no constants but its bound. *)
EXTENDS HttpsLink
=============================================================================
