--------------------------- MODULE MCHttpsClient ---------------------------
(* HttpsClient on small instances for TLC. *)
EXTENDS HttpsClient, TLC

Symmetry == Permutations(Conns) \cup Permutations(Hosts) \cup Permutations(Workers)
=============================================================================
