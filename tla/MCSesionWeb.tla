---------------------------- MODULE MCSesionWeb ----------------------------
(* Instances of SesionWeb for TLC: requests, and calls of refresh, are       *)
(* interchangeable.                                                          *)
EXTENDS SesionWeb, TLC

Simetria == Permutations(Peticiones) \cup Permutations(Refrescos)

=============================================================================
