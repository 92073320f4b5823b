---------------------------- MODULE MCRespaldos ----------------------------
(* Instances of Respaldos for TLC: reports of one author, and requests, are  *)
(* interchangeable.                                                          *)
EXTENDS Respaldos, TLC

Simetria == Permutations(Informes \ Programados) \cup Permutations(Peticiones)
              \cup Permutations(Trabajos)

=============================================================================
