------------------------------ MODULE MCAcceso ------------------------------
(* Symmetry of the model values of Acceso.  A request, a page or a challenge  *)
(* is only ever compared with others of its kind.                             *)
EXTENDS Acceso, TLC

Simetria == Permutations(Paginas) \cup Permutations(Peticiones)

=============================================================================
