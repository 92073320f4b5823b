------------------------------ MODULE MCReglas ------------------------------
(***************************************************************************)
(* The editor meets the list only through the request that saves a draft:  *)
(* a behaviour explores either the list with several requests at once, or  *)
(* the editor with one.                                                    *)
(***************************************************************************)
EXTENDS Reglas, TLC

VARIABLE escena

todas == <<vars, escena>>

InitEscenas == Init /\ escena \in {"lista", "editor"}

NextEscenas ==
  /\ Next
  /\ escena = "lista" => editor' = Cerrado
  /\ escena = "editor" =>
       \A q, k \in Peticiones : peticion'[q] # Libre /\ peticion'[k] # Libre => q = k
  /\ UNCHANGED escena

SpecEscenas == InitEscenas /\ [][NextEscenas]_todas

Simetria == Permutations(Reglas) \cup Permutations(Peticiones)

=============================================================================
