---------------------------- MODULE CicloAlerta ----------------------------
(***************************************************************************)
(* What the alert table promises to the rest of the platform, independent  *)
(* of how requests interleave: an alert is opened in a slot (park, kind)   *)
(* that has no other open alert, its opening is announced at most once,    *)
(* once closed it may be reclassified but never opens again, and it goes   *)
(* away only with its park.                                                *)
(***************************************************************************)

CONSTANTS
  Ids,         \* identifiers of alerts
  Parques,     \* parks
  SinParque,   \* "no park": alerts that belong to the whole system
  Tipos        \* kinds of alert

VARIABLES
  fase,        \* fase[id]: where the alert is in its life
  ranura,      \* ranura[id]: the slot it was opened in
  anunciadas   \* alerts whose opening was announced

vars == <<fase, ranura, anunciadas>>

Ranuras == [parque : Parques \cup {SinParque}, tipo : Tipos]

Finales == {"cerrada", "falsa"}

Init ==
  /\ fase = [id \in Ids |-> "nula"]
  /\ ranura \in [Ids -> Ranuras]
  /\ anunciadas = {}

Abierta(r) == \E id \in Ids : fase[id] = "activa" /\ ranura[id] = r

Abrir(id, r) ==
  /\ fase[id] = "nula"
  /\ r.parque = SinParque \/ ~Abierta(r)
  /\ fase' = [fase EXCEPT ![id] = "activa"]
  /\ ranura' = [ranura EXCEPT ![id] = r]
  /\ UNCHANGED anunciadas

Anunciar(id) ==
  /\ fase[id] # "nula"
  /\ id \notin anunciadas
  /\ anunciadas' = anunciadas \cup {id}
  /\ UNCHANGED <<fase, ranura>>

Cerrar(id, e) ==
  /\ fase[id] \in {"activa"} \cup Finales
  /\ fase' = [fase EXCEPT ![id] = e]
  /\ UNCHANGED <<ranura, anunciadas>>

RetirarParque(p) ==
  /\ fase' = [id \in Ids |->
                IF ranura[id].parque = p /\ fase[id] # "nula"
                  THEN "borrada" ELSE fase[id]]
  /\ UNCHANGED <<ranura, anunciadas>>

Next ==
  \/ \E id \in Ids, r \in Ranuras : Abrir(id, r)
  \/ \E id \in Ids : Anunciar(id)
  \/ \E id \in Ids, e \in Finales : Cerrar(id, e)
  \/ \E p \in Parques : RetirarParque(p)

Spec == Init /\ [][Next]_vars

=============================================================================
