------------------------------ MODULE Tablero ------------------------------
(***************************************************************************)
(* DashboardPage: the lists of alerts and metrics (Panel) and the map      *)
(* (Mapa), mounted and unmounted together.  A row of the list of alerts    *)
(* asks the map to show its park.                                          *)
(***************************************************************************)
EXTENDS Panel, Mapa

vars == <<varsPanel, varsMapa>>

TypeOK == TypeOKPanel /\ TypeOKMapa /\ listo = montada

Init == InitPanel /\ InitMapa

Montar == MontarPanel /\ MontarMapa

Desmontar == DesmontarPanel /\ DesmontarMapa

\* Closing the session from another page, or from this one
Salir ==
  /\ SalirPanel
  /\ IF listo THEN DesmontarMapa ELSE UNCHANGED varsMapa

PulsarAlerta(p) ==
  /\ consulta["alertas"].datos # Ninguna
  /\ Enfocar(p) /\ UNCHANGED varsPanel

Next ==
  \/ PasoPanel /\ UNCHANGED varsMapa
  \/ PasoMapa /\ UNCHANGED varsPanel
  \/ Montar \/ Desmontar \/ Salir
  \/ \E p \in Parques : PulsarAlerta(p)

Spec == Init /\ [][Next]_vars

\* The user, the network and the other actors of the table may do nothing
FairSpec ==
  /\ Spec
  /\ \A k \in Listas : ConsultaJusta(k)
  /\ \A k \in Claves : MapaJusto(k)

=============================================================================
