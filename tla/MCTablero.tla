----------------------------- MODULE MCTablero -----------------------------
(***************************************************************************)
(* The lists and the map share only the mounting of the page and the park  *)
(* of a row, and in the map the heat layer and what the user looks at only *)
(* the mounting: a behaviour explores one of the three in full, and the    *)
(* others only as far as the first needs them.                             *)
(***************************************************************************)
EXTENDS Tablero, TLC

VARIABLE escena

DeMapa == {"calor", "vista"}

todas == <<vars, escena>>

\* Before the session, or back on a dashboard that was left
InitEscenas ==
  \/ Init /\ escena = "listas"
  \/ /\ InitMapa /\ escena \in DeMapa
     /\ version = 1 /\ avisos = {} /\ cierre = SinCierre
     /\ sesion = TRUE /\ montada = FALSE /\ conexion = "conectada"
     /\ exigida = [k \in Listas |-> Ninguna]
     /\ consulta = [k \in Listas |-> [Vacia EXCEPT !.datos = 1, !.pedida = TRUE]]

NextEscenas ==
  /\ Next
  /\ escena = "listas" => varsMapa' = varsMapa \/ listo' # listo
  /\ escena = "calor" => vista' = vista /\ foco' = foco
  /\ escena = "vista" => "heatmap" \notin capas'
  /\ escena \in DeMapa =>
        <<servidor, cierre, conexion, consulta>>' = <<servidor, cierre, conexion, consulta>>
  /\ UNCHANGED escena

EnMapa(A) == escena \in DeMapa /\ A /\ UNCHANGED <<varsPanel, escena>>
EnListas(A) == escena = "listas" /\ A /\ UNCHANGED <<varsMapa, escena>>

\* The fairness of FairSpec, of what each behaviour explores
SpecEscenas ==
  /\ InitEscenas /\ [][NextEscenas]_todas
  /\ \A k \in Listas : /\ WF_todas(EnListas(Sondear(k)))
                       /\ WF_todas(EnListas(Atender(k)))
                       /\ SF_todas(EnListas(Recibir(k)))
  /\ \A k \in Claves : /\ WF_todas(EnMapa(SondearMapa(k)))
                       /\ SF_todas(EnMapa(ResponderMapa(k)))

=============================================================================
