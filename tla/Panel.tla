------------------------------- MODULE Panel -------------------------------
(***************************************************************************)
(* The lists of the dashboard and how they follow the table of alerts: the *)
(* queries of @tanstack/react-query with their polling, the messages that  *)
(* AlertsGateway relays to the socket of the page, useAlertsSocket, which  *)
(* invalidates two of the queries, and the closing of an alert from its    *)
(* row.  What a list shows is the version of the table its answer was read *)
(* from.  Answers are late or fail, messages are late, out of order or     *)
(* lost, and the page is left, entered again and logged out of meanwhile.  *)
(***************************************************************************)
EXTENDS Naturals

CONSTANTS
  Listas,       \* queries of the dashboard that poll
  MaxVersion,   \* bound on the versions of the table
  PuedeCerrar,  \* TRUE: the role is admin or operador
  FallaAPI      \* TRUE: requests may fail

\* The queries a message of the channel invalidates
Avisadas == {"alertas", "alertas-summary"}

Versiones == 1..MaxVersion
Ninguna == 0

ASSUME PanelAssumption ==
  /\ Avisadas \subseteq Listas
  /\ MaxVersion \in Nat \ {0}
  /\ PuedeCerrar \in BOOLEAN /\ FallaAPI \in BOOLEAN

VARIABLES
  version,   \* of the table of alerts
  avisos,    \* versions published on the channel and not relayed yet
  sesion,    \* the store has an access token
  montada,   \* the dashboard is on the screen
  conexion,  \* the socket of the page
  consulta,  \* consulta[k]: datos shown, and its request, if any
  cierre,    \* the PATCH of the button that closes an alert
  exigida    \* history: exigida[k]: newest version list k was told of, and not
             \* by a request that failed

servidor == <<version, avisos>>
pagina == <<sesion, montada, conexion>>
varsPanel == <<version, avisos, sesion, montada, conexion, consulta, cierre, exigida>>

\* leida: the version the server read for the answer on its way
Consulta == [datos : {Ninguna} \cup Versiones, pedida : BOOLEAN,
             leida : {Ninguna} \cup Versiones]
Cierre == [pedida : BOOLEAN, leida : {Ninguna} \cup Versiones]

\* Shows d, and nothing is asked for
EnReposo(d) == [datos |-> d, pedida |-> FALSE, leida |-> Ninguna]

Vacia == EnReposo(Ninguna)
SinCierre == [pedida |-> FALSE, leida |-> Ninguna]

TypeOKPanel ==
  /\ version \in Versiones
  /\ avisos \subseteq Versiones
  /\ sesion \in BOOLEAN /\ montada \in BOOLEAN
  /\ conexion \in {"ninguna", "conectando", "conectada"}
  /\ consulta \in [Listas -> Consulta]
  /\ cierre \in Cierre
  /\ exigida \in [Listas -> {Ninguna} \cup Versiones]

InitPanel ==
  /\ version = 1 /\ avisos = {}
  /\ sesion = FALSE /\ montada = FALSE /\ conexion = "ninguna"
  /\ consulta = [k \in Listas |-> Vacia]
  /\ cierre = SinCierre
  /\ exigida = [k \in Listas |-> Ninguna]

-----------------------------------------------------------------------------
(* react-query *)

\* A request that is already in flight is joined
Pedir(c) == [c EXCEPT !.pedida = TRUE]

\* An invalidation cancels it and asks again, unless it is the first one
Invalidada(c) ==
  IF c.pedida /\ c.datos = Ninguna THEN c
  ELSE [c EXCEPT !.pedida = TRUE, !.leida = Ninguna]

\* Only the queries on the screen are asked for again
Invalidar(K) ==
  consulta' = [k \in Listas |->
                 IF montada /\ k \in K THEN Invalidada(consulta[k]) ELSE consulta[k]]

\* History: the lists K that show something learn that there is version v
Exigir(K, v) ==
  exigida' = [k \in Listas |->
                IF montada /\ k \in K /\ consulta[k].datos # Ninguna /\ exigida[k] < v
                  THEN v ELSE exigida[k]]

\* Mutated form: the metrics rely on the messages
SondearSoloAlertas(k) ==
  /\ montada /\ k = "alertas" /\ ~consulta[k].pedida
  /\ consulta' = [consulta EXCEPT ![k] = Pedir(@)]
  /\ UNCHANGED <<servidor, pagina, cierre, exigida>>

\* refetchInterval
Sondear(k) ==
  /\ montada /\ ~consulta[k].pedida
  /\ consulta' = [consulta EXCEPT ![k] = Pedir(@)]
  /\ UNCHANGED <<servidor, pagina, cierre, exigida>>

Atender(k) ==
  /\ consulta[k].pedida /\ consulta[k].leida = Ninguna
  /\ consulta' = [consulta EXCEPT ![k].leida = version]
  /\ UNCHANGED <<servidor, pagina, cierre, exigida>>

Recibir(k) ==
  /\ consulta[k].leida # Ninguna
  /\ consulta' = [consulta EXCEPT ![k] = EnReposo(consulta[k].leida)]
  /\ UNCHANGED <<servidor, pagina, cierre, exigida>>

\* The request and its retry fail, whether or not the server had read the
\* table: the list keeps what it shows
Fallar(k) ==
  /\ FallaAPI /\ consulta[k].leida # Ninguna
  /\ consulta' = [consulta EXCEPT ![k] = EnReposo(consulta[k].datos)]
  /\ exigida' = [exigida EXCEPT ![k] = Ninguna]
  /\ UNCHANGED <<servidor, pagina, cierre>>

\* The cache drops what no page has shown for 5 minutes
Olvidar(k) ==
  /\ ~montada /\ consulta[k] # Vacia /\ ~consulta[k].pedida
  /\ consulta' = [consulta EXCEPT ![k] = Vacia]
  /\ exigida' = [exigida EXCEPT ![k] = Ninguna]
  /\ UNCHANGED <<servidor, pagina, cierre>>

-----------------------------------------------------------------------------
(* Server *)

\* A change of the table is committed and then published, or its publish fails
Cambio(publica) ==
  /\ version < MaxVersion
  /\ version' = version + 1
  /\ avisos' = IF publica THEN avisos \cup {version'} ELSE avisos

\* By the engine, the poller or another operator
Cambiar(publica) ==
  /\ Cambio(publica)
  /\ UNCHANGED <<pagina, consulta, cierre, exigida>>

\* Mutated form: the counters of the metrics are not invalidated
RetransmitirSinResumen(v) ==
  /\ v \in avisos /\ avisos' = avisos \ {v}
  /\ conexion = "conectada"
  /\ Invalidar({"alertas"}) /\ Exigir(Avisadas, v)
  /\ UNCHANGED <<version, pagina, cierre>>

\* The gateway emits the message and the handler of the page invalidates
Retransmitir(v) ==
  /\ v \in avisos /\ avisos' = avisos \ {v}
  /\ conexion = "conectada"
  /\ Invalidar(Avisadas) /\ Exigir(Avisadas, v)
  /\ UNCHANGED <<version, pagina, cierre>>

\* Published while the subscriber or the socket was disconnected
PerderAviso(v) ==
  /\ v \in avisos /\ avisos' = avisos \ {v}
  /\ UNCHANGED <<version, pagina, consulta, cierre, exigida>>

-----------------------------------------------------------------------------
(* Page *)

Entrar ==
  /\ ~sesion /\ sesion' = TRUE
  /\ UNCHANGED <<servidor, montada, conexion, consulta, cierre, exigida>>

\* Every query is stale when its page mounts; getSocket keeps a live socket
MontarPanel ==
  /\ sesion /\ ~montada /\ montada' = TRUE
  /\ conexion' = IF conexion = "conectada" THEN conexion ELSE "conectando"
  /\ consulta' = [k \in Listas |-> Pedir(consulta[k])]
  /\ UNCHANGED <<servidor, sesion, cierre, exigida>>

\* Another page: the handler is removed, the socket and the requests go on
DesmontarPanel ==
  /\ montada /\ montada' = FALSE
  /\ UNCHANGED <<servidor, sesion, conexion, consulta, cierre, exigida>>

\* Without a token Protected leaves the dashboard; the cache and the socket stay
SalirPanel ==
  /\ sesion /\ sesion' = FALSE /\ montada' = FALSE
  /\ UNCHANGED <<servidor, conexion, consulta, cierre, exigida>>

Conectar ==
  /\ conexion = "conectando" /\ conexion' = "conectada"
  /\ UNCHANGED <<servidor, sesion, montada, consulta, cierre, exigida>>

\* reconnection: the socket tries again by itself
Cortar ==
  /\ conexion = "conectada" /\ conexion' = "conectando"
  /\ UNCHANGED <<servidor, sesion, montada, consulta, cierre, exigida>>

\* The x of a row, confirmed; isPending disables it meanwhile
PulsarCerrar ==
  /\ PuedeCerrar /\ montada /\ consulta["alertas"].datos # Ninguna
  /\ cierre = SinCierre /\ cierre' = [cierre EXCEPT !.pedida = TRUE]
  /\ UNCHANGED <<servidor, pagina, consulta, exigida>>

\* A publish that fails answers an error, with the row already closed
AtenderCierre(publica) ==
  /\ cierre.pedida /\ cierre.leida = Ninguna
  /\ Cambio(publica)
  /\ cierre' = IF publica THEN [cierre EXCEPT !.leida = version'] ELSE SinCierre
  /\ UNCHANGED <<pagina, consulta, exigida>>

\* onSuccess invalidates the list of alerts only
RecibirCierre ==
  /\ cierre.leida # Ninguna /\ cierre' = SinCierre
  /\ Invalidar({"alertas"}) /\ Exigir({"alertas"}, cierre.leida)
  /\ UNCHANGED <<servidor, pagina>>

FallarCierre ==
  /\ FallaAPI /\ cierre.pedida /\ cierre' = SinCierre
  /\ UNCHANGED <<servidor, pagina, consulta, exigida>>

\* What leaves the page where it is
PasoPanel ==
  \/ \E k \in Listas : Sondear(k) \/ Atender(k) \/ Recibir(k) \/ Fallar(k) \/ Olvidar(k)
  \/ \E publica \in BOOLEAN : Cambiar(publica) \/ AtenderCierre(publica)
  \/ \E v \in Versiones : Retransmitir(v) \/ PerderAviso(v)
  \/ Entrar \/ Conectar \/ Cortar
  \/ PulsarCerrar \/ RecibirCierre \/ FallarCierre

\* Timers fire, and not every request fails
ConsultaJusta(k) ==
  /\ WF_varsPanel(Sondear(k)) /\ WF_varsPanel(Atender(k)) /\ SF_varsPanel(Recibir(k))

-----------------------------------------------------------------------------
(* Properties *)

\* Once a list that shows something was told of a change, by a message or by
\* the answer to its own closing, it does not settle on an older answer, the
\* one that was on its way included; only a request that fails excuses it.
AvisoRefresca == \A k \in Listas : ~consulta[k].pedida => consulta[k].datos >= exigida[k]

\* The lists of an open dashboard keep catching up with the table, whatever
\* messages and answers are lost.
PanelConverge == \A k \in Listas : []<>(montada => consulta[k].datos = version)

=============================================================================
