--------------------------- MODULE TableroProofs ---------------------------
(***************************************************************************)
(* The dashboard for every number of versions, lists, parks and layers:    *)
(* types, AvisoRefresca and CentroPedido.  No message is newer than the    *)
(* table, so what a list was told of is never more than what the next      *)
(* reading of the table answers (AlDia); and the park in the store, if it  *)
(* can be drawn, is the one last asked for (FocoDebido), so that mounting  *)
(* the map again cannot bring back another.                                *)
(***************************************************************************)
EXTENDS Tablero, TLAPS

\* Nobody speaks of a version that is not committed
Conocidas ==
  /\ \A v \in avisos : v <= version
  /\ cierre.leida <= version

\* A list at rest shows what it was told of, and an answer on its way brings it
AlDia ==
  \A k \in Listas :
    /\ exigida[k] <= version
    /\ ~consulta[k].pedida =>
         consulta[k].datos >= exigida[k] /\ consulta[k].leida = Ninguna
    /\ consulta[k].leida # Ninguna => consulta[k].leida >= exigida[k]

IInvPanel == TypeOKPanel /\ Conocidas /\ AlDia

FocoDebido == foco \in Dibujados => foco = debido

\* A map centred on a park has the parks drawn
CentroPintado == centro \in Dibujados => fuente["parques"] = "parques"

IInvMapa == TypeOKMapa /\ CentroPedido /\ FocoDebido /\ CentroPintado

IInv == IInvPanel /\ IInvMapa /\ listo = montada

-----------------------------------------------------------------------------
(* The lists *)

LEMMA InicioPanel == InitPanel => IInvPanel
<1> SUFFICES ASSUME InitPanel PROVE IInvPanel
  OBVIOUS
<1> USE PanelAssumption DEF PanelAssumption, InitPanel, Versiones, Ninguna
<1>1. Vacia \in Consulta /\ SinCierre \in Cierre
  BY DEF Vacia, EnReposo, Consulta, SinCierre, Cierre
<1>2. TypeOKPanel
  <2>1. sesion \in BOOLEAN /\ montada \in BOOLEAN
    OBVIOUS
  <2>2. consulta \in [Listas -> Consulta] /\ cierre \in Cierre
    BY <1>1
  <2>3. version \in Versiones /\ avisos \subseteq Versiones
    OBVIOUS
  <2>4. QED
    BY <2>1, <2>2, <2>3 DEF TypeOKPanel
<1>3. Conocidas /\ AlDia
  BY DEF Conocidas, AlDia, Vacia, EnReposo, SinCierre
<1>4. QED
  BY <1>2, <1>3 DEF IInvPanel

\* An invalidation asks again, or leaves alone a list that shows nothing yet.
LEMMA InvalidarTipo ==
  ASSUME consulta \in [Listas -> Consulta], NEW K, Invalidar(K)
  PROVE  /\ consulta' \in [Listas -> Consulta]
         /\ \A k \in Listas :
              \/ consulta'[k] = consulta[k] /\ (~montada \/ k \notin K \/ consulta[k].datos = Ninguna)
              \/ consulta'[k].pedida /\ consulta'[k].leida = Ninguna
BY DEF Invalidar, Invalidada, Consulta, Ninguna

\* What a list is told of is what it knew or the version announced, and nothing
\* new unless it shows something and is asked for again.
LEMMA ExigirTipo ==
  ASSUME exigida \in [Listas -> {Ninguna} \cup Versiones], NEW K, NEW v \in Versiones, Exigir(K, v)
  PROVE  /\ exigida' \in [Listas -> {Ninguna} \cup Versiones]
         /\ \A k \in Listas :
              \/ exigida'[k] = exigida[k]
              \/ exigida'[k] = v /\ montada /\ k \in K /\ consulta[k].datos # Ninguna
BY DEF Exigir

\* A list told of version v and invalidated for it is still up to date.
LEMMA AvisadaAlDia ==
  ASSUME IInvPanel, NEW K, NEW v \in Versiones, v <= version,
         Invalidar(K), Exigir(K, v), version' = version
  PROVE  AlDia' /\ consulta' \in [Listas -> Consulta]
                /\ exigida' \in [Listas -> {Ninguna} \cup Versiones]
<1>1. /\ consulta' \in [Listas -> Consulta]
      /\ \A k \in Listas :
           \/ consulta'[k] = consulta[k] /\ (~montada \/ k \notin K \/ consulta[k].datos = Ninguna)
           \/ consulta'[k].pedida /\ consulta'[k].leida = Ninguna
  BY InvalidarTipo DEF IInvPanel, TypeOKPanel
<1>2. /\ exigida' \in [Listas -> {Ninguna} \cup Versiones]
      /\ \A k \in Listas :
           \/ exigida'[k] = exigida[k]
           \/ exigida'[k] = v /\ montada /\ k \in K /\ consulta[k].datos # Ninguna
  BY ExigirTipo DEF IInvPanel, TypeOKPanel
<1>3. AlDia'
  BY <1>1, <1>2 DEF AlDia, IInvPanel
<1> QED BY <1>1, <1>2, <1>3

\* Every step of the lists keeps them up to date.
LEMMA PasoDePanel ==
  ASSUME IInvPanel, PasoPanel
  PROVE  IInvPanel'
<1> USE DEF IInvPanel
<1>1. ASSUME NEW k \in Listas, Sondear(k)
      PROVE  IInvPanel'
  BY <1>1 DEF Sondear, TypeOKPanel, Conocidas, AlDia, Pedir, Consulta, servidor, pagina, Ninguna
<1>2. ASSUME NEW k \in Listas, Atender(k)
      PROVE  IInvPanel'
  BY <1>2 DEF Atender, TypeOKPanel, Conocidas, AlDia, Consulta, servidor, pagina, Ninguna, Versiones
<1>3. ASSUME NEW k \in Listas, Recibir(k)
      PROVE  IInvPanel'
  BY <1>3 DEF Recibir, TypeOKPanel, Conocidas, AlDia, Consulta, servidor, pagina, Vacia, EnReposo, Ninguna, Versiones
<1>4. ASSUME NEW k \in Listas, Fallar(k)
      PROVE  IInvPanel'
  <2>1. consulta[k].datos \in {Ninguna} \cup Versiones
    BY DEF TypeOKPanel, Consulta
  <2> DEFINE c == [datos |-> consulta[k].datos, pedida |-> FALSE, leida |-> Ninguna]
  <2>2. consulta' = [consulta EXCEPT ![k] = c] /\ exigida' = [exigida EXCEPT ![k] = Ninguna]
    BY <1>4 DEF Fallar, EnReposo
  <2>3. c \in Consulta
    BY <2>1 DEF Consulta, Ninguna
  <2>4. AlDia'
    BY <1>4, <2>1, <2>2 DEF Fallar, AlDia, TypeOKPanel, servidor, Ninguna, Versiones
  <2>5. TypeOKPanel' /\ Conocidas'
    <3> HIDE DEF c
    <3> QED BY <1>4, <2>2, <2>3 DEF Fallar, TypeOKPanel, Conocidas, servidor, pagina
  <2>6. QED
    BY <2>4, <2>5
<1>5. ASSUME NEW k \in Listas, Olvidar(k)
      PROVE  IInvPanel'
  BY <1>5 DEF Olvidar, TypeOKPanel, Conocidas, AlDia, Consulta, servidor, pagina, Vacia, EnReposo, Ninguna, Versiones
<1>6. ASSUME NEW publica \in BOOLEAN, Cambiar(publica)
      PROVE  IInvPanel'
  <2>1. version' \in Versiones /\ version' = version + 1
    BY <1>6, PanelAssumption DEF PanelAssumption, Cambiar, Cambio, TypeOKPanel, Versiones
  <2>2. TypeOKPanel'
    BY <1>6, <2>1 DEF Cambiar, Cambio, TypeOKPanel, pagina
  <2>3. Conocidas' /\ AlDia'
    BY <1>6, <2>1
       DEF Cambiar, Cambio, TypeOKPanel, Conocidas, AlDia, pagina, Versiones, Ninguna, Cierre
  <2>4. QED
    BY <2>2, <2>3
<1>7. ASSUME NEW publica \in BOOLEAN, AtenderCierre(publica)
      PROVE  IInvPanel'
  <2>1. version' \in Versiones /\ version' = version + 1
    BY <1>7, PanelAssumption DEF PanelAssumption, AtenderCierre, Cambio, TypeOKPanel, Versiones
  <2>2. cierre' \in Cierre /\ cierre'.leida \in {Ninguna, version'}
    BY <1>7, <2>1 DEF AtenderCierre, TypeOKPanel, Cierre, SinCierre
  <2>3. TypeOKPanel'
    BY <1>7, <2>1, <2>2 DEF AtenderCierre, Cambio, TypeOKPanel, pagina
  <2>4. Conocidas' /\ AlDia'
    BY <1>7, <2>1, <2>2
       DEF AtenderCierre, Cambio, TypeOKPanel, Conocidas, AlDia, pagina, Versiones, Ninguna
  <2>5. QED
    BY <2>3, <2>4
<1>8. ASSUME NEW v \in Versiones, Retransmitir(v)
      PROVE  IInvPanel'
  <2>1. v <= version /\ Invalidar(Avisadas) /\ Exigir(Avisadas, v) /\ version' = version
    BY <1>8 DEF Retransmitir, Conocidas
  <2>2. AlDia' /\ consulta' \in [Listas -> Consulta]
               /\ exigida' \in [Listas -> {Ninguna} \cup Versiones]
    BY <2>1, AvisadaAlDia
  <2>3. QED
    BY <1>8, <2>2 DEF Retransmitir, TypeOKPanel, Conocidas, pagina
<1>9. ASSUME NEW v \in Versiones, PerderAviso(v)
      PROVE  IInvPanel'
  BY <1>9 DEF PerderAviso, TypeOKPanel, Conocidas, AlDia, pagina
<1>10. CASE RecibirCierre
  <2>1. /\ cierre.leida \in Versiones /\ cierre.leida <= version
        /\ Invalidar({"alertas"}) /\ Exigir({"alertas"}, cierre.leida) /\ version' = version
    BY <1>10 DEF RecibirCierre, Conocidas, TypeOKPanel, Cierre, servidor
  <2>2. AlDia' /\ consulta' \in [Listas -> Consulta]
               /\ exigida' \in [Listas -> {Ninguna} \cup Versiones]
    BY <2>1, AvisadaAlDia
  <2>3. QED
    BY <1>10, <2>2
       DEF RecibirCierre, TypeOKPanel, Conocidas, servidor, pagina, SinCierre, Cierre, Ninguna, Versiones
<1>11. CASE PulsarCerrar \/ FallarCierre
  <2>1. cierre' \in Cierre /\ cierre'.leida = Ninguna
    <3>1. CASE PulsarCerrar
      <4>1. cierre \in Cierre /\ cierre.leida = Ninguna
        BY <3>1 DEF PulsarCerrar, TypeOKPanel, SinCierre
      <4>2. QED
        BY <3>1, <4>1 DEF PulsarCerrar, Cierre
    <3>2. CASE FallarCierre
      BY <3>2 DEF FallarCierre, SinCierre, Cierre, Ninguna
    <3>3. QED
      BY <1>11, <3>1, <3>2
  <2>2. Ninguna <= version
    BY DEF TypeOKPanel, Versiones, Ninguna
  <2>3. QED
    BY <1>11, <2>1, <2>2
       DEF PulsarCerrar, FallarCierre, TypeOKPanel, Conocidas, AlDia, servidor, pagina
<1>12. CASE Entrar \/ Conectar \/ Cortar
  BY <1>12 DEF Entrar, Conectar, Cortar, TypeOKPanel, Conocidas, AlDia, servidor
<1>13. QED
  BY <1>1, <1>2, <1>3, <1>4, <1>5, <1>6, <1>7, <1>8, <1>9, <1>10, <1>11, <1>12 DEF PasoPanel

\* So do opening the page, leaving it and closing the session.
LEMMA PaginaDePanel ==
  ASSUME IInvPanel, MontarPanel \/ DesmontarPanel \/ SalirPanel
  PROVE  IInvPanel'
<1> USE DEF IInvPanel, TypeOKPanel, Conocidas, AlDia, servidor
<1>1. CASE MontarPanel
  BY <1>1 DEF MontarPanel, Pedir, Consulta
<1>2. CASE DesmontarPanel \/ SalirPanel
  BY <1>2 DEF DesmontarPanel, SalirPanel
<1>3. QED
  BY <1>1, <1>2

-----------------------------------------------------------------------------
(* The map *)

LEMMA InicioMapa == InitMapa => IInvMapa
BY MapaAssumption
   DEF MapaAssumption, InitMapa, IInvMapa, TypeOKMapa, CentroPedido, FocoDebido, CentroPintado, TiposCalor, EnBlanco,
       DeEntrada, Claves, ConDatos, Nada

\* What the effects leave in the sources, and what the layers ask for.
LEMMA PintarTipo ==
  ASSUME NEW f \in [ConDatos -> Claves \cup {Nada}], NEW t \in TiposCalor, NEW datos
  PROVE  Pintar(f, datos, t) \in [ConDatos -> Claves \cup {Nada}]
BY DEF Pintar, Clave, Claves, ConDatos

LEMMA PintarParques ==
  ASSUME NEW f, f["parques"] = "parques", NEW t \in TiposCalor, NEW datos
  PROVE  Pintar(f, datos, t)["parques"] = "parques"
BY MapaAssumption DEF MapaAssumption, Pintar, Clave, ConDatos

LEMMA ObservadasTipo ==
  ASSUME NEW t \in TiposCalor, NEW activas
  PROVE  Observadas(activas, t) \subseteq Claves
BY DEF Observadas, Clave, Claves, ConDatos

LEMMA PasoDeMapa ==
  ASSUME IInvMapa, PasoMapa
  PROVE  IInvMapa'
<1> USE MapaAssumption DEF MapaAssumption, IInvMapa, TypeOKMapa, CentroPedido, FocoDebido, CentroPintado
<1>1. ASSUME NEW k \in Claves, SondearMapa(k) \/ FallarMapa(k) \/ OlvidarMapa(k)
      PROVE  IInvMapa'
  BY <1>1 DEF SondearMapa, FallarMapa, OlvidarMapa, componente, vista
<1>2. ASSUME NEW k \in Claves, ResponderMapa(k)
      PROVE  IInvMapa'
  <2>1. /\ fuente' \in [ConDatos -> Claves \cup {Nada}]
        /\ fuente["parques"] = "parques" => fuente'["parques"] = "parques"
    BY <1>2, PintarTipo, PintarParques DEF ResponderMapa
  <2>2. QED
    BY <1>2, <2>1 DEF ResponderMapa
<1>3. ASSUME NEW c \in Capas, Conmutar(c)
      PROVE  IInvMapa'
  <2>1. pedidas' \subseteq Claves
    BY <1>3, ObservadasTipo DEF Conmutar
  <2>2. QED
    BY <1>3, <2>1 DEF Conmutar, vista
<1>4. ASSUME NEW t \in TiposCalor, ElegirTipo(t)
      PROVE  IInvMapa'
  <2>1. /\ fuente' \in [ConDatos -> Claves \cup {Nada}] /\ pedidas' \subseteq Claves
        /\ fuente["parques"] = "parques" => fuente'["parques"] = "parques"
    BY <1>4, PintarTipo, PintarParques DEF ElegirTipo, Clave, Claves
  <2>2. QED
    BY <1>4, <2>1 DEF ElegirTipo, vista
<1>5. CASE PulsarMapa \/ Arrastrar \/ CerrarFicha
  BY <1>5 DEF PulsarMapa, Arrastrar, CerrarFicha, componente
<1>6. CASE VistaGeneral
  BY <1>6 DEF VistaGeneral, componente
<1>7. QED
  BY <1>1, <1>2, <1>3, <1>4, <1>5, <1>6 DEF PasoMapa

LEMMA PaginaDeMapa ==
  ASSUME IInvMapa, MontarMapa \/ DesmontarMapa \/ (\E p \in Parques : Enfocar(p))
  PROVE  IInvMapa'
<1> USE MapaAssumption DEF MapaAssumption, IInvMapa, TypeOKMapa, CentroPedido, FocoDebido, CentroPintado
<1>1. CASE MontarMapa
  <2>1. "incendio" \in TiposCalor /\ EnBlanco \in [ConDatos -> Claves \cup {Nada}]
    BY DEF TiposCalor, EnBlanco
  <2>2. fuente' \in [ConDatos -> Claves \cup {Nada}] /\ pedidas' \subseteq Claves
    BY <1>1, <2>1, PintarTipo, ObservadasTipo DEF MontarMapa
  <2>3. capas' \subseteq Capas
    BY <1>1 DEF MontarMapa, DeEntrada
  <2>4. QED
    BY <1>1, <2>1, <2>2, <2>3 DEF MontarMapa, Mostrable
<1>2. CASE DesmontarMapa
  BY <1>2 DEF DesmontarMapa, DeEntrada, TiposCalor, EnBlanco
<1>3. ASSUME NEW p \in Parques, Enfocar(p)
      PROVE  IInvMapa'
  <2>1. CASE Mostrable(p, fuente)
    BY <1>3, <2>1 DEF Enfocar, Mostrable, componente
  <2>2. CASE ~Mostrable(p, fuente) /\ p \in Dibujados
    <3>1. fuente["parques"] # "parques"
      BY <2>2 DEF Mostrable
    <3>2. centro \notin Parques
      BY <3>1
    <3>3. QED
      BY <1>3, <2>2, <3>2 DEF Enfocar, componente, vista
  <2>3. CASE p \notin Dibujados
    BY <1>3, <2>3 DEF Enfocar, Mostrable, componente, vista
  <2>4. QED
    BY <2>1, <2>2, <2>3
<1>4. QED
  BY <1>1, <1>2, <1>3

-----------------------------------------------------------------------------
(* The dashboard *)

\* Nothing but the lists, or nothing but the map, moves in most steps.
LEMMA QuietoPanel ==
  ASSUME IInvPanel, UNCHANGED varsPanel
  PROVE  IInvPanel'
BY DEF IInvPanel, TypeOKPanel, Conocidas, AlDia, varsPanel

LEMMA QuietoMapa ==
  ASSUME IInvMapa, UNCHANGED varsMapa
  PROVE  IInvMapa'
BY DEF IInvMapa, TypeOKMapa, CentroPedido, FocoDebido, CentroPintado, varsMapa

LEMMA Inicio == Init => IInv
BY InicioPanel, InicioMapa DEF Init, IInv, InitPanel, InitMapa

LEMMA Paso ==
  ASSUME IInv, [Next]_vars
  PROVE  IInv'
<1> USE DEF IInv
<1>1. CASE PasoPanel /\ UNCHANGED varsMapa
  <2>1. montada' = montada
    BY <1>1
       DEF PasoPanel, Sondear, Atender, Recibir, Fallar, Olvidar, Cambiar, AtenderCierre, Retransmitir,
           PerderAviso, Entrar, Conectar, Cortar, PulsarCerrar, RecibirCierre, FallarCierre, pagina
  <2>2. QED
    BY <1>1, <2>1, PasoDePanel, QuietoMapa DEF varsMapa
<1>2. CASE PasoMapa /\ UNCHANGED varsPanel
  <2>1. listo' = listo
    BY <1>2
       DEF PasoMapa, SondearMapa, ResponderMapa, FallarMapa, OlvidarMapa, Conmutar, ElegirTipo,
           PulsarMapa, Arrastrar, CerrarFicha, VistaGeneral, componente
  <2>2. QED
    BY <1>2, <2>1, PasoDeMapa, QuietoPanel DEF varsPanel
<1>3. CASE Montar \/ Desmontar
  BY <1>3, PaginaDePanel, PaginaDeMapa
     DEF Montar, Desmontar, MontarPanel, MontarMapa, DesmontarPanel, DesmontarMapa
<1>4. CASE Salir
  <2>1. IInvPanel' /\ montada' = FALSE
    BY <1>4, PaginaDePanel DEF Salir, SalirPanel
  <2>2. IInvMapa' /\ listo' = FALSE
    BY <1>4, PaginaDeMapa, QuietoMapa DEF Salir, DesmontarMapa, varsMapa, IInvMapa, TypeOKMapa
  <2>3. QED
    BY <2>1, <2>2
<1>5. ASSUME NEW p \in Parques, PulsarAlerta(p)
      PROVE  IInv'
  BY <1>5, PaginaDeMapa, QuietoPanel DEF PulsarAlerta, Enfocar, componente, varsPanel
<1>6. CASE UNCHANGED vars
  BY <1>6, QuietoPanel, QuietoMapa DEF vars, varsPanel, varsMapa
<1>7. QED
  BY <1>1, <1>2, <1>3, <1>4, <1>5, <1>6 DEF Next

\* The inductive invariant of the dashboard.
THEOREM Invariante == Spec => []IInv
<1>1. Init => IInv
  BY Inicio
<1>2. IInv /\ [Next]_vars => IInv'
  BY Paso
<1>3. QED
  BY <1>1, <1>2, PTL DEF Spec

\* The dashboard is well typed, and its map is mounted when its lists are.
THEOREM Tipos == Spec => []TypeOK
<1>1. IInv => TypeOK
  BY DEF IInv, IInvPanel, IInvMapa, TypeOK
<1>2. QED
  BY <1>1, Invariante, PTL

\* A list that was told of a change by a message or by the answer to a closing
\* does not settle on an answer read before it (useAlertsSocket, AlertsPanel).
THEOREM SinListasViejas == Spec => []AvisoRefresca
<1>1. IInv => AvisoRefresca
  BY DEF IInv, IInvPanel, AlDia, AvisoRefresca
<1>2. QED
  BY <1>1, Invariante, PTL

\* The map shows the drawn park last asked for or none, whatever order answers
\* come in and however often the page is left (MapView, useMapStore).
THEOREM CentroDebido == Spec => []CentroPedido
<1>1. IInv => CentroPedido
  BY DEF IInv, IInvMapa
<1>2. QED
  BY <1>1, Invariante, PTL

=============================================================================
