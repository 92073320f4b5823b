-------------------------------- MODULE Mapa --------------------------------
(***************************************************************************)
(* MapView: the queries behind its layers, the sources of the layers that  *)
(* its effects fill, what the map is centred on, the card of what was      *)
(* clicked, and the park that AlertsPanel asked to show (useMapStore).     *)
(* Effects run before the next event, so each action ends with theirs.  An *)
(* answer may be late or fail; the component is unmounted with its page    *)
(* while the cache of answers and the store remain.                        *)
(***************************************************************************)
EXTENDS Naturals

CONSTANTS
  Parques,     \* parks alerts may be of
  Dibujados,   \* those with a geometry
  SinParque,   \* focusParqueId null
  Capas,       \* layers of the map
  FallaMapa    \* TRUE: requests may fail

TiposCalor == {"incendio", "inundacion"}

ASSUME MapaAssumption ==
  /\ Dibujados \subseteq Parques /\ SinParque \notin Parques
  /\ {"pais", "libre", "calor"} \cap Parques = {} /\ SinParque \notin {"pais", "libre", "calor"}
  /\ {"parques", "heatmap"} \subseteq Capas
  /\ Capas \subseteq {"base", "parques", "eventos", "heatmap", "hotspots"}
  /\ FallaMapa \in BOOLEAN

VARIABLES
  listo,     \* mounted, and the map is there
  capas,     \* layers switched on
  tipo,      \* heatTipo
  cargadas,  \* queries with data
  pedidas,   \* queries with a request in flight
  fuente,    \* fuente[c]: the query whose data layer c shows
  centro,    \* the whole country, a park, or wherever the user went
  ficha,     \* selected
  foco,      \* focusParqueId
  debido     \* history: the park with a geometry last asked for, until the general view

componente == <<listo, capas, tipo, fuente>>
vista == <<centro, ficha>>
varsMapa == <<listo, capas, tipo, cargadas, pedidas, fuente, centro, ficha, foco, debido>>

ConDatos == Capas \ {"base"}
Claves == (ConDatos \ {"heatmap"}) \cup TiposCalor
Nada == "nada"

TypeOKMapa ==
  /\ listo \in BOOLEAN
  /\ capas \subseteq Capas
  /\ tipo \in TiposCalor
  /\ cargadas \subseteq Claves /\ pedidas \subseteq Claves
  /\ fuente \in [ConDatos -> Claves \cup {Nada}]
  /\ centro \in Dibujados \cup {"pais", "libre"}
  /\ ficha \in Dibujados \cup {"calor", SinParque}
  /\ foco \in Parques \cup {SinParque}
  /\ debido \in Parques \cup {SinParque}

EnBlanco == [c \in ConDatos |-> Nada]
DeEntrada == Capas \ {"heatmap"}

InitMapa ==
  /\ listo = FALSE /\ capas = DeEntrada /\ tipo = "incendio"
  /\ cargadas = {} /\ pedidas = {}
  /\ fuente = EnBlanco
  /\ centro = "pais" /\ ficha = SinParque
  /\ foco = SinParque /\ debido = SinParque

-----------------------------------------------------------------------------
(* Queries and effects *)

\* Mutated form: a key without the type
ClaveSinTipo(c, t) == IF c = "heatmap" THEN "incendio" ELSE c

\* queryKey
Clave(c, t) == IF c = "heatmap" THEN t ELSE c

\* enabled: the queries the component keeps up to date
Observadas(activas, t) ==
  {Clave(c, t) : c \in ConDatos \cap ({"parques", "eventos"} \cup activas)}

\* The effects of the data: a source is replaced once its query has some
Pintar(f, datos, t) == [c \in ConDatos |-> IF Clave(c, t) \in datos THEN Clave(c, t) ELSE f[c]]

\* The effect of the focus finds the park among the features
Mostrable(p, f) == p \in Dibujados /\ f["parques"] = "parques"

-----------------------------------------------------------------------------
(* Component *)

\* The state is new; the cache may have data, parks stay fresh for 5 minutes
MontarMapa ==
  /\ ~listo /\ listo' = TRUE
  /\ capas' = DeEntrada /\ tipo' = "incendio"
  /\ fuente' = Pintar(EnBlanco, cargadas, "incendio")
  /\ \E frescas \in SUBSET (cargadas \cap {"parques"}) :
       pedidas' = pedidas \cup (Observadas(DeEntrada, "incendio") \ frescas)
  /\ IF Mostrable(foco, fuente')
       THEN centro' = foco /\ ficha' = foco
       ELSE centro' = "pais" /\ ficha' = SinParque
  /\ UNCHANGED <<cargadas, foco, debido>>

DesmontarMapa ==
  /\ listo /\ listo' = FALSE
  /\ capas' = DeEntrada /\ tipo' = "incendio" /\ fuente' = EnBlanco
  /\ centro' = "pais" /\ ficha' = SinParque
  /\ UNCHANGED <<cargadas, pedidas, foco, debido>>

\* refetchInterval; the parks have none
SondearMapa(k) ==
  /\ listo /\ k \in Observadas(capas, tipo) \ {"parques"}
  /\ k \notin pedidas /\ pedidas' = pedidas \cup {k}
  /\ UNCHANGED <<componente, vista, cargadas, foco, debido>>

\* Parks that are new or have changed fit the whole country
ResponderMapa(k) ==
  /\ k \in pedidas /\ pedidas' = pedidas \ {k}
  /\ cargadas' = cargadas \cup {k}
  /\ fuente' = IF listo THEN Pintar(fuente, cargadas', tipo) ELSE fuente
  /\ \/ listo /\ k = "parques" /\ centro' = "pais"
     \/ (listo /\ k = "parques" => k \in cargadas) /\ UNCHANGED centro
  /\ UNCHANGED <<listo, capas, tipo, ficha, foco, debido>>

FallarMapa(k) ==
  /\ FallaMapa /\ k \in pedidas /\ pedidas' = pedidas \ {k}
  /\ UNCHANGED <<componente, vista, cargadas, foco, debido>>

\* The cache drops what no component has used for 5 minutes
OlvidarMapa(k) ==
  /\ k \in cargadas \ pedidas /\ (listo => k \notin Observadas(Capas, tipo))
  /\ cargadas' = cargadas \ {k}
  /\ UNCHANGED <<componente, vista, pedidas, foco, debido>>

-----------------------------------------------------------------------------
(* User *)

\* A query that becomes enabled asks at once
Conmutar(c) ==
  /\ listo
  /\ capas' = (capas \ {c}) \cup ({c} \ capas)
  /\ pedidas' = pedidas \cup (Observadas(capas', tipo) \ Observadas(capas, tipo))
  /\ UNCHANGED <<listo, tipo, fuente, vista, cargadas, foco, debido>>

\* A new key: its data if the cache has it, and a request
ElegirTipo(t) ==
  /\ listo /\ "heatmap" \in capas /\ t # tipo /\ tipo' = t
  /\ fuente' = Pintar(fuente, cargadas, t)
  /\ pedidas' = pedidas \cup {Clave("heatmap", t)}
  /\ UNCHANGED <<listo, capas, vista, cargadas, foco, debido>>

\* The row of an alert with a park: focusOnParque, and the effect of the focus
Enfocar(p) ==
  /\ listo
  /\ foco' = p
  /\ debido' = IF p \in Dibujados THEN p ELSE debido
  /\ IF Mostrable(p, fuente)
       THEN centro' = p /\ ficha' = p
       ELSE UNCHANGED vista
  /\ UNCHANGED <<componente, cargadas, pedidas>>

\* singleclick on a park, a hotspot, a cluster, or none of them
PulsarMapa ==
  /\ listo
  /\ \/ /\ "parques" \in capas /\ fuente["parques"] # Nada
        /\ ficha' \in Dibujados /\ UNCHANGED centro
     \/ /\ "hotspots" \in capas \cap ConDatos /\ fuente["hotspots"] # Nada
        /\ \/ ficha' = "calor" /\ UNCHANGED centro
           \/ centro' = "libre" /\ UNCHANGED ficha
     \/ ficha' = SinParque /\ UNCHANGED centro
  /\ UNCHANGED <<componente, cargadas, pedidas, foco, debido>>

Arrastrar ==
  /\ listo /\ centro' = "libre"
  /\ UNCHANGED <<componente, cargadas, pedidas, ficha, foco, debido>>

\* The x of the card leaves the focus in the store
CerrarFicha ==
  /\ ficha # SinParque /\ ficha' = SinParque
  /\ UNCHANGED <<componente, centro, cargadas, pedidas, foco, debido>>

\* Mutated form: the store keeps the park
VistaGeneralConFoco ==
  /\ ficha # SinParque /\ ficha' = SinParque
  /\ debido' = SinParque
  /\ centro' = "pais"
  /\ UNCHANGED <<componente, cargadas, pedidas, foco>>

VistaGeneral ==
  /\ ficha # SinParque /\ ficha' = SinParque
  /\ foco' = SinParque /\ debido' = SinParque
  /\ centro' = "pais"
  /\ UNCHANGED <<componente, cargadas, pedidas>>

PasoMapa ==
  \/ \E k \in Claves : SondearMapa(k) \/ ResponderMapa(k) \/ FallarMapa(k) \/ OlvidarMapa(k)
  \/ \E c \in Capas : Conmutar(c)
  \/ \E t \in TiposCalor : ElegirTipo(t)
  \/ PulsarMapa \/ Arrastrar \/ CerrarFicha \/ VistaGeneral

\* Timers fire and not every request fails
MapaJusto(k) == WF_varsMapa(SondearMapa(k)) /\ SF_varsMapa(ResponderMapa(k))

-----------------------------------------------------------------------------
(* Properties *)

\* The map is never centred on a park other than the drawn one the user last
\* asked for from an alert, nor on any once the user went back to the general view,
\* although the store outlives the component and answers come late.
CentroPedido == centro \in Parques => centro = debido

\* A heat layer that stays on with one type chosen comes to show that type,
\* whatever it showed before and however often requests fail.
TipoMostrado ==
  \A t \in TiposCalor :
    []<>(listo /\ "heatmap" \in capas /\ tipo = t => fuente["heatmap"] = t)

=============================================================================
