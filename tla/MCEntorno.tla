----------------------------- MODULE MCEntorno -----------------------------
(***************************************************************************)
(* Datasets of stations, one of a type the table rejects, and the hotspots *)
(* behind the sensors of the key or the open files; both polled every tick *)
(* over a window of 3.  Stations, hotspots, cycles and the AI service      *)
(* write none of each other's variables: a behaviour explores one of them  *)
(* in full, and the others only as far as time needs them.                 *)
(***************************************************************************)
EXTENDS Entorno, TLC

CONSTANTS o1, o2, o3, o4, o5

FuentesMC == [o \in Obs |-> CASE o \in {o1, o2} -> {"lluvia"}
                              [] o \in {o3, o4} -> {"viirs", "abierta"}
                              [] o = o5 -> {"temperatura"}]
TopeMC == [f \in Fuentes |-> IF f \in {"lluvia", "temperatura"} THEN 1 ELSE 2]
SeriesMC == [s \in Servicios |-> IF s = "ideam" THEN <<"temperatura", "lluvia">> ELSE <<"viirs">>]
AbiertasMC == [s \in Servicios |-> IF s = "ideam" THEN <<>> ELSE <<"abierta">>]
PeriodoMC == [s \in Servicios |-> 1]
VentanaMC == [f \in Fuentes |-> 3]
TiposMC == <<"incendio", "inundacion">>

Simetria ==
  Permutations(Sondeos) \cup Permutations(Ciclos) \cup Permutations(Trabajadores)

Publicables == [estaciones |-> {o1, o2}, rechazos |-> {o5}, focos |-> {o3, o4},
                ciclos |-> {}, modelos |-> {}]

VARIABLE escena

InitEscenas ==
  /\ Init /\ escena \in DOMAIN Publicables
  /\ simulado => escena = "estaciones"

Activos(r, libre) == {x \in DOMAIN r : r[x] # libre}

\* Polls overlap with polls of service s only
Solapa(s) ==
  \A p \in Activos(sondeo', Libre) :
    sondeo'[p].servicio = s \/ Activos(sondeo', Libre) = {p}

NextEscenas ==
  /\ Next
  /\ publicada' \subseteq Publicables[escena]
  /\ escena \in {"estaciones", "rechazos"} => ciclo' = ciclo /\ Solapa("ideam")
  /\ escena = "focos" => /\ ciclo' = ciclo /\ Solapa("hotspots")
                        /\ \A p \in Activos(sondeo', Libre) : sondeo'[p].puntual
  /\ escena = "ciclos" => Cardinality(Activos(sondeo', Libre)) <= 1
  /\ escena = "modelos" => sondeo' = sondeo /\ Cardinality(Activos(ciclo', SinCiclo)) <= 1
  /\ escena # "modelos" => varsIA' = varsIA
  /\ UNCHANGED escena

SpecEscenas == InitEscenas /\ [][NextEscenas]_<<vars, escena>>

=============================================================================
