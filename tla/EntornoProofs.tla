--------------------------- MODULE EntornoProofs ---------------------------
(***************************************************************************)
(* What a cycle of the engine reads, for any number of observations,       *)
(* sources, polls, cycles and workers of the AI service.  Three arguments: *)
(* what a poll is about to insert is younger than what the cleaning        *)
(* removes (LoteReciente, BorradaVieja); the rows of a context are at most *)
(* one tick older than the date it is kept with (CachePuntual); a worker   *)
(* past a model in its start has seen or written its file (Vistos).  And a *)
(* fourth, for what never reached the table: the polls that failed to      *)
(* bring an observation, with those that still may, are one per period of  *)
(* its age (Contados).                                                     *)
(***************************************************************************)
EXTENDS Entorno, FiniteSetTheorems, TLAPS

-----------------------------------------------------------------------------
(* The AI service *)

\* The files of the models a worker has gone past are there
Vistos ==
  \A w \in Trabajadores, i \in 1..Len(Tipos) : i < obra[w] => archivo[Tipos[i]] # "falta"

\* During its start a worker trains the model it is at
EnSuTurno ==
  \A w \in Trabajadores : ~Listo(w) /\ tarea[w] # "nada" => tarea[w] = Tipos[obra[w]]

\* A file that is open is there
Abiertos == \A w \in escribe : archivo[tarea[w]] # "falta"

IInvIA == TypeOKIA /\ Vistos /\ EnSuTurno /\ Abiertos /\ ParcialSeEscribe

LEMMA TiposModelos ==
  /\ Len(Tipos) \in Nat /\ Len(Tipos) > 0
  /\ \A i \in 1..Len(Tipos) : Tipos[i] \in Modelos
  /\ \A t \in Modelos : \E i \in 1..Len(Tipos) : t = Tipos[i]
BY ModelosAssumption DEF ModelosAssumption, Modelos

LEMMA InicioIA == InitIA => IInvIA
<1> SUFFICES ASSUME InitIA PROVE IInvIA
  OBVIOUS
<1> USE DEF InitIA
<1>1. TypeOKIA
  BY TiposModelos DEF TypeOKIA
<1>2. Vistos /\ EnSuTurno /\ Abiertos /\ ParcialSeEscribe
  BY TiposModelos DEF Vistos, EnSuTurno, Abiertos, ParcialSeEscribe
<1>3. QED
  BY <1>1, <1>2 DEF IInvIA

\* The end of a training moves its worker on.
LEMMA AvanzaIA ==
  ASSUME IInvIA, NEW w \in escribe, Avanza(w)
  PROVE  /\ w \in Trabajadores /\ tarea[w] \in Modelos /\ archivo[tarea[w]] # "falta"
         /\ tarea' \in [Trabajadores -> Modelos \cup {"nada"}] /\ tarea'[w] = "nada"
         /\ obra' \in [Trabajadores -> 1..Len(Tipos)+1]
         /\ escribe' = escribe \ {w} /\ cargados' \in [Trabajadores -> SUBSET Modelos]
         /\ \A v \in Trabajadores \ {w} : tarea'[v] = tarea[v] /\ obra'[v] = obra[v]
         /\ Listo(w) => obra'[w] = obra[w]
         /\ ~Listo(w) => obra'[w] = obra[w] + 1 /\ tarea[w] = Tipos[obra[w]]
<1> USE DEF IInvIA, TypeOKIA
<1>1. w \in Trabajadores /\ tarea[w] \in Modelos /\ archivo[tarea[w]] # "falta"
  BY DEF Abiertos
<1>2. obra[w] \in 1..Len(Tipos)+1 /\ (~Listo(w) => obra[w] + 1 \in 1..Len(Tipos)+1)
  BY <1>1, TiposModelos DEF Listo
<1>3. ~Listo(w) => tarea[w] = Tipos[obra[w]]
  BY <1>1, ModelosAssumption DEF EnSuTurno, ModelosAssumption
<1>4. obra' \in [Trabajadores -> 1..Len(Tipos)+1]
  BY <1>1, <1>2 DEF Avanza
<1>5. QED
  BY <1>1, <1>2, <1>3, <1>4 DEF Avanza

LEMMA CerrarIA ==
  ASSUME IInvIA, NEW w \in escribe, Cerrar(w)
  PROVE  IInvIA'
<1> DEFINE t == tarea[w]
<1>1. Avanza(w) /\ ultimo' = ultimo
  BY DEF Cerrar
<1>2. t \in Modelos /\ w \in Trabajadores
  BY <1>1, AvanzaIA
<1>3. \/ ultimo[t] = w /\ archivo' = [archivo EXCEPT ![t] = "completo"] /\ cortado' = cortado \ {t}
      \/ ultimo[t] # w /\ archivo' = archivo /\ cortado' = cortado
  BY DEF Cerrar
<1> HIDE DEF t
<1>4. /\ archivo' \in [Modelos -> {"falta", "parcial", "completo"}] /\ cortado' \subseteq Modelos
      /\ \A m \in Modelos : archivo[m] # "falta" => archivo'[m] # "falta"
  BY <1>2, <1>3 DEF IInvIA, TypeOKIA
<1>5. TypeOKIA'
  BY <1>1, <1>4, AvanzaIA DEF IInvIA, TypeOKIA
<1>6. Vistos'
  <2> SUFFICES ASSUME NEW v \in Trabajadores, NEW i \in 1..Len(Tipos), i < obra'[v]
               PROVE  archivo'[Tipos[i]] # "falta"
    BY DEF Vistos
  <2>1. Tipos[i] \in Modelos
    BY TiposModelos
  <2>2. CASE i < obra[v]
    BY <2>1, <2>2, <1>4 DEF IInvIA, Vistos
  <2>3. CASE ~(i < obra[v])
    <3>1. v = w /\ ~Listo(w) /\ obra'[w] = obra[w] + 1 /\ tarea[w] = Tipos[obra[w]]
      BY <1>1, <2>3, AvanzaIA
    <3>2. i = obra[w]
      BY <2>3, <3>1 DEF IInvIA, TypeOKIA
    <3>3. QED
      BY <1>1, <1>4, <3>1, <3>2, AvanzaIA
  <2>4. QED
    BY <2>2, <2>3
<1>7. EnSuTurno'
  <2> SUFFICES ASSUME NEW v \in Trabajadores, ~Listo(v)', tarea'[v] # "nada"
               PROVE  tarea'[v] = Tipos[obra'[v]]
    BY DEF EnSuTurno
  <2>1. v # w
    BY <1>1, AvanzaIA
  <2>2. QED
    BY <1>1, <2>1, AvanzaIA DEF IInvIA, EnSuTurno, Listo
<1>8. Abiertos'
  BY <1>1, <1>4, AvanzaIA DEF IInvIA, TypeOKIA, Abiertos
<1>9. ParcialSeEscribe'
  <2> SUFFICES ASSUME NEW m \in Modelos, archivo'[m] = "parcial"
               PROVE  \/ m \in cortado'
                      \/ \E v \in Trabajadores : ultimo'[m] = v /\ tarea'[v] = m /\ v \in escribe'
    BY DEF ParcialSeEscribe
  <2>1. archivo[m] = "parcial" /\ (m = t => ultimo[t] # w)
    BY <1>2, <1>3 DEF IInvIA, TypeOKIA
  <2>2. CASE m \in cortado
    BY <1>3, <2>1, <2>2
  <2>3. ASSUME NEW v \in Trabajadores, ultimo[m] = v, tarea[v] = m, v \in escribe
        PROVE  ultimo'[m] = v /\ tarea'[v] = m /\ v \in escribe'
    <3>1. v # w
      BY <2>1, <2>3 DEF t
    <3>2. QED
      BY <1>1, <2>3, <3>1, AvanzaIA
  <2>4. QED
    BY <2>1, <2>2, <2>3 DEF IInvIA, ParcialSeEscribe
<1>10. QED
  BY <1>5, <1>6, <1>7, <1>8, <1>9 DEF IInvIA

LEMMA AbrirIA ==
  ASSUME IInvIA, NEW w \in Trabajadores, Abrir(w)
  PROVE  IInvIA'
<1> USE DEF IInvIA, TypeOKIA
<1>1. /\ tarea[w] \in Modelos /\ UNCHANGED <<obra, tarea, cargados, cortado>>
      /\ escribe' = escribe \cup {w} /\ w \notin escribe
      /\ archivo'[tarea[w]] = "parcial" /\ ultimo'[tarea[w]] = w
      /\ \A m \in Modelos \ {tarea[w]} : archivo'[m] = archivo[m] /\ ultimo'[m] = ultimo[m]
  BY DEF Abrir
<1>2. TypeOKIA'
  BY <1>1 DEF Abrir
<1>3. \A m \in Modelos : archivo[m] # "falta" => archivo'[m] # "falta"
  BY <1>1
<1>4. Vistos' /\ EnSuTurno'
  BY <1>1, <1>3, TiposModelos DEF Vistos, EnSuTurno, Listo
<1>5. Abiertos'
  BY <1>1, <1>3 DEF Abiertos
<1>6. ParcialSeEscribe'
  BY <1>1 DEF ParcialSeEscribe
<1>7. QED
  BY <1>2, <1>4, <1>5, <1>6

LEMMA EnsureIA ==
  ASSUME IInvIA, NEW w \in Trabajadores, EnsureModels(w)
  PROVE  IInvIA'
<1> USE DEF IInvIA, TypeOKIA
<1>1. /\ ~Listo(w) /\ tarea[w] = "nada" /\ w \notin escribe
      /\ obra[w] \in 1..Len(Tipos) /\ Tipos[obra[w]] \in Modelos
      /\ UNCHANGED <<archivo, ultimo, escribe, cargados, cortado>>
  BY TiposModelos DEF EnsureModels, Listo
<1>2. CASE /\ archivo[Tipos[obra[w]]] = "falta" /\ obra' = obra
           /\ tarea' = [tarea EXCEPT ![w] = Tipos[obra[w]]]
  <2>1. TypeOKIA'
    BY <1>1, <1>2
  <2>2. Vistos' /\ EnSuTurno' /\ Abiertos' /\ ParcialSeEscribe'
    BY <1>1, <1>2 DEF Vistos, EnSuTurno, Listo, Abiertos, ParcialSeEscribe
  <2>3. QED
    BY <2>1, <2>2
<1>3. CASE /\ archivo[Tipos[obra[w]]] # "falta" /\ tarea' = tarea
           /\ obra' = [obra EXCEPT ![w] = @ + 1]
  <2>1. TypeOKIA'
    BY <1>1, <1>3, TiposModelos
  <2>2. Vistos'
    BY <1>1, <1>3, TiposModelos DEF Vistos
  <2>3. EnSuTurno' /\ Abiertos' /\ ParcialSeEscribe'
    BY <1>1, <1>3 DEF EnSuTurno, Listo, Abiertos, ParcialSeEscribe
  <2>4. QED
    BY <2>1, <2>2, <2>3
<1>4. QED
  BY <1>2, <1>3 DEF EnsureModels

LEMMA RetrainIA ==
  ASSUME IInvIA, NEW w \in Trabajadores, NEW t \in Modelos, Retrain(w, t)
  PROVE  IInvIA'
<1> USE DEF IInvIA, TypeOKIA
<1>1. /\ Listo(w) /\ tarea[w] = "nada" /\ w \notin escribe
      /\ tarea' = [tarea EXCEPT ![w] = t]
      /\ UNCHANGED <<archivo, ultimo, obra, escribe, cargados, cortado>>
  BY DEF Retrain
<1>2. TypeOKIA'
  BY <1>1
<1>3. Vistos' /\ EnSuTurno' /\ Abiertos' /\ ParcialSeEscribe'
  BY <1>1 DEF Vistos, EnSuTurno, Listo, Abiertos, ParcialSeEscribe
<1>4. QED
  BY <1>2, <1>3

LEMMA ApagarIA ==
  ASSUME IInvIA, NEW a \in [Modelos -> {"falta", "parcial", "completo"}], Apagar(a)
  PROVE  IInvIA'
<1> USE DEF IInvIA, TypeOKIA
<1>1. TypeOKIA'
  BY TiposModelos DEF Apagar
<1>2. Vistos' /\ EnSuTurno' /\ Abiertos' /\ ParcialSeEscribe'
  BY TiposModelos DEF Apagar, Vistos, EnSuTurno, Abiertos, ParcialSeEscribe
<1>3. QED
  BY <1>1, <1>2

LEMMA PredictIA ==
  ASSUME IInvIA, NEW w \in Trabajadores, NEW t \in Modelos, Predict(w, t)
  PROVE  IInvIA'
BY DEF Predict, IInvIA, TypeOKIA, Vistos, EnSuTurno, Listo, Abiertos, ParcialSeEscribe

LEMMA QuietoIA == IInvIA /\ UNCHANGED varsIA => IInvIA'
BY DEF varsIA, IInvIA, TypeOKIA, Vistos, EnSuTurno, Listo, Abiertos, ParcialSeEscribe

LEMMA PasoInvIA ==
  ASSUME IInvIA, PasoIA
  PROVE  IInvIA'
<1>1. CASE Reinicio \/ Despliegue
  BY <1>1, ApagarIA DEF Reinicio, Despliegue, IInvIA, TypeOKIA
<1>2. ASSUME NEW w \in Trabajadores, NEW t \in Modelos, Retrain(w, t)
      PROVE  IInvIA'
  BY <1>2, RetrainIA
<1>3. ASSUME NEW w \in Trabajadores, EnsureModels(w) \/ Abrir(w) \/ Cerrar(w)
      PROVE  IInvIA'
  BY <1>3, EnsureIA, AbrirIA, CerrarIA DEF Cerrar
<1>4. QED
  BY <1>1, <1>2, <1>3 DEF PasoIA

LEMMA ListosIA == IInvIA => ListoConModelos
<1> SUFFICES ASSUME IInvIA, NEW w \in Trabajadores, NEW t \in Modelos, Listo(w)
             PROVE  archivo[t] # "falta"
  BY DEF ListoConModelos
<1>1. PICK i \in 1..Len(Tipos) : t = Tipos[i]
  BY TiposModelos
<1>2. i < obra[w]
  BY TiposModelos DEF Listo, IInvIA, TypeOKIA
<1>3. QED
  BY <1>1, <1>2 DEF IInvIA, Vistos

-----------------------------------------------------------------------------
(* Climate events *)

Sondeo ==
  [fase : {"libre", "bajar", "insertar", "simular"}, servicio : Servicios \cup {"ninguno"},
   resto : Seq(Fuentes), abiertas : BOOLEAN, lote : SUBSET Obs, cruza : BOOLEAN,
   puntual : BOOLEAN, falto : SUBSET Obs]

FormaClima ==
  /\ sondeo \in [Sondeos -> Sondeo] /\ reloj \in [Servicios -> Nat]
  /\ \A p \in Sondeos : sondeo[p].fase # "libre" => sondeo[p].servicio \in Servicios

\* What a poll read and is about to insert, one tick later at most, is not
\* older than what the table keeps
LoteReciente ==
  \A p \in Sondeos : sondeo[p].fase \in {"bajar", "insertar"} =>
    \A o \in sondeo[p].lote :
      o \in publicada /\ edad[o] <= Retencion /\ (~sondeo[p].cruza => edad[o] < Retencion)

BorradaVieja ==
  borrada \cap tabla = {} /\ \A o \in borrada : o \in publicada /\ edad[o] > Retencion

\* The rows of a context are one tick older than its date, at most
CachePuntual ==
  /\ cache.hay => cache.leido <= cache.escrito + 1
  /\ \A e \in Ciclos : /\ ciclo[e].fase = "calcular" => ciclo[e].leido = 0
                       /\ ciclo[e].fase = "guardar" => ciclo[e].leido <= 1

InvFilas == TypeOKClima /\ FormaClima /\ LoteReciente /\ BorradaVieja
InvContexto == CachePuntual /\ ContextoReciente
IInvClima == InvFilas /\ InvContexto

LEMMA RetencionNat ==
  /\ Retencion \in Nat /\ Viejo \in Nat /\ Viejo = Retencion + 1
  /\ Vigencia \in Nat /\ MaxFallos \in Nat
BY ClimaAssumption DEF ClimaAssumption, Viejo

LEMMA SeriesFuentes ==
  ASSUME NEW s \in Servicios
  PROVE  Series[s] \in Seq(Fuentes) /\ Abiertas[s] \in Seq(Fuentes) /\ Periodo[s] \in Nat \ {0}
BY ClimaAssumption DEF ClimaAssumption

LEMMA FuenteJoven ==
  ASSUME NEW f \in Fuentes
  PROVE  Ventana[f] \in Nat /\ Ventana[f] < Retencion
BY ClimaAssumption, RetencionNat DEF ClimaAssumption

LEMMA SondeoLibre == Libre \in Sondeo /\ Libre.lote = {} /\ Libre.fase = "libre"
                     /\ Libre.falto = {} /\ Libre.servicio = "ninguno"
<1>1. <<>> \in Seq(Fuentes)
  OBVIOUS
<1>2. QED
  BY <1>1 DEF Libre, Sondeo

LEMMA InicioClima == InitClima => IInvClima
<1> SUFFICES ASSUME InitClima PROVE IInvClima
  OBVIOUS
<1> USE DEF InitClima
<1>1. TypeOKClima
  <2>1. /\ publicada \subseteq Obs /\ borrada \subseteq Obs /\ tabla \subseteq publicada
        /\ simulado \in BOOLEAN /\ edad \in [Obs -> 0..Viejo] /\ fallos \in [Obs -> 0..MaxFallos]
    BY RetencionNat, ClimaAssumption DEF ClimaAssumption
  <2>2. \A s \in Servicios : reloj[s] \in 0..Periodo[s]
    BY SeriesFuentes
  <2>3. \A p \in Sondeos : sondeo[p] = Libre
    OBVIOUS
  <2>4. /\ cache \in [hay : BOOLEAN, escrito : 0..Vigencia+1, leido : 0..Vigencia+2]
        /\ ciclo \in [Ciclos -> [fase : {"libre", "calcular", "guardar", "tiene"},
                                 leido : 0..Vigencia+2]]
    BY RetencionNat DEF SinCache, SinCiclo
  <2>5. QED
    BY <2>1, <2>2, <2>3, <2>4, SondeoLibre DEF TypeOKClima
<1>2. FormaClima
  BY SondeoLibre DEF FormaClima
<1>3. LoteReciente /\ BorradaVieja
  BY SondeoLibre DEF LoteReciente, BorradaVieja
<1>4. InvContexto
  BY DEF InvContexto, CachePuntual, ContextoReciente, SinCache, SinCiclo
<1>5. QED
  BY <1>1, <1>2, <1>3, <1>4 DEF IInvClima, InvFilas

-----------------------------------------------------------------------------
(* The rows *)

\* Only what a step changes of the rows matters to their invariant; a poll
\* that changes nothing but p needs its new record to be right.
LEMMA UnSondeo ==
  ASSUME InvFilas, NEW p \in Sondeos, NEW z \in Sondeo,
         sondeo' = [sondeo EXCEPT ![p] = z],
         z.fase \in {"insertar", "simular"} => z.lote # {},
         z.fase # "libre" => z.servicio \in Servicios,
         z.falto \subseteq publicada',
         z.fase \in {"bajar", "insertar"} =>
           \A o \in z.lote :
             o \in publicada' /\ edad[o] <= Retencion /\ (~z.cruza => edad[o] < Retencion),
         publicada \subseteq publicada', publicada' \subseteq Obs,
         tabla' \subseteq publicada', borrada \cap tabla' = {},
         reloj' \in [Servicios -> Nat], \A s \in Servicios : reloj'[s] \in 0..Periodo[s],
         fallos' \in [Obs -> 0..MaxFallos],
         UNCHANGED <<simulado, edad, cache, ciclo, borrada>>
  PROVE  InvFilas' /\ borrada \cap tabla' = {}
<1> USE DEF InvFilas, TypeOKClima, FormaClima
<1>1. /\ sondeo' \in [Sondeos -> Sondeo] /\ sondeo'[p] = z
      /\ \A q \in Sondeos \ {p} : sondeo'[q] = sondeo[q]
  OBVIOUS
<1>2. \A q \in Sondeos :
        /\ sondeo'[q].fase \in {"libre", "bajar", "insertar", "simular"}
        /\ sondeo'[q].servicio \in Servicios \cup {"ninguno"}
        /\ sondeo'[q].lote \subseteq Obs /\ sondeo'[q].falto \subseteq publicada'
        /\ sondeo'[q].fase \in {"insertar", "simular"} => sondeo'[q].lote # {}
        /\ sondeo'[q].fase # "libre" => sondeo'[q].servicio \in Servicios
  BY <1>1 DEF Sondeo
<1>3. TypeOKClima' /\ FormaClima'
  BY <1>1, <1>2
<1>4. LoteReciente'
  BY <1>1 DEF LoteReciente
<1>5. BorradaVieja'
  BY DEF BorradaVieja
<1>6. QED
  BY <1>3, <1>4, <1>5

LEMMA PublicarInv ==
  ASSUME InvFilas, NEW o \in Obs, Publicar(o) \/ Create(o)
  PROVE  InvFilas' /\ borrada \cap tabla' = {}
<1> USE DEF InvFilas, TypeOKClima, FormaClima
<1>1. /\ o \notin publicada /\ publicada' = publicada \cup {o}
      /\ tabla' = tabla \/ tabla' = tabla \cup {o}
      /\ UNCHANGED <<simulado, edad, reloj, sondeo, cache, ciclo, borrada, fallos>>
  BY DEF Publicar, Create
<1>2. TypeOKClima' /\ FormaClima'
  BY <1>1
<1>3. LoteReciente'
  BY <1>1 DEF LoteReciente
<1>4. BorradaVieja' /\ borrada \cap tabla' = {}
  BY <1>1 DEF BorradaVieja
<1>5. QED
  BY <1>2, <1>3, <1>4

LEMMA LimpiarInv ==
  ASSUME InvFilas, Limpiar
  PROVE  InvFilas' /\ borrada \cap tabla' = {}
<1> USE DEF InvFilas, TypeOKClima, FormaClima
<1> DEFINE viejas == {o \in tabla : edad[o] > Retencion}
<1>1. /\ tabla' = tabla \ viejas /\ borrada' = borrada \cup viejas
      /\ UNCHANGED <<simulado, publicada, edad, reloj, sondeo, cache, ciclo, fallos>>
  BY DEF Limpiar
<1>2. TypeOKClima' /\ FormaClima'
  BY <1>1
<1>3. LoteReciente'
  BY <1>1 DEF LoteReciente
<1>4. BorradaVieja' /\ borrada \cap tabla' = {}
  BY <1>1 DEF BorradaVieja
<1>5. QED
  BY <1>2, <1>3, <1>4

LEMMA HastaNat ==
  ASSUME NEW n \in Nat, NEW m \in Nat
  PROVE  Hasta(n, m) \in 0..m /\ Hasta(n, m) <= n /\ (n <= m => Hasta(n, m) = n)
         /\ (n > m => Hasta(n, m) = m)
BY DEF Hasta

LEMMA TickInv ==
  ASSUME InvFilas, Tick
  PROVE  InvFilas' /\ borrada \cap tabla' = {}
<1> USE DEF InvFilas
<1>1. /\ UNCHANGED <<simulado, publicada, tabla, borrada, fallos>>
      /\ \A p \in Sondeos : ~sondeo[p].cruza
      /\ \A s \in Servicios : reloj[s] > 0
  BY DEF Tick
<1>2. \A o \in Obs : edad[o] \in 0..Viejo /\ Hasta(edad[o] + 1, Viejo) \in 0..Viejo
                     /\ Hasta(edad[o] + 1, Viejo) <= edad[o] + 1
                     /\ (edad[o] > Retencion => Hasta(edad[o] + 1, Viejo) > Retencion)
  BY RetencionNat DEF TypeOKClima, Hasta
<1>3. edad' \in [Obs -> 0..Viejo]
      /\ \A o \in Obs : edad'[o] <= edad[o] + 1 /\ (edad[o] > Retencion => edad'[o] > Retencion)
  BY <1>2, RetencionNat DEF Tick
<1>4. /\ reloj' \in [Servicios -> Nat]
      /\ \A s \in Servicios : reloj'[s] \in 0..Periodo[s]
  <2>1. reloj' = [s \in Servicios |-> reloj[s] - 1]
    BY DEF Tick
  <2>2. \A s \in Servicios : reloj[s] \in 0..Periodo[s] /\ reloj[s] > 0 /\ Periodo[s] \in Nat
    BY <1>1, SeriesFuentes DEF TypeOKClima
  <2>3. QED
    BY <2>1, <2>2
<1>5. /\ sondeo' \in [Sondeos -> Sondeo]
      /\ \A p \in Sondeos :
           \/ sondeo'[p] = Libre
           \/ sondeo'[p] = [sondeo[p] EXCEPT !.cruza = TRUE]
  <2>1. sondeo' = [p \in Sondeos |->
       IF sondeo[p] = Libre THEN Libre ELSE [sondeo[p] EXCEPT !.cruza = TRUE]]
    BY DEF Tick
  <2>2. \A p \in Sondeos : [sondeo[p] EXCEPT !.cruza = TRUE] \in Sondeo
    BY DEF FormaClima, Sondeo
  <2>3. QED
    BY <2>1, <2>2, SondeoLibre
<1>6. \A p \in Sondeos :
        \/ sondeo'[p] = Libre
        \/ /\ sondeo'[p].fase = sondeo[p].fase /\ sondeo'[p].lote = sondeo[p].lote
           /\ sondeo'[p].servicio = sondeo[p].servicio /\ sondeo'[p].falto = sondeo[p].falto
           /\ sondeo'[p].cruza
  BY <1>5 DEF FormaClima, Sondeo
<1>7. \A p \in Sondeos :
        /\ sondeo'[p].fase \in {"libre", "bajar", "insertar", "simular"}
        /\ sondeo'[p].servicio \in Servicios \cup {"ninguno"}
        /\ sondeo'[p].lote \subseteq Obs /\ sondeo'[p].falto \subseteq publicada
        /\ sondeo'[p].fase \in {"insertar", "simular"} => sondeo'[p].lote # {}
        /\ sondeo'[p].fase # "libre" => sondeo'[p].servicio \in Servicios
  <2>1. TAKE p \in Sondeos
  <2>2. CASE sondeo'[p] = Libre
    BY <2>2, SondeoLibre
  <2>3. CASE sondeo'[p] # Libre
    BY <2>3, <1>6 DEF TypeOKClima, FormaClima
  <2>4. QED
    BY <2>2, <2>3
<1>8. /\ cache' \in [hay : BOOLEAN, escrito : 0..Vigencia+1, leido : 0..Vigencia+2]
      /\ ciclo' \in [Ciclos -> [fase : {"libre", "calcular", "guardar", "tiene"},
                                leido : 0..Vigencia+2]]
  <2>1. cache.escrito + 1 \in Nat /\ cache.leido + 1 \in Nat
    BY RetencionNat DEF TypeOKClima
  <2>2. Hasta(cache.escrito + 1, Vigencia + 1) \in 0..Vigencia+1
        /\ Hasta(cache.leido + 1, Vigencia + 2) \in 0..Vigencia+2
    BY <2>1, RetencionNat DEF Hasta
  <2>3. cache' \in [hay : BOOLEAN, escrito : 0..Vigencia+1, leido : 0..Vigencia+2]
    BY <2>2 DEF Tick, TypeOKClima
  <2>4. \A e \in Ciclos : ciclo[e].fase = "guardar" => ciclo[e].leido = 0
    BY DEF Tick
  <2>5. \A e \in Ciclos : ciclo[e].fase = "guardar" => ciclo[e].leido + 1 \in 0..Vigencia+2
    BY <2>4, RetencionNat
  <2>6. QED
    BY <2>3, <2>5 DEF Tick, TypeOKClima
<1>9. TypeOKClima' /\ FormaClima'
  BY <1>1, <1>3, <1>4, <1>5, <1>7, <1>8 DEF TypeOKClima, FormaClima
<1>10. LoteReciente'
  <2> SUFFICES ASSUME NEW p \in Sondeos, sondeo'[p].fase \in {"bajar", "insertar"},
                      NEW o \in sondeo'[p].lote
               PROVE  o \in publicada' /\ edad'[o] <= Retencion
                      /\ (~sondeo'[p].cruza => edad'[o] < Retencion)
    BY DEF LoteReciente
  <2>1. sondeo'[p] # Libre
    BY SondeoLibre
  <2>2. o \in publicada /\ edad[o] < Retencion /\ sondeo'[p].cruza
    BY <1>1, <1>6, <2>1 DEF LoteReciente
  <2>3. o \in Obs
    BY <2>2 DEF TypeOKClima
  <2>4. edad'[o] <= Retencion
    BY <2>2, <2>3, <1>2, <1>3, RetencionNat
  <2>5. QED
    BY <1>1, <2>2, <2>4
<1>11. BorradaVieja' /\ borrada \cap tabla' = {}
  BY <1>1, <1>3 DEF BorradaVieja, TypeOKClima
<1>12. QED
  BY <1>9, <1>10, <1>11

\* What is known of a poll before it takes a step
LEMMA SondeoTipo ==
  ASSUME InvFilas, NEW p \in Sondeos
  PROVE  /\ sondeo[p] \in Sondeo /\ sondeo[p].lote \subseteq Obs /\ publicada \subseteq Obs
         /\ sondeo[p].falto \subseteq publicada
         /\ sondeo[p].fase # "libre" => sondeo[p].servicio \in Servicios
         /\ borrada \cap tabla = {} /\ tabla \subseteq publicada /\ borrada \subseteq publicada
         /\ sondeo[p].fase \in {"bajar", "insertar"} =>
              /\ sondeo[p].lote \subseteq publicada /\ borrada \cap sondeo[p].lote = {}
              /\ \A o \in sondeo[p].lote :
                   edad[o] <= Retencion /\ (~sondeo[p].cruza => edad[o] < Retencion)
         /\ fallos \in [Obs -> 0..MaxFallos] /\ edad \in [Obs -> 0..Viejo]
         /\ reloj \in [Servicios -> Nat] /\ \A s \in Servicios : reloj[s] \in 0..Periodo[s]
<1> USE DEF InvFilas, TypeOKClima, FormaClima
<1>1. \A o \in Obs : edad[o] \in Nat
  BY RetencionNat
<1>2. sondeo[p].fase \in {"bajar", "insertar"} =>
        /\ sondeo[p].lote \subseteq publicada /\ borrada \cap sondeo[p].lote = {}
        /\ \A o \in sondeo[p].lote :
             edad[o] <= Retencion /\ (~sondeo[p].cruza => edad[o] < Retencion)
  BY <1>1, RetencionNat DEF LoteReciente, BorradaVieja
<1>3. borrada \cap tabla = {} /\ borrada \subseteq publicada
  BY DEF BorradaVieja
<1>4. QED
  BY <1>2, <1>3

LEMMA EmpezarInv ==
  ASSUME InvFilas, NEW p \in Sondeos, NEW s \in Servicios, NEW puntual \in BOOLEAN,
         Empezar(p, s, puntual),
         reloj' = reloj \/ reloj' = [reloj EXCEPT ![s] = Periodo[s]]
  PROVE  InvFilas' /\ borrada \cap tabla' = {}
<1>1. PICK lote \in SUBSET (DelServicio(s) \ publicada) :
        sondeo' = [sondeo EXCEPT ![p] = [Libre EXCEPT
            !.fase = IF lote # {} THEN "simular" ELSE "bajar", !.servicio = s, !.lote = lote,
            !.resto = IF Simula(s) THEN <<>> ELSE Series[s], !.puntual = puntual]]
  BY DEF Empezar
<1> DEFINE z == [Libre EXCEPT
            !.fase = IF lote # {} THEN "simular" ELSE "bajar", !.servicio = s, !.lote = lote,
            !.resto = IF Simula(s) THEN <<>> ELSE Series[s], !.puntual = puntual]
<1>2. lote \subseteq Obs
  BY DEF DelServicio
<1>3. <<>> \in Seq(Fuentes) /\ Series[s] \in Seq(Fuentes)
  BY SeriesFuentes
<1>4. z \in Sondeo /\ z.lote = lote /\ z.falto = {} /\ z.servicio = s
      /\ z.fase = IF lote # {} THEN "simular" ELSE "bajar"
  BY <1>2, <1>3 DEF Libre, Sondeo
<1>5. sondeo' = [sondeo EXCEPT ![p] = z]
  BY <1>1
<1>6. UNCHANGED <<simulado, publicada, edad, tabla, cache, ciclo, borrada, fallos>>
  BY DEF Empezar
<1> HIDE DEF z
<1>7. reloj' \in [Servicios -> Nat] /\ \A v \in Servicios : reloj'[v] \in 0..Periodo[v]
  BY SondeoTipo, SeriesFuentes
<1>8. QED
  BY <1>4, <1>5, <1>6, <1>7, SondeoTipo, UnSondeo

LEMMA RecientesDe ==
  ASSUME NEW S, NEW n, NEW T \in Recientes(S, n)
  PROVE  T \subseteq S
BY DEF Recientes

LEMMA BajarInv ==
  ASSUME InvFilas, NEW p \in Sondeos, Bajar(p)
  PROVE  InvFilas' /\ borrada \cap tabla' = {}
<1> DEFINE y == sondeo[p]
           f == Head(y.resto)
<1>1. y.fase = "bajar" /\ y.resto # <<>>
      /\ UNCHANGED <<simulado, publicada, edad, tabla, reloj, cache, ciclo, borrada, fallos>>
  BY DEF Bajar
<1>2. PICK R \in Recientes(Disponibles(f), Tope[f]) :
       sondeo' = [sondeo EXCEPT ![p] = [y EXCEPT !.resto = Tail(@), !.lote = @ \cup R,
         !.falto = IF Cardinality(R) = Tope[f] THEN Falto(y, DeFuente(f) \ R) ELSE @,
         !.fase = IF y.servicio \notin Acumulan /\ R # {} THEN "insertar" ELSE "bajar"]]
  BY DEF Bajar
<1> DEFINE F == IF Cardinality(R) = Tope[f] THEN Falto(y, DeFuente(f) \ R) ELSE y.falto
           z == [y EXCEPT !.resto = Tail(@), !.lote = @ \cup R, !.falto = F,
         !.fase = IF y.servicio \notin Acumulan /\ R # {} THEN "insertar" ELSE "bajar"]
<1>3. sondeo' = [sondeo EXCEPT ![p] = z]
  BY <1>2
<1>4. y \in Sondeo
  BY SondeoTipo
<1>5. y.resto \in Seq(Fuentes)
  BY <1>4 DEF Sondeo
<1>6. f \in Fuentes /\ Tail(y.resto) \in Seq(Fuentes)
  BY <1>1, <1>5
<1>7. R \subseteq Disponibles(f)
  BY RecientesDe
<1>8. \A o \in R : o \in publicada /\ o \in Obs /\ edad[o] < Retencion /\ edad[o] <= Retencion
  BY <1>6, <1>7, SondeoTipo, FuenteJoven, RetencionNat DEF Disponibles
<1>9. F \subseteq publicada
  BY SondeoTipo DEF Falto, DeFuente
<1> HIDE DEF F, f
<1>10. z \in Sondeo /\ z.lote = y.lote \cup R /\ z.falto = F /\ z.cruza = y.cruza
       /\ z.servicio = y.servicio /\ z.fase \in {"bajar", "insertar"} /\ (z.fase = "insertar" => R # {})
  BY <1>4, <1>6, <1>8, <1>9, SondeoTipo DEF Sondeo
<1> HIDE DEF z
<1>11. \A o \in z.lote :
             o \in publicada' /\ edad[o] <= Retencion /\ (~z.cruza => edad[o] < Retencion)
  BY <1>1, <1>8, <1>10, SondeoTipo
<1>12. z.fase \in {"insertar", "simular"} => z.lote # {}
  BY <1>10
<1>13. z.servicio \in Servicios
  BY <1>1, <1>10, SondeoTipo
<1> HIDE DEF y
<1>14. QED
  BY <1>1, <1>3, <1>9, <1>10, <1>11, <1>12, <1>13, SondeoTipo, UnSondeo

\* A step of a poll that reads nothing
LEMMA LeerNada ==
  ASSUME InvFilas, NEW p \in Sondeos, BajarFalla(p) \/ BajarAbiertas(p) \/ Persistir(p)
  PROVE  InvFilas' /\ borrada \cap tabla' = {}
<1> DEFINE y == sondeo[p]
           F == Falto(y, DeFuente(Head(y.resto)))
<1>1. y.fase = "bajar"
      /\ UNCHANGED <<simulado, publicada, edad, tabla, reloj, cache, ciclo, borrada, fallos>>
  BY DEF BajarFalla, BajarAbiertas, Persistir
<1>2. y \in Sondeo /\ y.falto \subseteq publicada /\ publicada \subseteq Obs
  BY SondeoTipo
<1>3. y.resto \in Seq(Fuentes)
  BY <1>2 DEF Sondeo
<1>4. F \subseteq publicada
  BY SondeoTipo DEF Falto, DeFuente
<1> HIDE DEF F
<1>5. \E z \in Sondeo :
        /\ sondeo' = [sondeo EXCEPT ![p] = z]
        /\ z.lote = y.lote /\ z.falto \subseteq publicada /\ z.cruza = y.cruza
        /\ z.servicio = y.servicio
        /\ z.fase \in {"bajar", "insertar"} /\ (z.fase = "insertar" => y.lote # {})
  <2>1. CASE BajarFalla(p)
    <3> DEFINE z == [y EXCEPT !.resto = Tail(@), !.falto = F]
    <3>1. y.resto # <<>>
      BY <2>1 DEF BajarFalla
    <3>2. Tail(y.resto) \in Seq(Fuentes)
      BY <1>3, <3>1
    <3>3. z \in Sondeo /\ z.lote = y.lote /\ z.falto = F /\ z.cruza = y.cruza
          /\ z.servicio = y.servicio /\ z.fase = y.fase
      BY <1>2, <1>4, <3>2 DEF Sondeo
    <3>4. sondeo' = [sondeo EXCEPT ![p] = z]
      BY <2>1 DEF BajarFalla, F
    <3> HIDE DEF z
    <3>5. QED
      BY <1>1, <1>4, <3>3, <3>4
  <2>2. CASE BajarAbiertas(p)
    <3> DEFINE z == [y EXCEPT !.resto = Abiertas[y.servicio], !.abiertas = TRUE]
    <3>1. Abiertas[y.servicio] \in Seq(Fuentes)
      BY <1>1, SondeoTipo, SeriesFuentes
    <3>2. z \in Sondeo /\ z.lote = y.lote /\ z.falto = y.falto /\ z.cruza = y.cruza
          /\ z.servicio = y.servicio /\ z.fase = y.fase
      BY <1>2, <3>1 DEF Sondeo
    <3>3. sondeo' = [sondeo EXCEPT ![p] = z]
      BY <2>2 DEF BajarAbiertas
    <3> HIDE DEF z
    <3>4. QED
      BY <1>1, <1>2, <3>2, <3>3
  <2>3. CASE Persistir(p)
    <3> DEFINE z == [y EXCEPT !.fase = "insertar", !.abiertas = TRUE]
    <3>1. z \in Sondeo /\ z.lote = y.lote /\ z.falto = y.falto /\ z.cruza = y.cruza
          /\ z.servicio = y.servicio /\ z.fase = "insertar"
      BY <1>2 DEF Sondeo
    <3>2. sondeo' = [sondeo EXCEPT ![p] = z] /\ y.lote # {}
      BY <2>3 DEF Persistir
    <3> HIDE DEF z
    <3>3. QED
      BY <1>2, <3>1, <3>2
  <2>4. QED
    BY <2>1, <2>2, <2>3
<1>6. PICK z \in Sondeo :
        /\ sondeo' = [sondeo EXCEPT ![p] = z]
        /\ z.lote = y.lote /\ z.falto \subseteq publicada /\ z.cruza = y.cruza
        /\ z.servicio = y.servicio
        /\ z.fase \in {"bajar", "insertar"} /\ (z.fase = "insertar" => y.lote # {})
  BY <1>5
<1>7. \A o \in z.lote :
             o \in publicada' /\ edad[o] <= Retencion /\ (~z.cruza => edad[o] < Retencion)
  BY <1>1, <1>6, SondeoTipo
<1>8. z.servicio \in Servicios
  BY <1>1, <1>6, SondeoTipo
<1> HIDE DEF y
<1>9. QED
  BY <1>1, <1>6, <1>7, <1>8, SondeoTipo, UnSondeo

\* A poll and its rows change together: the chunks of createMany and the
\* simulated events insert what is younger than the retention, or new.
LEMMA InsertarInv ==
  ASSUME InvFilas, NEW p \in Sondeos, InsertarTrozo(p) \/ InsertarFalla(p)
  PROVE  InvFilas' /\ borrada \cap tabla' = {}
<1> DEFINE y == sondeo[p]
<1>1. y.fase = "insertar" /\ UNCHANGED <<simulado, publicada, edad, reloj, cache, ciclo, borrada, fallos>>
  BY DEF InsertarTrozo, InsertarFalla
<1>2. /\ y \in Sondeo /\ y.falto \subseteq publicada /\ y.lote \subseteq publicada
      /\ y.servicio \in Servicios /\ borrada \cap y.lote = {}
      /\ \A o \in y.lote : edad[o] <= Retencion /\ (~y.cruza => edad[o] < Retencion)
  BY <1>1, SondeoTipo
<1>3. ASSUME NEW L \in SUBSET y.lote, NEW F \in SUBSET publicada,
             NEW fase \in {"bajar", "insertar"}, fase = "insertar" => L # {},
             sondeo' = [sondeo EXCEPT ![p] = [y EXCEPT !.lote = L, !.fase = fase, !.falto = F]],
             tabla' = tabla \/ \E T \in SUBSET y.lote : tabla' = tabla \cup T
      PROVE  InvFilas' /\ borrada \cap tabla' = {}
  <2> DEFINE z == [y EXCEPT !.lote = L, !.fase = fase, !.falto = F]
  <2>1. publicada \subseteq Obs
    BY SondeoTipo
  <2>2. /\ z \in Sondeo /\ z.lote = L /\ z.fase = fase /\ z.falto = F /\ z.cruza = y.cruza
        /\ z.servicio = y.servicio
    BY <1>2, <2>1 DEF Sondeo
  <2>3. sondeo' = [sondeo EXCEPT ![p] = z]
    BY <1>3
  <2> HIDE DEF z
  <2>4. tabla' \subseteq publicada /\ borrada \cap tabla' = {}
    BY <1>2, <1>3, SondeoTipo
  <2>5. \A o \in z.lote :
             o \in publicada' /\ edad[o] <= Retencion /\ (~z.cruza => edad[o] < Retencion)
    BY <1>1, <1>2, <2>2
  <2> HIDE DEF y
  <2>6. QED
    BY <1>1, <1>2, <1>3, <2>2, <2>3, <2>4, <2>5, SondeoTipo, UnSondeo
<1>4. CASE InsertarTrozo(p)
  <2>1. PICK T \in Recientes(y.lote, Trozo) :
       /\ tabla' = tabla \cup T
       /\ sondeo' = [sondeo EXCEPT ![p].lote = y.lote \ T,
                       ![p].fase = IF T = y.lote THEN "bajar" ELSE "insertar"]
    BY <1>4 DEF InsertarTrozo
  <2>2. T \subseteq y.lote
    BY RecientesDe
  <2> DEFINE L == y.lote \ T
             fase == IF T = y.lote THEN "bajar" ELSE "insertar"
  <2>3. [y EXCEPT !.lote = L, !.fase = fase, !.falto = y.falto] = [y EXCEPT !.lote = L, !.fase = fase]
    BY <1>2 DEF Sondeo
  <2>4. sondeo' = [sondeo EXCEPT ![p] = [y EXCEPT !.lote = L, !.fase = fase]]
    BY <2>1 DEF InvFilas, FormaClima
  <2>5. T # y.lote => \E o \in y.lote : o \notin T
    BY <2>2
  <2>6. L \in SUBSET y.lote /\ fase \in {"bajar", "insertar"} /\ (fase = "insertar" => L # {})
    BY <2>5
  <2>7. tabla' = tabla \cup T
    BY <2>1
  <2> HIDE DEF L, fase, y
  <2>8. sondeo' = [sondeo EXCEPT ![p] = [y EXCEPT !.lote = L, !.fase = fase, !.falto = y.falto]]
    BY <2>3, <2>4
  <2>9. y.falto \in SUBSET publicada /\ \E S \in SUBSET y.lote : tabla' = tabla \cup S
    BY <1>2, <2>2, <2>7
  <2>10. QED
    BY <1>3, <2>6, <2>8, <2>9
<1>5. CASE InsertarFalla(p)
  <2> DEFINE F == Falto(y, y.lote)
  <2>1. sondeo' = [sondeo EXCEPT ![p] = [y EXCEPT !.lote = {}, !.fase = "bajar", !.falto = F]]
        /\ tabla' = tabla
    BY <1>5 DEF InsertarFalla, InvFilas, FormaClima
  <2>2. F \in SUBSET publicada
    BY <1>2 DEF Falto
  <2> HIDE DEF F, y
  <2>3. QED
    BY <1>3, <2>1, <2>2
<1>6. QED
  BY <1>4, <1>5

LEMMA SimularInv ==
  ASSUME InvFilas, NEW p \in Sondeos, Simular(p)
  PROVE  InvFilas' /\ borrada \cap tabla' = {}
<1> DEFINE y == sondeo[p]
<1>1. y.fase = "simular" /\ UNCHANGED <<simulado, edad, reloj, cache, ciclo, borrada, fallos>>
  BY DEF Simular
<1>2. PICK o \in y.lote :
       /\ sondeo' = [sondeo EXCEPT ![p].lote = @ \ {o},
                       ![p].fase = IF y.lote = {o} THEN "bajar" ELSE "simular"]
       /\ \/ o \notin publicada \cup Inadmisibles
             /\ publicada' = publicada \cup {o} /\ tabla' = tabla \cup {o}
          \/ (FallaBD \/ o \in publicada \cup Inadmisibles) /\ UNCHANGED <<publicada, tabla>>
  BY DEF Simular
<1> DEFINE z == [y EXCEPT !.lote = @ \ {o}, !.fase = IF y.lote = {o} THEN "bajar" ELSE "simular"]
<1>3. sondeo' = [sondeo EXCEPT ![p] = z]
  BY <1>2 DEF InvFilas, FormaClima
<1>4. y \in Sondeo /\ y.lote \subseteq Obs /\ y.falto \subseteq publicada /\ y.servicio \in Servicios
  BY <1>1, SondeoTipo
<1>5. /\ z \in Sondeo /\ z.lote = y.lote \ {o} /\ z.falto = y.falto /\ z.servicio = y.servicio
      /\ z.fase = IF y.lote = {o} THEN "bajar" ELSE "simular"
  BY <1>4 DEF Sondeo
<1> HIDE DEF z
<1>6. /\ publicada \subseteq publicada' /\ publicada' \subseteq Obs
      /\ tabla' \subseteq publicada' /\ borrada \cap tabla' = {}
  BY <1>2, <1>4, SondeoTipo
<1>7. z.falto \subseteq publicada'
  BY <1>4, <1>5, <1>6
<1>8. z.fase = "bajar" => z.lote = {}
  BY <1>5
<1>9. z.fase = "simular" => z.lote # {}
  BY <1>5
<1> HIDE DEF y
<1>10. QED
  BY <1>1, <1>3, <1>4, <1>5, <1>6, <1>7, <1>8, <1>9, SondeoTipo, UnSondeo

LEMMA FinSondeoInv ==
  ASSUME InvFilas, NEW p \in Sondeos, FinSondeo(p)
  PROVE  InvFilas' /\ borrada \cap tabla' = {}
<1>1. /\ sondeo' = [sondeo EXCEPT ![p] = Libre]
      /\ UNCHANGED <<simulado, publicada, edad, tabla, reloj, cache, ciclo, borrada>>
  BY DEF FinSondeo
<1>2. \A o \in Obs : fallos[o] \in 0..MaxFallos /\ Hasta(fallos[o] + 1, MaxFallos) \in 0..MaxFallos
  BY SondeoTipo, RetencionNat DEF Hasta
<1>3. fallos' \in [Obs -> 0..MaxFallos]
  BY <1>2 DEF FinSondeo
<1>4. QED
  BY <1>1, <1>3, SondeoLibre, SondeoTipo, UnSondeo

LEMMA SondearInv ==
  ASSUME InvFilas, NEW p \in Sondeos, Sondear(p)
  PROVE  InvFilas' /\ borrada \cap tabla' = {}
<1>1. ASSUME NEW s \in Servicios, Poll(p, s) \/ PollNow(p, s)
      PROVE  InvFilas' /\ borrada \cap tabla' = {}
  BY <1>1, EmpezarInv DEF Poll, PollNow
<1>2. QED
  BY <1>1, BajarInv, LeerNada, InsertarInv, SimularInv, FinSondeoInv DEF Sondear

-----------------------------------------------------------------------------
(* The contexts *)

\* The evaluation e and the cache after a step, with the rest of the climate
\* as it was
LEMMA UnCiclo ==
  ASSUME IInvClima, NEW e \in Ciclos, NEW c, ciclo' = [ciclo EXCEPT ![e] = c],
         c \in [fase : {"libre", "calcular", "guardar", "tiene"}, leido : 0..Vigencia+2],
         c.fase = "calcular" => c.leido = 0,
         c.fase = "guardar" => c.leido <= 1,
         c.fase = "tiene" => c.leido <= Vigencia + 1,
         cache' \in [hay : BOOLEAN, escrito : 0..Vigencia+1, leido : 0..Vigencia+2],
         cache'.hay => cache'.leido <= cache'.escrito + 1,
         UNCHANGED <<simulado, publicada, edad, tabla, reloj, sondeo, borrada, fallos>>
  PROVE  IInvClima' /\ borrada \cap tabla' = {}
<1> USE DEF IInvClima, InvFilas, InvContexto
<1>1. ciclo' \in [Ciclos -> [fase : {"libre", "calcular", "guardar", "tiene"},
                             leido : 0..Vigencia+2]]
  BY DEF TypeOKClima
<1>2. TypeOKClima'
  BY <1>1 DEF TypeOKClima
<1>3. FormaClima' /\ LoteReciente' /\ BorradaVieja' /\ borrada \cap tabla' = {}
  BY DEF FormaClima, LoteReciente, BorradaVieja
<1>4. \A d \in Ciclos : ciclo'[d] = IF d = e THEN c ELSE ciclo[d]
  BY DEF TypeOKClima
<1>5. CachePuntual' /\ ContextoReciente'
  BY <1>4 DEF CachePuntual, ContextoReciente
<1>6. QED
  BY <1>2, <1>3, <1>5

LEMMA ContextoInv ==
  ASSUME IInvClima, NEW e \in Ciclos, Contexto(e)
  PROVE  IInvClima' /\ borrada \cap tabla' = {}
<1> DEFINE Fases == {"libre", "calcular", "guardar", "tiene"}
<1>1. /\ ciclo \in [Ciclos -> [fase : Fases, leido : 0..Vigencia+2]]
      /\ cache \in [hay : BOOLEAN, escrito : 0..Vigencia+1, leido : 0..Vigencia+2]
      /\ cache.hay => cache.leido <= cache.escrito + 1
      /\ ciclo[e].fase = "calcular" => ciclo[e].leido = 0
      /\ ciclo[e].fase = "guardar" => ciclo[e].leido <= 1
      /\ Vigencia \in Nat
  BY RetencionNat DEF IInvClima, InvFilas, InvContexto, TypeOKClima, CachePuntual
<1>2. UNCHANGED <<simulado, publicada, edad, tabla, reloj, sondeo, borrada, fallos>>
  BY DEF Contexto, PedirContexto, LeerFilas, CalcContexto, ContextoFalla
<1>3. \E c \in [fase : Fases, leido : 0..Vigencia+2] :
        /\ ciclo' = [ciclo EXCEPT ![e] = c]
        /\ c.fase = "calcular" => c.leido = 0
        /\ c.fase = "guardar" => c.leido <= 1
        /\ c.fase = "tiene" => c.leido <= Vigencia + 1
        /\ cache' \in [hay : BOOLEAN, escrito : 0..Vigencia+1, leido : 0..Vigencia+2]
        /\ cache'.hay => cache'.leido <= cache'.escrito + 1
  <2>1. CASE PedirContexto(e)
    <3> DEFINE c == IF EnCache THEN [fase |-> "tiene", leido |-> cache.leido]
                 ELSE [fase |-> "calcular", leido |-> 0]
    <3>1. c \in [fase : Fases, leido : 0..Vigencia+2] /\ c.fase # "guardar"
          /\ (c.fase = "calcular" => c.leido = 0) /\ (c.fase = "tiene" => c.leido <= Vigencia + 1)
      BY <1>1 DEF EnCache
    <3>2. ciclo' = [ciclo EXCEPT ![e] = c] /\ cache' = cache
      BY <2>1 DEF PedirContexto
    <3> HIDE DEF c
    <3>3. QED
      BY <1>1, <3>1, <3>2
  <2>2. CASE LeerFilas(e)
    <3> DEFINE c == [ciclo[e] EXCEPT !.fase = "guardar"]
    <3>1. c \in [fase : Fases, leido : 0..Vigencia+2] /\ c.leido = 0 /\ c.leido <= 1
          /\ c.fase \notin {"calcular", "tiene"}
      BY <1>1, <2>2 DEF LeerFilas
    <3>2. ciclo' = [ciclo EXCEPT ![e] = c] /\ cache' = cache
      BY <1>1, <2>2 DEF LeerFilas
    <3> HIDE DEF c
    <3>3. QED
      BY <1>1, <3>1, <3>2
  <2>3. CASE CalcContexto(e)
    <3> DEFINE c == [ciclo[e] EXCEPT !.fase = "tiene"]
    <3>1. c \in [fase : Fases, leido : 0..Vigencia+2] /\ c.leido <= Vigencia + 1
          /\ c.fase \notin {"calcular", "guardar"}
      BY <1>1, <2>3 DEF CalcContexto
    <3>2. ciclo' = [ciclo EXCEPT ![e] = c]
      BY <1>1, <2>3 DEF CalcContexto
    <3>3. /\ cache' \in [hay : BOOLEAN, escrito : 0..Vigencia+1, leido : 0..Vigencia+2]
          /\ cache'.hay => cache'.leido <= cache'.escrito + 1
      <4>1. ciclo[e].leido \in 0..Vigencia+2 /\ ciclo[e].leido <= 1 /\ 0 \in 0..Vigencia+1
        BY <1>1, <2>3 DEF CalcContexto
      <4>2. CASE cache' = cache
        BY <1>1, <4>2
      <4>3. CASE cache' = [hay |-> TRUE, escrito |-> 0, leido |-> ciclo[e].leido]
        BY <4>1, <4>3
      <4>4. QED
        BY <2>3, <4>2, <4>3 DEF CalcContexto
    <3>4. (c.fase = "calcular" => c.leido = 0) /\ (c.fase = "guardar" => c.leido <= 1)
      BY <3>1
    <3> HIDE DEF c
    <3>5. QED
      BY <3>1, <3>2, <3>3, <3>4
  <2>4. CASE ContextoFalla(e)
    <3>1. SinCiclo \in [fase : Fases, leido : 0..Vigencia+2] /\ SinCiclo.fase = "libre"
      BY <1>1 DEF SinCiclo
    <3>2. ciclo' = [ciclo EXCEPT ![e] = SinCiclo] /\ cache' = cache
      BY <2>4 DEF ContextoFalla
    <3>3. QED
      BY <1>1, <3>1, <3>2
  <2>5. QED
    BY <2>1, <2>2, <2>3, <2>4 DEF Contexto
<1>4. QED
  BY <1>2, <1>3, UnCiclo

\* A tick makes the cached rows and their date one older
LEMMA TickContexto ==
  ASSUME IInvClima, Tick
  PROVE  InvContexto'
<1>1. /\ ciclo \in [Ciclos -> [fase : {"libre", "calcular", "guardar", "tiene"},
                               leido : 0..Vigencia+2]]
      /\ cache \in [hay : BOOLEAN, escrito : 0..Vigencia+1, leido : 0..Vigencia+2]
      /\ CachePuntual /\ ContextoReciente /\ Vigencia \in Nat
  BY RetencionNat DEF IInvClima, InvFilas, InvContexto, TypeOKClima
<1>2. cache'.hay => cache'.leido <= cache'.escrito + 1
  BY <1>1 DEF Tick, CachePuntual, Hasta
<1>3. \A e \in Ciclos : \/ ciclo[e].fase # "guardar" /\ ciclo'[e] = ciclo[e]
                        \/ ciclo[e].fase = "guardar" /\ ciclo'[e].fase = "guardar"
                           /\ ciclo'[e].leido = 1
  BY <1>1 DEF Tick
<1>4. QED
  BY <1>1, <1>2, <1>3 DEF InvContexto, CachePuntual, ContextoReciente

LEMMA QuietoContexto ==
  ASSUME InvContexto, UNCHANGED <<cache, ciclo>>
  PROVE  InvContexto'
BY DEF InvContexto, CachePuntual, ContextoReciente

LEMMA PasoInvClima ==
  ASSUME IInvClima, PasoClima
  PROVE  IInvClima' /\ borrada \cap tabla' = {}
<1>1. CASE Tick
  BY <1>1, TickInv, TickContexto DEF IInvClima
<1>2. CASE Limpiar
  BY <1>2, LimpiarInv, QuietoContexto DEF IInvClima, Limpiar
<1>3. ASSUME NEW o \in Obs, Publicar(o) \/ Create(o)
      PROVE  IInvClima' /\ borrada \cap tabla' = {}
  BY <1>3, PublicarInv, QuietoContexto DEF IInvClima, Publicar, Create
<1>4. ASSUME NEW p \in Sondeos, Sondear(p)
      PROVE  IInvClima' /\ borrada \cap tabla' = {}
  <2>1. UNCHANGED <<cache, ciclo>>
    BY <1>4 DEF Sondear, Poll, PollNow, Empezar, Bajar, BajarFalla, BajarAbiertas, Persistir,
                InsertarTrozo, InsertarFalla, Simular, FinSondeo
  <2>2. QED
    BY <1>4, <2>1, SondearInv, QuietoContexto DEF IInvClima
<1>5. ASSUME NEW e \in Ciclos, Contexto(e)
      PROVE  IInvClima' /\ borrada \cap tabla' = {}
  BY <1>5, ContextoInv
<1>6. QED
  BY <1>1, <1>2, <1>3, <1>4, <1>5 DEF PasoClima

LEMMA QuietoClima ==
  ASSUME IInvClima, UNCHANGED varsClima
  PROVE  IInvClima' /\ borrada \cap tabla' = {}
BY DEF varsClima, IInvClima, InvFilas, InvContexto, TypeOKClima, FormaClima, LoteReciente,
       BorradaVieja, CachePuntual, ContextoReciente

-----------------------------------------------------------------------------
(* The cycle *)

InvPred ==
  /\ respuesta \in [Ciclos -> [Modelos -> Respuestas]]
  /\ guardadas \subseteq Ciclos \X Modelos
  /\ DecideConLoGuardado

IInv == IInvClima /\ IInvIA /\ InvPred

LEMMA InicioInv == Init => IInv
BY InicioClima, InicioIA
   DEF Init, IInv, InvPred, Respuestas, SinRespuestas, DecideConLoGuardado

\* An answer of a prediction, with its row when the cycle may use it
LEMMA ResponderInv ==
  ASSUME InvPred, NEW e \in Ciclos, NEW t \in Modelos, NEW r \in Respuestas, Responder(e, t, r),
         \/ guardadas' = guardadas /\ r # "vale"
         \/ guardadas' = guardadas \cup {<<e, t>>}
  PROVE  InvPred'
BY DEF InvPred, Responder, DecideConLoGuardado

LEMMA EvaluarInv ==
  ASSUME IInv, NEW e \in Ciclos, Evaluar(e)
  PROVE  IInv' /\ borrada \cap tabla' = {}
<1>1. SinCiclo \in [fase : {"libre", "calcular", "guardar", "tiene"}, leido : 0..Vigencia+2]
      /\ SinCiclo.fase = "libre"
  BY RetencionNat DEF SinCiclo
<1>2. IInvClima' /\ borrada \cap tabla' = {}
  <2>1. /\ cache \in [hay : BOOLEAN, escrito : 0..Vigencia+1, leido : 0..Vigencia+2]
        /\ cache.hay => cache.leido <= cache.escrito + 1
    BY DEF IInv, IInvClima, InvFilas, InvContexto, TypeOKClima, CachePuntual
  <2>2. QED
    BY <1>1, <2>1, UnCiclo DEF Evaluar, IInv
<1>3. IInvIA'
  BY QuietoIA DEF Evaluar, IInv
<1>4. InvPred'
  <2>1. respuesta' = [respuesta EXCEPT ![e] = SinRespuestas]
        /\ guardadas' = {g \in guardadas : g[1] # e}
    BY DEF Evaluar
  <2>2. SinRespuestas \in [Modelos -> Respuestas] /\ \A t \in Modelos : SinRespuestas[t] # "vale"
    BY DEF SinRespuestas, Respuestas
  <2>3. QED
    BY <2>1, <2>2 DEF IInv, InvPred, DecideConLoGuardado
<1>5. QED
  BY <1>2, <1>3, <1>4 DEF IInv

LEMMA PasoInv ==
  ASSUME IInv, [Next]_vars
  PROVE  IInv' /\ borrada \cap tabla' = {}
<1> USE DEF IInv
<1>1. ASSUME UNCHANGED varsPred
      PROVE  InvPred'
  BY <1>1 DEF varsPred, InvPred, DecideConLoGuardado
<1>2. CASE PasoClima /\ UNCHANGED <<varsIA, varsPred>>
  BY <1>1, <1>2, PasoInvClima, QuietoIA
<1>3. CASE PasoIA /\ UNCHANGED <<varsClima, varsPred>>
  BY <1>1, <1>3, PasoInvIA, QuietoClima
<1>4. ASSUME NEW e \in Ciclos, Evaluar(e)
      PROVE  IInv' /\ borrada \cap tabla' = {}
  BY <1>4, EvaluarInv
<1>5. ASSUME NEW e \in Ciclos, NEW t \in Modelos, PrediccionFalla(e, t) \/ Guardar(e, t)
      PROVE  IInv' /\ borrada \cap tabla' = {}
  <2>1. UNCHANGED <<varsClima, varsIA>>
    BY <1>5 DEF PrediccionFalla, Guardar
  <2>2. InvPred'
    BY <1>5, ResponderInv DEF PrediccionFalla, Guardar, Respuestas
  <2>3. QED
    BY <2>1, <2>2, QuietoClima, QuietoIA
<1>6. ASSUME NEW e \in Ciclos, NEW t \in Modelos, NEW w \in Trabajadores, Prediccion(e, t, w)
      PROVE  IInv' /\ borrada \cap tabla' = {}
  <2>1. UNCHANGED varsClima /\ Predict(w, t) /\ Responder(e, t, "persiste") /\ guardadas' = guardadas
    BY <1>6 DEF Prediccion
  <2>2. InvPred'
    BY <2>1, ResponderInv DEF Respuestas
  <2>3. QED
    BY <2>1, <2>2, QuietoClima, PredictIA
<1>7. CASE UNCHANGED vars
  BY <1>1, <1>7, QuietoClima, QuietoIA DEF vars
<1>8. QED
  BY <1>2, <1>3, <1>4, <1>5, <1>6, <1>7 DEF Next

LEMMA IInvCorrecta == Spec => []IInv
<1>1. IInv /\ [Next]_vars => IInv'
  BY PasoInv
<1>2. QED
  BY InicioInv, <1>1, PTL DEF Spec

-----------------------------------------------------------------------------
(* What is lost *)

EnLista(f, l) == \E i \in 1..Len(l) : l[i] = f

\* The poll z has o, has missed it, or is still going to read f
Lleva(z, o, f) == o \in z.falto \cup z.lote \/ EnLista(f, z.resto)

\* It began on time, when f gave o and would for another tick: it ends with o
\* in the table or as one more failure
Contara(z, o, s, f) ==
  /\ z.puntual /\ z.servicio = s
  /\ IF z.cruza THEN edad[o] <= Ventana[f] ELSE edad[o] < Ventana[f]
  /\ Lleva(z, o, f)

Contaran(o, s, f) == {p \in Sondeos : Contara(sondeo[p], o, s, f)}
Oportunidades(o, s, f) == fallos[o] + Cardinality(Contaran(o, s, f))

\* One poll each Periodo[s] ticks of the age of o, while f gives it
Umbral(o, s, f) == IF edad[o] < Ventana[f] THEN edad[o] + reloj[s] ELSE Ventana[f]
Cuenta(o, s, f) ==
  \/ fallos[o] >= MaxFallos
  \/ Periodo[s] * (Oportunidades(o, s, f) + 1) >= Umbral(o, s, f)

\* o has no row and s reads it from f
Debida(o, s, f) ==
  o \in publicada \ (tabla \cup borrada) /\ ~Simula(s) /\ EnLista(f, Series[s])

SoloSimula == \A p \in Sondeos : sondeo[p].fase = "simular" => Simula(sondeo[p].servicio)
SinEdad == \A o \in Obs \ publicada : edad[o] = 0
Contados ==
  \A o \in Obs, s \in Servicios : \A f \in FuentesDe[o] : Debida(o, s, f) => Cuenta(o, s, f)

InvFallos == SoloSimula /\ SinEdad /\ Contados

LEMMA Numeros ==
  ASSUME InvFilas, NEW o \in Obs, NEW s \in Servicios, NEW f \in FuentesDe[o]
  PROVE  /\ f \in Fuentes /\ Ventana[f] \in Nat /\ Ventana[f] < Viejo /\ Viejo \in Nat
         /\ Periodo[s] \in Nat \ {0} /\ reloj[s] \in Nat /\ reloj[s] <= Periodo[s]
         /\ edad[o] \in Nat /\ edad[o] <= Viejo
         /\ fallos[o] \in Nat /\ fallos[o] <= MaxFallos /\ MaxFallos \in Nat
         /\ IsFiniteSet(Contaran(o, s, f)) /\ Cardinality(Contaran(o, s, f)) \in Nat
         /\ Oportunidades(o, s, f) \in Nat
<1>1. f \in Fuentes
  BY ClimaAssumption DEF ClimaAssumption
<1>2. Ventana[f] \in Nat /\ Ventana[f] < Viejo /\ Viejo \in Nat
  BY <1>1, FuenteJoven, RetencionNat
<1>3. /\ edad[o] \in 0..Viejo /\ fallos[o] \in 0..MaxFallos /\ MaxFallos \in Nat
      /\ reloj[s] \in 0..Periodo[s] /\ reloj[s] \in Nat /\ Periodo[s] \in Nat \ {0}
  BY RetencionNat, SeriesFuentes DEF InvFilas, TypeOKClima, FormaClima
<1>4. IsFiniteSet(Contaran(o, s, f)) /\ Cardinality(Contaran(o, s, f)) \in Nat
  <2>1. IsFiniteSet(Sondeos) /\ Contaran(o, s, f) \in SUBSET Sondeos
    BY ClimaAssumption DEF ClimaAssumption, Contaran
  <2>2. QED
    BY <2>1, FS_Subset, FS_CardinalityType
<1>5. QED
  BY <1>1, <1>2, <1>3, <1>4 DEF Oportunidades

LEMMA ProductoCrece ==
  ASSUME NEW n \in Nat \ {0}, NEW k \in Nat, NEW m \in Nat, k <= m
  PROVE  n * (k + 1) <= n * (m + 1)
OBVIOUS

LEMMA ProductoSigue ==
  ASSUME NEW n \in Nat \ {0}, NEW k \in Nat
  PROVE  n * ((k + 1) + 1) = n * (k + 1) + n /\ n * (k + 1) >= n
OBVIOUS

\* As many whole periods as fit in w - 1 ticks
LEMMA Division ==
  ASSUME NEW n \in Nat \ {0}, NEW w \in Nat, NEW k \in Nat, n * (k + 1) >= w
  PROVE  (w - 1) \div n <= k
<1> DEFINE d == (w - 1) \div n
<1>1. d \in Int /\ n * d <= w - 1
  OBVIOUS
<1> HIDE DEF d
<1>2. SUFFICES ASSUME d >= k + 1 PROVE FALSE
  BY <1>1 DEF d
<1>3. n * d >= n * (k + 1)
  BY <1>1, <1>2
<1>4. QED
  BY <1>1, <1>3

\* Nothing is lost of what counts: no fewer opportunities, no higher threshold.
LEMMA CuentaSigue ==
  ASSUME InvFilas, InvFilas', NEW o \in Obs, NEW s \in Servicios, NEW f \in FuentesDe[o],
         Cuenta(o, s, f), fallos[o] <= fallos'[o],
         fallos'[o] >= MaxFallos \/ Oportunidades(o, s, f) <= Oportunidades(o, s, f)',
         Umbral(o, s, f)' <= Umbral(o, s, f)
  PROVE  Cuenta(o, s, f)'
<1>1. /\ Periodo[s] \in Nat \ {0} /\ Oportunidades(o, s, f) \in Nat /\ MaxFallos \in Nat
      /\ fallos[o] \in Nat /\ Umbral(o, s, f) \in Nat
  BY Numeros DEF Umbral
<1>2. Oportunidades(o, s, f)' \in Nat /\ fallos'[o] \in Nat /\ Umbral(o, s, f)' \in Nat
  <2>1. f \in Fuentes /\ Ventana[f] \in Nat
    BY Numeros
  <2>2. /\ edad'[o] \in Nat /\ reloj'[s] \in Nat
        /\ Cardinality(Contaran(o, s, f)') \in Nat /\ fallos'[o] \in Nat
    <3>1. edad'[o] \in 0..Viejo /\ reloj'[s] \in Nat /\ fallos'[o] \in 0..MaxFallos
      BY DEF InvFilas, TypeOKClima, FormaClima
    <3>2. IsFiniteSet(Sondeos) /\ Contaran(o, s, f)' \in SUBSET Sondeos
      BY ClimaAssumption DEF ClimaAssumption, Contaran
    <3>3. QED
      BY <3>1, <3>2, RetencionNat, FS_Subset, FS_CardinalityType
  <2>3. QED
    BY <2>1, <2>2 DEF Oportunidades, Umbral
<1>3. CASE fallos'[o] >= MaxFallos
  BY <1>3 DEF Cuenta
<1>4. CASE ~(fallos'[o] >= MaxFallos)
  <2>1. Periodo[s] * (Oportunidades(o, s, f) + 1) >= Umbral(o, s, f)
    BY <1>1, <1>2, <1>4 DEF Cuenta
  <2>2. Periodo[s] * (Oportunidades(o, s, f) + 1) <= Periodo[s] * (Oportunidades(o, s, f)' + 1)
    BY <1>1, <1>2, <1>4, ProductoCrece
  <2>3. \A a, b, c, d \in Int : a >= b /\ a <= c /\ d <= b => c >= d
    OBVIOUS
  <2>4. Periodo[s] * (Oportunidades(o, s, f)' + 1) >= Umbral(o, s, f)'
    BY <1>1, <1>2, <2>1, <2>2, <2>3
  <2>5. QED
    BY <2>4 DEF Cuenta
<1>5. QED
  BY <1>3, <1>4

\* As much of what counts or more, and the same clocks.
LEMMA CuentaQuieta ==
  ASSUME InvFilas, InvFilas', NEW o \in Obs, NEW s \in Servicios, NEW f \in FuentesDe[o],
         Cuenta(o, s, f),
         edad'[o] = edad[o], reloj'[s] = reloj[s], fallos'[o] = fallos[o],
         Contaran(o, s, f) \subseteq Contaran(o, s, f)'
  PROVE  Cuenta(o, s, f)'
<1>1. IsFiniteSet(Contaran(o, s, f)')
  <2>1. IsFiniteSet(Sondeos) /\ Contaran(o, s, f)' \in SUBSET Sondeos
    BY ClimaAssumption DEF ClimaAssumption, Contaran
  <2>2. QED
    BY <2>1, FS_Subset
<1>2. Cardinality(Contaran(o, s, f)) <= Cardinality(Contaran(o, s, f)')
  BY <1>1, FS_Subset
<1>3. Cardinality(Contaran(o, s, f)') \in Nat
  BY <1>1, FS_CardinalityType
<1>4. Oportunidades(o, s, f) <= Oportunidades(o, s, f)'
  BY <1>2, <1>3, Numeros DEF Oportunidades
<1>5. Umbral(o, s, f)' <= Umbral(o, s, f) /\ fallos[o] <= fallos'[o]
  <2>1. Umbral(o, s, f)' = Umbral(o, s, f)
    BY DEF Umbral
  <2>2. Umbral(o, s, f) \in Nat /\ fallos[o] \in Nat
    BY Numeros DEF Umbral
  <2>3. QED
    BY <2>1, <2>2
<1>6. QED
  BY <1>4, <1>5, CuentaSigue

\* A poll that goes on: what it had to do with o it still has.
LEMMA SondeoSigue ==
  ASSUME InvFilas, InvFilas', NEW p \in Sondeos, NEW z,
         sondeo' = [sondeo EXCEPT ![p] = z], UNCHANGED <<edad, reloj, fallos>>,
         z.puntual = sondeo[p].puntual, z.servicio = sondeo[p].servicio,
         z.cruza = sondeo[p].cruza,
         NEW o \in Obs, NEW s \in Servicios, NEW f \in FuentesDe[o], Cuenta(o, s, f),
         /\ sondeo[p].puntual /\ sondeo[p].servicio = s /\ edad[o] <= Ventana[f]
         /\ Lleva(sondeo[p], o, f)
         => Lleva(z, o, f)
  PROVE  Cuenta(o, s, f)'
<1>1. /\ sondeo'[p] = z
      /\ \A q \in Sondeos \ {p} : sondeo'[q] = sondeo[q]
  BY DEF InvFilas, FormaClima
<1>2. edad[o] < Ventana[f] => edad[o] <= Ventana[f]
  BY Numeros
<1>3. Contara(sondeo[p], o, s, f) => Contara(z, o, s, f)
  BY <1>2 DEF Contara
<1>4. ASSUME NEW q \in Sondeos, Contara(sondeo[q], o, s, f)
      PROVE  Contara(sondeo[q], o, s, f)'
  <2>1. Contara(sondeo'[q], o, s, f)
    BY <1>1, <1>3, <1>4
  <2>2. QED
    BY <2>1 DEF Contara
<1>5. Contaran(o, s, f) \subseteq Contaran(o, s, f)'
  BY <1>4 DEF Contaran
<1>6. QED
  BY <1>5, CuentaQuieta

LEMMA RestoSinCabeza ==
  ASSUME NEW l \in Seq(Fuentes), l # <<>>, NEW f, EnLista(f, l)
  PROVE  f = Head(l) \/ EnLista(f, Tail(l))
<1>1. PICK i \in 1..Len(l) : l[i] = f
  BY DEF EnLista
<1>2. CASE i = 1
  BY <1>1, <1>2
<1>3. CASE i # 1
  <2>1. i - 1 \in 1..Len(Tail(l)) /\ Tail(l)[i - 1] = l[i]
    BY <1>1, <1>3
  <2>2. QED
    BY <1>1, <2>1 DEF EnLista
<1>4. QED
  BY <1>2, <1>3

\* What the n most recent leave out are more than n.
LEMMA RecientesTodas ==
  ASSUME NEW S, IsFiniteSet(S), NEW n \in Nat, NEW R \in Recientes(S, n), Cardinality(R) # n
  PROVE  R = S
<1>1. R \in SUBSET S /\ Cardinality(R) = Hasta(Cardinality(S), n)
  BY DEF Recientes
<1>2. Cardinality(R) = Cardinality(S)
  BY <1>1 DEF Hasta
<1>3. QED
  BY <1>1, <1>2, FS_Subset

\* A source that still gives o brings it, or newer rows took its place.
LEMMA BajarCuenta ==
  ASSUME InvFilas, InvFilas', NEW p \in Sondeos, Bajar(p),
         NEW o \in Obs, NEW s \in Servicios, NEW f \in FuentesDe[o], o \in publicada,
         Cuenta(o, s, f)
  PROVE  Cuenta(o, s, f)'
<1> DEFINE y == sondeo[p]
           g == Head(y.resto)
<1>1. y.resto # <<>> /\ UNCHANGED <<edad, reloj, fallos>>
  BY DEF Bajar
<1>2. PICK R \in Recientes(Disponibles(g), Tope[g]) :
       sondeo' = [sondeo EXCEPT ![p] = [y EXCEPT !.resto = Tail(@), !.lote = @ \cup R,
         !.falto = IF Cardinality(R) = Tope[g] THEN Falto(y, DeFuente(g) \ R) ELSE @,
         !.fase = IF y.servicio \notin Acumulan /\ R # {} THEN "insertar" ELSE "bajar"]]
  BY DEF Bajar
<1> DEFINE F == IF Cardinality(R) = Tope[g] THEN Falto(y, DeFuente(g) \ R) ELSE y.falto
           z == [y EXCEPT !.resto = Tail(@), !.lote = @ \cup R, !.falto = F,
         !.fase = IF y.servicio \notin Acumulan /\ R # {} THEN "insertar" ELSE "bajar"]
<1>3. sondeo' = [sondeo EXCEPT ![p] = z]
  BY <1>2
<1>4. y \in Sondeo /\ y.resto \in Seq(Fuentes) /\ y.puntual \in BOOLEAN
  BY SondeoTipo DEF Sondeo
<1>5. g \in Fuentes /\ Tope[g] \in Nat
  BY <1>1, <1>4, ClimaAssumption DEF ClimaAssumption
<1>6. y.falto \subseteq F
  BY DEF Falto
<1>7. ASSUME y.puntual, f = g, edad[o] <= Ventana[f]
      PROVE  o \in F \cup R
  <2>1. o \in Disponibles(g) /\ o \in DeFuente(g)
    BY <1>7 DEF Disponibles, DeFuente
  <2>2. IsFiniteSet(Disponibles(g))
    <3>1. Disponibles(g) \in SUBSET Obs /\ IsFiniteSet(Obs)
      BY SondeoTipo, ClimaAssumption DEF Disponibles, ClimaAssumption
    <3>2. QED
      BY <3>1, FS_Subset
  <2>3. CASE Cardinality(R) = Tope[g]
    BY <1>7, <2>1, <2>3 DEF Falto
  <2>4. CASE Cardinality(R) # Tope[g]
    BY <1>5, <2>1, <2>2, <2>4, RecientesTodas
  <2>5. QED
    BY <2>3, <2>4
<1> HIDE DEF F
<1>8. /\ z.puntual = y.puntual /\ z.servicio = y.servicio /\ z.cruza = y.cruza
      /\ z.lote = y.lote \cup R /\ z.falto = F /\ z.resto = Tail(y.resto)
  BY <1>4 DEF Sondeo
<1> HIDE DEF z
<1>9. ASSUME y.puntual, edad[o] <= Ventana[f], Lleva(y, o, f)
      PROVE  Lleva(z, o, f)
  <2>1. CASE o \in y.falto \cup y.lote
    BY <1>6, <1>8, <2>1 DEF Lleva
  <2>2. CASE EnLista(f, y.resto)
    <3>1. f = g \/ EnLista(f, Tail(y.resto))
      BY <1>1, <1>4, <2>2, RestoSinCabeza
    <3>2. QED
      BY <1>7, <1>8, <1>9, <3>1 DEF Lleva
  <2>3. QED
    BY <1>9, <2>1, <2>2 DEF Lleva
<1> HIDE DEF y
<1>10. QED
  BY <1>1, <1>3, <1>8, <1>9, SondeoSigue DEF y

\* A source that fails is remembered; turning to the open files and going on
\* to insert forget nothing.
LEMMA LeerNadaCuenta ==
  ASSUME InvFilas, InvFilas', NEW p \in Sondeos,
         BajarFalla(p) \/ BajarAbiertas(p) \/ Persistir(p),
         NEW o \in Obs, NEW s \in Servicios, NEW f \in FuentesDe[o], o \in publicada,
         Cuenta(o, s, f)
  PROVE  Cuenta(o, s, f)'
<1> DEFINE y == sondeo[p]
<1>1. UNCHANGED <<edad, reloj, fallos>>
  BY DEF BajarFalla, BajarAbiertas, Persistir
<1>2. y \in Sondeo /\ y.resto \in Seq(Fuentes)
  BY SondeoTipo DEF Sondeo
<1>3. CASE BajarFalla(p)
  <2> DEFINE F == Falto(y, DeFuente(Head(y.resto)))
             z == [y EXCEPT !.resto = Tail(@), !.falto = F]
  <2>1. y.resto # <<>> /\ sondeo' = [sondeo EXCEPT ![p] = z]
    BY <1>3 DEF BajarFalla
  <2>2. y.falto \subseteq F
    BY DEF Falto
  <2>3. y.puntual /\ f = Head(y.resto) => o \in F
    BY DEF Falto, DeFuente
  <2> HIDE DEF F
  <2>4. /\ z.puntual = y.puntual /\ z.servicio = y.servicio /\ z.cruza = y.cruza
        /\ z.lote = y.lote /\ z.falto = F /\ z.resto = Tail(y.resto)
    BY <1>2 DEF Sondeo
  <2> HIDE DEF z
  <2>5. ASSUME y.puntual, Lleva(y, o, f)
        PROVE  Lleva(z, o, f)
    <3>1. EnLista(f, y.resto) => f = Head(y.resto) \/ EnLista(f, Tail(y.resto))
      BY <1>2, <2>1, RestoSinCabeza
    <3>2. QED
      BY <2>2, <2>3, <2>4, <2>5, <3>1 DEF Lleva
  <2> HIDE DEF y
  <2>6. QED
    BY <1>1, <2>1, <2>4, <2>5, SondeoSigue DEF y
<1>4. CASE BajarAbiertas(p)
  <2> DEFINE z == [y EXCEPT !.resto = Abiertas[y.servicio], !.abiertas = TRUE]
  <2>1. y.resto = <<>> /\ sondeo' = [sondeo EXCEPT ![p] = z]
    BY <1>4 DEF BajarAbiertas
  <2>2. /\ z.puntual = y.puntual /\ z.servicio = y.servicio /\ z.cruza = y.cruza
        /\ z.lote = y.lote /\ z.falto = y.falto
    BY <1>2 DEF Sondeo
  <2> HIDE DEF z
  <2>3. Lleva(y, o, f) => Lleva(z, o, f)
    BY <2>1, <2>2 DEF Lleva, EnLista
  <2> HIDE DEF y
  <2>4. QED
    BY <1>1, <2>1, <2>2, <2>3, SondeoSigue DEF y
<1>5. CASE Persistir(p)
  <2> DEFINE z == [y EXCEPT !.fase = "insertar", !.abiertas = TRUE]
  <2>1. sondeo' = [sondeo EXCEPT ![p] = z]
    BY <1>5 DEF Persistir
  <2>2. /\ z.puntual = y.puntual /\ z.servicio = y.servicio /\ z.cruza = y.cruza
        /\ z.lote = y.lote /\ z.falto = y.falto /\ z.resto = y.resto
    BY <1>2 DEF Sondeo
  <2> HIDE DEF z
  <2>3. Lleva(y, o, f) => Lleva(z, o, f)
    BY <2>2 DEF Lleva
  <2> HIDE DEF y
  <2>4. QED
    BY <1>1, <2>1, <2>2, <2>3, SondeoSigue DEF y
<1>6. QED
  BY <1>3, <1>4, <1>5

\* What an INSERT writes is not missing any more; what it fails to write is
\* remembered.
LEMMA InsertarCuenta ==
  ASSUME InvFilas, InvFilas', NEW p \in Sondeos, InsertarTrozo(p) \/ InsertarFalla(p),
         NEW o \in Obs, NEW s \in Servicios, NEW f \in FuentesDe[o], o \notin tabla',
         Cuenta(o, s, f)
  PROVE  Cuenta(o, s, f)'
<1> DEFINE y == sondeo[p]
<1>1. UNCHANGED <<edad, reloj, fallos>>
  BY DEF InsertarTrozo, InsertarFalla
<1>2. y \in Sondeo
  BY SondeoTipo
<1>3. CASE InsertarTrozo(p)
  <2>1. PICK T \in Recientes(y.lote, Trozo) :
       /\ tabla' = tabla \cup T
       /\ sondeo' = [sondeo EXCEPT ![p].lote = y.lote \ T,
                       ![p].fase = IF T = y.lote THEN "bajar" ELSE "insertar"]
    BY <1>3 DEF InsertarTrozo
  <2> DEFINE L == y.lote \ T
             fase == IF T = y.lote THEN "bajar" ELSE "insertar"
             z == [y EXCEPT !.lote = L, !.fase = fase]
  <2>2. sondeo' = [sondeo EXCEPT ![p] = z]
    BY <2>1 DEF InvFilas, FormaClima
  <2>3. o \in y.lote => o \in L
    BY <2>1
  <2> HIDE DEF L, fase
  <2>4. /\ z.puntual = y.puntual /\ z.servicio = y.servicio /\ z.cruza = y.cruza
        /\ z.lote = L /\ z.falto = y.falto /\ z.resto = y.resto
    BY <1>2 DEF Sondeo
  <2> HIDE DEF z
  <2>5. Lleva(y, o, f) => Lleva(z, o, f)
    BY <2>3, <2>4 DEF Lleva
  <2> HIDE DEF y
  <2>6. QED
    BY <1>1, <2>2, <2>4, <2>5, SondeoSigue DEF y
<1>4. CASE InsertarFalla(p)
  <2> DEFINE F == Falto(y, y.lote)
             z == [y EXCEPT !.lote = {}, !.fase = "bajar", !.falto = F]
  <2>1. sondeo' = [sondeo EXCEPT ![p] = z]
    BY <1>4 DEF InsertarFalla, InvFilas, FormaClima
  <2>2. y.falto \subseteq F /\ (y.puntual => y.lote \subseteq F)
    BY DEF Falto
  <2> HIDE DEF F
  <2>3. /\ z.puntual = y.puntual /\ z.servicio = y.servicio /\ z.cruza = y.cruza
        /\ z.falto = F /\ z.resto = y.resto
    BY <1>2 DEF Sondeo
  <2> HIDE DEF z
  <2>4. y.puntual /\ Lleva(y, o, f) => Lleva(z, o, f)
    BY <2>2, <2>3 DEF Lleva
  <2> HIDE DEF y
  <2>5. QED
    BY <1>1, <2>1, <2>3, <2>4, SondeoSigue DEF y
<1>5. QED
  BY <1>3, <1>4

\* Simulated events are of services that read no source.
LEMMA SimularCuenta ==
  ASSUME InvFilas, InvFilas', SoloSimula, NEW p \in Sondeos, Simular(p),
         NEW o \in Obs, NEW s \in Servicios, NEW f \in FuentesDe[o], ~Simula(s),
         Cuenta(o, s, f)
  PROVE  Cuenta(o, s, f)'
<1> DEFINE y == sondeo[p]
<1>1. y.fase = "simular" /\ UNCHANGED <<edad, reloj, fallos>>
  BY DEF Simular
<1>2. PICK x \in y.lote :
       sondeo' = [sondeo EXCEPT ![p].lote = @ \ {x},
                       ![p].fase = IF y.lote = {x} THEN "bajar" ELSE "simular"]
  BY DEF Simular
<1> DEFINE z == [y EXCEPT !.lote = @ \ {x}, !.fase = IF y.lote = {x} THEN "bajar" ELSE "simular"]
<1>3. sondeo' = [sondeo EXCEPT ![p] = z]
  BY <1>2 DEF InvFilas, FormaClima
<1>4. y \in Sondeo
  BY SondeoTipo
<1>5. z.puntual = y.puntual /\ z.servicio = y.servicio /\ z.cruza = y.cruza
  BY <1>4 DEF Sondeo
<1> HIDE DEF z
<1>6. y.servicio # s
  BY <1>1 DEF SoloSimula
<1> HIDE DEF y
<1>7. QED
  BY <1>1, <1>3, <1>5, <1>6, SondeoSigue DEF y

\* A poll that begins on time is one more opportunity, as its clock asks.
LEMMA EmpezarCuenta ==
  ASSUME InvFilas, InvFilas', NEW p \in Sondeos, NEW t \in Servicios, NEW puntual \in BOOLEAN,
         Empezar(p, t, puntual),
         \/ reloj' = reloj
         \/ reloj[t] = 0 /\ reloj' = [reloj EXCEPT ![t] = Periodo[t]] /\ puntual,
         NEW o \in Obs, NEW s \in Servicios, NEW f \in FuentesDe[o],
         ~Simula(s), EnLista(f, Series[s]), Cuenta(o, s, f)
  PROVE  Cuenta(o, s, f)'
<1>1. PICK lote \in SUBSET (DelServicio(t) \ publicada) :
        sondeo' = [sondeo EXCEPT ![p] = [Libre EXCEPT
            !.fase = IF lote # {} THEN "simular" ELSE "bajar", !.servicio = t, !.lote = lote,
            !.resto = IF Simula(t) THEN <<>> ELSE Series[t], !.puntual = puntual]]
  BY DEF Empezar
<1> DEFINE z == [Libre EXCEPT
            !.fase = IF lote # {} THEN "simular" ELSE "bajar", !.servicio = t, !.lote = lote,
            !.resto = IF Simula(t) THEN <<>> ELSE Series[t], !.puntual = puntual]
<1>2. z.puntual = puntual /\ z.servicio = t /\ z.cruza = FALSE
      /\ z.resto = IF Simula(t) THEN <<>> ELSE Series[t]
  BY DEF Libre
<1>3. sondeo' = [sondeo EXCEPT ![p] = z]
  BY <1>1
<1> HIDE DEF z
<1>4. /\ sondeo[p] = Libre /\ edad' = edad /\ fallos' = fallos
      /\ sondeo'[p] = z /\ \A q \in Sondeos \ {p} : sondeo'[q] = sondeo[q]
  BY <1>3 DEF Empezar, InvFilas, FormaClima
<1>5. \A q \in Sondeos : Contara(sondeo[q], o, s, f) => q # p
  BY <1>4 DEF Contara, Libre
<1>6. ASSUME NEW q \in Sondeos, Contara(sondeo[q], o, s, f)
      PROVE  Contara(sondeo[q], o, s, f)'
  <2>1. sondeo'[q] = sondeo[q]
    BY <1>4, <1>5, <1>6
  <2>2. QED
    BY <1>4, <1>6, <2>1 DEF Contara
<1>7. Contaran(o, s, f) \subseteq Contaran(o, s, f)' /\ p \notin Contaran(o, s, f)
  BY <1>5, <1>6 DEF Contaran
<1>8. CASE reloj'[s] = reloj[s]
  BY <1>4, <1>7, <1>8, CuentaQuieta
<1>9. CASE reloj'[s] # reloj[s]
  <2>1. t = s /\ reloj[s] = 0 /\ puntual /\ reloj'[s] = Periodo[s]
    BY <1>9 DEF InvFilas, FormaClima
  <2>2. CASE edad[o] < Ventana[f]
    <3>1. Lleva(z, o, f)
      BY <1>2, <2>1 DEF Lleva
    <3>2. Contara(z, o, s, f)
      BY <1>2, <2>1, <2>2, <3>1 DEF Contara
    <3>3. Contara(sondeo[p], o, s, f)'
      BY <1>4, <3>2 DEF Contara
    <3>4. Contaran(o, s, f) \cup {p} \subseteq Contaran(o, s, f)'
      BY <1>7, <3>3 DEF Contaran
    <3>5. IsFiniteSet(Contaran(o, s, f)')
      <4>1. IsFiniteSet(Sondeos) /\ Contaran(o, s, f)' \in SUBSET Sondeos
        BY ClimaAssumption DEF ClimaAssumption, Contaran
      <4>2. QED
        BY <4>1, FS_Subset
    <3>6. Cardinality(Contaran(o, s, f) \cup {p}) = Cardinality(Contaran(o, s, f)) + 1
      BY <1>7, Numeros, FS_AddElement
    <3>7. /\ Cardinality(Contaran(o, s, f)') >= Cardinality(Contaran(o, s, f)) + 1
          /\ Cardinality(Contaran(o, s, f)') \in Nat
      BY <3>4, <3>5, <3>6, FS_Subset, FS_CardinalityType
    <3> DEFINE k == Oportunidades(o, s, f)
               m == Oportunidades(o, s, f)'
               n == Periodo[s]
    <3>8. k \in Nat /\ m \in Nat /\ k + 1 <= m /\ n \in Nat \ {0} /\ edad[o] \in Nat
      BY <1>4, <3>7, Numeros DEF Oportunidades
    <3>9. Umbral(o, s, f) = edad[o] + 0 /\ Umbral(o, s, f)' = edad[o] + n
      BY <1>4, <2>1, <2>2 DEF Umbral
    <3> HIDE DEF k, m, n
    <3>10. n * (k + 1) + n <= n * (m + 1)
      BY <3>8, ProductoCrece, ProductoSigue
    <3>11. fallos'[o] >= MaxFallos \/ n * (m + 1) >= edad[o] + n
      <4>1. CASE fallos[o] >= MaxFallos
        BY <1>4, <4>1
      <4>2. CASE n * (k + 1) >= edad[o] + 0
        BY <3>8, <3>10, <4>2
      <4>3. QED
        BY <3>9, <4>1, <4>2 DEF Cuenta, k, n
    <3>12. QED
      BY <3>9, <3>11 DEF Cuenta, m, n
  <2>3. CASE ~(edad[o] < Ventana[f])
    <3>1. Umbral(o, s, f)' = Umbral(o, s, f) /\ Umbral(o, s, f) \in Nat
      BY <1>4, <2>3, Numeros DEF Umbral
    <3>2. Oportunidades(o, s, f) <= Oportunidades(o, s, f)'
      <4>1. IsFiniteSet(Contaran(o, s, f)')
        <5>1. IsFiniteSet(Sondeos) /\ Contaran(o, s, f)' \in SUBSET Sondeos
          BY ClimaAssumption DEF ClimaAssumption, Contaran
        <5>2. QED
          BY <5>1, FS_Subset
      <4>2. Cardinality(Contaran(o, s, f)) <= Cardinality(Contaran(o, s, f)')
            /\ Cardinality(Contaran(o, s, f)') \in Nat
        BY <1>7, <4>1, FS_Subset, FS_CardinalityType
      <4>3. QED
        BY <1>4, <4>2, Numeros DEF Oportunidades
    <3>3. Umbral(o, s, f)' <= Umbral(o, s, f) /\ fallos[o] <= fallos'[o]
      BY <1>4, <3>1, Numeros
    <3>4. QED
      BY <3>2, <3>3, CuentaSigue
  <2>4. QED
    BY <2>2, <2>3
<1>10. QED
  BY <1>8, <1>9

\* A poll that ends without o has failed to bring it.
LEMMA FinCuenta ==
  ASSUME InvFilas, InvFilas', NEW p \in Sondeos, FinSondeo(p),
         NEW o \in Obs, NEW s \in Servicios, NEW f \in FuentesDe[o], o \notin tabla,
         Cuenta(o, s, f)
  PROVE  Cuenta(o, s, f)'
<1> DEFINE y == sondeo[p]
<1>1. /\ y.resto = <<>> /\ y.lote = {} /\ sondeo' = [sondeo EXCEPT ![p] = Libre]
      /\ UNCHANGED <<edad, reloj>>
      /\ fallos'[o] = IF o \in y.falto \ tabla THEN Hasta(fallos[o] + 1, MaxFallos) ELSE fallos[o]
  BY DEF FinSondeo
<1>2. \A q \in Sondeos \ {p} : sondeo'[q] = sondeo[q]
  BY <1>1 DEF InvFilas, FormaClima
<1>3. ASSUME NEW q \in Sondeos \ {p}, Contara(sondeo[q], o, s, f)
      PROVE  Contara(sondeo[q], o, s, f)'
  BY <1>1, <1>2, <1>3 DEF Contara
<1>4. Contaran(o, s, f) \ {p} \subseteq Contaran(o, s, f)'
  BY <1>3 DEF Contaran
<1>5. IsFiniteSet(Contaran(o, s, f)')
  <2>1. IsFiniteSet(Sondeos) /\ Contaran(o, s, f)' \in SUBSET Sondeos
    BY ClimaAssumption DEF ClimaAssumption, Contaran
  <2>2. QED
    BY <2>1, FS_Subset
<1>6. /\ Cardinality(Contaran(o, s, f) \ {p}) <= Cardinality(Contaran(o, s, f)')
      /\ Cardinality(Contaran(o, s, f)') \in Nat
  BY <1>4, <1>5, FS_Subset, FS_CardinalityType
<1>7. Cardinality(Contaran(o, s, f) \ {p}) =
        IF p \in Contaran(o, s, f) THEN Cardinality(Contaran(o, s, f)) - 1
                                   ELSE Cardinality(Contaran(o, s, f))
  BY Numeros, FS_RemoveElement
<1>8. fallos[o] \in Nat /\ MaxFallos \in Nat /\ Cardinality(Contaran(o, s, f)) \in Nat
  BY Numeros
<1>9. /\ fallos[o] <= fallos'[o]
      /\ fallos'[o] >= MaxFallos \/ Oportunidades(o, s, f) <= Oportunidades(o, s, f)'
  <2>1. CASE p \in Contaran(o, s, f)
    <3>1. o \in y.falto
      BY <1>1, <2>1 DEF Contaran, Contara, Lleva, EnLista
    <3>2. fallos'[o] = Hasta(fallos[o] + 1, MaxFallos)
      BY <1>1, <3>1
    <3>3. fallos'[o] = fallos[o] + 1 \/ fallos'[o] = MaxFallos
      BY <3>2 DEF Hasta
    <3>4. fallos[o] <= MaxFallos
      BY Numeros
    <3>5. QED
      BY <1>6, <1>7, <1>8, <2>1, <3>3, <3>4 DEF Oportunidades
  <2>2. CASE p \notin Contaran(o, s, f)
    <3>1. fallos'[o] \in Nat /\ fallos[o] <= fallos'[o]
      <4>1. fallos[o] <= MaxFallos
        BY Numeros
      <4>2. QED
        BY <1>1, <1>8, <4>1 DEF Hasta
    <3>2. QED
      BY <1>6, <1>7, <1>8, <2>2, <3>1 DEF Oportunidades
  <2>3. QED
    BY <2>1, <2>2
<1>10. Umbral(o, s, f)' <= Umbral(o, s, f)
  <2>1. Umbral(o, s, f)' = Umbral(o, s, f)
    BY <1>1 DEF Umbral
  <2>2. Umbral(o, s, f) \in Nat
    BY Numeros DEF Umbral
  <2>3. QED
    BY <2>1, <2>2
<1> HIDE DEF y
<1>11. QED
  BY <1>9, <1>10, CuentaSigue

\* A tick passes: what counts still does, and age and clock move together.
LEMMA TickCuenta ==
  ASSUME InvFilas, InvFilas', Tick,
         NEW o \in Obs, NEW s \in Servicios, NEW f \in FuentesDe[o], o \in publicada,
         Cuenta(o, s, f)
  PROVE  Cuenta(o, s, f)'
<1> DEFINE v == Ventana[f]
<1>1. /\ fallos' = fallos /\ reloj'[s] = reloj[s] - 1 /\ reloj[s] > 0
      /\ edad'[o] = Hasta(edad[o] + 1, Viejo)
  BY DEF Tick
<1>2. /\ v \in Nat /\ v < Viejo /\ Viejo \in Nat /\ reloj[s] \in Nat
      /\ edad[o] \in Nat /\ edad[o] <= Viejo
  BY Numeros
<1> HIDE DEF v
<1>3. edad'[o] \in Nat /\ edad[o] <= edad'[o] /\ edad'[o] <= edad[o] + 1
  BY <1>1, <1>2 DEF Hasta
<1>4. ASSUME NEW p \in Sondeos, Contara(sondeo[p], o, s, f)
      PROVE  Contara(sondeo[p], o, s, f)'
  <2> DEFINE y == sondeo[p]
             z == [y EXCEPT !.cruza = TRUE]
  <2>1. y.puntual /\ y # Libre /\ ~y.cruza
    BY <1>4 DEF Contara, Libre, Tick
  <2>2. y \in Sondeo /\ sondeo'[p] = z
    BY <2>1, SondeoTipo DEF Tick
  <2>3. /\ z.puntual = y.puntual /\ z.servicio = y.servicio /\ z.cruza
        /\ z.lote = y.lote /\ z.falto = y.falto /\ z.resto = y.resto
    BY <2>2 DEF Sondeo
  <2>4. edad[o] < v
    BY <1>4, <2>1 DEF Contara, v
  <2>5. edad'[o] <= v
    BY <1>2, <1>3, <2>4
  <2> HIDE DEF z
  <2>6. QED
    BY <1>4, <2>2, <2>3, <2>5 DEF Contara, Lleva, v
<1>5. Contaran(o, s, f) \subseteq Contaran(o, s, f)'
  BY <1>4 DEF Contaran
<1>6. IsFiniteSet(Contaran(o, s, f)')
  <2>1. IsFiniteSet(Sondeos) /\ Contaran(o, s, f)' \in SUBSET Sondeos
    BY ClimaAssumption DEF ClimaAssumption, Contaran
  <2>2. QED
    BY <2>1, FS_Subset
<1>7. /\ Cardinality(Contaran(o, s, f)) <= Cardinality(Contaran(o, s, f)')
      /\ Cardinality(Contaran(o, s, f)') \in Nat
  BY <1>5, <1>6, FS_Subset, FS_CardinalityType
<1>8. Oportunidades(o, s, f) <= Oportunidades(o, s, f)'
  BY <1>1, <1>7, Numeros DEF Oportunidades
<1>9. Umbral(o, s, f)' <= Umbral(o, s, f)
  <2>1. Umbral(o, s, f) = IF edad[o] < v THEN edad[o] + reloj[s] ELSE v
    BY DEF Umbral, v
  <2>2. Umbral(o, s, f)' = IF edad'[o] < v THEN edad'[o] + (reloj[s] - 1) ELSE v
    BY <1>1 DEF Umbral, v
  <2>3. QED
    BY <1>1, <1>2, <1>3, <2>1, <2>2
<1>10. fallos[o] <= fallos'[o]
  BY <1>1, Numeros
<1>11. QED
  BY <1>8, <1>9, <1>10, CuentaSigue

\* What is observed now waits for the next poll, at most.
LEMMA NuevaCuenta ==
  ASSUME InvFilas, NEW o \in Obs, NEW s \in Servicios, NEW f \in FuentesDe[o], edad[o] = 0
  PROVE  Cuenta(o, s, f)
<1> DEFINE k == Oportunidades(o, s, f)
           n == Periodo[s]
<1>1. /\ k \in Nat /\ n \in Nat \ {0} /\ reloj[s] \in Nat /\ reloj[s] <= n
      /\ Ventana[f] \in Nat
  BY Numeros
<1>2. Umbral(o, s, f) \in Nat /\ Umbral(o, s, f) <= n
  BY <1>1 DEF Umbral
<1> HIDE DEF k, n
<1>3. n * (k + 1) \in Nat /\ n * (k + 1) >= n
  BY <1>1, ProductoSigue
<1>4. n * (k + 1) >= Umbral(o, s, f)
  BY <1>1, <1>2, <1>3
<1>5. QED
  BY <1>4 DEF Cuenta, k, n

LEMMA SondearSimula ==
  ASSUME InvFilas, SoloSimula, NEW p \in Sondeos, Sondear(p)
  PROVE  SoloSimula'
<1>1. UNCHANGED simulado
  BY DEF Sondear, Poll, PollNow, Empezar, Bajar, BajarFalla, BajarAbiertas, Persistir,
         InsertarTrozo, InsertarFalla, Simular, FinSondeo
<1>2. \A s : Simula(s)' = Simula(s)
  BY <1>1 DEF Simula
<1>3. sondeo \in [Sondeos -> Sondeo]
  BY DEF InvFilas, FormaClima
<1>4. ASSUME NEW q \in Sondeos, q # p
      PROVE  sondeo'[q] = sondeo[q]
  BY <1>3, <1>4 DEF Sondear, Poll, PollNow, Empezar, Bajar, BajarFalla, BajarAbiertas, Persistir,
                    InsertarTrozo, InsertarFalla, Simular, FinSondeo
<1>5. sondeo'[p].fase = "simular" => Simula(sondeo'[p].servicio)
  <2>1. ASSUME NEW s \in Servicios, Poll(p, s) \/ PollNow(p, s)
        PROVE  sondeo'[p].fase = "simular" => Simula(sondeo'[p].servicio)
    <3>1. \E puntual : Empezar(p, s, puntual)
      BY <2>1 DEF Poll, PollNow
    <3>2. QED
      BY <1>3, <3>1 DEF Empezar, Libre
  <2>2. CASE Bajar(p)
    <3> DEFINE y == sondeo[p]
    <3>1. PICK R, F :
       sondeo' = [sondeo EXCEPT ![p] = [y EXCEPT !.resto = Tail(@), !.lote = @ \cup R,
         !.falto = F,
         !.fase = IF y.servicio \notin Acumulan /\ R # {} THEN "insertar" ELSE "bajar"]]
      BY <2>2 DEF Bajar
    <3>2. QED
      BY <1>3, <3>1 DEF Sondeo
  <2>3. CASE BajarFalla(p)
    <3>1. PICK F : sondeo' = [sondeo EXCEPT ![p].resto = Tail(@), ![p].falto = F]
      BY <2>3 DEF BajarFalla
    <3>2. sondeo[p].fase = "bajar"
      BY <2>3 DEF BajarFalla
    <3>3. QED
      BY <1>3, <3>1, <3>2 DEF Sondeo
  <2>4. CASE BajarAbiertas(p) \/ Persistir(p)
    BY <1>3, <2>4 DEF Sondeo, BajarAbiertas, Persistir
  <2>5. CASE InsertarTrozo(p) \/ InsertarFalla(p)
    BY <1>3, <2>5 DEF Sondeo, InsertarTrozo, InsertarFalla
  <2>6. CASE Simular(p)
    <3>1. PICK x : sondeo' = [sondeo EXCEPT ![p].lote = @ \ {x},
                       ![p].fase = IF sondeo[p].lote = {x} THEN "bajar" ELSE "simular"]
      BY <2>6 DEF Simular
    <3>2. sondeo'[p].servicio = sondeo[p].servicio
      BY <1>3, <3>1 DEF Sondeo
    <3>3. Simula(sondeo[p].servicio)
      BY <2>6 DEF Simular, SoloSimula
    <3>4. QED
      BY <3>2, <3>3
  <2>7. CASE FinSondeo(p)
    BY <1>3, <2>7 DEF FinSondeo, Libre
  <2>8. QED
    BY <2>1, <2>2, <2>3, <2>4, <2>5, <2>6, <2>7 DEF Sondear
<1>6. QED
  BY <1>2, <1>4, <1>5 DEF SoloSimula

LEMMA SondearFallos ==
  ASSUME InvFilas, InvFilas', InvFallos, NEW p \in Sondeos, Sondear(p)
  PROVE  InvFallos'
<1>1. /\ UNCHANGED <<simulado, edad, borrada>>
      /\ publicada \subseteq publicada' /\ tabla \subseteq tabla'
      /\ publicada' \ tabla' \subseteq publicada
  BY DEF Sondear, Poll, PollNow, Empezar, Bajar, BajarFalla, BajarAbiertas, Persistir,
         InsertarTrozo, InsertarFalla, Simular, FinSondeo
<1>2. SoloSimula'
  BY SondearSimula DEF InvFallos
<1>3. SinEdad'
  BY <1>1 DEF InvFallos, SinEdad
<1>4. Contados'
  <2> SUFFICES ASSUME NEW o \in Obs, NEW s \in Servicios, NEW f \in FuentesDe[o],
                      Debida(o, s, f)'
               PROVE  Cuenta(o, s, f)'
    BY DEF Contados
  <2>1. /\ o \in publicada /\ o \notin tabla /\ o \notin tabla' /\ ~Simula(s)
        /\ EnLista(f, Series[s])
    BY <1>1 DEF Debida, Simula, EnLista
  <2>2. Cuenta(o, s, f)
    BY <1>1, <2>1 DEF InvFallos, Contados, Debida
  <2>3. ASSUME NEW t \in Servicios, Poll(p, t) \/ PollNow(p, t)
        PROVE  Cuenta(o, s, f)'
    BY <2>1, <2>2, <2>3, EmpezarCuenta DEF Poll, PollNow
  <2>4. CASE Bajar(p)
    BY <2>1, <2>2, <2>4, BajarCuenta
  <2>5. CASE BajarFalla(p) \/ BajarAbiertas(p) \/ Persistir(p)
    BY <2>1, <2>2, <2>5, LeerNadaCuenta
  <2>6. CASE InsertarTrozo(p) \/ InsertarFalla(p)
    BY <2>1, <2>2, <2>6, InsertarCuenta
  <2>7. CASE Simular(p)
    BY <2>1, <2>2, <2>7, SimularCuenta DEF InvFallos
  <2>8. CASE FinSondeo(p)
    BY <2>1, <2>2, <2>8, FinCuenta
  <2>9. QED
    BY <2>3, <2>4, <2>5, <2>6, <2>7, <2>8 DEF Sondear
<1>5. QED
  BY <1>2, <1>3, <1>4 DEF InvFallos

\* The clocks and the polls as they were: rows may go, not come back
LEMMA QuietoFallos ==
  ASSUME InvFilas, InvFilas', InvFallos,
         UNCHANGED <<simulado, publicada, edad, reloj, sondeo, fallos>>,
         tabla \cup borrada \subseteq tabla' \cup borrada'
  PROVE  InvFallos'
<1>1. SoloSimula' /\ SinEdad'
  BY DEF InvFallos, SoloSimula, SinEdad, Simula
<1>2. Contados'
  <2> SUFFICES ASSUME NEW o \in Obs, NEW s \in Servicios, NEW f \in FuentesDe[o],
                      Debida(o, s, f)'
               PROVE  Cuenta(o, s, f)'
    BY DEF Contados
  <2>1. Cuenta(o, s, f)
    BY DEF InvFallos, Contados, Debida, Simula, EnLista
  <2>2. Contaran(o, s, f) \subseteq Contaran(o, s, f)'
    BY DEF Contaran, Contara, Lleva, EnLista
  <2>3. QED
    BY <2>1, <2>2, CuentaQuieta
<1>3. QED
  BY <1>1, <1>2 DEF InvFallos

LEMMA PublicarFallos ==
  ASSUME InvFilas, InvFilas', InvFallos, NEW x \in Obs, Publicar(x) \/ Create(x)
  PROVE  InvFallos'
<1>1. /\ x \notin publicada /\ publicada' = publicada \cup {x} /\ tabla \subseteq tabla'
      /\ UNCHANGED <<simulado, edad, reloj, sondeo, borrada, fallos>>
  BY DEF Publicar, Create
<1>2. SoloSimula' /\ SinEdad'
  BY <1>1 DEF InvFallos, SoloSimula, SinEdad, Simula
<1>3. Contados'
  <2> SUFFICES ASSUME NEW o \in Obs, NEW s \in Servicios, NEW f \in FuentesDe[o],
                      Debida(o, s, f)'
               PROVE  Cuenta(o, s, f)'
    BY DEF Contados
  <2>1. CASE o = x
    <3>1. Cuenta(o, s, f)
      BY <1>1, <2>1, NuevaCuenta DEF InvFallos, SinEdad
    <3>2. Contaran(o, s, f) \subseteq Contaran(o, s, f)'
      BY <1>1 DEF Contaran, Contara, Lleva, EnLista
    <3>3. QED
      BY <1>1, <3>1, <3>2, CuentaQuieta
  <2>2. CASE o # x
    <3>1. Cuenta(o, s, f)
      BY <1>1, <2>2 DEF InvFallos, Contados, Debida, Simula, EnLista
    <3>2. Contaran(o, s, f) \subseteq Contaran(o, s, f)'
      BY <1>1 DEF Contaran, Contara, Lleva, EnLista
    <3>3. QED
      BY <1>1, <3>1, <3>2, CuentaQuieta
  <2>3. QED
    BY <2>1, <2>2
<1>4. QED
  BY <1>2, <1>3 DEF InvFallos

LEMMA TickFallos ==
  ASSUME InvFilas, InvFilas', InvFallos, Tick
  PROVE  InvFallos'
<1>1. UNCHANGED <<simulado, publicada, tabla, borrada, fallos>>
  BY DEF Tick
<1>2. SoloSimula'
  <2> SUFFICES ASSUME NEW p \in Sondeos, sondeo'[p].fase = "simular"
               PROVE  Simula(sondeo'[p].servicio)
    BY <1>1 DEF SoloSimula, Simula
  <2>1. sondeo[p] # Libre /\ sondeo'[p] = [sondeo[p] EXCEPT !.cruza = TRUE]
    BY SondeoLibre DEF Tick
  <2>2. sondeo[p].fase = "simular" /\ sondeo'[p].servicio = sondeo[p].servicio
    BY <2>1, SondeoTipo DEF Sondeo
  <2>3. QED
    BY <2>2 DEF InvFallos, SoloSimula
<1>3. SinEdad'
  BY <1>1 DEF InvFallos, SinEdad, Tick
<1>4. Contados'
  <2> SUFFICES ASSUME NEW o \in Obs, NEW s \in Servicios, NEW f \in FuentesDe[o],
                      Debida(o, s, f)'
               PROVE  Cuenta(o, s, f)'
    BY DEF Contados
  <2>1. o \in publicada /\ Cuenta(o, s, f)
    BY <1>1 DEF InvFallos, Contados, Debida, Simula, EnLista
  <2>2. QED
    BY <2>1, TickCuenta
<1>5. QED
  BY <1>2, <1>3, <1>4 DEF InvFallos

LEMMA PasoFallos ==
  ASSUME IInv, InvFallos, [Next]_vars
  PROVE  InvFallos'
<1>1. InvFilas /\ InvFilas'
  BY PasoInv DEF IInv, IInvClima
<1>2. CASE Tick
  BY <1>1, <1>2, TickFallos
<1>3. CASE Limpiar
  BY <1>1, <1>3, QuietoFallos DEF Limpiar
<1>4. ASSUME NEW o \in Obs, Publicar(o) \/ Create(o)
      PROVE  InvFallos'
  BY <1>1, <1>4, PublicarFallos
<1>5. ASSUME NEW p \in Sondeos, Sondear(p)
      PROVE  InvFallos'
  BY <1>1, <1>5, SondearFallos
<1>6. ASSUME NEW e \in Ciclos, Contexto(e) \/ Evaluar(e)
      PROVE  InvFallos'
  BY <1>1, <1>6, QuietoFallos
     DEF Contexto, PedirContexto, LeerFilas, CalcContexto, ContextoFalla, Evaluar
<1>7. CASE UNCHANGED varsClima
  BY <1>1, <1>7, QuietoFallos DEF varsClima
<1>8. QED
  BY <1>2, <1>3, <1>4, <1>5, <1>6, <1>7
     DEF Next, PasoClima, PrediccionFalla, Guardar, Prediccion, vars

LEMMA InicioFallos == Init => InvFallos
BY DEF Init, InitClima, InvFallos, SoloSimula, SinEdad, Contados, Debida, Libre

\* A poll that may still bring o began while its source gave it.
LEMMA PerdidaContada ==
  ASSUME InvFilas, InvFallos
  PROVE  SePierdeTrasFallos
<1> SUFFICES ASSUME NEW o \in publicada \ (tabla \cup borrada), NEW s \in Servicios, ~Simula(s),
                    NEW i \in 1..Len(Series[s]), Series[s][i] \in FuentesDe[o],
                    edad[o] > Ventana[Series[s][i]] + 1
             PROVE  fallos[o] >= Hasta((Ventana[Series[s][i]] - 1) \div Periodo[s], MaxFallos)
  BY DEF SePierdeTrasFallos
<1> DEFINE f == Series[s][i]
           w == Ventana[f]
           n == Periodo[s]
           k == fallos[o]
           d == (w - 1) \div n
<1>1. o \in Obs /\ f \in FuentesDe[o]
  BY DEF InvFilas, TypeOKClima
<1>2. Cuenta(o, s, f)
  BY <1>1 DEF InvFallos, Contados, Debida, EnLista
<1>3. /\ w \in Nat /\ n \in Nat \ {0} /\ k \in Nat /\ MaxFallos \in Nat /\ edad[o] \in Nat
  BY <1>1, Numeros
<1>4. edad[o] > w + 1
  OBVIOUS
<1>5. Contaran(o, s, f) = {}
  BY <1>3, <1>4 DEF Contaran, Contara
<1>6. Oportunidades(o, s, f) = k
  BY <1>3, <1>5, FS_EmptySet DEF Oportunidades
<1>7. Umbral(o, s, f) = w
  BY <1>3, <1>4 DEF Umbral
<1>8. k >= MaxFallos \/ n * (k + 1) >= w
  BY <1>2, <1>6, <1>7 DEF Cuenta
<1> SUFFICES k >= Hasta(d, MaxFallos)
  OBVIOUS
<1> HIDE DEF f
<1>9. d \in Int
  BY <1>3
<1>10. n * (k + 1) >= w => d <= k
  BY <1>3, Division
<1> HIDE DEF w, n, k, d
<1>11. QED
  BY <1>3, <1>8, <1>9, <1>10 DEF Hasta

-----------------------------------------------------------------------------
(* Theorems *)

\* Types, for any number of polls, evaluations and workers: no poll reaches an
\* INSERT without rows, and what a poll misses had been published.
THEOREM TiposDelEntorno == Spec => []TypeOK
<1>1. IInv => TypeOK
  BY DEF IInv, IInvClima, InvFilas, IInvIA, InvPred, TypeOK
<1>2. QED
  BY IInvCorrecta, <1>1, PTL

\* contextoPorParque never hands a cycle rows older than its 20 minutes and
\* the tick a calculation may cross, however calculations overlap and
\* whichever of them writes the cache last.
THEOREM ContextosRecientes == Spec => []ContextoReciente
<1>1. IInv => ContextoReciente
  BY DEF IInv, IInvClima, InvContexto
<1>2. QED
  BY IInvCorrecta, <1>1, PTL

\* No INSERT of a poll brings back a row that the cleaning removed, since a
\* source gives less history than the table keeps.
THEOREM LoBorradoNoVuelve == Spec => NoResucita
<1>1. IInv /\ [Next]_vars => [borrada \cap tabla' = {}]_varsClima
  BY PasoInv
<1>2. QED
  BY IInvCorrecta, <1>1, PTL DEF Spec, NoResucita

\* A joblib file that is not whole is being written by the worker that
\* truncated it last, or its writing was cut by the end of the container.
THEOREM ParcialesEnCurso == Spec => []ParcialSeEscribe
<1>1. IInv => ParcialSeEscribe
  BY DEF IInv, IInvIA
<1>2. QED
  BY IInvCorrecta, <1>1, PTL

\* A worker that has finished ensure_models finds a file for every model,
\* whatever the others train and wherever the container was stopped.
THEOREM ListosConModelos == Spec => []ListoConModelos
<1>1. IInv => ListoConModelos
  BY ListosIA DEF IInv
<1>2. QED
  BY IInvCorrecta, <1>1, PTL

\* The engine evaluates its rules with predictions that have their row.
THEOREM PrediccionesGuardadas == Spec => []DecideConLoGuardado
<1>1. IInv => DecideConLoGuardado
  BY DEF IInv, InvPred
<1>2. QED
  BY IInvCorrecta, <1>1, PTL

\* A source whose observation never reached the table was asked for it once per
\* period while it gave it, and every one of those polls failed
\* to bring it: nothing falls between two polls, whatever their number, their
\* periods, the chunks and the order in which they are inserted.
THEOREM PerdidasExplicadas == Spec => []SePierdeTrasFallos
<1>1. IInv /\ InvFallos /\ [Next]_vars => InvFallos'
  BY PasoFallos
<1>2. IInv /\ InvFallos => SePierdeTrasFallos
  BY PerdidaContada DEF IInv, IInvClima
<1>3. QED
  BY IInvCorrecta, InicioFallos, <1>1, <1>2, PTL DEF Spec

=============================================================================
