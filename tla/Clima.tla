------------------------------- MODULE Clima -------------------------------
(***************************************************************************)
(* Climate events: the polls of IdeamService, FirmsService and             *)
(* HotspotsService, the rows they insert through EventosService.createMany *)
(* and the daily cleaning, and the context of a park that is calculated    *)
(* from the rows and cached.                                               *)
(*                                                                         *)
(* Time passes in ticks; what is kept of a moment is its age, which stops  *)
(* growing once it makes no difference.  A poll or a calculation crosses   *)
(* one tick at most: its requests time out after 20 or 30 s.  One park:    *)
(* its context only depends on its own row of the cache.                   *)
(***************************************************************************)
EXTENDS Naturals, Sequences, FiniteSets

CONSTANTS
  Obs,           \* observations that stations and satellites may publish
  Fuentes,       \* datasets and files: DATASETS, FIRMS_URLS, sensors, OPEN_CSVS
  FuentesDe,     \* FuentesDe[o]: the sources an observation appears in
  Inadmisibles,  \* observations of a type the table's CHECK rejects
  Servicios,     \* services that poll
  Series,        \* Series[s]: the sources of s, in order
  Abiertas,      \* Abiertas[s]: those it turns to when the others gave nothing
  Acumulan,      \* services that read every source before they insert
  Simulables,    \* services that can invent their events
  Modos,         \* whether they do: IDEAM_MODE
  Periodo,       \* Periodo[s]: ticks between polls
  Ventana,       \* Ventana[f]: ticks of history a source gives
  Tope,          \* Tope[f]: rows it answers with, SODA_LIMIT
  Trozo,         \* CHUNK
  Retencion,     \* EVENTOS_RETENTION_DAYS
  Vigencia,      \* the 20 minutes of the cache
  Sondeos,       \* polls that may be in progress
  Ciclos,        \* evaluations that may be in progress
  FallaExterna,  \* TRUE: sources may fail
  FallaBD,       \* TRUE: PostgreSQL may fail
  Manuales,      \* TRUE: operators poll and insert by hand
  MaxFallos      \* polls that failed are counted up to this

Viejo == Retencion + 1

ASSUME ClimaAssumption ==
  /\ Series \in [Servicios -> Seq(Fuentes)] /\ Abiertas \in [Servicios -> Seq(Fuentes)]
  /\ FuentesDe \in [Obs -> SUBSET Fuentes]
  /\ Periodo \in [Servicios -> Nat \ {0}] /\ Ventana \in [Fuentes -> Nat]
  /\ Tope \in [Fuentes -> Nat \ {0}] /\ Trozo \in Nat \ {0}
  /\ {Retencion, Vigencia, MaxFallos} \subseteq Nat
  /\ {FallaExterna, FallaBD, Manuales} \subseteq BOOLEAN /\ Modos \subseteq BOOLEAN
  /\ IsFiniteSet(Obs) /\ IsFiniteSet(Sondeos)
  \* 30 days of rows, and sources that give two: with the crossing of a tick
  /\ \A f \in Fuentes : Ventana[f] < Retencion

VARIABLES
  simulado,   \* ideam.mode is not "real"
  publicada,  \* observations published so far
  edad,       \* edad[o]: ticks since o was observed
  tabla,      \* observations with a row in eventos_climaticos, or several:
              \* every poll inserts again what it gets
  reloj,      \* reloj[s]: ticks to the next poll of s
  sondeo,     \* sondeo[p]: the poll
  cache,      \* the row of contexto_parque_cache
  ciclo,      \* ciclo[e]: the evaluation, and the age of the rows it read
  \* history
  borrada,    \* observations the cleaning removed
  fallos      \* fallos[o]: polls on time that failed to bring o

varsClima == <<simulado, publicada, edad, tabla, reloj, sondeo, cache, ciclo, borrada, fallos>>

Libre == [fase |-> "libre", servicio |-> "ninguno", resto |-> <<>>, abiertas |-> FALSE,
          lote |-> {}, cruza |-> FALSE, puntual |-> FALSE,
          falto |-> {}]
SinCiclo == [fase |-> "libre", leido |-> 0]
SinCache == [hay |-> FALSE, escrito |-> 0, leido |-> 0]

TypeOKClima ==
  /\ publicada \subseteq Obs /\ borrada \subseteq Obs /\ tabla \subseteq publicada
  /\ simulado \in BOOLEAN
  /\ edad \in [Obs -> 0..Viejo]
  /\ \A s \in Servicios : reloj[s] \in 0..Periodo[s]
  /\ \A p \in Sondeos :
       /\ sondeo[p].fase \in {"libre", "bajar", "insertar", "simular"}
       /\ sondeo[p].servicio \in Servicios \cup {"ninguno"}
       /\ sondeo[p].lote \subseteq Obs /\ sondeo[p].falto \subseteq publicada
       /\ sondeo[p].fase \in {"insertar", "simular"} => sondeo[p].lote # {}
  /\ cache \in [hay : BOOLEAN, escrito : 0..Vigencia+1, leido : 0..Vigencia+2]
  /\ ciclo \in [Ciclos -> [fase : {"libre", "calcular", "guardar", "tiene"},
                           leido : 0..Vigencia+2]]
  /\ fallos \in [Obs -> 0..MaxFallos]

InitClima ==
  /\ publicada = {} /\ borrada = {} /\ tabla = {}
  /\ simulado \in Modos
  /\ edad = [o \in Obs |-> 0]
  /\ reloj \in [Servicios -> {0}]
  /\ sondeo = [p \in Sondeos |-> Libre]
  /\ cache = SinCache
  /\ ciclo = [e \in Ciclos |-> SinCiclo]
  /\ fallos = [o \in Obs |-> 0]

-----------------------------------------------------------------------------
(* The table *)

Hasta(n, max) == IF n < max THEN n ELSE max

\* The n most recent of S
Recientes(S, n) ==
  {T \in SUBSET S : /\ Cardinality(T) = Hasta(Cardinality(S), n)
                    /\ \A o \in T, r \in S \ T : edad[o] <= edad[r]}

Publicar(o) ==
  /\ o \notin publicada
  /\ publicada' = publicada \cup {o}
  /\ UNCHANGED <<simulado, edad, tabla, reloj, sondeo, cache, ciclo, borrada, fallos>>

\* POST /eventos-climaticos
Create(o) ==
  /\ Manuales /\ o \notin publicada \cup Inadmisibles
  /\ publicada' = publicada \cup {o}
  /\ tabla' = tabla \cup {o}
  /\ UNCHANGED <<simulado, edad, reloj, sondeo, cache, ciclo, borrada, fallos>>

\* A failure is logged and leaves the rows for the next night
Limpiar ==
  LET viejas == {o \in tabla : edad[o] > Retencion} IN
  /\ viejas # {}
  /\ tabla' = tabla \ viejas
  /\ borrada' = borrada \cup viejas
  /\ UNCHANGED <<simulado, publicada, edad, reloj, sondeo, cache, ciclo, fallos>>

-----------------------------------------------------------------------------
(* Polls.  cruza: a tick passed since it began; puntual: the cron began it *)

Simula(s) == simulado /\ s \in Simulables

DelServicio(s) ==
  {o \in Obs : \E i \in 1..Len(Series[s]) : Series[s][i] \in FuentesDe[o]}

Empezar(p, s, puntual) ==
  /\ sondeo[p] = Libre
  /\ \E lote \in SUBSET (DelServicio(s) \ publicada) :
       /\ ~Simula(s) => lote = {}
       /\ sondeo' = [sondeo EXCEPT ![p] = [Libre EXCEPT
            !.fase = IF lote # {} THEN "simular" ELSE "bajar", !.servicio = s, !.lote = lote,
            !.resto = IF Simula(s) THEN <<>> ELSE Series[s], !.puntual = puntual]]
  /\ UNCHANGED <<simulado, publicada, edad, tabla, cache, ciclo, borrada, fallos>>

Poll(p, s) ==
  /\ reloj[s] = 0
  /\ reloj' = [reloj EXCEPT ![s] = Periodo[s]]
  /\ Empezar(p, s, TRUE)

PollNow(p, s) == Manuales /\ Empezar(p, s, FALSE) /\ UNCHANGED reloj

\* Mutated form: only what is newer than the last poll
DisponiblesNuevas(f) == {o \in publicada : f \in FuentesDe[o] /\ edad[o] = 0}

\* Mutated form: the whole archive of the source
DisponiblesTodas(f) == {o \in publicada : f \in FuentesDe[o]}

Disponibles(f) == {o \in publicada : f \in FuentesDe[o] /\ edad[o] <= Ventana[f]}

\* falto: history, what the failure of a source, of an INSERT or newer rows
\* kept from a poll that was on time
Falto(z, S) == IF z.puntual THEN z.falto \cup S ELSE z.falto

DeFuente(f) == {o \in publicada : f \in FuentesDe[o]}

\* A source answers with its most recent rows
Bajar(p) ==
  LET z == sondeo[p]
      f == Head(z.resto) IN
  /\ z.fase = "bajar" /\ z.resto # <<>>
  /\ \E R \in Recientes(Disponibles(f), Tope[f]) :
       sondeo' = [sondeo EXCEPT ![p] = [z EXCEPT !.resto = Tail(@), !.lote = @ \cup R,
         !.falto = IF Cardinality(R) = Tope[f] THEN Falto(z, DeFuente(f) \ R) ELSE @,
         !.fase = IF z.servicio \notin Acumulan /\ R # {} THEN "insertar" ELSE "bajar"]]
  /\ UNCHANGED <<simulado, publicada, edad, tabla, reloj, cache, ciclo, borrada, fallos>>

\* Its failure is logged and the next source is tried: the poll itself never
\* fails, so the simulated events that should replace it are never made
BajarFalla(p) ==
  /\ FallaExterna /\ sondeo[p].fase = "bajar" /\ sondeo[p].resto # <<>>
  /\ sondeo' = [sondeo EXCEPT ![p].resto = Tail(@),
                  ![p].falto = Falto(sondeo[p], DeFuente(Head(sondeo[p].resto)))]
  /\ UNCHANGED <<simulado, publicada, edad, tabla, reloj, cache, ciclo, borrada, fallos>>

\* The sensors of the key gave nothing: the open files
BajarAbiertas(p) ==
  LET z == sondeo[p] IN
  /\ z.fase = "bajar" /\ z.resto = <<>> /\ z.lote = {} /\ ~z.abiertas
  /\ Abiertas[z.servicio] # <<>>
  /\ sondeo' = [sondeo EXCEPT ![p].resto = Abiertas[z.servicio], ![p].abiertas = TRUE]
  /\ UNCHANGED <<simulado, publicada, edad, tabla, reloj, cache, ciclo, borrada, fallos>>

\* What was read is inserted: the rest of the poll follows
Persistir(p) ==
  LET z == sondeo[p] IN
  /\ z.fase = "bajar" /\ z.resto = <<>> /\ z.lote # {}
  /\ sondeo' = [sondeo EXCEPT ![p].fase = "insertar", ![p].abiertas = TRUE]
  /\ UNCHANGED <<simulado, publicada, edad, tabla, reloj, cache, ciclo, borrada, fallos>>

\* Mutated form: the loop over the chunks has no end
InsertarTrozoSinFin(p) ==
  LET z == sondeo[p] IN
  /\ z.fase = "insertar"
  /\ \E T \in Recientes(z.lote, Trozo) :
       /\ tabla' = tabla \cup T
       /\ sondeo' = [sondeo EXCEPT ![p].lote = z.lote \ T]
  /\ UNCHANGED <<simulado, publicada, edad, reloj, cache, ciclo, borrada, fallos>>

\* A chunk of createMany: one INSERT, all of its rows or none
InsertarTrozo(p) ==
  LET z == sondeo[p] IN
  /\ z.fase = "insertar"
  /\ \E T \in Recientes(z.lote, Trozo) :
       /\ T \cap Inadmisibles = {}
       /\ tabla' = tabla \cup T
       /\ sondeo' = [sondeo EXCEPT ![p].lote = z.lote \ T,
                       ![p].fase = IF T = z.lote THEN "bajar" ELSE "insertar"]
  /\ UNCHANGED <<simulado, publicada, edad, reloj, cache, ciclo, borrada, fallos>>

\* The chunk fails, or holds a row of a type that is not admitted: nothing of
\* it nor of the chunks after it is inserted
InsertarFalla(p) ==
  LET z == sondeo[p] IN
  /\ z.fase = "insertar"
  /\ FallaBD \/ \E T \in Recientes(z.lote, Trozo) : T \cap Inadmisibles # {}
  /\ sondeo' = [sondeo EXCEPT ![p].lote = {}, ![p].fase = "bajar",
                  ![p].falto = Falto(z, z.lote)]
  /\ UNCHANGED <<simulado, publicada, edad, tabla, reloj, cache, ciclo, borrada, fallos>>

\* pollSimulado: each event on its own, its failure ignored
Simular(p) ==
  LET z == sondeo[p] IN
  /\ z.fase = "simular"
  /\ \E o \in z.lote :
       /\ sondeo' = [sondeo EXCEPT ![p].lote = @ \ {o},
                       ![p].fase = IF z.lote = {o} THEN "bajar" ELSE "simular"]
       /\ \/ o \notin publicada \cup Inadmisibles
             /\ publicada' = publicada \cup {o} /\ tabla' = tabla \cup {o}
          \/ (FallaBD \/ o \in publicada \cup Inadmisibles) /\ UNCHANGED <<publicada, tabla>>
  /\ UNCHANGED <<simulado, edad, reloj, cache, ciclo, borrada, fallos>>

FinSondeo(p) ==
  LET z == sondeo[p] IN
  /\ z.fase = "bajar" /\ z.resto = <<>> /\ z.lote = {}
  /\ z.abiertas \/ Abiertas[z.servicio] = <<>>
  /\ sondeo' = [sondeo EXCEPT ![p] = Libre]
  /\ fallos' = [o \in Obs |->
       IF o \in z.falto \ tabla THEN Hasta(fallos[o] + 1, MaxFallos) ELSE fallos[o]]
  /\ UNCHANGED <<simulado, publicada, edad, tabla, reloj, cache, ciclo, borrada>>

-----------------------------------------------------------------------------
(* contextoPorParque *)

\* Mutated form: the row of the cache is taken whatever its age
EnCacheSiempre == cache.hay

EnCache == cache.hay /\ cache.escrito <= Vigencia

PedirContexto(e) ==
  /\ ciclo[e] = SinCiclo
  /\ ciclo' = [ciclo EXCEPT ![e] = IF EnCache
                 THEN [fase |-> "tiene", leido |-> cache.leido]
                 ELSE [fase |-> "calcular", leido |-> 0]]
  /\ UNCHANGED <<simulado, publicada, edad, tabla, reloj, sondeo, cache, borrada, fallos>>

LeerFilas(e) ==
  /\ ciclo[e].fase = "calcular"
  /\ ciclo' = [ciclo EXCEPT ![e].fase = "guardar"]
  /\ UNCHANGED <<simulado, publicada, edad, tabla, reloj, sondeo, cache, borrada, fallos>>

\* The row is written as of now, whoever wrote it meanwhile; a failure of the
\* write is ignored
CalcContexto(e) ==
  /\ ciclo[e].fase = "guardar"
  /\ \/ cache' = [hay |-> TRUE, escrito |-> 0, leido |-> ciclo[e].leido]
     \/ FallaBD /\ UNCHANGED cache
  /\ ciclo' = [ciclo EXCEPT ![e].fase = "tiene"]
  /\ UNCHANGED <<simulado, publicada, edad, tabla, reloj, sondeo, borrada, fallos>>

\* A query fails: the park is not evaluated in this cycle
ContextoFalla(e) ==
  /\ FallaBD /\ ciclo[e].fase \in {"calcular", "guardar"}
  /\ ciclo' = [ciclo EXCEPT ![e] = SinCiclo]
  /\ UNCHANGED <<simulado, publicada, edad, tabla, reloj, sondeo, cache, borrada, fallos>>

-----------------------------------------------------------------------------
\* The crons that are due have begun, and what began before the last tick ended
Tick ==
  /\ \A s \in Servicios : reloj[s] > 0
  /\ \A p \in Sondeos : ~sondeo[p].cruza
  /\ \A e \in Ciclos : ciclo[e].fase = "guardar" => ciclo[e].leido = 0
  /\ edad' = [o \in Obs |-> IF o \in publicada THEN Hasta(edad[o] + 1, Viejo) ELSE edad[o]]
  /\ reloj' = [s \in Servicios |-> reloj[s] - 1]
  /\ sondeo' = [p \in Sondeos |->
       IF sondeo[p] = Libre THEN Libre ELSE [sondeo[p] EXCEPT !.cruza = TRUE]]
  /\ cache' = IF cache.hay THEN [cache EXCEPT !.escrito = Hasta(@ + 1, Vigencia + 1),
                                              !.leido = Hasta(@ + 1, Vigencia + 2)]
              ELSE cache
  /\ ciclo' = [e \in Ciclos |->
       IF ciclo[e].fase = "guardar" THEN [ciclo[e] EXCEPT !.leido = @ + 1] ELSE ciclo[e]]
  /\ UNCHANGED <<simulado, publicada, tabla, borrada, fallos>>

Sondear(p) ==
  \/ \E s \in Servicios : Poll(p, s) \/ PollNow(p, s)
  \/ Bajar(p) \/ BajarFalla(p) \/ BajarAbiertas(p) \/ Persistir(p)
  \/ InsertarTrozo(p) \/ InsertarFalla(p) \/ Simular(p) \/ FinSondeo(p)

Contexto(e) == PedirContexto(e) \/ LeerFilas(e) \/ CalcContexto(e) \/ ContextoFalla(e)

PasoClima ==
  \/ Tick \/ Limpiar
  \/ \E o \in Obs : Publicar(o) \/ Create(o)
  \/ \E p \in Sondeos : Sondear(p)
  \/ \E e \in Ciclos : Contexto(e)

-----------------------------------------------------------------------------
(* Properties *)

\* The context of a cycle comes from rows read at most 20 minutes and one
\* calculation earlier, also when calculations overlap and the older one is
\* written last with the date of the newer.
ContextoReciente ==
  \A e \in Ciclos : ciclo[e].fase = "tiene" => ciclo[e].leido <= Vigencia + 1

\* A source asks again for what it already gave, and the cleaning removes it
\* by its age: what was removed never comes back.
NoResucita == [][borrada \cap tabla' = {}]_varsClima

\* The windows of consecutive polls overlap: an observation whose window
\* passed without a row was missed by every poll in between, because its
\* source or its INSERT failed or newer rows took its place.
SePierdeTrasFallos ==
  \A o \in publicada \ (tabla \cup borrada), s \in Servicios : ~Simula(s) =>
    \A i \in 1..Len(Series[s]) :
      LET f == Series[s][i] IN
      f \in FuentesDe[o] /\ edad[o] > Ventana[f] + 1
        => fallos[o] >= Hasta((Ventana[f] - 1) \div Periodo[s], MaxFallos)

=============================================================================
