---------------------------- MODULE MotorAlertas ----------------------------
(***************************************************************************)
(* The automatic producers of alerts over AlertasService: the rule engine  *)
(* (alert-engine.service.ts), whose cycles may overlap, and the satellite  *)
(* poller (hotspots.service.ts), next to operators who create and close    *)
(* alerts by hand.  A producer is one of the calls of Alertas: while it    *)
(* awaits createWithDedup it takes the steps of that module.               *)
(***************************************************************************)
EXTENDS Alertas

CONSTANTS
  Reglas,         \* rows of reglas_alerta
  ReglasIA,       \* rules that need a prediction of the AI service to hold
  ReglasRotas,    \* rules whose evaluation throws
  ParquesLentos,  \* parks whose queries may abort (statement_timeout)
  TipoDe,         \* TipoDe[r]: the kind of the alerts of rule r, its nombre
  NivelDe,        \* NivelDe[r]: nivel_resultante
  TipoSatelite,   \* TipoSatelite[k]: kind for a detection of confidence class k
  NivelSatelite,  \* NivelSatelite[k]: its level
  Ciclos,         \* executions of run(): the cron's and the pre-warm's
  Sondeos,        \* executions of poll()
  Operadores,     \* requests of operators
  ClimaCambia,    \* TRUE: what the rules say of a park may change
  ReglasCambian,  \* TRUE: administrators pause and resume rules
  MaxDetecciones, \* bound on the detections of one poll
  MaxMetrica,     \* bound on the metric that lets a new poll start
  Reserva         \* bound: rows that polls and operators leave to cycles

ASSUME MotorAssumption ==
  /\ ReglasIA \subseteq Reglas /\ ReglasRotas \subseteq Reglas
  /\ ParquesLentos \subseteq Parques
  /\ TipoDe \in [Reglas -> Tipos] /\ NivelDe \in [Reglas -> Niveles]
  /\ TipoSatelite \in [DOMAIN TipoSatelite -> Tipos]
  /\ NivelSatelite \in [DOMAIN TipoSatelite -> Niveles]
  /\ Llamadas = Ciclos \cup Sondeos \cup Operadores
  /\ Operadores \cap (Ciclos \cup Sondeos) = {}
  /\ "motor_reglas" \in Origenes
  /\ MaxDetecciones \in Nat /\ MaxMetrica \in Nat /\ Reserva \in Nat

VARIABLES
  riesgo,         \* riesgo[p]: rules whose condition holds in the context of p
  reglasActivas,  \* rules with activa = true
  tarea,          \* tarea[c]: what the producer is doing
  pendientes,     \* pendientes[c]: parks the cycle has not evaluated yet
  actual,         \* actual[c]: the park being evaluated
  vigentes,       \* vigentes[c]: rules read at the start of the cycle
  porEvaluar,     \* porEvaluar[c]: rules that hold and were not tried yet
  detecciones,    \* detecciones[c]: detections of the poll still to evaluate
  metrica,        \* manobi_alerts_generated_total since the process started
  previas,        \* history: alerts of before the process started
  repetidas       \* history: detections counted although their alert was open

motor == <<riesgo, reglasActivas, tarea, pendientes, actual, vigentes,
           porEvaluar, detecciones, metrica, previas, repetidas>>
varsMotor == <<vars, motor>>

Clases == DOMAIN TipoSatelite
Detecciones == UNION {[1..n -> Parques \X Clases] : n \in 0..MaxDetecciones}

TypeOKMotor ==
  /\ TypeOK
  /\ riesgo \in [Parques -> SUBSET Reglas]
  /\ reglasActivas \in SUBSET Reglas
  /\ tarea \in [Llamadas -> {"inactiva", "ciclo", "alta", "sondeo", "altaSondeo"}]
  /\ pendientes \in [Llamadas -> SUBSET Parques]
  /\ actual \in [Llamadas -> Parques \cup {SinParque}]
  /\ vigentes \in [Llamadas -> SUBSET Reglas]
  /\ porEvaluar \in [Llamadas -> SUBSET Reglas]
  /\ detecciones \in [Llamadas -> Detecciones]
  /\ metrica \in Nat
  /\ previas \in SUBSET Ids
  /\ repetidas \in Nat

\* Bound: polls and operators start only with rows to spare, and leave a message
\* for the opening of each row that is still to come
HayReserva ==
  /\ Cardinality(Nulas) > Reserva
  /\ Len(canal) + Cardinality(EnCurso) + Cardinality(Nulas) < MaxAvisos

SinTarea ==
  /\ tarea' = [c \in Llamadas |-> "inactiva"]
  /\ pendientes' = [c \in Llamadas |-> {}]
  /\ actual' = [c \in Llamadas |-> SinParque]
  /\ vigentes' = [c \in Llamadas |-> {}]
  /\ porEvaluar' = [c \in Llamadas |-> {}]
  /\ detecciones' = [c \in Llamadas |-> <<>>]

InitMotor ==
  /\ Init
  /\ riesgo \in [Parques -> SUBSET Reglas]
  /\ reglasActivas = Reglas
  /\ tarea = [c \in Llamadas |-> "inactiva"]
  /\ pendientes = [c \in Llamadas |-> {}]
  /\ actual = [c \in Llamadas |-> SinParque]
  /\ vigentes = [c \in Llamadas |-> {}]
  /\ porEvaluar = [c \in Llamadas |-> {}]
  /\ detecciones = [c \in Llamadas |-> <<>>]
  /\ metrica = 0
  /\ previas = {} /\ repetidas = 0

-----------------------------------------------------------------------------
(* AlertEngineService.run *)

\* A producer goes back to rest
Descansar(c) ==
  /\ tarea' = [tarea EXCEPT ![c] = "inactiva"]
  /\ pendientes' = [pendientes EXCEPT ![c] = {}]
  /\ actual' = [actual EXCEPT ![c] = SinParque]
  /\ vigentes' = [vigentes EXCEPT ![c] = {}]
  /\ porEvaluar' = [porEvaluar EXCEPT ![c] = {}]

\* Cron or pre-warm: read the active rules and the parks; nothing to do without them
IniciarCiclo(c) ==
  /\ c \in Ciclos /\ tarea[c] = "inactiva"
  /\ reglasActivas # {} /\ parques # {}
  /\ tarea' = [tarea EXCEPT ![c] = "ciclo"]
  /\ pendientes' = [pendientes EXCEPT ![c] = parques]
  /\ vigentes' = [vigentes EXCEPT ![c] = reglasActivas]
  /\ UNCHANGED <<vars, riesgo, reglasActivas, actual, porEvaluar, detecciones, metrica, previas, repetidas>>

\* Nothing of the current park is left to try
LibreDeReglas(c) == tarea[c] = "ciclo" /\ porEvaluar[c] = {}

\* The rules of the snapshot that hold in p; without a prediction its probability is 0
Cumplen(c, p, ia) == (vigentes[c] \cap riesgo[p]) \ (IF ia THEN {} ELSE ReglasIA)

\* evaluarParque up to its loop: the context and the predictions of one park
EvaluarParque(c, p) ==
  /\ LibreDeReglas(c)
  /\ p \in pendientes[c]
  /\ pendientes' = [pendientes EXCEPT ![c] = @ \ {p}]
  /\ actual' = [actual EXCEPT ![c] = p]
  /\ \E ia \in BOOLEAN : porEvaluar' = [porEvaluar EXCEPT ![c] = Cumplen(c, p, ia)]
  /\ UNCHANGED <<vars, riesgo, reglasActivas, tarea, vigentes, detecciones, metrica, previas, repetidas>>

\* contextoPorParque throws: the exception leaves run() and the parks that are
\* still pending are not evaluated in this cycle
ContextoFalla(c, p) ==
  /\ LibreDeReglas(c)
  /\ p \in pendientes[c] \cap ParquesLentos
  /\ Descansar(c)
  /\ UNCHANGED <<vars, riesgo, reglasActivas, detecciones, metrica, previas, repetidas>>

\* Mutated form: an origin the table does not admit
BorradorAjeno(p, r) ==
  [parque |-> p, tipo |-> TipoDe[r], nivel |-> NivelDe[r], origen |-> "motor"]

BorradorDe(p, r) ==
  [parque |-> p, tipo |-> TipoDe[r], nivel |-> NivelDe[r], origen |-> "motor_reglas"]

\* One rule that holds: await createWithDedup
EvaluarRegla(c, r) ==
  /\ tarea[c] = "ciclo"
  /\ r \in porEvaluar[c] \ ReglasRotas
  /\ Crear(c, BorradorDe(actual[c], r))
  /\ porEvaluar' = [porEvaluar EXCEPT ![c] = @ \ {r}]
  /\ tarea' = [tarea EXCEPT ![c] = "alta"]
  /\ UNCHANGED <<riesgo, reglasActivas, pendientes, actual, vigentes, detecciones, metrica, previas, repetidas>>

\* Mutated form: without the try/catch a broken rule ends the cycle
ReglaAborta(c, r) ==
  /\ tarea[c] = "ciclo"
  /\ r \in porEvaluar[c] \cap ReglasRotas
  /\ Descansar(c)
  /\ UNCHANGED <<vars, riesgo, reglasActivas, detecciones, metrica, previas, repetidas>>

\* A rule that throws is logged and the loop goes on with the others
ReglaFalla(c, r) ==
  /\ tarea[c] = "ciclo"
  /\ r \in porEvaluar[c] \cap ReglasRotas
  /\ porEvaluar' = [porEvaluar EXCEPT ![c] = @ \ {r}]
  /\ UNCHANGED <<vars, riesgo, reglasActivas, tarea, pendientes, actual, vigentes,
                 detecciones, metrica, previas, repetidas>>

\* Mutated form: the metric counts deduplicated alerts too
CuentaTodo(c) == resultado[c] # "error"

CuentaNueva(c) == resultado[c] = "nueva"

\* createWithDedup answered: only a new alert counts in the metric
RespuestaMotor(c) ==
  /\ tarea[c] = "alta" /\ pc[c] = "libre"
  /\ metrica' = IF CuentaNueva(c) THEN metrica + 1 ELSE metrica
  /\ tarea' = [tarea EXCEPT ![c] = "ciclo"]
  /\ resultado' = [resultado EXCEPT ![c] = "ninguno"]
  /\ UNCHANGED <<tabla, canal, redis, pc, dto, fila, aviso, riesgo, reglasActivas,
                 pendientes, actual, vigentes, porEvaluar, detecciones, previas, repetidas>>

FinCiclo(c) ==
  /\ LibreDeReglas(c) /\ pendientes[c] = {}
  /\ Descansar(c)
  /\ UNCHANGED <<vars, riesgo, reglasActivas, detecciones, metrica, previas, repetidas>>

PasoCiclo(c) ==
  \/ \E p \in Parques : EvaluarParque(c, p) \/ ContextoFalla(c, p)
  \/ \E r \in Reglas : EvaluarRegla(c, r) \/ ReglaFalla(c, r)
  \/ RespuestaMotor(c) \/ FinCiclo(c)

-----------------------------------------------------------------------------
(* HotspotsService.poll *)

\* The feeds answered and their detections were stored: those with enough
\* confidence inside a park remain to be evaluated
IniciarSondeo(c, ds) ==
  /\ c \in Sondeos /\ tarea[c] = "inactiva"
  /\ metrica < MaxMetrica
  /\ HayReserva
  /\ ds # <<>>
  /\ tarea' = [tarea EXCEPT ![c] = "sondeo"]
  /\ detecciones' = [detecciones EXCEPT ![c] = ds]
  /\ UNCHANGED <<vars, riesgo, reglasActivas, pendientes, actual, vigentes, porEvaluar, metrica, previas, repetidas>>

EvaluarDeteccion(c) ==
  /\ tarea[c] = "sondeo" /\ detecciones[c] # <<>>
  /\ LET p == Head(detecciones[c])[1]
         k == Head(detecciones[c])[2]
     IN  Crear(c, [parque |-> p, tipo |-> TipoSatelite[k],
                   nivel |-> NivelSatelite[k], origen |-> "motor_reglas"])
  /\ detecciones' = [detecciones EXCEPT ![c] = Tail(@)]
  /\ tarea' = [tarea EXCEPT ![c] = "altaSondeo"]
  /\ UNCHANGED <<riesgo, reglasActivas, pendientes, actual, vigentes, porEvaluar, metrica, previas, repetidas>>

\* create() answers the alert, new or not: everything but an exception counts
RespuestaSondeo(c) ==
  /\ tarea[c] = "altaSondeo" /\ pc[c] = "libre"
  /\ metrica' = IF resultado[c] # "error" THEN metrica + 1 ELSE metrica
  /\ repetidas' = IF resultado[c] = "dedup" THEN repetidas + 1 ELSE repetidas
  /\ tarea' = [tarea EXCEPT ![c] = "sondeo"]
  /\ resultado' = [resultado EXCEPT ![c] = "ninguno"]
  /\ UNCHANGED <<tabla, canal, redis, pc, dto, fila, aviso, riesgo, reglasActivas,
                 pendientes, actual, vigentes, porEvaluar, detecciones, previas>>

\* findParqueContaining throws: the rest of the poll is not evaluated
SondeoFalla(c) ==
  /\ tarea[c] = "sondeo" /\ detecciones[c] # <<>>
  /\ Head(detecciones[c])[1] \in ParquesLentos
  /\ Descansar(c)
  /\ detecciones' = [detecciones EXCEPT ![c] = <<>>]
  /\ UNCHANGED <<vars, riesgo, reglasActivas, metrica, previas, repetidas>>

FinSondeo(c) ==
  /\ tarea[c] = "sondeo" /\ detecciones[c] = <<>>
  /\ Descansar(c)
  /\ UNCHANGED <<vars, riesgo, reglasActivas, detecciones, metrica, previas, repetidas>>

PasoSondeo(c) ==
  EvaluarDeteccion(c) \/ RespuestaSondeo(c) \/ SondeoFalla(c) \/ FinSondeo(c)

-----------------------------------------------------------------------------
(* Operators, administrators and the world *)

Manual(c) ==
  /\ c \in Operadores
  /\ HayReserva
  /\ \/ \E d \in Borradores : d.origen = "manual" /\ Crear(c, d)
     \/ \E id \in Ids, e \in Finales : Cerrar(c, id, e)
  /\ UNCHANGED motor

\* ReglasService.update and create set activa; update and remove clear it
ActivarRegla(r) ==
  /\ ReglasCambian
  /\ reglasActivas' = reglasActivas \cup {r}
  /\ UNCHANGED <<vars, riesgo, tarea, pendientes, actual, vigentes, porEvaluar,
                 detecciones, metrica, previas, repetidas>>

DesactivarRegla(r) ==
  /\ ReglasCambian
  /\ reglasActivas' = reglasActivas \ {r}
  /\ UNCHANGED <<vars, riesgo, tarea, pendientes, actual, vigentes, porEvaluar,
                 detecciones, metrica, previas, repetidas>>

CambiaElClima(p, S) ==
  /\ ClimaCambia
  /\ riesgo' = [riesgo EXCEPT ![p] = S]
  /\ UNCHANGED <<vars, reglasActivas, tarea, pendientes, actual, vigentes, porEvaluar,
                 detecciones, metrica, previas, repetidas>>

\* A restart also forgets the producers and the counters of prom-client
ReinicioMotor ==
  /\ Reinicio
  /\ SinTarea
  /\ metrica' = 0
  /\ repetidas' = 0
  /\ previas' = {id \in Ids : estado[id] # "nula"}
  /\ UNCHANGED <<riesgo, reglasActivas>>

NextMotor ==
  \/ \E c \in Llamadas :
       \/ Paso(c) /\ UNCHANGED motor
       \/ IniciarCiclo(c) \/ PasoCiclo(c)
       \/ \E ds \in Detecciones : IniciarSondeo(c, ds)
       \/ PasoSondeo(c)
       \/ Manual(c)
  \/ \E r \in Reglas : ActivarRegla(r) \/ DesactivarRegla(r)
  \/ \E p \in Parques, S \in SUBSET Reglas : CambiaElClima(p, S)
  \/ ((\E p \in Parques : EliminarParque(p)) \/ RedisCae \/ RedisVuelve) /\ UNCHANGED motor
  \/ ReinicioMotor

SpecMotor == InitMotor /\ [][NextMotor]_varsMotor

\* The cron keeps starting cycles and polls end; awaits resolve
JusticiaMotor ==
  /\ \A c \in Llamadas : WF_varsMotor(Paso(c) /\ UNCHANGED motor)
  /\ \A c \in Ciclos : WF_varsMotor(IniciarCiclo(c)) /\ WF_varsMotor(PasoCiclo(c))
  /\ \A c \in Sondeos : WF_varsMotor(PasoSondeo(c))
FairSpecMotor == SpecMotor /\ JusticiaMotor

-----------------------------------------------------------------------------
(* Properties *)

PorAnunciar(id) == \E c \in Llamadas : pc[c] = "publicar" /\ aviso[c] = "activa" /\ fila[c] = id

\* Alerts cycles and polls inserted since the process started, but for those whose
\* publication failed: their caller got an exception
AltasDelMotor ==
  {id \in Ids \ previas : /\ estado[id] # "nula"
                         /\ datos[id].origen = "motor_reglas"
                         /\ (Anunciada(id) \/ PorAnunciar(id))}

\* Calls whose new alert was not counted yet
PorContar ==
  {c \in Llamadas :
     \/ pc[c] = "publicar" /\ aviso[c] = "activa" /\ datos[fila[c]].origen = "motor_reglas"
     \/ pc[c] = "libre" /\ resultado[c] = "nueva" /\ tarea[c] # "inactiva"}

\* The metric "alerts generated by the engine" counts exactly the alerts that
\* cycles and polls inserted and announced, however they overlap, lose races
\* to each other or to an operator, fail halfway or restart; and, on top, the
\* detections of polls that found their alert open.
MetricaFiel ==
  metrica + Cardinality(PorContar) = Cardinality(AltasDelMotor) + repetidas

HayActiva(p, r) == \E id \in Ids : ActivaEn(BorradorDe(p, r), id)

\* A rule that stays active and true in a park of the table has an open alert
\* there again and again, unless contexts fail for ever: whatever other rules,
\* polls, operators or Redis do, and however often the alert is closed.
Cobertura ==
  \/ []<><<\E c \in Ciclos, p \in Parques : ContextoFalla(c, p)>>_varsMotor
  \/ \A p \in Parques, r \in Reglas \ (ReglasRotas \cup ReglasIA) :
       <>[](p \in parques /\ r \in reglasActivas /\ r \in riesgo[p]) => []<>HayActiva(p, r)

\* Every cycle ends, also with Redis down and queries that abort.
CicloTermina == \A c \in Ciclos : tarea[c] # "inactiva" ~> tarea[c] = "inactiva"

\* The flow of the architecture document: an alert that does not exist is
\* inserted and published.  Once Redis works again for good, an open alert is
\* announced or closed.
AltaTerminaAnunciada ==
  <>[]redis => \A id \in Ids : estado[id] = "activa" ~> (Anunciada(id) \/ estado[id] # "activa")

=============================================================================
