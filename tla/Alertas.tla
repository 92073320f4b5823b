------------------------------ MODULE Alertas ------------------------------
(***************************************************************************)
(* AlertasService (backend/src/alertas/alertas.service.ts) over the table  *)
(* alertas, its partial unique index and the Redis channel manobi:alertas. *)
(*                                                                         *)
(* Every call of the service is a process that stops at each await, so     *)
(* that the calls of the engine, of the hotspot poller and of operators    *)
(* interleave between their query, their INSERT or UPDATE and their        *)
(* PUBLISH.  Redis may go down (publish then rejects after its retries),   *)
(* the API process may restart (it forgets every call in progress) and a   *)
(* park may be deleted (its alerts go with it).                            *)
(***************************************************************************)
EXTENDS Naturals, Sequences, FiniteSets

CONSTANTS
  Parques,      \* parks that may exist
  SinParque,    \* parque_id absent
  Tipos,        \* kinds of alert: a rule's name or an operator's text
  Niveles,      \* levels
  Origenes,     \* generada_por: "motor_reglas", "manual"
  Ids,          \* primary keys the database may generate
  NoId,         \* "no row"
  Llamadas,     \* concurrent calls of the service
  FallaRedis,   \* TRUE: Redis may go down
  Reinicia,     \* TRUE: the API process may restart
  MaxAvisos     \* bound on the messages published

ASSUME ConjuntosAssumption ==
  /\ Tipos # {} /\ Niveles # {} /\ Origenes # {}
  /\ SinParque \notin Parques
  /\ NoId \notin Ids
ASSUME BanderasAssumption ==
  FallaRedis \in BOOLEAN /\ Reinicia \in BOOLEAN /\ MaxAvisos \in Nat

VARIABLES
  estado,       \* estado[id]: column estado; "nula" before INSERT, "borrada" after DELETE
  datos,        \* datos[id]: the columns INSERT writes and nothing updates
  parques,      \* rows of the table parques
  canal,        \* every message Redis accepted on manobi:alertas, in order
  redis,        \* Redis answers
  pc,           \* pc[c]: the await the call is about to make
  dto,          \* dto[c]: what the call was asked to create
  fila,         \* fila[c]: the row the call holds a copy of
  aviso,        \* aviso[c]: the estado of that copy
  resultado     \* resultado[c]: how the last call ended

tabla == <<estado, datos, parques>>
marco == <<pc, dto, fila, aviso, resultado>>
vars == <<estado, datos, parques, canal, redis, pc, dto, fila, aviso, resultado>>

Borradores == [parque : Parques \cup {SinParque}, tipo : Tipos, nivel : Niveles,
               origen : Origenes]
Finales == {"cerrada", "falsa"}
Estados == {"activa"} \cup Finales
Mensajes == [id : Ids, estado : Estados]

Vacio == CHOOSE d \in Borradores : TRUE

TypeOK ==
  /\ estado \in [Ids -> Estados \cup {"nula", "borrada"}]
  /\ datos \in [Ids -> Borradores]
  /\ parques \in SUBSET Parques
  /\ canal \in Seq(Mensajes)
  /\ redis \in BOOLEAN
  /\ pc \in [Llamadas -> {"libre", "buscar", "insertar", "leer", "guardar", "publicar"}]
  /\ dto \in [Llamadas -> Borradores]
  /\ fila \in [Llamadas -> Ids \cup {NoId}]
  /\ aviso \in [Llamadas -> Estados]
  /\ resultado \in [Llamadas -> {"ninguno", "nueva", "dedup", "cerrada", "error"}]

Init ==
  /\ estado = [id \in Ids |-> "nula"]
  /\ datos = [id \in Ids |-> Vacio]
  /\ parques = Parques
  /\ canal = <<>>
  /\ redis = TRUE
  /\ pc = [c \in Llamadas |-> "libre"]
  /\ dto = [c \in Llamadas |-> Vacio]
  /\ fila = [c \in Llamadas |-> NoId]
  /\ aviso = [c \in Llamadas |-> "activa"]
  /\ resultado = [c \in Llamadas |-> "ninguno"]

-----------------------------------------------------------------------------
(* Helpers. *)

\* findOne({ parque_id, tipo, estado: 'activa' }) finds a row
ActivaEn(d, id) ==
  /\ estado[id] = "activa"
  /\ datos[id].parque = d.parque
  /\ datos[id].tipo = d.tipo

\* Mutated form: the partial unique index is missing from the database
SinIndice(d) == d.parque \notin parques \cup {SinParque}

\* The INSERT violates uq_alertas_activas (NULLs are distinct) or the foreign key
InsertViola(d) ==
  \/ d.parque \notin parques \cup {SinParque}
  \/ d.parque # SinParque /\ \E id \in Ids : ActivaEn(d, id)

\* The call ends: it answers r and forgets its locals
Terminar(c, r) ==
  /\ pc' = [pc EXCEPT ![c] = "libre"]
  /\ dto' = [dto EXCEPT ![c] = Vacio]
  /\ fila' = [fila EXCEPT ![c] = NoId]
  /\ aviso' = [aviso EXCEPT ![c] = "activa"]
  /\ resultado' = [resultado EXCEPT ![c] = r]

\* The key uuid_generate_v4() gives the next row; which one it is does not matter
Nulas == {id \in Ids : estado[id] = "nula"}
Nuevo == CHOOSE id \in Ids : estado[id] = "nula"

\* Bounds: enough fresh identifiers and messages for every call in progress
EnCurso == {c \in Llamadas : pc[c] # "libre"}
CabeUnaFila == Cardinality(Nulas) > Cardinality({c \in Llamadas : pc[c] \in {"buscar", "insertar"}})
CabeUnAviso == Len(canal) + Cardinality(EnCurso) < MaxAvisos

-----------------------------------------------------------------------------
(* createWithDedup *)

\* Entry: without parque_id there is no search for an open alert
Crear(c, d) ==
  /\ pc[c] = "libre"
  /\ CabeUnaFila /\ CabeUnAviso
  /\ pc' = [pc EXCEPT ![c] = IF d.parque = SinParque THEN "insertar" ELSE "buscar"]
  /\ dto' = [dto EXCEPT ![c] = d]
  /\ resultado' = [resultado EXCEPT ![c] = "ninguno"]
  /\ UNCHANGED <<tabla, canal, redis, fila, aviso>>

\* Mutated form: a deduplicated alert is announced again
BuscarReanuncia(c) ==
  /\ pc[c] = "buscar"
  /\ \E id \in Ids : ActivaEn(dto[c], id) /\ fila' = [fila EXCEPT ![c] = id]
  /\ pc' = [pc EXCEPT ![c] = "publicar"]
  /\ UNCHANGED <<tabla, canal, redis, dto, aviso, resultado>>

\* await repo.findOne: an open alert of the same slot ends the call
BuscarExistente(c) ==
  /\ pc[c] = "buscar"
  /\ \E id \in Ids : ActivaEn(dto[c], id)
  /\ Terminar(c, "dedup")
  /\ UNCHANGED <<tabla, canal, redis>>

BuscarNinguna(c) ==
  /\ pc[c] = "buscar"
  /\ \A id \in Ids : ~ActivaEn(dto[c], id)
  /\ pc' = [pc EXCEPT ![c] = "insertar"]
  /\ UNCHANGED <<tabla, canal, redis, dto, fila, aviso, resultado>>

\* Mutated form: the new row is never published
InsertarEnSilencio(c) ==
  /\ pc[c] = "insertar"
  /\ ~InsertViola(dto[c]) /\ Nulas # {}
  /\ estado' = [estado EXCEPT ![Nuevo] = "activa"]
  /\ datos' = [datos EXCEPT ![Nuevo] = dto[c]]
  /\ Terminar(c, "nueva")
  /\ UNCHANGED <<parques, canal, redis>>

\* await repo.save: INSERT of a new row, kept in the call for publish
Insertar(c) ==
  /\ pc[c] = "insertar"
  /\ ~InsertViola(dto[c])
  /\ Nulas # {}
  /\ estado' = [estado EXCEPT ![Nuevo] = "activa"]
  /\ datos' = [datos EXCEPT ![Nuevo] = dto[c]]
  /\ fila' = [fila EXCEPT ![c] = Nuevo]
  /\ aviso' = [aviso EXCEPT ![c] = "activa"]
  /\ pc' = [pc EXCEPT ![c] = "publicar"]
  /\ UNCHANGED <<parques, canal, redis, dto, resultado>>

InsertarRechazado(c) ==
  /\ pc[c] = "insertar"
  /\ InsertViola(dto[c])
  /\ Terminar(c, "error")
  /\ UNCHANGED <<tabla, canal, redis>>

-----------------------------------------------------------------------------
(* cerrar *)

Cerrar(c, id, e) ==
  /\ pc[c] = "libre"
  /\ estado[id] # "nula"
  /\ CabeUnAviso
  /\ pc' = [pc EXCEPT ![c] = "leer"]
  /\ fila' = [fila EXCEPT ![c] = id]
  /\ aviso' = [aviso EXCEPT ![c] = e]
  /\ resultado' = [resultado EXCEPT ![c] = "ninguno"]
  /\ UNCHANGED <<tabla, canal, redis, dto>>

\* Mutated form: the closing is published before it is saved
LeerPublica(c) ==
  /\ pc[c] = "leer"
  /\ canal' = Append(canal, [id |-> fila[c], estado |-> aviso[c]])
  /\ pc' = [pc EXCEPT ![c] = "guardar"]
  /\ UNCHANGED <<tabla, redis, dto, fila, aviso, resultado>>

\* await findOne(id): a missing row is a 404; the state of the row is not looked at
LeerFila(c) ==
  /\ pc[c] = "leer"
  /\ IF estado[fila[c]] = "borrada"
       THEN Terminar(c, "error")
       ELSE /\ pc' = [pc EXCEPT ![c] = "guardar"]
            /\ UNCHANGED <<dto, fila, aviso, resultado>>
  /\ UNCHANGED <<tabla, canal, redis>>

\* Mutated form: saving writes the copy back even when the row was deleted
GuardarRevive(c) ==
  /\ pc[c] = "guardar"
  /\ estado' = [estado EXCEPT ![fila[c]] = aviso[c]]
  /\ pc' = [pc EXCEPT ![c] = "publicar"]
  /\ UNCHANGED <<datos, parques, canal, redis, dto, fila, aviso, resultado>>

\* await repo.save(a): UPDATE of estado and fecha_fin.  If the row went away
\* since it was read, save tries to INSERT it again and its park is missing.
GuardarCierre(c) ==
  /\ pc[c] = "guardar"
  /\ IF estado[fila[c]] = "borrada"
       THEN Terminar(c, "error") /\ UNCHANGED estado
       ELSE /\ estado' = [estado EXCEPT ![fila[c]] = aviso[c]]
            /\ pc' = [pc EXCEPT ![c] = "publicar"]
            /\ UNCHANGED <<dto, fila, aviso, resultado>>
  /\ UNCHANGED <<datos, parques, canal, redis>>

-----------------------------------------------------------------------------
(* publish: the payload is the copy the call saved, not the row of now *)

Respuesta(c) == IF aviso[c] = "activa" THEN "nueva" ELSE "cerrada"

Publicar(c) ==
  /\ pc[c] = "publicar"
  /\ redis
  /\ canal' = Append(canal, [id |-> fila[c], estado |-> aviso[c]])
  /\ Terminar(c, Respuesta(c))
  /\ UNCHANGED <<tabla, redis>>

\* Mutated form: no bound on the retries
PublicarEspera(c) == FALSE

\* redis.publish rejects after maxRetriesPerRequest: the row is already saved
PublicarFalla(c) ==
  /\ pc[c] = "publicar"
  /\ ~redis
  /\ Terminar(c, "error")
  /\ UNCHANGED <<tabla, canal, redis>>

-----------------------------------------------------------------------------
(* The environment *)

\* ParquesService.remove: ON DELETE CASCADE takes the park's alerts
EliminarParque(p) ==
  /\ p \in parques
  /\ parques' = parques \ {p}
  /\ estado' = [id \in Ids |-> IF datos[id].parque = p /\ estado[id] # "nula"
                                 THEN "borrada" ELSE estado[id]]
  /\ UNCHANGED <<datos, canal, redis, marco>>

RedisCae == FallaRedis /\ redis /\ redis' = FALSE /\ UNCHANGED <<tabla, canal, marco>>

RedisVuelve == ~redis /\ redis' = TRUE /\ UNCHANGED <<tabla, canal, marco>>

\* The process restarts: only the database and Redis remember anything
Reinicio ==
  /\ Reinicia
  /\ pc' = [c \in Llamadas |-> "libre"]
  /\ dto' = [c \in Llamadas |-> Vacio]
  /\ fila' = [c \in Llamadas |-> NoId]
  /\ aviso' = [c \in Llamadas |-> "activa"]
  /\ resultado' = [c \in Llamadas |-> "ninguno"]
  /\ UNCHANGED <<tabla, canal, redis>>

\* What a call in progress does when its await resolves
Paso(c) ==
  \/ BuscarExistente(c) \/ BuscarNinguna(c)
  \/ Insertar(c) \/ InsertarRechazado(c)
  \/ LeerFila(c) \/ GuardarCierre(c)
  \/ Publicar(c) \/ PublicarFalla(c)

Entorno ==
  \/ \E p \in Parques : EliminarParque(p)
  \/ RedisCae \/ RedisVuelve \/ Reinicio

Next ==
  \/ \E c \in Llamadas, d \in Borradores : Crear(c, d)
  \/ \E c \in Llamadas, id \in Ids, e \in Finales : Cerrar(c, id, e)
  \/ \E c \in Llamadas : Paso(c)
  \/ Entorno

Spec == Init /\ [][Next]_vars

\* Every await of a call in progress resolves (queries have a statement
\* timeout, publish a bounded number of retries)
Justicia == \A c \in Llamadas : WF_vars(Paso(c))
FairSpec == Spec /\ Justicia

-----------------------------------------------------------------------------
(* Properties *)

\* At most one open alert per park and kind, however the creators interleave.
UnaActivaPorRanura ==
  \A i, j \in Ids :
    /\ estado[i] = "activa" /\ estado[j] = "activa"
    /\ datos[i].parque = datos[j].parque /\ datos[i].tipo = datos[j].tipo
    /\ datos[i].parque # SinParque
    => i = j

\* The opening of an alert is published at most once: deduplicated calls and
\* later closings never announce it again.
AnuncioUnico ==
  \A m, n \in 1..Len(canal) :
    /\ canal[m].id = canal[n].id
    /\ canal[m].estado = "activa" /\ canal[n].estado = "activa"
    => m = n

\* A message is published only after what it says was committed: nobody hears
\* of an alert the table does not have, nor of a closing that did not happen.
AvisoTrasCommit ==
  \A m \in 1..Len(canal) :
    /\ estado[canal[m].id] # "nula"
    /\ canal[m].estado # "activa" => estado[canal[m].id] # "activa"

Anunciada(id) == \E m \in 1..Len(canal) : canal[m] = [id |-> id, estado |-> "activa"]

Abstracto == INSTANCE CicloAlerta WITH
  fase <- estado,
  ranura <- [id \in Ids |-> [parque |-> datos[id].parque, tipo |-> datos[id].tipo]],
  anunciadas <- {id \in Ids : Anunciada(id)}

\* The service implements the life cycle of CicloAlerta: every step is a step
\* of it or none.
CumpleCiclo == Abstracto!Spec

\* While Redis works, every alert inserted is eventually published on the
\* channel the listener and the gateway read.
TodaAltaSeAnuncia == []redis => \A id \in Ids : estado[id] = "activa" ~> Anunciada(id)

=============================================================================
