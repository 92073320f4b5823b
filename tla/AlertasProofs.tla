--------------------------- MODULE AlertasProofs ---------------------------
(***************************************************************************)
(* Proofs about Alertas for every set of parks, kinds, identifiers and     *)
(* concurrent calls, with and without failures, and about the producers    *)
(* of MotorAlertas, for any number of overlapping cycles, polls and        *)
(* operators over any rules, parks and detections.                         *)
(*                                                                         *)
(* The invariants the runs check are not inductive: they need to know what *)
(* each call in progress holds in its copy of the row, and what each       *)
(* producer waits for.  Every step of a producer is a step of Alertas, or  *)
(* the answer of one of its calls being taken: what the first half says of *)
(* the service holds with the engine in front of it, and the metric is     *)
(* counted from there.                                                     *)
(***************************************************************************)
EXTENDS MotorAlertas, FiniteSetTheorems, SequenceTheorems, TLAPS

-----------------------------------------------------------------------------
(* The service: its calls in progress *)

\* Every call past its first query holds the key of a row that was inserted
FilaReal ==
  \A c \in Llamadas : pc[c] \in {"leer", "guardar", "publicar"} =>
    fila[c] \in Ids /\ estado[fila[c]] # "nula"

\* A closing in progress carries a closing state
CierreFinal == \A c \in Llamadas : pc[c] \in {"leer", "guardar"} => aviso[c] \in Finales

\* A closing about to be published was saved
CierreGuardado ==
  \A c \in Llamadas : pc[c] = "publicar" /\ aviso[c] # "activa" => estado[fila[c]] # "activa"

\* The call is about to announce the opening of id
Anunciando(c, id) == pc[c] = "publicar" /\ aviso[c] = "activa" /\ fila[c] = id

\* An opening is announced by one call only, and not before it
UnAnunciante ==
  \A b, c \in Llamadas, id \in Ids : Anunciando(b, id) /\ Anunciando(c, id) => b = c

SinAnunciar ==
  \A c \in Llamadas, id \in Ids : Anunciando(c, id) =>
    \A m \in 1..Len(canal) : ~(canal[m].id = id /\ canal[m].estado = "activa")

IInv ==
  /\ TypeOK
  /\ FilaReal
  /\ CierreFinal
  /\ CierreGuardado
  /\ UnAnunciante
  /\ SinAnunciar
  /\ UnaActivaPorRanura
  /\ AnuncioUnico
  /\ AvisoTrasCommit

-----------------------------------------------------------------------------
\* The default draft exists because there is at least one kind, level and origin.
LEMMA VacioEsBorrador == Vacio \in Borradores
<1>1. PICK t \in Tipos, n \in Niveles, o \in Origenes : TRUE
  BY ConjuntosAssumption
<1>2. [parque |-> SinParque, tipo |-> t, nivel |-> n, origen |-> o] \in Borradores
  BY <1>1 DEF Borradores
<1>3. QED
  BY <1>2 DEF Vacio

\* The key of a new row is a key no row has.
LEMMA NuevoEsNulo ==
  ASSUME Nulas # {}
  PROVE  Nuevo \in Ids /\ estado[Nuevo] = "nula"
BY DEF Nulas, Nuevo

LEMMA TypeOKInit == Init => TypeOK
BY VacioEsBorrador, BanderasAssumption DEF Init, TypeOK, Estados, Mensajes

\* Every message is about an identifier.
LEMMA CanalIds ==
  ASSUME TypeOK
  PROVE  \A m \in 1..Len(canal) : canal[m].id \in Ids
<1>1. canal \in Seq(Mensajes)
  BY DEF TypeOK
<1>2. \A m \in 1..Len(canal) : canal[m] \in Mensajes
  BY <1>1
<1>3. QED
  BY <1>2 DEF Mensajes

\* Ending a call keeps its locals well typed.
LEMMA TerminarTipo ==
  ASSUME TypeOK, NEW c \in Llamadas, NEW r \in {"ninguno", "nueva", "dedup", "cerrada", "error"},
         Terminar(c, r)
  PROVE  /\ pc' \in [Llamadas -> {"libre", "buscar", "insertar", "leer", "guardar", "publicar"}]
         /\ dto' \in [Llamadas -> Borradores]
         /\ fila' \in [Llamadas -> Ids \cup {NoId}]
         /\ aviso' \in [Llamadas -> Estados]
         /\ resultado' \in [Llamadas -> {"ninguno", "nueva", "dedup", "cerrada", "error"}]
BY VacioEsBorrador DEF TypeOK, Terminar, Estados

\* Every step keeps the variables well typed; the rows a call holds are real.
LEMMA TypeOKStep ==
  ASSUME TypeOK, FilaReal, [Next]_vars
  PROVE  TypeOK'
<1> USE DEF TypeOK
<1>1. CASE \E c \in Llamadas, d \in Borradores : Crear(c, d)
  BY <1>1 DEF Crear, tabla
<1>2. CASE \E c \in Llamadas, id \in Ids, e \in Finales : Cerrar(c, id, e)
  BY <1>2 DEF Cerrar, tabla, Estados
<1>3. ASSUME NEW c \in Llamadas, Paso(c)
      PROVE  TypeOK'
  <2>1. CASE BuscarExistente(c)
    BY <2>1, TerminarTipo DEF BuscarExistente, tabla
  <2>2. CASE BuscarNinguna(c)
    BY <2>2 DEF BuscarNinguna, tabla
  <2>3. CASE Insertar(c)
    BY <2>3, NuevoEsNulo DEF Insertar, Estados
  <2>4. CASE InsertarRechazado(c)
    BY <2>4, TerminarTipo DEF InsertarRechazado, tabla
  <2>5. CASE LeerFila(c)
    BY <2>5, TerminarTipo DEF LeerFila, tabla
  <2>6. CASE GuardarCierre(c)
    BY <2>6, TerminarTipo DEF GuardarCierre
  <2>7. CASE Publicar(c)
    <3>1. [id |-> fila[c], estado |-> aviso[c]] \in Mensajes
      BY <2>7 DEF Publicar, FilaReal, Mensajes
    <3>2. canal' \in Seq(Mensajes)
      BY <2>7, <3>1 DEF Publicar
    <3>3. Respuesta(c) \in {"ninguno", "nueva", "dedup", "cerrada", "error"}
      BY DEF Respuesta
    <3>4. QED
      BY <2>7, <3>2, <3>3, TerminarTipo DEF Publicar, tabla
  <2>8. CASE PublicarFalla(c)
    BY <2>8, TerminarTipo DEF PublicarFalla, tabla
  <2>9. QED
    BY <1>3, <2>1, <2>2, <2>3, <2>4, <2>5, <2>6, <2>7, <2>8 DEF Paso
<1>4. CASE Entorno
  <2>1. ASSUME NEW p \in Parques, EliminarParque(p)
        PROVE  TypeOK'
    BY <2>1 DEF EliminarParque, marco, Estados
  <2>2. CASE RedisCae \/ RedisVuelve
    BY <2>2 DEF RedisCae, RedisVuelve, tabla, marco
  <2>3. CASE Reinicio
    BY <2>3, VacioEsBorrador DEF Reinicio, tabla, Estados
  <2>4. QED
    BY <1>4, <2>1, <2>2, <2>3 DEF Entorno
<1>5. CASE UNCHANGED vars
  BY <1>5 DEF vars
<1>6. QED
  BY <1>1, <1>2, <1>3, <1>4, <1>5 DEF Next

-----------------------------------------------------------------------------
(* The part of the invariant that relates the calls to the table and the   *)
(* channel.                                                                *)

Llamantes == FilaReal /\ CierreFinal /\ CierreGuardado /\ UnAnunciante /\ SinAnunciar
Publico == UnaActivaPorRanura /\ AnuncioUnico /\ AvisoTrasCommit

\* A call that ends without touching table or channel disturbs nothing.
LEMMA TerminarInv ==
  ASSUME IInv, NEW c \in Llamadas, NEW r \in {"ninguno", "nueva", "dedup", "cerrada", "error"},
         Terminar(c, r), UNCHANGED <<estado, datos, canal>>
  PROVE  Llamantes' /\ Publico'
<1> USE DEF IInv, TypeOK, Terminar
<1>1. \A b \in Llamadas : pc'[b] # "libre" =>
        b # c /\ pc'[b] = pc[b] /\ fila'[b] = fila[b] /\ aviso'[b] = aviso[b]
  OBVIOUS
<1>2. FilaReal' /\ CierreFinal' /\ CierreGuardado'
  BY <1>1 DEF FilaReal, CierreFinal, CierreGuardado
<1>3. UnAnunciante' /\ SinAnunciar'
  BY <1>1 DEF UnAnunciante, SinAnunciar, Anunciando
<1>4. Publico'
  BY DEF Publico, UnaActivaPorRanura, AnuncioUnico, AvisoTrasCommit
<1>5. QED
  BY <1>2, <1>3, <1>4 DEF Llamantes

\* The INSERT opens the only alert of its slot and nobody has announced it.
LEMMA InsertarInv ==
  ASSUME IInv, NEW c \in Llamadas, Insertar(c)
  PROVE  Llamantes' /\ Publico'
<1> USE DEF IInv, TypeOK, Insertar
<1>1. Nuevo \in Ids /\ estado[Nuevo] = "nula"
  BY NuevoEsNulo
<1>2. /\ estado'[Nuevo] = "activa" /\ fila'[c] = Nuevo /\ pc'[c] = "publicar" /\ aviso'[c] = "activa"
      /\ datos'[Nuevo] = dto[c]
      /\ \A id \in Ids \ {Nuevo} : estado'[id] = estado[id] /\ datos'[id] = datos[id]
      /\ \A b \in Llamadas \ {c} : pc'[b] = pc[b] /\ fila'[b] = fila[b] /\ aviso'[b] = aviso[b]
  BY <1>1
<1>3. FilaReal' /\ CierreFinal' /\ CierreGuardado'
  BY <1>1, <1>2 DEF FilaReal, CierreFinal, CierreGuardado
<1>4. \A b \in Llamadas : pc[b] = "publicar" => fila[b] # Nuevo
  BY <1>1 DEF FilaReal
<1>5. \A m \in 1..Len(canal) : canal[m].id # Nuevo
  BY <1>1 DEF AvisoTrasCommit
<1>6. UnAnunciante' /\ SinAnunciar'
  BY <1>1, <1>2, <1>4, <1>5 DEF UnAnunciante, SinAnunciar, Anunciando
<1>7. UnaActivaPorRanura'
  BY <1>1, <1>2 DEF UnaActivaPorRanura, InsertViola, ActivaEn
<1>8. AnuncioUnico' /\ AvisoTrasCommit'
  BY <1>1, <1>2, <1>5 DEF AnuncioUnico, AvisoTrasCommit, Mensajes
<1>9. QED
  BY <1>3, <1>6, <1>7, <1>8 DEF Llamantes, Publico

\* The UPDATE closes a row that exists, for good.
LEMMA GuardarInv ==
  ASSUME IInv, NEW c \in Llamadas, GuardarCierre(c), estado[fila[c]] # "borrada"
  PROVE  Llamantes' /\ Publico'
<1> USE DEF IInv, TypeOK, GuardarCierre
<1>1. fila[c] \in Ids /\ estado[fila[c]] # "nula" /\ aviso[c] \in Finales
  BY DEF FilaReal, CierreFinal
<1>2. /\ estado'[fila[c]] = aviso[c] /\ estado'[fila[c]] \notin {"nula", "activa"}
      /\ \A id \in Ids : id # fila[c] => estado'[id] = estado[id]
      /\ pc'[c] = "publicar" /\ \A b \in Llamadas : b # c => pc'[b] = pc[b]
  BY <1>1 DEF Finales
<1>3. FilaReal' /\ CierreFinal' /\ CierreGuardado'
  BY <1>1, <1>2 DEF FilaReal, CierreFinal, CierreGuardado
<1>4. UnAnunciante' /\ SinAnunciar'
  BY <1>1, <1>2 DEF UnAnunciante, SinAnunciar, Anunciando, Finales
<1>5. UnaActivaPorRanura' /\ AnuncioUnico'
  BY <1>1, <1>2 DEF UnaActivaPorRanura, AnuncioUnico
<1>6. \A m \in 1..Len(canal) : canal[m].id \in Ids
  BY CanalIds
<1>7. AvisoTrasCommit'
  <2> SUFFICES ASSUME NEW m \in 1..Len(canal)
               PROVE  /\ estado'[canal[m].id] # "nula"
                      /\ canal[m].estado # "activa" => estado'[canal[m].id] # "activa"
    BY DEF AvisoTrasCommit
  <2>1. CASE canal[m].id = fila[c]
    BY <1>2, <2>1
  <2>2. CASE canal[m].id # fila[c]
    BY <1>2, <1>6, <2>2 DEF AvisoTrasCommit
  <2>3. QED
    BY <2>1, <2>2
<1>8. QED
  BY <1>3, <1>4, <1>5, <1>7 DEF Llamantes, Publico

\* The PUBLISH says what the table already says, and an opening only once.
LEMMA PublicarInv ==
  ASSUME IInv, NEW c \in Llamadas, Publicar(c)
  PROVE  Llamantes' /\ Publico'
<1> DEFINE msg == [id |-> fila[c], estado |-> aviso[c]]
<1> USE DEF IInv, TypeOK, Publicar, tabla
<1>1. fila[c] \in Ids /\ estado[fila[c]] # "nula" /\ (aviso[c] # "activa" => estado[fila[c]] # "activa")
  BY DEF FilaReal, CierreGuardado
<1>2. /\ Len(canal') = Len(canal) + 1
      /\ canal'[Len(canal) + 1] = msg
      /\ \A m \in 1..Len(canal) : canal'[m] = canal[m]
      /\ Len(canal) \in Nat
  BY <1>1 DEF Mensajes
<1>3. \A b \in Llamadas : pc'[b] # "libre" =>
        b # c /\ pc'[b] = pc[b] /\ fila'[b] = fila[b] /\ aviso'[b] = aviso[b]
  BY DEF Terminar
<1>4. FilaReal' /\ CierreFinal' /\ CierreGuardado' /\ UnaActivaPorRanura'
  BY <1>3 DEF FilaReal, CierreFinal, CierreGuardado, UnaActivaPorRanura
<1>5. UnAnunciante'
  BY <1>3 DEF UnAnunciante, Anunciando
<1>6. \A m \in 1..Len(canal) : aviso[c] = "activa" => ~(canal[m].id = fila[c] /\ canal[m].estado = "activa")
  BY <1>1 DEF SinAnunciar, Anunciando
<1>7. SinAnunciar'
  <2> SUFFICES ASSUME NEW b \in Llamadas, NEW id \in Ids, Anunciando(b, id)',
                      NEW m \in 1..Len(canal'), canal'[m].id = id, canal'[m].estado = "activa"
               PROVE  FALSE
    BY DEF SinAnunciar
  <2>1. b # c /\ Anunciando(b, id)
    BY <1>3 DEF Anunciando
  <2>2. CASE m \in 1..Len(canal)
    BY <1>2, <2>1, <2>2 DEF SinAnunciar
  <2>3. CASE m = Len(canal) + 1
    BY <1>2, <2>1, <2>3 DEF UnAnunciante, Anunciando
  <2>4. QED
    BY <1>2, <2>2, <2>3
<1>8. AnuncioUnico'
  <2> SUFFICES ASSUME NEW m \in 1..Len(canal'), NEW n \in 1..Len(canal'),
                      canal'[m].id = canal'[n].id,
                      canal'[m].estado = "activa", canal'[n].estado = "activa"
               PROVE  m = n
    BY DEF AnuncioUnico
  <2>1. CASE m \in 1..Len(canal) /\ n \in 1..Len(canal)
    BY <1>2, <2>1 DEF AnuncioUnico
  <2>2. CASE m = Len(canal) + 1 \/ n = Len(canal) + 1
    BY <1>2, <1>6, <2>2
  <2>3. QED
    BY <1>2, <2>1, <2>2
<1>9. AvisoTrasCommit'
  BY <1>1, <1>2 DEF AvisoTrasCommit
<1>10. QED
  BY <1>4, <1>5, <1>7, <1>8, <1>9 DEF Llamantes, Publico

\* Entering a call, or going on to its next query, disturbs nothing.
LEMMA AvanzarInv ==
  ASSUME IInv, NEW c \in Llamadas,
         \/ \E d \in Borradores : Crear(c, d)
         \/ \E id \in Ids, e \in Finales : Cerrar(c, id, e)
         \/ BuscarNinguna(c)
         \/ LeerFila(c) /\ estado[fila[c]] # "borrada"
  PROVE  Llamantes' /\ Publico'
<1> USE DEF IInv, TypeOK, tabla
<1>1. /\ UNCHANGED <<estado, datos, canal>>
      /\ \A b \in Llamadas : b # c => pc'[b] = pc[b] /\ fila'[b] = fila[b] /\ aviso'[b] = aviso[b]
      /\ pc'[c] # "publicar"
      /\ pc'[c] \in {"leer", "guardar"} =>
           fila'[c] \in Ids /\ estado[fila'[c]] # "nula" /\ aviso'[c] \in Finales
  <2>1. CASE \E d \in Borradores : Crear(c, d)
    BY <2>1 DEF Crear
  <2>2. CASE \E id \in Ids, e \in Finales : Cerrar(c, id, e)
    BY <2>2 DEF Cerrar, Estados
  <2>3. CASE BuscarNinguna(c)
    BY <2>3 DEF BuscarNinguna
  <2>4. CASE LeerFila(c) /\ estado[fila[c]] # "borrada"
    BY <2>4 DEF LeerFila, FilaReal, CierreFinal
  <2>5. QED
    BY <2>1, <2>2, <2>3, <2>4
<1>2. FilaReal' /\ CierreFinal' /\ CierreGuardado'
  BY <1>1 DEF FilaReal, CierreFinal, CierreGuardado
<1>3. UnAnunciante' /\ SinAnunciar'
  BY <1>1 DEF UnAnunciante, SinAnunciar, Anunciando
<1>4. Publico'
  BY <1>1 DEF Publico, UnaActivaPorRanura, AnuncioUnico, AvisoTrasCommit
<1>5. QED
  BY <1>2, <1>3, <1>4 DEF Llamantes

\* Deleting a park, losing Redis or restarting the process breaks no promise.
LEMMA EntornoInv ==
  ASSUME IInv, Entorno
  PROVE  Llamantes' /\ Publico'
<1> USE DEF IInv, TypeOK
<1>1. ASSUME NEW p \in Parques, EliminarParque(p)
      PROVE  Llamantes' /\ Publico'
  <2>1. \A id \in Ids : /\ estado[id] # "nula" => estado'[id] # "nula"
                        /\ estado'[id] = "activa" => estado[id] = "activa"
    BY <1>1 DEF EliminarParque
  <2>2. UNCHANGED <<datos, canal, pc, fila, aviso>>
    BY <1>1 DEF EliminarParque, marco
  <2>3. FilaReal' /\ CierreFinal' /\ CierreGuardado'
    BY <2>1, <2>2 DEF FilaReal, CierreFinal, CierreGuardado
  <2>4. UnAnunciante' /\ SinAnunciar'
    BY <2>2 DEF UnAnunciante, SinAnunciar, Anunciando
  <2>5. UnaActivaPorRanura' /\ AnuncioUnico'
    BY <2>1, <2>2 DEF UnaActivaPorRanura, AnuncioUnico
  <2>6. \A m \in 1..Len(canal) : canal[m].id \in Ids
    BY CanalIds
  <2>7. AvisoTrasCommit'
    BY <2>1, <2>2, <2>6 DEF AvisoTrasCommit
  <2>8. QED
    BY <2>3, <2>4, <2>5, <2>7 DEF Llamantes, Publico
<1>2. CASE RedisCae \/ RedisVuelve
  <2>1. UNCHANGED <<estado, datos, canal, pc, fila, aviso>>
    BY <1>2 DEF RedisCae, RedisVuelve, tabla, marco
  <2>2. QED
    BY <2>1 DEF Llamantes, Publico, FilaReal, CierreFinal, CierreGuardado, UnAnunciante,
                SinAnunciar, Anunciando, UnaActivaPorRanura, AnuncioUnico, AvisoTrasCommit
<1>3. CASE Reinicio
  BY <1>3 DEF Reinicio, tabla, Llamantes, Publico, FilaReal, CierreFinal, CierreGuardado,
              UnAnunciante, SinAnunciar, Anunciando, UnaActivaPorRanura, AnuncioUnico,
              AvisoTrasCommit
<1>4. QED
  BY <1>1, <1>2, <1>3 DEF Entorno

-----------------------------------------------------------------------------
LEMMA IInvInit == Init => IInv
<1> SUFFICES ASSUME Init PROVE IInv
  OBVIOUS
<1>1. FilaReal /\ CierreFinal /\ CierreGuardado /\ UnAnunciante /\ SinAnunciar
  BY DEF Init, FilaReal, CierreFinal, CierreGuardado, UnAnunciante, SinAnunciar, Anunciando
<1>2. UnaActivaPorRanura /\ AnuncioUnico /\ AvisoTrasCommit
  BY DEF Init, UnaActivaPorRanura, AnuncioUnico, AvisoTrasCommit
<1>3. QED
  BY <1>1, <1>2, TypeOKInit DEF IInv

LEMMA IInvStep == IInv /\ [Next]_vars => IInv'
<1> SUFFICES ASSUME IInv, [Next]_vars
             PROVE  IInv'
  OBVIOUS
<1>1. TypeOK'
  BY TypeOKStep DEF IInv
<1>2. CASE \E c \in Llamadas, d \in Borradores : Crear(c, d)
  BY <1>1, <1>2, AvanzarInv DEF IInv, Llamantes, Publico
<1>3. CASE \E c \in Llamadas, id \in Ids, e \in Finales : Cerrar(c, id, e)
  BY <1>1, <1>3, AvanzarInv DEF IInv, Llamantes, Publico
<1>4. ASSUME NEW c \in Llamadas, Paso(c)
      PROVE  Llamantes' /\ Publico'
  <2>1. CASE BuscarExistente(c)
    BY <2>1, TerminarInv DEF BuscarExistente, tabla
  <2>2. CASE BuscarNinguna(c)
    BY <2>2, AvanzarInv
  <2>3. CASE Insertar(c)
    BY <2>3, InsertarInv
  <2>4. CASE InsertarRechazado(c)
    BY <2>4, TerminarInv DEF InsertarRechazado, tabla
  <2>5. CASE LeerFila(c)
    <3>1. CASE estado[fila[c]] = "borrada"
      BY <2>5, <3>1, TerminarInv DEF LeerFila, tabla
    <3>2. CASE estado[fila[c]] # "borrada"
      BY <2>5, <3>2, AvanzarInv
    <3>3. QED
      BY <3>1, <3>2
  <2>6. CASE GuardarCierre(c)
    <3>1. CASE estado[fila[c]] = "borrada"
      BY <2>6, <3>1, TerminarInv DEF GuardarCierre
    <3>2. CASE estado[fila[c]] # "borrada"
      BY <2>6, <3>2, GuardarInv
    <3>3. QED
      BY <3>1, <3>2
  <2>7. CASE Publicar(c)
    BY <2>7, PublicarInv
  <2>8. CASE PublicarFalla(c)
    BY <2>8, TerminarInv DEF PublicarFalla, tabla
  <2>9. QED
    BY <1>4, <2>1, <2>2, <2>3, <2>4, <2>5, <2>6, <2>7, <2>8 DEF Paso
<1>5. CASE Entorno
  BY <1>1, <1>5, EntornoInv DEF IInv, Llamantes, Publico
<1>6. CASE UNCHANGED vars
  BY <1>1, <1>6 DEF vars, IInv, FilaReal, CierreFinal, CierreGuardado, UnAnunciante,
                   SinAnunciar, Anunciando, UnaActivaPorRanura, AnuncioUnico, AvisoTrasCommit
<1>7. QED
  BY <1>1, <1>2, <1>3, <1>4, <1>5, <1>6 DEF Next, IInv, Llamantes, Publico

\* The variables keep their types, for any number of parks, rows and calls.
THEOREM TipoCorrecto == Spec => []TypeOK
<1>1. IInv => TypeOK
  BY DEF IInv
<1>2. QED
  BY IInvInit, IInvStep, <1>1, PTL DEF Spec

\* No interleaving of creators leaves two open alerts of one kind in a park:
\* the guarantee createWithDedup gets from uq_alertas_activas.
THEOREM UnaActiva == Spec => []UnaActivaPorRanura
<1>1. IInv => UnaActivaPorRanura
  BY DEF IInv
<1>2. QED
  BY IInvInit, IInvStep, <1>1, PTL DEF Spec

\* The opening of an alert is published at most once, however many calls of
\* createWithDedup and cerrar meet over it.
THEOREM AnunciosUnicos == Spec => []AnuncioUnico
<1>1. IInv => AnuncioUnico
  BY DEF IInv
<1>2. QED
  BY IInvInit, IInvStep, <1>1, PTL DEF Spec

\* Every message of publish tells of a row, and of a closing, that is already
\* in the table.
THEOREM AvisosFieles == Spec => []AvisoTrasCommit
<1>1. IInv => AvisoTrasCommit
  BY DEF IInv
<1>2. QED
  BY IInvInit, IInvStep, <1>1, PTL DEF Spec

-----------------------------------------------------------------------------
(* Refinement of CicloAlerta. *)

RanuraDe(id) == [parque |-> datos[id].parque, tipo |-> datos[id].tipo]
RanurasDe == [id \in Ids |-> RanuraDe(id)]
Anunciadas == {id \in Ids : Anunciada(id)}

\* The state CicloAlerta sees is made of these three values.
LEMMA VarsAbstractas == Abstracto!vars = <<estado, RanurasDe, Anunciadas>>
BY DEF Abstracto!vars, RanurasDe, RanuraDe, Anunciadas

\* A step that leaves table and channel alone is not visible.
LEMMA Invisible ==
  ASSUME UNCHANGED <<estado, datos, canal>>
  PROVE  UNCHANGED Abstracto!vars
BY VarsAbstractas DEF Abstracto!vars, Anunciada

LEMMA InitAbstracto == Init => Abstracto!Init
<1> SUFFICES ASSUME Init PROVE Abstracto!Init
  OBVIOUS
<1>1. \A id \in Ids : RanuraDe(id) \in Abstracto!Ranuras
  BY VacioEsBorrador DEF Init, RanuraDe, Abstracto!Ranuras, Borradores
<1>2. Anunciadas = {}
  BY DEF Init, Anunciadas, Anunciada
<1>3. QED
  BY <1>1, <1>2 DEF Init, Abstracto!Init, RanuraDe, Anunciadas

\* Insertar opens the slot: the unique index found it free.
LEMMA InsertarAbre ==
  ASSUME IInv, NEW c \in Llamadas, Insertar(c)
  PROVE  Abstracto!Next
<1> DEFINE r == [parque |-> dto[c].parque, tipo |-> dto[c].tipo]
<1> USE DEF IInv, TypeOK, Insertar
<1>1. Nuevo \in Ids /\ estado[Nuevo] = "nula"
  BY NuevoEsNulo
<1>2. r \in Abstracto!Ranuras
  BY DEF Borradores, Abstracto!Ranuras
<1>3. r.parque = SinParque \/ \A id \in Ids : ~(estado[id] = "activa" /\ RanuraDe(id) = r)
  BY DEF InsertViola, ActivaEn, RanuraDe
<1>4. RanurasDe' = [RanurasDe EXCEPT ![Nuevo] = r]
  BY <1>1 DEF RanurasDe, RanuraDe
<1>5. Anunciadas' = Anunciadas
  BY DEF Anunciadas, Anunciada
<1>6. PICK i \in Ids, q \in Abstracto!Ranuras : i = Nuevo /\ q = r
  BY <1>1, <1>2
<1>7. Abstracto!Abrir(i, q)
  BY <1>1, <1>3, <1>4, <1>5, <1>6
     DEF Abstracto!Abrir, Abstracto!Abierta, RanurasDe, RanuraDe, Anunciadas
<1>8. QED
  BY <1>7 DEF Abstracto!Next

\* GuardarCierre closes the alert unless its row is gone.
LEMMA GuardarCierra ==
  ASSUME IInv, NEW c \in Llamadas, GuardarCierre(c), estado[fila[c]] # "borrada"
  PROVE  Abstracto!Next
<1> USE DEF IInv, TypeOK, GuardarCierre
<1>1. fila[c] \in Ids /\ aviso[c] \in Finales /\ estado[fila[c]] \in {"activa"} \cup Finales
  BY DEF FilaReal, CierreFinal, Estados
<1>2. RanurasDe' = RanurasDe /\ Anunciadas' = Anunciadas
  BY DEF RanurasDe, RanuraDe, Anunciadas, Anunciada
<1>3. Abstracto!Cerrar(fila[c], aviso[c])
  BY <1>1, <1>2 DEF Abstracto!Cerrar, Abstracto!Finales, Finales, RanurasDe, RanuraDe, Anunciadas
<1>4. QED
  BY <1>1, <1>3 DEF Abstracto!Next, Abstracto!Finales, Finales

\* Publicar announces an opening, or repeats a closing nobody counts.
LEMMA PublicarAnuncia ==
  ASSUME IInv, NEW c \in Llamadas, Publicar(c)
  PROVE  Abstracto!Next \/ UNCHANGED Abstracto!vars
<1> DEFINE msg == [id |-> fila[c], estado |-> aviso[c]]
<1> USE DEF IInv, TypeOK, Publicar, tabla
<1>1. fila[c] \in Ids /\ estado[fila[c]] # "nula"
  BY DEF FilaReal
<1>2. /\ Len(canal') = Len(canal) + 1
      /\ canal'[Len(canal) + 1] = msg
      /\ \A m \in 1..Len(canal) : canal'[m] = canal[m]
      /\ Len(canal) \in Nat
  BY <1>1 DEF Mensajes
<1>3. \A id \in Ids : Anunciada(id)' <=> Anunciada(id) \/ msg = [id |-> id, estado |-> "activa"]
  BY <1>2 DEF Anunciada
<1>4. CASE aviso[c] = "activa"
  <2>1. fila[c] \notin Anunciadas
    BY <1>1, <1>4 DEF SinAnunciar, Anunciando, Anunciadas, Anunciada
  <2>2. Anunciadas' = Anunciadas \cup {fila[c]}
    BY <1>1, <1>3, <1>4 DEF Anunciadas
  <2>3. Abstracto!Anunciar(fila[c])
    BY <1>1, <2>1, <2>2 DEF Abstracto!Anunciar, Anunciadas
  <2>4. QED
    BY <1>1, <2>3 DEF Abstracto!Next
<1>5. CASE aviso[c] # "activa"
  <2>1. Anunciadas' = Anunciadas
    BY <1>3, <1>5 DEF Anunciadas
  <2>2. QED
    BY <2>1, VarsAbstractas DEF Abstracto!vars, Anunciadas
<1>6. QED
  BY <1>4, <1>5

\* EliminarParque takes the alerts of the park with it.
LEMMA EliminarRetira ==
  ASSUME IInv, NEW p \in Parques, EliminarParque(p)
  PROVE  Abstracto!Next
<1>1. RanurasDe' = RanurasDe /\ Anunciadas' = Anunciadas
  BY DEF EliminarParque, RanurasDe, RanuraDe, Anunciadas, Anunciada
<1>2. Abstracto!RetirarParque(p)
  BY <1>1 DEF EliminarParque, Abstracto!RetirarParque, RanurasDe, RanuraDe, Anunciadas
<1>3. QED
  BY <1>2 DEF Abstracto!Next

LEMMA PasoAbstracto == IInv /\ [Next]_vars => [Abstracto!Next]_(Abstracto!vars)
<1> SUFFICES ASSUME IInv, [Next]_vars
             PROVE  Abstracto!Next \/ UNCHANGED Abstracto!vars
  OBVIOUS
<1>1. CASE \E c \in Llamadas, d \in Borradores : Crear(c, d)
  BY <1>1, Invisible DEF Crear, tabla
<1>2. CASE \E c \in Llamadas, id \in Ids, e \in Finales : Cerrar(c, id, e)
  BY <1>2, Invisible DEF Cerrar, tabla
<1>3. ASSUME NEW c \in Llamadas, Paso(c)
      PROVE  Abstracto!Next \/ UNCHANGED Abstracto!vars
  <2>1. CASE BuscarExistente(c) \/ BuscarNinguna(c) \/ InsertarRechazado(c)
             \/ LeerFila(c) \/ PublicarFalla(c)
    BY <2>1, Invisible DEF BuscarExistente, BuscarNinguna, InsertarRechazado, LeerFila,
                           PublicarFalla, tabla
  <2>2. CASE Insertar(c)
    BY <2>2, InsertarAbre
  <2>3. CASE GuardarCierre(c)
    BY <2>3, GuardarCierra, Invisible DEF GuardarCierre
  <2>4. CASE Publicar(c)
    BY <2>4, PublicarAnuncia
  <2>5. QED
    BY <1>3, <2>1, <2>2, <2>3, <2>4 DEF Paso
<1>4. CASE Entorno
  BY <1>4, EliminarRetira, Invisible DEF Entorno, RedisCae, RedisVuelve, Reinicio, tabla
<1>5. CASE UNCHANGED vars
  BY <1>5, Invisible DEF vars
<1>6. QED
  BY <1>1, <1>2, <1>3, <1>4, <1>5 DEF Next

\* The service, with all its interleavings and failures, implements the life
\* cycle CicloAlerta promises: one open alert per slot, no reopening, at most
\* one announcement.
THEOREM Implementa == Spec => CumpleCiclo
BY IInvInit, IInvStep, InitAbstracto, PasoAbstracto, PTL DEF Spec, CumpleCiclo, Abstracto!Spec

-----------------------------------------------------------------------------
(* The producers: what the engine, the poller and the operators wait for *)

\* A producer that is not waiting for createWithDedup has no call in progress
\* and has taken the answer of the last one
EnReposo ==
  \A c \in Llamadas \ Operadores :
    tarea[c] \notin {"alta", "altaSondeo"} => pc[c] = "libre" /\ resultado[c] = "ninguno"

OperadoresSinTarea == \A c \in Operadores : tarea[c] = "inactiva"

\* What the call in progress creates comes from a producer if and only if the
\* caller is one
OrigenDelDto ==
  \A c \in Llamadas : pc[c] \in {"buscar", "insertar"} =>
    dto[c].origen = IF tarea[c] = "inactiva" THEN "manual" ELSE "motor_reglas"

OrigenDeLaFila ==
  \A c \in Llamadas : pc[c] = "publicar" /\ aviso[c] = "activa" =>
    datos[fila[c]].origen = IF tarea[c] = "inactiva" THEN "manual" ELSE "motor_reglas"

\* A producer only creates, and its call answers new, repeated or an error
AltaEnCurso ==
  \A c \in Llamadas : tarea[c] \in {"alta", "altaSondeo"} =>
    /\ pc[c] \in {"libre", "buscar", "insertar", "publicar"}
    /\ pc[c] = "libre" => resultado[c] \in {"nueva", "dedup", "error"}
    /\ pc[c] = "publicar" => aviso[c] = "activa"

\* What was there before the process started has been inserted, and is not
\* about to be announced
PreviasPasadas ==
  /\ \A id \in previas : estado[id] # "nula"
  /\ \A c \in Llamadas, id \in previas : ~Anunciando(c, id)

InvTareas ==
  EnReposo /\ OperadoresSinTarea /\ OrigenDelDto /\ OrigenDeLaFila /\ AltaEnCurso /\ PreviasPasadas

\* The sets whose sizes the metric compares
Contables == IsFiniteSet(PorContar) /\ IsFiniteSet(AltasDelMotor) /\ MetricaFiel

IInvMotor == IInv /\ TypeOKMotor /\ InvTareas /\ Contables

-----------------------------------------------------------------------------
(* Types *)

LEMMA DeteccionesTipo ==
  /\ <<>> \in Detecciones
  /\ \A ds \in Detecciones : ds # <<>> =>
       /\ Head(ds)[1] \in Parques /\ Head(ds)[2] \in Clases
       /\ Tail(ds) \in Detecciones
<1> DEFINE S == Parques \X Clases
<1>1. <<>> \in Detecciones
  <2>1. 0 \in 0..MaxDetecciones /\ <<>> \in [1..0 -> S]
    BY MotorAssumption DEF MotorAssumption
  <2>2. QED
    BY <2>1 DEF Detecciones
<1>2. ASSUME NEW ds \in Detecciones, ds # <<>>
      PROVE  Head(ds) \in S /\ Tail(ds) \in Detecciones
  <2>1. PICK n \in 0..MaxDetecciones : ds \in [1..n -> S]
    BY DEF Detecciones
  <2> HIDE DEF S
  <2>2. n \in Nat /\ ds \in Seq(S) /\ Len(ds) = n
    BY <2>1, MotorAssumption DEF MotorAssumption
  <2>3. n > 0 /\ n - 1 \in 0..MaxDetecciones
    BY <1>2, <2>1, <2>2, MotorAssumption DEF MotorAssumption
  <2>4. Head(ds) \in S /\ Tail(ds) \in Seq(S) /\ Len(Tail(ds)) = n - 1
    BY <1>2, <2>2, <2>3
  <2>5. Tail(ds) \in [1..(n-1) -> S]
    BY <2>4, LenProperties
  <2>6. QED
    BY <2>3, <2>4, <2>5 DEF Detecciones, S
<1>3. QED
  BY <1>1, <1>2

\* What a producer asks createWithDedup for is a draft the table admits
LEMMA BorradorMotor ==
  ASSUME NEW p \in Parques \cup {SinParque}, NEW t \in Tipos, NEW n \in Niveles
  PROVE  [parque |-> p, tipo |-> t, nivel |-> n, origen |-> "motor_reglas"] \in Borradores
BY MotorAssumption DEF MotorAssumption, Borradores

LEMMA ClasesTipo ==
  ASSUME NEW k \in Clases
  PROVE  TipoSatelite[k] \in Tipos /\ NivelSatelite[k] \in Niveles
BY MotorAssumption DEF MotorAssumption, Clases

TiposMotor ==
  /\ riesgo \in [Parques -> SUBSET Reglas]
  /\ reglasActivas \in SUBSET Reglas
  /\ tarea \in [Llamadas -> {"inactiva", "ciclo", "alta", "sondeo", "altaSondeo"}]
  /\ pendientes \in [Llamadas -> SUBSET Parques]
  /\ actual \in [Llamadas -> Parques \cup {SinParque}]
  /\ vigentes \in [Llamadas -> SUBSET Reglas]
  /\ porEvaluar \in [Llamadas -> SUBSET Reglas]
  /\ detecciones \in [Llamadas -> Detecciones]
  /\ metrica \in Nat
  /\ previas \in SUBSET Ids
  /\ repetidas \in Nat

LEMMA InitTipos == InitMotor => TypeOKMotor
<1> SUFFICES ASSUME InitMotor PROVE TypeOKMotor
  OBVIOUS
<1>1. TypeOK
  BY TypeOKInit DEF InitMotor
<1>2. QED
  BY <1>1, DeteccionesTipo DEF InitMotor, TypeOKMotor

LEMMA DescansarTipo ==
  ASSUME TiposMotor, NEW c \in Llamadas, Descansar(c),
         UNCHANGED <<riesgo, reglasActivas, metrica, previas, repetidas>>,
         detecciones' \in [Llamadas -> Detecciones]
  PROVE  TiposMotor'
BY DEF TiposMotor, Descansar

LEMMA CicloTipo ==
  ASSUME TiposMotor, TypeOK, NEW c \in Llamadas, IniciarCiclo(c) \/ PasoCiclo(c)
  PROVE  TiposMotor'
<1>1. CASE IniciarCiclo(c)
  BY <1>1 DEF IniciarCiclo, TiposMotor, TypeOK
<1>2. ASSUME NEW p \in Parques, EvaluarParque(c, p)
      PROVE  TiposMotor'
  <2>1. \A ia \in BOOLEAN : Cumplen(c, p, ia) \subseteq Reglas
    BY DEF TiposMotor, Cumplen
  <2>2. QED
    BY <1>2, <2>1 DEF EvaluarParque, TiposMotor
<1>3. ASSUME NEW p \in Parques, ContextoFalla(c, p)
      PROVE  TiposMotor'
  <2>1. UNCHANGED <<riesgo, reglasActivas, metrica, previas, repetidas, detecciones>> /\ Descansar(c)
    BY <1>3 DEF ContextoFalla
  <2>2. QED
    BY <2>1, DescansarTipo DEF TiposMotor
<1>4. ASSUME NEW r \in Reglas, EvaluarRegla(c, r) \/ ReglaFalla(c, r)
      PROVE  TiposMotor'
  BY <1>4 DEF EvaluarRegla, ReglaFalla, TiposMotor
<1>5. CASE RespuestaMotor(c)
  BY <1>5 DEF RespuestaMotor, TiposMotor
<1>6. CASE FinCiclo(c)
  <2>1. UNCHANGED <<riesgo, reglasActivas, metrica, previas, repetidas, detecciones>> /\ Descansar(c)
    BY <1>6 DEF FinCiclo
  <2>2. QED
    BY <2>1, DescansarTipo DEF TiposMotor
<1>7. QED
  BY <1>1, <1>2, <1>3, <1>4, <1>5, <1>6 DEF PasoCiclo

LEMMA SondeoTipo ==
  ASSUME TiposMotor, NEW c \in Llamadas,
         PasoSondeo(c) \/ \E ds \in Detecciones : IniciarSondeo(c, ds)
  PROVE  TiposMotor'
<1>1. ASSUME NEW ds \in Detecciones, IniciarSondeo(c, ds)
      PROVE  TiposMotor'
  BY <1>1 DEF IniciarSondeo, TiposMotor
<1>2. CASE EvaluarDeteccion(c)
  <2>1. Tail(detecciones[c]) \in Detecciones
    BY <1>2, DeteccionesTipo DEF EvaluarDeteccion, TiposMotor
  <2>2. QED
    BY <1>2, <2>1 DEF EvaluarDeteccion, TiposMotor
<1>3. CASE RespuestaSondeo(c)
  BY <1>3 DEF RespuestaSondeo, TiposMotor
<1>4. CASE SondeoFalla(c)
  <2>1. UNCHANGED <<riesgo, reglasActivas, metrica, previas, repetidas>> /\ Descansar(c)
        /\ detecciones' = [detecciones EXCEPT ![c] = <<>>]
    BY <1>4 DEF SondeoFalla
  <2>2. QED
    BY <2>1, DescansarTipo, DeteccionesTipo DEF TiposMotor
<1>5. CASE FinSondeo(c)
  <2>1. UNCHANGED <<riesgo, reglasActivas, metrica, previas, repetidas, detecciones>> /\ Descansar(c)
    BY <1>5 DEF FinSondeo
  <2>2. QED
    BY <2>1, DescansarTipo DEF TiposMotor
<1>6. QED
  BY <1>1, <1>2, <1>3, <1>4, <1>5 DEF PasoSondeo

LEMMA TiposMotorStep ==
  ASSUME TiposMotor, TypeOK, NextMotor \/ UNCHANGED varsMotor
  PROVE  TiposMotor'
<1>1. CASE UNCHANGED motor
  BY <1>1 DEF motor, TiposMotor
<1>2. ASSUME NEW r \in Reglas, ActivarRegla(r) \/ DesactivarRegla(r)
      PROVE  TiposMotor'
  BY <1>2 DEF ActivarRegla, DesactivarRegla, TiposMotor
<1>3. ASSUME NEW p \in Parques, NEW S \in SUBSET Reglas, CambiaElClima(p, S)
      PROVE  TiposMotor'
  BY <1>3 DEF CambiaElClima, TiposMotor
<1>4. CASE ReinicioMotor
  BY <1>4, DeteccionesTipo DEF ReinicioMotor, SinTarea, TiposMotor
<1>5. QED
  BY <1>1, <1>2, <1>3, <1>4, CicloTipo, SondeoTipo DEF NextMotor, Manual, varsMotor

-----------------------------------------------------------------------------
(* The producers' steps are steps of Alertas *)

\* Taking the answer of a call is the only step Alertas does not know of
Respuestas(c) == RespuestaMotor(c) \/ RespuestaSondeo(c)

\* The steps in which a producer waits for something else than createWithDedup,
\* or an administrator or the weather acts
Interno ==
  \/ \E c \in Llamadas :
       \/ IniciarCiclo(c) \/ FinCiclo(c) \/ SondeoFalla(c) \/ FinSondeo(c)
       \/ \E p \in Parques : EvaluarParque(c, p) \/ ContextoFalla(c, p)
       \/ \E r \in Reglas : ReglaFalla(c, r)
       \/ \E ds \in Detecciones : IniciarSondeo(c, ds)
  \/ \E r \in Reglas : ActivarRegla(r) \/ DesactivarRegla(r)
  \/ \E p \in Parques, S \in SUBSET Reglas : CambiaElClima(p, S)

\* A producer calls createWithDedup
AltaDe(c) ==
  /\ tarea[c] \notin {"inactiva", "alta", "altaSondeo"}
  /\ \E d \in Borradores : d.origen = "motor_reglas" /\ Crear(c, d)
  /\ \E t \in {"alta", "altaSondeo"} : tarea' = [tarea EXCEPT ![c] = t]
  /\ UNCHANGED <<metrica, previas, repetidas>>

LEMMA AltaDelMotor ==
  ASSUME TiposMotor, NEW c \in Llamadas,
         EvaluarDeteccion(c) \/ \E r \in Reglas : EvaluarRegla(c, r)
  PROVE  AltaDe(c)
<1>1. ASSUME NEW r \in Reglas, EvaluarRegla(c, r)
      PROVE  AltaDe(c)
  <2> DEFINE d == BorradorDe(actual[c], r)
  <2>1. actual[c] \in Parques \cup {SinParque} /\ TipoDe[r] \in Tipos /\ NivelDe[r] \in Niveles
    BY MotorAssumption DEF TiposMotor, MotorAssumption
  <2>2. d \in Borradores /\ d.origen = "motor_reglas"
    BY <2>1, BorradorMotor DEF BorradorDe
  <2>3. Crear(c, d) /\ tarea[c] = "ciclo" /\ tarea' = [tarea EXCEPT ![c] = "alta"]
        /\ UNCHANGED <<metrica, previas, repetidas>>
    BY <1>1 DEF EvaluarRegla
  <2> HIDE DEF d
  <2>4. QED
    BY <2>2, <2>3 DEF AltaDe
<1>2. CASE EvaluarDeteccion(c)
  <2> DEFINE x == Head(detecciones[c])
             d == [parque |-> x[1], tipo |-> TipoSatelite[x[2]],
                   nivel |-> NivelSatelite[x[2]], origen |-> "motor_reglas"]
  <2>1. x[1] \in Parques /\ x[2] \in Clases
    BY <1>2, DeteccionesTipo DEF EvaluarDeteccion, TiposMotor
  <2>2. TipoSatelite[x[2]] \in Tipos /\ NivelSatelite[x[2]] \in Niveles
    BY <2>1, ClasesTipo
  <2>3. d \in Borradores /\ d.origen = "motor_reglas"
    BY <2>1, <2>2, BorradorMotor
  <2>4. Crear(c, d) /\ tarea[c] = "sondeo" /\ tarea' = [tarea EXCEPT ![c] = "altaSondeo"]
        /\ UNCHANGED <<metrica, previas, repetidas>>
    BY <1>2 DEF EvaluarDeteccion
  <2> HIDE DEF d
  <2>5. QED
    BY <2>3, <2>4 DEF AltaDe
<1>3. QED
  BY <1>1, <1>2

\* Every step, by what it means for the calls of Alertas
LEMMA PasosDelMotor ==
  ASSUME TiposMotor, NextMotor
  PROVE  \/ \E c \in Llamadas : Paso(c) /\ UNCHANGED motor
         \/ Interno
         \/ \E c \in Llamadas : AltaDe(c)
         \/ \E c \in Llamadas : Respuestas(c)
         \/ \E c \in Llamadas : Manual(c)
         \/ ((\E p \in Parques : EliminarParque(p)) \/ RedisCae \/ RedisVuelve) /\ UNCHANGED motor
         \/ ReinicioMotor
BY AltaDelMotor DEF NextMotor, PasoCiclo, PasoSondeo, Interno, Respuestas

LEMMA InternoQuieto == Interno => UNCHANGED <<vars, metrica, previas, repetidas>>
BY DEF Interno, IniciarCiclo, FinCiclo, SondeoFalla, FinSondeo, EvaluarParque, ContextoFalla,
       ReglaFalla, IniciarSondeo, ActivarRegla, DesactivarRegla, CambiaElClima

LEMMA AlertasDelMotor ==
  ASSUME TiposMotor, NextMotor, \A c \in Llamadas : ~Respuestas(c)
  PROVE  [Next]_vars
<1>1. CASE \E c \in Llamadas : Manual(c)
  BY <1>1 DEF Manual, Next
<1>2. CASE \E c \in Llamadas : AltaDe(c)
  BY <1>2 DEF AltaDe, Next
<1>3. CASE Interno
  BY <1>3, InternoQuieto
<1>4. QED
  BY <1>1, <1>2, <1>3, PasosDelMotor DEF Next, Entorno, ReinicioMotor

\* With the answer taken, what Alertas promises stays
LEMMA RespuestaInv ==
  ASSUME IInv, NEW c \in Llamadas, Respuestas(c)
  PROVE  IInv'
<1>1. /\ UNCHANGED <<estado, datos, parques, canal, redis, pc, dto, fila, aviso>>
      /\ resultado' = [resultado EXCEPT ![c] = "ninguno"]
  BY DEF Respuestas, RespuestaMotor, RespuestaSondeo, tabla
<1>2. TypeOK'
  BY <1>1 DEF IInv, TypeOK
<1>3. Llamantes' /\ Publico'
  BY <1>1 DEF IInv, Llamantes, Publico, FilaReal, CierreFinal, CierreGuardado, UnAnunciante,
              SinAnunciar, Anunciando, UnaActivaPorRanura, AnuncioUnico, AvisoTrasCommit
<1>4. QED
  BY <1>2, <1>3 DEF IInv, Llamantes, Publico

LEMMA IInvMotorStep ==
  ASSUME IInv, TiposMotor, NextMotor \/ UNCHANGED varsMotor
  PROVE  IInv'
<1>1. CASE UNCHANGED varsMotor
  BY <1>1, IInvStep DEF varsMotor
<1>2. CASE NextMotor /\ \A c \in Llamadas : ~Respuestas(c)
  BY <1>2, AlertasDelMotor, IInvStep
<1>3. CASE \E c \in Llamadas : Respuestas(c)
  BY <1>3, RespuestaInv
<1>4. QED
  BY <1>1, <1>2, <1>3

-----------------------------------------------------------------------------
(* The calls of the producers *)

LEMMA InitTareas == InitMotor => InvTareas
<1> SUFFICES ASSUME InitMotor PROVE InvTareas
  OBVIOUS
<1>1. /\ \A c \in Llamadas : pc[c] = "libre" /\ resultado[c] = "ninguno" /\ tarea[c] = "inactiva"
      /\ previas = {} /\ Operadores \subseteq Llamadas
  BY MotorAssumption DEF MotorAssumption, InitMotor, Init
<1>2. EnReposo /\ OperadoresSinTarea /\ OrigenDelDto /\ OrigenDeLaFila /\ AltaEnCurso /\ PreviasPasadas
  BY <1>1 DEF EnReposo, OperadoresSinTarea, OrigenDelDto, OrigenDeLaFila, AltaEnCurso, PreviasPasadas
<1>3. QED
  BY <1>2 DEF InvTareas

\* An internal step takes a producer from one rest to another
LEMMA InternoTareas ==
  ASSUME TiposMotor, InvTareas, Interno
  PROVE  \A b \in Llamadas :
           \/ tarea'[b] = tarea[b]
           \/ /\ b \notin Operadores /\ tarea[b] \notin {"alta", "altaSondeo"}
              /\ tarea'[b] \notin {"alta", "altaSondeo"}
<1>1. CASE \E r \in Reglas : ActivarRegla(r) \/ DesactivarRegla(r)
  BY <1>1 DEF ActivarRegla, DesactivarRegla
<1>2. CASE \E p \in Parques, S \in SUBSET Reglas : CambiaElClima(p, S)
  BY <1>2 DEF CambiaElClima
<1>3. ASSUME NEW c \in Llamadas, c \notin Operadores,
             tarea[c] \notin {"alta", "altaSondeo"},
             NEW t \in {"inactiva", "ciclo", "sondeo"},
             tarea' = tarea \/ tarea' = [tarea EXCEPT ![c] = t]
      PROVE  \A b \in Llamadas :
               \/ tarea'[b] = tarea[b]
               \/ /\ b \notin Operadores /\ tarea[b] \notin {"alta", "altaSondeo"}
                  /\ tarea'[b] \notin {"alta", "altaSondeo"}
  BY <1>3 DEF TiposMotor
<1>4. ASSUME NEW c \in Llamadas,
             \/ IniciarCiclo(c) \/ FinCiclo(c) \/ SondeoFalla(c) \/ FinSondeo(c)
             \/ \E p \in Parques : EvaluarParque(c, p) \/ ContextoFalla(c, p)
             \/ \E r \in Reglas : ReglaFalla(c, r)
             \/ \E ds \in Detecciones : IniciarSondeo(c, ds)
      PROVE  /\ c \notin Operadores /\ tarea[c] \notin {"alta", "altaSondeo"}
             /\ \E t \in {"inactiva", "ciclo", "sondeo"} :
                  tarea' = tarea \/ tarea' = [tarea EXCEPT ![c] = t]
  <2>1. tarea[c] \in {"ciclo", "sondeo"} => c \notin Operadores
    BY DEF InvTareas, OperadoresSinTarea
  <2>2. CASE IniciarCiclo(c) \/ \E ds \in Detecciones : IniciarSondeo(c, ds)
    BY <2>2, MotorAssumption DEF MotorAssumption, IniciarCiclo, IniciarSondeo
  <2>3. CASE FinCiclo(c) \/ SondeoFalla(c) \/ FinSondeo(c) \/ \E p \in Parques : ContextoFalla(c, p)
    BY <2>1, <2>3 DEF FinCiclo, SondeoFalla, FinSondeo, ContextoFalla, LibreDeReglas, Descansar
  <2>4. CASE \/ \E p \in Parques : EvaluarParque(c, p)
             \/ \E r \in Reglas : ReglaFalla(c, r)
    BY <2>1, <2>4 DEF EvaluarParque, ReglaFalla, LibreDeReglas
  <2>5. QED
    BY <1>4, <2>2, <2>3, <2>4
<1>5. QED
  BY <1>1, <1>2, <1>3, <1>4 DEF Interno

\* Nothing but the tasks of producers at rest changes
LEMMA InternoInv ==
  ASSUME TiposMotor, InvTareas, Interno
  PROVE  InvTareas'
<1>1. UNCHANGED <<estado, datos, canal, pc, dto, fila, aviso, resultado, previas>>
  BY InternoQuieto DEF vars
<1>2. \A b \in Llamadas :
        \/ tarea'[b] = tarea[b]
        \/ /\ b \notin Operadores /\ tarea[b] \notin {"alta", "altaSondeo"}
           /\ tarea'[b] \notin {"alta", "altaSondeo"} /\ pc[b] = "libre" /\ resultado[b] = "ninguno"
  BY InternoTareas DEF InvTareas, EnReposo
<1>3. EnReposo' /\ OperadoresSinTarea'
  BY <1>1, <1>2, MotorAssumption DEF MotorAssumption, InvTareas, EnReposo, OperadoresSinTarea
<1>4. OrigenDelDto' /\ OrigenDeLaFila'
  BY <1>1, <1>2 DEF InvTareas, OrigenDelDto, OrigenDeLaFila
<1>5. AltaEnCurso' /\ PreviasPasadas'
  BY <1>1, <1>2 DEF InvTareas, AltaEnCurso, PreviasPasadas, Anunciando
<1>6. QED
  BY <1>3, <1>4, <1>5 DEF InvTareas

\* Who starts or goes on with a call: an operator, or a producer at work
LEMMA QuienLlama ==
  ASSUME TiposMotor, InvTareas, NEW c \in Llamadas, pc[c] # "libre"
  PROVE  \/ c \in Operadores /\ tarea[c] = "inactiva"
         \/ c \notin Operadores /\ tarea[c] \in {"alta", "altaSondeo"}
BY DEF InvTareas, EnReposo, OperadoresSinTarea

\* A call that goes on without inserting nor ending
LEMMA SigueInv ==
  ASSUME TiposMotor, TypeOK, InvTareas, NEW c \in Llamadas,
         \/ BuscarNinguna(c)
         \/ LeerFila(c) /\ estado[fila[c]] # "borrada"
         \/ GuardarCierre(c) /\ estado[fila[c]] # "borrada",
         CierreFinal, FilaReal, UNCHANGED motor
  PROVE  InvTareas'
<1> USE DEF InvTareas, TypeOK
<1>1. UNCHANGED <<tarea, previas, datos, dto, fila, aviso, resultado>>
  BY DEF motor, tabla, BuscarNinguna, LeerFila, GuardarCierre
<1>2. /\ \A b \in Llamadas \ {c} : pc'[b] = pc[b]
      /\ \/ pc[c] = "buscar" /\ pc'[c] = "insertar"
         \/ pc[c] = "leer" /\ pc'[c] = "guardar"
         \/ pc[c] = "guardar" /\ pc'[c] = "publicar" /\ aviso[c] # "activa"
      /\ \A id \in Ids : estado[id] # "nula" => estado'[id] # "nula"
  BY DEF BuscarNinguna, LeerFila, GuardarCierre, CierreFinal, FilaReal, Finales, tabla
<1>3. \/ c \in Operadores /\ tarea[c] = "inactiva"
      \/ c \notin Operadores /\ tarea[c] \in {"alta", "altaSondeo"} /\ pc[c] = "buscar"
  BY <1>2, QuienLlama DEF AltaEnCurso
<1>4. EnReposo' /\ OperadoresSinTarea' /\ OrigenDelDto' /\ OrigenDeLaFila' /\ AltaEnCurso'
  BY <1>1, <1>2, <1>3
     DEF EnReposo, OperadoresSinTarea, OrigenDelDto, OrigenDeLaFila, AltaEnCurso
<1>5. PreviasPasadas'
  BY <1>1, <1>2 DEF PreviasPasadas, Anunciando, TiposMotor
<1>6. QED
  BY <1>4, <1>5

\* A call that ends answers its caller
LEMMA TerminaInv ==
  ASSUME TiposMotor, TypeOK, InvTareas, NEW c \in Llamadas, pc[c] # "libre",
         NEW r \in {"nueva", "dedup", "cerrada", "error"}, Terminar(c, r),
         r = "cerrada" => c \in Operadores,
         UNCHANGED <<estado, datos, tarea, previas>>
  PROVE  InvTareas'
<1> USE DEF InvTareas, TypeOK, Terminar
<1>1. \/ c \in Operadores /\ tarea[c] = "inactiva"
      \/ c \notin Operadores /\ tarea[c] \in {"alta", "altaSondeo"} /\ r # "cerrada"
  BY QuienLlama
<1>2. /\ pc'[c] = "libre" /\ resultado'[c] = r
      /\ \A b \in Llamadas \ {c} : /\ pc'[b] = pc[b] /\ dto'[b] = dto[b] /\ fila'[b] = fila[b]
                                   /\ aviso'[b] = aviso[b] /\ resultado'[b] = resultado[b]
  OBVIOUS
<1>3. EnReposo' /\ OperadoresSinTarea' /\ AltaEnCurso'
  BY <1>1, <1>2 DEF EnReposo, OperadoresSinTarea, AltaEnCurso
<1>4. OrigenDelDto' /\ OrigenDeLaFila' /\ PreviasPasadas'
  BY <1>2 DEF OrigenDelDto, OrigenDeLaFila, PreviasPasadas, Anunciando
<1>5. QED
  BY <1>3, <1>4

LEMMA InsertaInv ==
  ASSUME TiposMotor, IInv, InvTareas, NEW c \in Llamadas, Insertar(c), UNCHANGED motor
  PROVE  InvTareas'
<1> USE DEF IInv, InvTareas, TypeOK, Insertar
<1>1. Nuevo \in Ids /\ estado[Nuevo] = "nula"
  BY NuevoEsNulo
<1>2. /\ fila'[c] = Nuevo /\ pc'[c] = "publicar" /\ aviso'[c] = "activa"
      /\ datos'[Nuevo] = dto[c] /\ estado'[Nuevo] # "nula"
      /\ \A id \in Ids \ {Nuevo} : estado'[id] = estado[id] /\ datos'[id] = datos[id]
      /\ \A b \in Llamadas \ {c} : pc'[b] = pc[b] /\ fila'[b] = fila[b] /\ aviso'[b] = aviso[b]
      /\ UNCHANGED <<tarea, previas, dto, resultado>>
  BY <1>1 DEF motor
<1>3. \/ c \in Operadores /\ tarea[c] = "inactiva"
      \/ c \notin Operadores /\ tarea[c] \in {"alta", "altaSondeo"}
  BY QuienLlama
<1>4. EnReposo' /\ OperadoresSinTarea' /\ AltaEnCurso' /\ OrigenDelDto'
  BY <1>2, <1>3 DEF EnReposo, OperadoresSinTarea, AltaEnCurso, OrigenDelDto
<1>5. \A b \in Llamadas \ {c} : pc[b] = "publicar" => fila[b] \in Ids \ {Nuevo}
  BY <1>1 DEF FilaReal
<1>6. OrigenDeLaFila'
  BY <1>2, <1>5 DEF OrigenDeLaFila, OrigenDelDto
<1>7. PreviasPasadas'
  BY <1>1, <1>2 DEF PreviasPasadas, Anunciando, TiposMotor
<1>8. QED
  BY <1>4, <1>6, <1>7

LEMMA PasoTareas ==
  ASSUME TiposMotor, IInv, InvTareas, NEW c \in Llamadas, Paso(c), UNCHANGED motor
  PROVE  InvTareas'
<1> USE DEF IInv
<1>1. UNCHANGED <<tarea, previas>>
  BY DEF motor
<1>2. CASE BuscarExistente(c) \/ InsertarRechazado(c) \/ PublicarFalla(c)
  BY <1>1, <1>2, TerminaInv DEF BuscarExistente, InsertarRechazado, PublicarFalla, tabla
<1>3. CASE BuscarNinguna(c)
  BY <1>3, SigueInv
<1>4. CASE Insertar(c)
  BY <1>4, InsertaInv
<1>5. CASE LeerFila(c)
  BY <1>1, <1>5, SigueInv, TerminaInv DEF LeerFila, tabla
<1>6. CASE GuardarCierre(c)
  BY <1>1, <1>6, SigueInv, TerminaInv DEF GuardarCierre
<1>7. CASE Publicar(c)
  <2>1. Respuesta(c) \in {"nueva", "dedup", "cerrada", "error"}
    BY DEF Respuesta
  <2>2. Respuesta(c) = "cerrada" => c \in Operadores
    BY <1>7, QuienLlama DEF Publicar, Respuesta, InvTareas, AltaEnCurso
  <2>3. pc[c] # "libre" /\ Terminar(c, Respuesta(c)) /\ UNCHANGED <<estado, datos>>
    BY <1>7 DEF Publicar, tabla
  <2>4. QED
    BY <1>1, <2>1, <2>2, <2>3, TerminaInv
<1>8. QED
  BY <1>2, <1>3, <1>4, <1>5, <1>6, <1>7 DEF Paso

\* createWithDedup is called, by a producer or by an operator
LEMMA CrearInv ==
  ASSUME TiposMotor, TypeOK, InvTareas, NEW c \in Llamadas, NEW d \in Borradores, Crear(c, d),
         previas' = previas,
         \/ c \in Operadores /\ d.origen = "manual" /\ tarea' = tarea
         \/ /\ c \notin Operadores /\ d.origen = "motor_reglas"
            /\ \E t \in {"alta", "altaSondeo"} : tarea' = [tarea EXCEPT ![c] = t]
  PROVE  InvTareas'
<1> USE DEF InvTareas, TypeOK, TiposMotor, Crear, tabla
<1>1. /\ pc'[c] \in {"buscar", "insertar"} /\ dto'[c] = d
      /\ \A b \in Llamadas \ {c} : /\ pc'[b] = pc[b] /\ dto'[b] = dto[b]
                                   /\ resultado'[b] = resultado[b] /\ tarea'[b] = tarea[b]
      /\ UNCHANGED <<estado, datos, fila, aviso>>
  OBVIOUS
<1>2. \/ c \in Operadores /\ d.origen = "manual" /\ tarea'[c] = "inactiva"
      \/ c \notin Operadores /\ d.origen = "motor_reglas" /\ tarea'[c] \in {"alta", "altaSondeo"}
  BY DEF OperadoresSinTarea
<1>3. EnReposo' /\ OperadoresSinTarea' /\ AltaEnCurso'
  BY <1>1, <1>2, MotorAssumption
     DEF MotorAssumption, EnReposo, OperadoresSinTarea, AltaEnCurso
<1>4. OrigenDelDto'
  BY <1>1, <1>2 DEF OrigenDelDto
<1>5. OrigenDeLaFila' /\ PreviasPasadas'
  BY <1>1 DEF OrigenDeLaFila, PreviasPasadas, Anunciando
<1>6. QED
  BY <1>3, <1>4, <1>5

LEMMA AltaInv ==
  ASSUME TiposMotor, TypeOK, InvTareas, NEW c \in Llamadas, AltaDe(c)
  PROVE  InvTareas'
<1>1. c \notin Operadores
  BY DEF AltaDe, InvTareas, OperadoresSinTarea
<1>2. QED
  BY <1>1, CrearInv DEF AltaDe

LEMMA ManualInv ==
  ASSUME TiposMotor, TypeOK, InvTareas, NEW c \in Llamadas, Manual(c)
  PROVE  InvTareas'
<1>1. c \in Operadores /\ tarea' = tarea /\ previas' = previas
  BY DEF Manual, motor
<1>2. ASSUME NEW d \in Borradores, d.origen = "manual", Crear(c, d)
      PROVE  InvTareas'
  BY <1>1, <1>2, CrearInv
<1>3. ASSUME NEW id \in Ids, NEW e \in Finales, Cerrar(c, id, e)
      PROVE  InvTareas'
  <2> USE DEF InvTareas, TypeOK, Cerrar, tabla
  <2>1. /\ pc'[c] = "leer" /\ tarea[c] = "inactiva"
        /\ \A b \in Llamadas \ {c} : /\ pc'[b] = pc[b] /\ fila'[b] = fila[b]
                                     /\ aviso'[b] = aviso[b] /\ resultado'[b] = resultado[b]
        /\ UNCHANGED <<estado, datos, dto>>
    BY <1>1, <1>3 DEF OperadoresSinTarea
  <2>2. EnReposo' /\ OperadoresSinTarea' /\ AltaEnCurso'
    BY <1>1, <2>1 DEF EnReposo, OperadoresSinTarea, AltaEnCurso
  <2>3. OrigenDelDto' /\ OrigenDeLaFila' /\ PreviasPasadas'
    BY <1>1, <2>1 DEF OrigenDelDto, OrigenDeLaFila, PreviasPasadas, Anunciando
  <2>4. QED
    BY <2>2, <2>3
<1>4. QED
  BY <1>2, <1>3 DEF Manual

LEMMA RespuestaTareas ==
  ASSUME TiposMotor, TypeOK, InvTareas, NEW c \in Llamadas, Respuestas(c)
  PROVE  InvTareas'
<1> USE DEF InvTareas, TypeOK, TiposMotor
<1>1. /\ tarea[c] \in {"alta", "altaSondeo"} /\ pc[c] = "libre"
      /\ UNCHANGED <<estado, datos, pc, dto, fila, aviso, previas>>
      /\ resultado' = [resultado EXCEPT ![c] = "ninguno"]
      /\ \E t \in {"ciclo", "sondeo"} : tarea' = [tarea EXCEPT ![c] = t]
  BY DEF Respuestas, RespuestaMotor, RespuestaSondeo, tabla
<1>2. /\ resultado'[c] = "ninguno" /\ tarea'[c] \in {"ciclo", "sondeo"} /\ pc'[c] = "libre"
      /\ \A b \in Llamadas \ {c} : resultado'[b] = resultado[b] /\ tarea'[b] = tarea[b]
  BY <1>1
<1>3. c \notin Operadores
  BY <1>1 DEF OperadoresSinTarea
<1>4. EnReposo' /\ OperadoresSinTarea' /\ AltaEnCurso'
  BY <1>1, <1>2, <1>3, MotorAssumption
     DEF MotorAssumption, EnReposo, OperadoresSinTarea, AltaEnCurso
<1>5. OrigenDelDto' /\ OrigenDeLaFila' /\ PreviasPasadas'
  BY <1>1, <1>2 DEF OrigenDelDto, OrigenDeLaFila, PreviasPasadas, Anunciando
<1>6. QED
  BY <1>4, <1>5

\* Nobody's call changes
LEMMA MundoInv ==
  ASSUME TiposMotor, TypeOK, InvTareas, UNCHANGED motor,
         (\E p \in Parques : EliminarParque(p)) \/ RedisCae \/ RedisVuelve \/ UNCHANGED vars
  PROVE  InvTareas'
<1>1. /\ UNCHANGED <<datos, pc, dto, fila, aviso, resultado, tarea, previas>>
      /\ \A id \in Ids : estado[id] # "nula" => estado'[id] # "nula"
  BY DEF motor, vars, EliminarParque, RedisCae, RedisVuelve, tabla, marco, TypeOK
<1>2. previas \subseteq Ids
  BY DEF TiposMotor
<1>3. EnReposo' /\ OperadoresSinTarea' /\ AltaEnCurso'
  BY <1>1 DEF InvTareas, EnReposo, OperadoresSinTarea, AltaEnCurso
<1>4. OrigenDelDto' /\ OrigenDeLaFila' /\ PreviasPasadas'
  BY <1>1, <1>2 DEF InvTareas, OrigenDelDto, OrigenDeLaFila, PreviasPasadas, Anunciando
<1>5. QED
  BY <1>3, <1>4 DEF InvTareas

LEMMA ReinicioTareas ==
  ASSUME ReinicioMotor
  PROVE  InvTareas'
<1>1. /\ \A c \in Llamadas : pc'[c] = "libre" /\ resultado'[c] = "ninguno" /\ tarea'[c] = "inactiva"
      /\ Operadores \subseteq Llamadas /\ estado' = estado
      /\ \A id \in previas' : estado[id] # "nula"
  BY MotorAssumption DEF MotorAssumption, ReinicioMotor, Reinicio, SinTarea, tabla
<1>2. EnReposo' /\ OperadoresSinTarea' /\ AltaEnCurso'
  BY <1>1 DEF EnReposo, OperadoresSinTarea, AltaEnCurso
<1>3. OrigenDelDto' /\ OrigenDeLaFila' /\ PreviasPasadas'
  BY <1>1 DEF OrigenDelDto, OrigenDeLaFila, PreviasPasadas, Anunciando
<1>4. QED
  BY <1>2, <1>3 DEF InvTareas

LEMMA TareasStep ==
  ASSUME TiposMotor, IInv, InvTareas, NextMotor \/ UNCHANGED varsMotor
  PROVE  InvTareas'
<1>1. TypeOK
  BY DEF IInv
<1>2. CASE UNCHANGED varsMotor
  BY <1>1, <1>2, MundoInv DEF varsMotor
<1>3. CASE NextMotor
  BY <1>1, <1>3, PasosDelMotor, PasoTareas, InternoInv, AltaInv, ManualInv, RespuestaTareas,
     MundoInv, ReinicioTareas
<1>4. QED
  BY <1>2, <1>3

-----------------------------------------------------------------------------
(* The metric *)

\* Whom the metric compares, one call and one row at a time
DebeContar(c) ==
  \/ pc[c] = "publicar" /\ aviso[c] = "activa" /\ datos[fila[c]].origen = "motor_reglas"
  \/ pc[c] = "libre" /\ resultado[c] = "nueva" /\ tarea[c] # "inactiva"

EsAlta(id) ==
  /\ id \notin previas /\ estado[id] # "nula" /\ datos[id].origen = "motor_reglas"
  /\ Anunciada(id) \/ PorAnunciar(id)

LEMMA Contados ==
  /\ \A c \in Llamadas : c \in PorContar <=> DebeContar(c)
  /\ PorContar \subseteq Llamadas
  /\ \A id \in Ids : id \in AltasDelMotor <=> EsAlta(id)
  /\ AltasDelMotor \subseteq Ids
BY DEF PorContar, DebeContar, AltasDelMotor, EsAlta

\* Neither set changes
LEMMA MismaCuenta ==
  ASSUME Contables, UNCHANGED <<metrica, repetidas>>,
         \A c \in Llamadas : DebeContar(c)' <=> DebeContar(c),
         \A id \in Ids : EsAlta(id)' <=> EsAlta(id)
  PROVE  Contables'
<1>1. PorContar' = PorContar
  BY DEF PorContar, DebeContar
<1>2. AltasDelMotor' = AltasDelMotor
  BY DEF AltasDelMotor, EsAlta
<1>3. QED
  BY <1>1, <1>2 DEF Contables, MetricaFiel

\* A new row of a producer is due to be counted, or its publication fails and
\* neither counts
LEMMA CuentaAmbos ==
  ASSUME Contables, metrica \in Nat, repetidas \in Nat, UNCHANGED <<metrica, repetidas>>,
         NEW c, NEW id,
         \/ /\ c \notin PorContar /\ PorContar' = PorContar \cup {c}
            /\ id \notin AltasDelMotor /\ AltasDelMotor' = AltasDelMotor \cup {id}
         \/ /\ c \in PorContar /\ PorContar' = PorContar \ {c}
            /\ id \in AltasDelMotor /\ AltasDelMotor' = AltasDelMotor \ {id}
  PROVE  Contables'
<1> DEFINE P == PorContar
           A == AltasDelMotor
<1>1. IsFiniteSet(P) /\ IsFiniteSet(A) /\ metrica + Cardinality(P) = Cardinality(A) + repetidas
  BY DEF Contables, MetricaFiel
<1>2. Cardinality(P) \in Nat /\ Cardinality(A) \in Nat
  BY <1>1, FS_CardinalityType
<1> HIDE DEF P, A
<1>3. CASE c \notin P /\ id \notin A /\ PorContar' = P \cup {c} /\ AltasDelMotor' = A \cup {id}
  <2>1. /\ IsFiniteSet(P \cup {c}) /\ Cardinality(P \cup {c}) = Cardinality(P) + 1
        /\ IsFiniteSet(A \cup {id}) /\ Cardinality(A \cup {id}) = Cardinality(A) + 1
    BY <1>1, <1>3, FS_AddElement
  <2>2. QED
    BY <1>1, <1>2, <1>3, <2>1 DEF Contables, MetricaFiel
<1>4. CASE c \in P /\ id \in A /\ PorContar' = P \ {c} /\ AltasDelMotor' = A \ {id}
  <2>1. /\ IsFiniteSet(P \ {c}) /\ Cardinality(P \ {c}) = Cardinality(P) - 1
        /\ IsFiniteSet(A \ {id}) /\ Cardinality(A \ {id}) = Cardinality(A) - 1
    BY <1>1, <1>4, FS_RemoveElement
  <2>2. QED
    BY <1>1, <1>2, <1>4, <2>1 DEF Contables, MetricaFiel
<1>5. QED
  BY <1>3, <1>4 DEF P, A

\* The metric counts the answer, and it is due no more; or it was due to
\* nobody, and counts as repeated
LEMMA CuentaRespuesta ==
  ASSUME Contables, metrica \in Nat, repetidas \in Nat, AltasDelMotor' = AltasDelMotor, NEW c,
         \/ c \in PorContar /\ PorContar' = PorContar \ {c}
            /\ metrica' = metrica + 1 /\ repetidas' = repetidas
         \/ PorContar' = PorContar /\ metrica' = metrica + 1 /\ repetidas' = repetidas + 1
         \/ PorContar' = PorContar /\ metrica' = metrica /\ repetidas' = repetidas
  PROVE  Contables'
<1> DEFINE P == PorContar
           A == AltasDelMotor
<1>1. IsFiniteSet(P) /\ IsFiniteSet(A) /\ metrica + Cardinality(P) = Cardinality(A) + repetidas
  BY DEF Contables, MetricaFiel
<1>2. Cardinality(P) \in Nat /\ Cardinality(A) \in Nat
  BY <1>1, FS_CardinalityType
<1> HIDE DEF P, A
<1>3. CASE c \in P /\ PorContar' = P \ {c} /\ metrica' = metrica + 1 /\ repetidas' = repetidas
  <2>1. IsFiniteSet(P \ {c}) /\ Cardinality(P \ {c}) = Cardinality(P) - 1
    BY <1>1, <1>3, FS_RemoveElement
  <2>2. AltasDelMotor' = A
    BY DEF A
  <2>3. QED
    BY <1>1, <1>2, <1>3, <2>1, <2>2 DEF Contables, MetricaFiel
<1>4. CASE /\ PorContar' = P
           /\ \/ metrica' = metrica + 1 /\ repetidas' = repetidas + 1
              \/ metrica' = metrica /\ repetidas' = repetidas
  <2>1. AltasDelMotor' = A
    BY DEF A
  <2>2. QED
    BY <1>1, <1>2, <1>4, <2>1 DEF Contables, MetricaFiel
<1>5. QED
  BY <1>3, <1>4 DEF P

\* Only c's call changes, and it has nothing to do with an opening
LEMMA CuentaAjena ==
  ASSUME Contables, NEW c \in Llamadas, UNCHANGED <<metrica, repetidas, previas, datos>>,
         \A b \in Llamadas \ {c} :
           /\ pc'[b] = pc[b] /\ fila'[b] = fila[b] /\ aviso'[b] = aviso[b]
           /\ resultado'[b] = resultado[b] /\ tarea'[b] = tarea[b],
         ~(pc[c] = "publicar" /\ aviso[c] = "activa"),
         ~(pc'[c] = "publicar" /\ aviso'[c] = "activa"),
         ~(pc[c] = "libre" /\ resultado[c] = "nueva" /\ tarea[c] # "inactiva"),
         ~(pc'[c] = "libre" /\ resultado'[c] = "nueva" /\ tarea'[c] # "inactiva"),
         \A id \in Ids : (estado'[id] # "nula") <=> (estado[id] # "nula"),
         \A id \in Ids : Anunciada(id)' <=> Anunciada(id)
  PROVE  Contables'
<1>1. \A b \in Llamadas : DebeContar(b)' <=> DebeContar(b)
  BY DEF DebeContar
<1>2. \A id \in Ids : PorAnunciar(id)' <=> PorAnunciar(id)
  BY DEF PorAnunciar
<1>3. \A id \in Ids : EsAlta(id)' <=> EsAlta(id)
  BY <1>2 DEF EsAlta
<1>4. QED
  BY <1>1, <1>3, MismaCuenta

LEMMA MismoCanal ==
  ASSUME canal' = canal
  PROVE  \A id \in Ids : Anunciada(id)' <=> Anunciada(id)
BY DEF Anunciada

LEMMA CanalCrece ==
  ASSUME TypeOK, FilaReal, NEW c \in Llamadas, Publicar(c)
  PROVE  \A id \in Ids : Anunciada(id)' <=>
           Anunciada(id) \/ (id = fila[c] /\ aviso[c] = "activa")
<1> DEFINE msg == [id |-> fila[c], estado |-> aviso[c]]
<1> USE DEF TypeOK, Publicar
<1>1. fila[c] \in Ids
  BY DEF FilaReal
<1>2. /\ Len(canal') = Len(canal) + 1 /\ canal'[Len(canal) + 1] = msg
      /\ \A m \in 1..Len(canal) : canal'[m] = canal[m]
      /\ Len(canal) \in Nat
  BY <1>1 DEF Mensajes
<1>3. \A id \in Ids : Anunciada(id)' <=> Anunciada(id) \/ msg = [id |-> id, estado |-> "activa"]
  BY <1>2 DEF Anunciada
<1>4. QED
  BY <1>3

LEMMA InsertarCuenta ==
  ASSUME IInv, TiposMotor, InvTareas, Contables, NEW c \in Llamadas, Insertar(c), UNCHANGED motor
  PROVE  Contables'
<1> USE DEF IInv, TypeOK, Insertar
<1>1. PICK n \in Ids : n = Nuevo /\ estado[n] = "nula"
  BY NuevoEsNulo
<1>2. /\ fila'[c] = n /\ pc'[c] = "publicar" /\ aviso'[c] = "activa"
      /\ datos'[n] = dto[c] /\ estado'[n] = "activa"
      /\ \A id \in Ids \ {n} : estado'[id] = estado[id] /\ datos'[id] = datos[id]
      /\ \A b \in Llamadas \ {c} : pc'[b] = pc[b] /\ fila'[b] = fila[b] /\ aviso'[b] = aviso[b]
      /\ UNCHANGED <<tarea, previas, resultado, canal, metrica, repetidas>>
  BY <1>1 DEF motor
<1>3. \A b \in Llamadas \ {c} : pc[b] = "publicar" => fila[b] \in Ids \ {n}
  BY <1>1 DEF FilaReal
<1>4. n \notin previas
  BY <1>1 DEF InvTareas, PreviasPasadas
<1>5. \A b \in Llamadas \ {c} : DebeContar(b)' <=> DebeContar(b)
  BY <1>2, <1>3 DEF DebeContar
<1>6. ~DebeContar(c) /\ (DebeContar(c)' <=> dto[c].origen = "motor_reglas")
  BY <1>2 DEF DebeContar
<1>7. \A id \in Ids \ {n} : EsAlta(id)' <=> EsAlta(id)
  <2>1. \A id \in Ids \ {n} : PorAnunciar(id)' <=> PorAnunciar(id)
    BY <1>2 DEF PorAnunciar
  <2>2. \A id \in Ids : Anunciada(id)' <=> Anunciada(id)
    BY <1>2, MismoCanal
  <2>3. QED
    BY <1>2, <2>1, <2>2 DEF EsAlta
<1>8. ~EsAlta(n) /\ (EsAlta(n)' <=> dto[c].origen = "motor_reglas")
  <2>1. PorAnunciar(n)'
    BY <1>2 DEF PorAnunciar
  <2>2. QED
    BY <1>1, <1>2, <1>4, <2>1 DEF EsAlta
<1>9. CASE dto[c].origen = "motor_reglas"
  <2>1. c \notin PorContar /\ PorContar' = PorContar \cup {c}
    BY <1>5, <1>6, <1>9 DEF PorContar, DebeContar
  <2>2. n \notin AltasDelMotor /\ AltasDelMotor' = AltasDelMotor \cup {n}
    BY <1>1, <1>7, <1>8, <1>9 DEF AltasDelMotor, EsAlta
  <2>3. QED
    BY <1>2, <2>1, <2>2, CuentaAmbos DEF TiposMotor
<1>10. CASE dto[c].origen # "motor_reglas"
  BY <1>2, <1>5, <1>6, <1>7, <1>8, <1>10, MismaCuenta
<1>11. QED
  BY <1>9, <1>10

\* An opening is published, or cannot be
LEMMA AnunciarCuenta ==
  ASSUME IInv, TiposMotor, InvTareas, Contables, NEW c \in Llamadas,
         Publicar(c) \/ PublicarFalla(c), aviso[c] = "activa", UNCHANGED motor
  PROVE  Contables'
<1> USE DEF IInv, TypeOK
<1>1. PICK f \in Ids : f = fila[c] /\ pc[c] = "publicar" /\ estado[f] # "nula"
  BY DEF Publicar, PublicarFalla, FilaReal
<1>2. /\ UNCHANGED <<tarea, previas, metrica, repetidas, estado, datos>>
      /\ \A b \in Llamadas \ {c} : /\ pc'[b] = pc[b] /\ fila'[b] = fila[b] /\ aviso'[b] = aviso[b]
                                   /\ resultado'[b] = resultado[b]
      /\ pc'[c] = "libre"
  BY DEF motor, Publicar, PublicarFalla, Terminar, tabla
<1>3. datos[f].origen = IF tarea[c] = "inactiva" THEN "manual" ELSE "motor_reglas"
  BY <1>1 DEF InvTareas, OrigenDeLaFila
<1>4. \A b \in Llamadas \ {c} : DebeContar(b)' <=> DebeContar(b)
  BY <1>2 DEF DebeContar
<1>5. DebeContar(c) <=> datos[f].origen = "motor_reglas"
  BY <1>1 DEF DebeContar
<1>6. \A id \in Ids : PorAnunciar(id)' <=> PorAnunciar(id) /\ id # f
  <2>1. \A b \in Llamadas \ {c} : pc[b] = "publicar" /\ aviso[b] = "activa" => fila[b] # f
    BY <1>1 DEF UnAnunciante, Anunciando
  <2>2. QED
    BY <1>1, <1>2, <2>1 DEF PorAnunciar
<1>7. PorAnunciar(f) /\ ~Anunciada(f) /\ f \notin previas
  BY <1>1 DEF PorAnunciar, Anunciada, SinAnunciar, Anunciando, InvTareas, PreviasPasadas
<1>8. CASE Publicar(c)
  <2>1. \A id \in Ids : Anunciada(id)' <=> Anunciada(id) \/ id = f
    BY <1>1, <1>8, CanalCrece
  <2>2. \A id \in Ids : EsAlta(id)' <=> EsAlta(id)
    BY <1>2, <1>6, <1>7, <2>1 DEF EsAlta
  <2>3. resultado'[c] = "nueva"
    BY <1>8 DEF Publicar, Terminar, Respuesta
  <2>4. DebeContar(c)' <=> tarea[c] # "inactiva"
    BY <1>2, <2>3 DEF DebeContar
  <2>5. DebeContar(c)' <=> DebeContar(c)
    BY <1>3, <1>5, <2>4
  <2>6. QED
    BY <1>2, <1>4, <2>2, <2>5, MismaCuenta
<1>9. CASE PublicarFalla(c)
  <2>1. \A id \in Ids : Anunciada(id)' <=> Anunciada(id)
    BY <1>9, MismoCanal DEF PublicarFalla
  <2>2. \A id \in Ids \ {f} : EsAlta(id)' <=> EsAlta(id)
    BY <1>2, <1>6, <2>1 DEF EsAlta
  <2>3. ~EsAlta(f)' /\ (EsAlta(f) <=> datos[f].origen = "motor_reglas")
    BY <1>1, <1>2, <1>6, <1>7, <2>1 DEF EsAlta
  <2>4. ~DebeContar(c)'
    BY <1>2, <1>9 DEF PublicarFalla, Terminar, DebeContar
  <2>5. CASE datos[f].origen = "motor_reglas"
    <3>1. c \in PorContar /\ PorContar' = PorContar \ {c}
      BY <1>4, <1>5, <2>4, <2>5 DEF PorContar, DebeContar
    <3>2. f \in AltasDelMotor /\ AltasDelMotor' = AltasDelMotor \ {f}
      BY <2>2, <2>3, <2>5 DEF AltasDelMotor, EsAlta
    <3>3. QED
      BY <1>2, <3>1, <3>2, CuentaAmbos DEF TiposMotor
  <2>6. CASE datos[f].origen # "motor_reglas"
    BY <1>2, <1>4, <1>5, <2>2, <2>3, <2>4, <2>6, MismaCuenta
  <2>7. QED
    BY <2>5, <2>6
<1>10. QED
  BY <1>8, <1>9

\* The other steps of a call
LEMMA PasoCuenta ==
  ASSUME IInv, TiposMotor, InvTareas, Contables, NEW c \in Llamadas, Paso(c), UNCHANGED motor
  PROVE  Contables'
<1> USE DEF IInv, TypeOK
<1>1. UNCHANGED <<tarea, previas, metrica, repetidas>>
  BY DEF motor
<1>2. CASE Insertar(c)
  BY <1>2, InsertarCuenta
<1>3. CASE (Publicar(c) \/ PublicarFalla(c)) /\ aviso[c] = "activa"
  BY <1>3, AnunciarCuenta
<1>4. CASE ~Insertar(c) /\ ~((Publicar(c) \/ PublicarFalla(c)) /\ aviso[c] = "activa")
  <2>1. /\ UNCHANGED datos
        /\ \A b \in Llamadas \ {c} : /\ pc'[b] = pc[b] /\ fila'[b] = fila[b] /\ aviso'[b] = aviso[b]
                                     /\ resultado'[b] = resultado[b]
        /\ pc[c] # "libre" /\ ~(pc[c] = "publicar" /\ aviso[c] = "activa")
    BY <1>4 DEF Paso, BuscarExistente, BuscarNinguna, InsertarRechazado, LeerFila, GuardarCierre,
                Publicar, PublicarFalla, Terminar, tabla
  <2>2. /\ ~(pc'[c] = "publicar" /\ aviso'[c] = "activa")
        /\ ~(pc'[c] = "libre" /\ resultado'[c] = "nueva")
        /\ \A id \in Ids : (estado'[id] # "nula") <=> (estado[id] # "nula")
    <3>1. CASE BuscarExistente(c) \/ InsertarRechazado(c) \/ PublicarFalla(c) \/ Publicar(c)
      BY <1>4, <3>1 DEF BuscarExistente, InsertarRechazado, PublicarFalla, Publicar, Respuesta,
                        Terminar, tabla
    <3>2. CASE BuscarNinguna(c) \/ LeerFila(c)
      BY <3>2 DEF BuscarNinguna, LeerFila, Terminar, tabla
    <3>3. CASE GuardarCierre(c)
      BY <3>3 DEF GuardarCierre, Terminar, FilaReal, CierreFinal, Finales
    <3>4. QED
      BY <1>4, <3>1, <3>2, <3>3 DEF Paso
  <2>3. \A id \in Ids : Anunciada(id)' <=> Anunciada(id)
    <3>1. CASE Publicar(c)
      BY <1>4, <3>1, CanalCrece
    <3>2. CASE ~Publicar(c)
      BY <1>4, <3>2, MismoCanal DEF Paso, BuscarExistente, BuscarNinguna, InsertarRechazado,
                                   LeerFila, GuardarCierre, PublicarFalla
    <3>3. QED
      BY <3>1, <3>2
  <2>4. QED
    BY <1>1, <2>1, <2>2, <2>3, CuentaAjena
<1>5. QED
  BY <1>2, <1>3, <1>4

\* A call that begins, of a producer or of an operator
LEMMA EmpiezaCuenta ==
  ASSUME IInv, TiposMotor, InvTareas, Contables, NEW c \in Llamadas, AltaDe(c) \/ Manual(c)
  PROVE  Contables'
<1> USE DEF IInv, TypeOK, TiposMotor
<1>1. /\ UNCHANGED <<metrica, repetidas, previas, datos, estado, canal>>
      /\ \A b \in Llamadas \ {c} : /\ pc'[b] = pc[b] /\ fila'[b] = fila[b] /\ aviso'[b] = aviso[b]
                                   /\ resultado'[b] = resultado[b] /\ tarea'[b] = tarea[b]
      /\ pc[c] = "libre" /\ pc'[c] \notin {"libre", "publicar"}
  <2>1. CASE AltaDe(c)
    BY <2>1 DEF AltaDe, Crear, tabla
  <2>2. CASE Manual(c)
    BY <2>2 DEF Manual, Crear, Cerrar, tabla, motor
  <2>3. QED
    BY <2>1, <2>2
<1>2. ~(resultado[c] = "nueva" /\ tarea[c] # "inactiva")
  BY DEF AltaDe, Manual, InvTareas, EnReposo, OperadoresSinTarea
<1>3. QED
  BY <1>1, <1>2, MismoCanal, CuentaAjena

LEMMA RespuestaCuenta ==
  ASSUME IInv, TiposMotor, InvTareas, Contables, NEW c \in Llamadas, Respuestas(c)
  PROVE  Contables'
<1> USE DEF IInv, TypeOK, TiposMotor
<1>1. /\ tarea[c] \in {"alta", "altaSondeo"} /\ pc[c] = "libre"
      /\ UNCHANGED <<estado, datos, canal, pc, fila, aviso, previas>>
      /\ resultado'[c] = "ninguno"
      /\ \A b \in Llamadas \ {c} : resultado'[b] = resultado[b] /\ tarea'[b] = tarea[b]
  BY DEF Respuestas, RespuestaMotor, RespuestaSondeo, tabla
<1>2. resultado[c] \in {"nueva", "dedup", "error"}
  BY <1>1 DEF InvTareas, AltaEnCurso
<1>3. AltasDelMotor' = AltasDelMotor
  <2>1. \A id \in Ids : (Anunciada(id)' <=> Anunciada(id)) /\ (PorAnunciar(id)' <=> PorAnunciar(id))
    BY <1>1, MismoCanal DEF PorAnunciar
  <2>2. QED
    BY <1>1, <2>1 DEF AltasDelMotor
<1>4. (DebeContar(c) <=> resultado[c] = "nueva") /\ ~DebeContar(c)'
  BY <1>1 DEF DebeContar
<1>5. \A b \in Llamadas \ {c} : DebeContar(b)' <=> DebeContar(b)
  BY <1>1 DEF DebeContar
<1>6. CASE resultado[c] = "nueva"
  <2>1. c \in PorContar /\ PorContar' = PorContar \ {c}
    BY <1>4, <1>5, <1>6 DEF PorContar, DebeContar
  <2>2. metrica' = metrica + 1 /\ repetidas' = repetidas
    BY <1>6 DEF Respuestas, RespuestaMotor, RespuestaSondeo, CuentaNueva
  <2>3. QED
    BY <1>3, <2>1, <2>2, CuentaRespuesta
<1>7. CASE resultado[c] # "nueva"
  <2>1. PorContar' = PorContar
    BY <1>4, <1>5, <1>7 DEF PorContar, DebeContar
  <2>2. \/ metrica' = metrica + 1 /\ repetidas' = repetidas + 1
        \/ metrica' = metrica /\ repetidas' = repetidas
    BY <1>2, <1>7 DEF Respuestas, RespuestaMotor, RespuestaSondeo, CuentaNueva
  <2>3. QED
    BY <1>3, <2>1, <2>2, CuentaRespuesta
<1>8. QED
  BY <1>6, <1>7

LEMMA InternoCuenta ==
  ASSUME IInv, TiposMotor, InvTareas, Contables, Interno
  PROVE  Contables'
<1>1. UNCHANGED <<estado, datos, canal, pc, fila, aviso, resultado, metrica, previas, repetidas>>
  BY InternoQuieto DEF vars
<1>2. \A b \in Llamadas : tarea'[b] = tarea[b] \/ (pc[b] = "libre" /\ resultado[b] = "ninguno")
  BY InternoTareas DEF InvTareas, EnReposo
<1>3. \A b \in Llamadas : DebeContar(b)' <=> DebeContar(b)
  BY <1>1, <1>2 DEF DebeContar
<1>4. \A id \in Ids : EsAlta(id)' <=> EsAlta(id)
  BY <1>1, MismoCanal DEF EsAlta, PorAnunciar
<1>5. QED
  BY <1>1, <1>3, <1>4, MismaCuenta

LEMMA MundoCuenta ==
  ASSUME IInv, Contables, UNCHANGED motor,
         (\E p \in Parques : EliminarParque(p)) \/ RedisCae \/ RedisVuelve \/ UNCHANGED vars
  PROVE  Contables'
<1>1. /\ UNCHANGED <<datos, canal, pc, fila, aviso, resultado, tarea, metrica, previas, repetidas>>
      /\ \A id \in Ids : (estado'[id] # "nula") <=> (estado[id] # "nula")
  BY DEF motor, vars, EliminarParque, RedisCae, RedisVuelve, tabla, marco, IInv, TypeOK
<1>2. \A b \in Llamadas : DebeContar(b)' <=> DebeContar(b)
  BY <1>1 DEF DebeContar
<1>3. \A id \in Ids : EsAlta(id)' <=> EsAlta(id)
  BY <1>1, MismoCanal DEF EsAlta, PorAnunciar
<1>4. QED
  BY <1>1, <1>2, <1>3, MismaCuenta

LEMMA NadaPorContar ==
  ASSUME PorContar = {}, AltasDelMotor = {}, metrica = 0, repetidas = 0
  PROVE  Contables
BY FS_EmptySet DEF Contables, MetricaFiel

LEMMA ReinicioCuenta ==
  ASSUME ReinicioMotor
  PROVE  Contables'
<1>1. /\ \A c \in Llamadas : pc'[c] = "libre" /\ resultado'[c] = "ninguno"
      /\ estado' = estado /\ previas' = {id \in Ids : estado[id] # "nula"}
      /\ metrica' = 0 /\ repetidas' = 0
  BY DEF ReinicioMotor, Reinicio, tabla
<1>2. PorContar' = {} /\ AltasDelMotor' = {}
  BY <1>1 DEF PorContar, AltasDelMotor
<1>3. QED
  BY <1>1, <1>2, FS_EmptySet DEF Contables, MetricaFiel

LEMMA InitCuenta == InitMotor => Contables
<1> SUFFICES ASSUME InitMotor PROVE Contables
  OBVIOUS
<1>1. PorContar = {} /\ AltasDelMotor = {} /\ metrica = 0 /\ repetidas = 0
  BY DEF InitMotor, Init, PorContar, AltasDelMotor
<1>2. QED
  BY <1>1, NadaPorContar

LEMMA CuentaStep ==
  ASSUME IInv, TiposMotor, InvTareas, Contables, NextMotor \/ UNCHANGED varsMotor
  PROVE  Contables'
<1>1. CASE UNCHANGED varsMotor
  BY <1>1, MundoCuenta DEF varsMotor
<1>2. CASE NextMotor
  BY <1>2, PasosDelMotor, PasoCuenta, InternoCuenta, EmpiezaCuenta, RespuestaCuenta,
     MundoCuenta, ReinicioCuenta
<1>3. QED
  BY <1>1, <1>2

-----------------------------------------------------------------------------
(* Theorems *)

LEMMA IInvMotorInductiva == InitMotor => IInvMotor
BY InitTipos, InitTareas, InitCuenta, IInvInit DEF InitMotor, IInvMotor

LEMMA IInvMotorPaso == IInvMotor /\ [NextMotor]_varsMotor => IInvMotor'
<1> SUFFICES ASSUME IInvMotor, NextMotor \/ UNCHANGED varsMotor
             PROVE  IInvMotor'
  OBVIOUS
<1>1. IInv /\ TypeOK /\ TiposMotor /\ InvTareas /\ Contables
  BY DEF IInvMotor, TypeOKMotor, TiposMotor
<1>2. IInv' /\ TiposMotor' /\ InvTareas' /\ Contables'
  BY <1>1, IInvMotorStep, TiposMotorStep, TareasStep, CuentaStep
<1>3. QED
  BY <1>2 DEF IInvMotor, TypeOKMotor, TiposMotor, IInv

\* The producers keep the types of what they hold between awaits, for any
\* number of cycles, polls and operators.
THEOREM TiposDelMotor == SpecMotor => []TypeOKMotor
<1>1. IInvMotor => TypeOKMotor
  BY DEF IInvMotor
<1>2. QED
  BY IInvMotorInductiva, IInvMotorPaso, <1>1, PTL DEF SpecMotor

\* manobi_alerts_generated_total counts each alert of the engine and of the
\* satellite poller once, whatever races, failed publications and restarts
\* happen in between; polls add the detections whose alert was open.
THEOREM MetricaExacta == SpecMotor => []MetricaFiel
<1>1. IInvMotor => MetricaFiel
  BY DEF IInvMotor, Contables
<1>2. QED
  BY IInvMotorInductiva, IInvMotorPaso, <1>1, PTL DEF SpecMotor

\* What AlertasService promises of its table and its channel holds with the
\* engine, the poller and the operators as its callers.
THEOREM MotorRespetaAlertas ==
  SpecMotor => [](UnaActivaPorRanura /\ AnuncioUnico /\ AvisoTrasCommit)
<1>1. IInvMotor => UnaActivaPorRanura /\ AnuncioUnico /\ AvisoTrasCommit
  BY DEF IInvMotor, IInv
<1>2. QED
  BY IInvMotorInductiva, IInvMotorPaso, <1>1, PTL DEF SpecMotor

LEMMA PasoMotorAbstracto == IInvMotor /\ [NextMotor]_varsMotor => [Abstracto!Next]_(Abstracto!vars)
<1> SUFFICES ASSUME IInvMotor, NextMotor \/ UNCHANGED varsMotor
             PROVE  [Abstracto!Next]_(Abstracto!vars)
  OBVIOUS
<1>1. IInv /\ TiposMotor
  BY DEF IInvMotor, TypeOKMotor, TiposMotor
<1>2. CASE UNCHANGED varsMotor
  BY <1>1, <1>2, PasoAbstracto DEF varsMotor
<1>3. CASE NextMotor /\ \A c \in Llamadas : ~Respuestas(c)
  BY <1>1, <1>3, AlertasDelMotor, PasoAbstracto
<1>4. ASSUME NEW c \in Llamadas, Respuestas(c)
      PROVE  [Abstracto!Next]_(Abstracto!vars)
  BY <1>4, Invisible DEF Respuestas, RespuestaMotor, RespuestaSondeo, tabla
<1>5. QED
  BY <1>2, <1>3, <1>4

\* The engine and its poller, next to operators, implement CicloAlerta too.
THEOREM MotorImplementa == SpecMotor => CumpleCiclo
<1>1. InitMotor => Abstracto!Init
  BY InitAbstracto DEF InitMotor
<1>2. QED
  BY <1>1, IInvMotorInductiva, IInvMotorPaso, PasoMotorAbstracto, PTL
     DEF SpecMotor, CumpleCiclo, Abstracto!Spec

=============================================================================
