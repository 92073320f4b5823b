--------------------------- MODULE Notificaciones ---------------------------
(***************************************************************************)
(* What happens to a message of the channel manobi:alertas: the handler of *)
(* AlertListenerService, PushService.sendToAll, and the requests that      *)
(* change the table suscripciones_notificacion meanwhile.                  *)
(*                                                                         *)
(* ioredis does not wait for a handler, so the handlers of several         *)
(* messages interleave with each other and with the requests; each stops   *)
(* at its awaits.  A query may fail and ends the handler.  Redis delivers  *)
(* a message at most once: not while the subscriber is disconnected, and   *)
(* a handler does not survive a restart of the process.                    *)
(***************************************************************************)
EXTENDS Naturals, Sequences, FiniteSets

CONSTANTS
  Subs,          \* rows of suscripciones_notificacion that may exist
  Parques,       \* parks that may exist
  SinParque,     \* parque_id NULL
  Registros,     \* contents a subscription may have, all with a destino
  Cambios,       \* bodies of PATCH: some fields of a subscription
  Mensajes,      \* what may be published
  Peticiones,    \* concurrent PATCH requests
  HayOperadores, \* TRUE: notify.emailOperadores is not empty
  ConVapid,      \* TRUE: push is enabled
  FallaBD,       \* TRUE: queries of the handler may fail
  Cortes,        \* TRUE: the subscriber may disconnect, the process restart
  MaxMensajes    \* bound on the messages published

Niveles == {"verde", "amarillo", "rojo"}
Canales == {"email", "push", "webhook"}
Operadores == "operadores"
Indices == 1..MaxMensajes

Registro == [canal : Canales, parque : Parques \cup {SinParque},
             niveles : SUBSET Niveles, activa : BOOLEAN]
Mensaje == [parque : Parques \cup {SinParque}, nivel : Niveles,
            estado : {"activa", "cerrada", "falsa"}]

\* The row f with the fields of c over it
Fusionar(f, c) == [k \in DOMAIN f |-> IF k \in DOMAIN c THEN c[k] ELSE f[k]]

ASSUME NotificacionesAssumption ==
  /\ Registros \subseteq Registro /\ Mensajes \subseteq Mensaje
  /\ \A f \in Registro, c \in Cambios : Fusionar(f, c) \in Registro
  /\ SinParque \notin Parques /\ Operadores \notin Subs
  /\ HayOperadores \in BOOLEAN /\ ConVapid \in BOOLEAN
  /\ FallaBD \in BOOLEAN /\ Cortes \in BOOLEAN /\ MaxMensajes \in Nat

VARIABLES
  sub,        \* sub[s]: the row, or SinFila
  parques,    \* rows of parques
  conectado,  \* the subscriber connection receives messages
  mensajes,   \* messages published so far
  pc,         \* pc[i]: the await of the handler of message i
  lista,      \* lista[i]: recipients of its current stage not attempted yet
  caducas,    \* caducas[i]: push subscriptions to deactivate (404 or 410)
  peticion,   \* peticion[q]: the copy a PATCH is about to save, or Ociosa
  intentos,   \* history: <<i, s>> when message i was sent to s
  vigentes,   \* history: <<s, t>> if at some moment since i was published the code
              \* would have sent it to s; t says whether s is for its park
  constantes  \* history: those that asked for i and have not changed since then

tabla == <<sub, parques>>
manejo == <<pc, lista, caducas, intentos>>
historia == <<vigentes, constantes>>
vars == <<sub, parques, conectado, mensajes, pc, lista, caducas, peticion, intentos,
          vigentes, constantes>>

SinFila == [canal |-> "ninguno"]
Ociosa == [id |-> "ninguna"]

EnCurso == {"email", "enviar", "push", "empujar", "hooks", "postear"}

TypeOK ==
  /\ sub \in [Subs -> Registro \cup {SinFila}]
  /\ parques \in SUBSET Parques
  /\ conectado \in BOOLEAN
  /\ mensajes \in Seq(Mensaje) /\ Len(mensajes) <= MaxMensajes
  /\ pc \in [Indices -> EnCurso \cup {"nada", "ignorado", "perdido", "fin", "abortado"}]
  /\ lista \in [Indices -> SUBSET (Subs \cup {Operadores})]
  /\ caducas \in [Indices -> SUBSET Subs]
  /\ peticion \in [Peticiones -> [id : Subs, fila : Registro] \cup {Ociosa}]
  /\ intentos \in SUBSET (Indices \X (Subs \cup {Operadores}))
  /\ vigentes \in [Indices -> SUBSET (Subs \X BOOLEAN)]
  /\ constantes \in [Indices -> SUBSET Subs]

Init ==
  /\ sub \in [Subs -> Registros \cup {SinFila}]
  /\ parques = Parques
  /\ conectado = TRUE
  /\ mensajes = <<>>
  /\ pc = [i \in Indices |-> "nada"]
  /\ lista = [i \in Indices |-> {}]
  /\ caducas = [i \in Indices |-> {}]
  /\ peticion = [q \in Peticiones |-> Ociosa]
  /\ intentos = {}
  /\ vigentes = [i \in Indices |-> {}]
  /\ constantes = [i \in Indices |-> {}]

-----------------------------------------------------------------------------
(* Which subscriptions a stage reads *)

Alcanza(f, m) == f.parque = SinParque \/ f.parque = m.parque

\* Mutated form: paused subscriptions are read too
EligeTodas(canal, m) ==
  {s \in Subs : /\ sub[s] # SinFila /\ sub[s].canal = canal
                /\ Alcanza(sub[s], m) /\ m.nivel \in sub[s].niveles}

\* subs.find by canal, activa and park, then the filter by level.  The clause
\* parque_id: undefined of sendToAll is dropped by TypeORM, so that a push
\* subscription is read whatever its park.
Elige(canal, m) ==
  {s \in Subs : /\ sub[s] # SinFila
                /\ sub[s].canal = canal /\ sub[s].activa
                /\ canal = "push" \/ Alcanza(sub[s], m)
                /\ m.nivel \in sub[s].niveles}

\* Email and push leave green alerts out; webhooks only hear of red ones
Atiende(canal, m) ==
  m.estado = "activa" /\ (IF canal = "webhook" THEN m.nivel = "rojo" ELSE m.nivel # "verde")

-----------------------------------------------------------------------------
(* The handler of message i *)

Pasar(i, etapa, l) ==
  /\ pc' = [pc EXCEPT ![i] = etapa]
  /\ lista' = [lista EXCEPT ![i] = l]

\* PUBLISH on the channel: the handler looks only at open alerts
Publicar(m) ==
  /\ Len(mensajes) < MaxMensajes
  /\ mensajes' = Append(mensajes, m)
  /\ pc' = [pc EXCEPT ![Len(mensajes) + 1] =
              IF ~conectado THEN "perdido"
              ELSE IF m.estado = "activa" THEN "email" ELSE "ignorado"]
  /\ UNCHANGED <<tabla, conectado, lista, caducas, peticion, intentos>>

\* The handler reads the email subscriptions
LeerEmail(i) ==
  /\ pc[i] = "email"
  /\ LET m == mensajes[i]
         l == Elige("email", m) \cup (IF m.nivel = "rojo" /\ HayOperadores
                                        THEN {Operadores} ELSE {})
     IN  IF m.nivel = "verde" THEN Pasar(i, "fin", {})
         ELSE Pasar(i, IF l = {} THEN "push" ELSE "enviar", l)
  /\ UNCHANGED <<tabla, conectado, mensajes, caducas, peticion, intentos>>

\* enviarEmail: one message to all; an SMTP failure is logged and forgotten
EnviarEmail(i) ==
  /\ pc[i] = "enviar"
  /\ intentos' = intentos \cup ({i} \X lista[i])
  /\ Pasar(i, "push", {})
  /\ UNCHANGED <<tabla, conectado, mensajes, caducas, peticion>>

TrasPush(i) == IF mensajes[i].nivel = "rojo" THEN "hooks" ELSE "fin"

\* sendToAll reads the push subscriptions
LeerPush(i) ==
  /\ pc[i] = "push"
  /\ IF ConVapid THEN Pasar(i, "empujar", Elige("push", mensajes[i]))
                 ELSE Pasar(i, TrasPush(i), {})
  /\ UNCHANGED <<tabla, conectado, mensajes, caducas, peticion, intentos>>

\* Mutated form: the first push that fails ends the others
EnviarPushCorta(i, s, caduca) ==
  /\ pc[i] = "empujar" /\ s \in lista[i]
  /\ lista' = [lista EXCEPT ![i] = IF caduca THEN {} ELSE @ \ {s}]
  /\ intentos' = intentos \cup {<<i, s>>}
  /\ caducas' = [caducas EXCEPT ![i] = IF caduca THEN @ \cup {s} ELSE @]
  /\ UNCHANGED <<tabla, conectado, mensajes, pc, peticion>>

\* Mutated form: nothing goes on once the handler has aborted
EnviarPushMuere(i, s, caduca) ==
  /\ pc[i] = "empujar" /\ s \in lista[i]
  /\ lista' = [lista EXCEPT ![i] = @ \ {s}]
  /\ intentos' = intentos \cup {<<i, s>>}
  /\ caducas' = [caducas EXCEPT ![i] = IF caduca THEN @ \cup {s} ELSE @]
  /\ UNCHANGED <<tabla, conectado, mensajes, pc, peticion>>

\* One sendNotification settles: well, with an error that is logged, or with
\* 404/410.  The others go on when one of them has aborted the handler.
EnviarPush(i, s, caduca) ==
  /\ pc[i] \in {"empujar", "abortado"} /\ s \in lista[i]
  /\ lista' = [lista EXCEPT ![i] = @ \ {s}]
  /\ intentos' = intentos \cup {<<i, s>>}
  /\ caducas' = [caducas EXCEPT ![i] = IF caduca THEN @ \cup {s} ELSE @]
  /\ UNCHANGED <<tabla, conectado, mensajes, pc, peticion>>

\* Mutated form: the row is saved instead of updated
DesactivarGuarda(i, s) ==
  /\ s \in caducas[i]
  /\ caducas' = [caducas EXCEPT ![i] = @ \ {s}]
  /\ sub' = [sub EXCEPT ![s] = IF @ = SinFila THEN [activa |-> FALSE]
                               ELSE [@ EXCEPT !.activa = FALSE]]
  /\ UNCHANGED <<parques, conectado, mensajes, pc, lista, peticion, intentos>>

\* subs.update(s, { activa: false }): no row is no error
Desactivar(i, s) ==
  /\ s \in caducas[i]
  /\ caducas' = [caducas EXCEPT ![i] = @ \ {s}]
  /\ sub' = [sub EXCEPT ![s] = IF @ = SinFila THEN @ ELSE [@ EXCEPT !.activa = FALSE]]
  /\ UNCHANGED <<parques, conectado, mensajes, pc, lista, peticion, intentos>>

\* The update is not inside the try: its failure rejects sendToAll
DesactivarFalla(i, s) ==
  /\ FallaBD
  /\ s \in caducas[i]
  /\ caducas' = [caducas EXCEPT ![i] = @ \ {s}]
  /\ pc' = [pc EXCEPT ![i] = "abortado"]
  /\ UNCHANGED <<tabla, conectado, mensajes, lista, peticion, intentos>>

FinPush(i) ==
  /\ pc[i] = "empujar" /\ lista[i] = {} /\ caducas[i] = {}
  /\ Pasar(i, TrasPush(i), {})
  /\ UNCHANGED <<tabla, conectado, mensajes, caducas, peticion, intentos>>

LeerHooks(i) ==
  /\ pc[i] = "hooks"
  /\ Pasar(i, "postear", Elige("webhook", mensajes[i]))
  /\ UNCHANGED <<tabla, conectado, mensajes, caducas, peticion, intentos>>

\* One POST settles; its failure is caught
PostearHook(i, s) ==
  /\ pc[i] = "postear" /\ s \in lista[i]
  /\ lista' = [lista EXCEPT ![i] = @ \ {s}]
  /\ intentos' = intentos \cup {<<i, s>>}
  /\ UNCHANGED <<tabla, conectado, mensajes, pc, caducas, peticion>>

FinHooks(i) ==
  /\ pc[i] = "postear" /\ lista[i] = {}
  /\ Pasar(i, "fin", {})
  /\ UNCHANGED <<tabla, conectado, mensajes, caducas, peticion, intentos>>

\* A query of the handler rejects: the exception is logged and ends it
LecturaFalla(i) ==
  /\ FallaBD
  /\ pc[i] \in {"email", "hooks"} \/ (pc[i] = "push" /\ ConVapid)
  /\ Pasar(i, "abortado", {})
  /\ UNCHANGED <<tabla, conectado, mensajes, caducas, peticion, intentos>>

Manejar(i) ==
  \/ LeerEmail(i) \/ EnviarEmail(i) \/ LeerPush(i) \/ FinPush(i)
  \/ LeerHooks(i) \/ FinHooks(i) \/ LecturaFalla(i)
  \/ \E s \in Subs : \/ \E caduca \in BOOLEAN : EnviarPush(i, s, caduca)
                     \/ Desactivar(i, s) \/ DesactivarFalla(i, s)
                     \/ PostearHook(i, s)

-----------------------------------------------------------------------------
(* SuscripcionesService and PushService.registerSubscription *)

CrearSuscripcion(s, f) ==
  /\ sub[s] = SinFila /\ f.parque \in parques \cup {SinParque}
  /\ sub' = [sub EXCEPT ![s] = f]
  /\ UNCHANGED <<parques, conectado, mensajes, manejo, peticion>>

\* update: the row is read and the fields of the request put over it
LeerSuscripcion(q, s, c) ==
  /\ peticion[q] = Ociosa
  /\ sub[s] # SinFila
  /\ peticion' = [peticion EXCEPT ![q] = [id |-> s, fila |-> Fusionar(sub[s], c)]]
  /\ UNCHANGED <<tabla, conectado, mensajes, manejo>>

\* repo.save(s) writes the whole copy, and inserts the row again if it was
\* deleted since; a park that is gone violates its foreign key
GuardarSuscripcion(q) ==
  /\ peticion[q] # Ociosa
  /\ LET s == peticion[q].id
         f == peticion[q].fila
     IN  sub' = IF f.parque \in parques \cup {SinParque}
                  THEN [sub EXCEPT ![s] = f] ELSE sub
  /\ peticion' = [peticion EXCEPT ![q] = Ociosa]
  /\ UNCHANGED <<parques, conectado, mensajes, manejo>>

EliminarSuscripcion(s) ==
  /\ sub[s] # SinFila
  /\ sub' = [sub EXCEPT ![s] = SinFila]
  /\ UNCHANGED <<parques, conectado, mensajes, manejo, peticion>>

-----------------------------------------------------------------------------
(* The environment *)

\* ON DELETE CASCADE
EliminarParque(p) ==
  /\ p \in parques
  /\ parques' = parques \ {p}
  /\ sub' = [s \in Subs |-> IF sub[s] # SinFila /\ sub[s].parque = p THEN SinFila ELSE sub[s]]
  /\ UNCHANGED <<conectado, mensajes, manejo, peticion>>

Corte ==
  /\ Cortes /\ conectado
  /\ conectado' = FALSE
  /\ UNCHANGED <<tabla, mensajes, manejo, peticion>>

\* ioredis reconnects and subscribes again
Reconexion ==
  /\ ~conectado
  /\ conectado' = TRUE
  /\ UNCHANGED <<tabla, mensajes, manejo, peticion>>

Reinicio ==
  /\ Cortes
  /\ pc' = [i \in Indices |-> IF pc[i] \in EnCurso THEN "perdido" ELSE pc[i]]
  /\ lista' = [i \in Indices |-> {}]
  /\ caducas' = [i \in Indices |-> {}]
  /\ peticion' = [q \in Peticiones |-> Ociosa]
  /\ UNCHANGED <<tabla, conectado, mensajes, intentos>>

-----------------------------------------------------------------------------
(* History *)

\* The subscription asks for the message: active, its level, its park
Pide(f, m) == f # SinFila /\ f.activa /\ m.nivel \in f.niveles /\ Alcanza(f, m)

\* As the code reads it: a push subscription hears of every park
Corresponde(f, m) ==
  f # SinFila /\ f.activa /\ m.nivel \in f.niveles /\ (f.canal = "push" \/ Alcanza(f, m))

Recordar ==
  /\ vigentes' = [i \in Indices |->
       IF i > Len(mensajes') THEN {}
       ELSE vigentes[i] \cup
            {<<s, Alcanza(sub'[s], mensajes'[i])>> :
               s \in {t \in Subs : Corresponde(sub'[t], mensajes'[i])}}]
  /\ constantes' = [i \in Indices |->
       IF i > Len(mensajes') THEN {}
       ELSE IF i > Len(mensajes) THEN {s \in Subs : Pide(sub'[s], mensajes'[i])}
       ELSE {s \in constantes[i] : sub'[s] = sub[s]}]

Accion ==
  \/ \E m \in Mensajes : Publicar(m)
  \/ \E i \in Indices : Manejar(i)
  \/ \E s \in Subs, f \in Registros : CrearSuscripcion(s, f)
  \/ \E q \in Peticiones, s \in Subs, c \in Cambios : LeerSuscripcion(q, s, c)
  \/ \E q \in Peticiones : GuardarSuscripcion(q)
  \/ \E s \in Subs : EliminarSuscripcion(s)
  \/ \E p \in Parques : EliminarParque(p)
  \/ Corte \/ Reconexion \/ Reinicio

Next == Accion /\ Recordar

Spec == Init /\ [][Next]_vars

\* Every await of a handler settles
FairSpec == Spec /\ \A i \in Indices : WF_vars(Manejar(i) /\ Recordar)

-----------------------------------------------------------------------------
(* Properties *)

\* Whoever is notified of an alert had, at some moment since it was published,
\* an active subscription that asked for it, however the handlers of several
\* alerts interleave with pauses, edits and removals.
NotificaVigente ==
  \A i \in Indices, s \in Subs : 
    <<i, s>> \in intentos => \E suya \in BOOLEAN : <<s, suya>> \in vigentes[i]

\* A handler that ends normally has tried every subscription that asked for
\* the alert and was not touched meanwhile, and the operators when it is red,
\* however many of the other recipients failed.
EntregaCompleta ==
  \A i \in Indices : pc[i] = "fin" =>
    /\ \A s \in constantes[i] :
         Atiende(sub[s].canal, mensajes[i]) /\ (sub[s].canal = "push" => ConVapid)
           => <<i, s>> \in intentos
    /\ mensajes[i].nivel = "rojo" /\ HayOperadores => <<i, Operadores>> \in intentos

\* Every handler ends and leaves nothing in flight, also when queries fail.
ManejoTermina ==
  \A i \in Indices :
    pc[i] \in EnCurso ~> pc[i] \notin EnCurso /\ lista[i] = {} /\ caducas[i] = {}

=============================================================================
