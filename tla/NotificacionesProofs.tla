------------------------ MODULE NotificacionesProofs ------------------------
(***************************************************************************)
(* Proofs about Notificaciones for any set of subscriptions, of requests   *)
(* that change them and of messages handled at once.                       *)
(***************************************************************************)
EXTENDS Notificaciones, TLAPS

\* s asked for message i at some moment, as the code reads it
Pidio(i, s) == \E suya \in BOOLEAN : <<s, suya>> \in vigentes[i]

\* The recipients a handler has read and not tried yet asked for its message
ListaVigente == \A i \in Indices, s \in Subs : s \in lista[i] => Pidio(i, s)

\* Whoever asks now is remembered
AlDia ==
  \A i \in Indices, s \in Subs :
    i <= Len(mensajes) /\ Corresponde(sub[s], mensajes[i]) => Pidio(i, s)

\* Nothing is handled before it is published
NadaAntes ==
  \A i \in Indices : i > Len(mensajes) =>
    /\ pc[i] = "nada"
    /\ \A s \in Subs : s \notin lista[i] /\ s \notin caducas[i] /\ <<i, s>> \notin intentos

\* The shape of the variables the argument needs
Forma ==
  /\ mensajes \in Seq(Mensaje)
  /\ pc \in [Indices -> EnCurso \cup {"nada", "ignorado", "perdido", "fin", "abortado"}]
  /\ DOMAIN lista = Indices /\ DOMAIN caducas = Indices

IInv == Forma /\ NadaAntes /\ AlDia /\ ListaVigente /\ NotificaVigente

-----------------------------------------------------------------------------
(* What an action may do to what the argument looks at *)

MensajesCrecen ==
  /\ mensajes' \in Seq(Mensaje) /\ Len(mensajes) <= Len(mensajes')
  /\ \A i \in Indices : i <= Len(mensajes) => mensajes'[i] = mensajes[i]

\* A recipient is put on a list only if it asks for the message then
ListaElegida ==
  \A i \in Indices, s \in Subs : s \in lista'[i] =>
    \/ s \in lista[i]
    \/ i <= Len(mensajes) /\ Corresponde(sub[s], mensajes[i])

\* Only who is on the list is tried
IntentoDeLista ==
  \A i \in Indices, s \in Subs :
    <<i, s>> \in intentos' => <<i, s>> \in intentos \/ s \in lista[i]

Paso == MensajesCrecen /\ ListaElegida /\ IntentoDeLista

LEMMA EligeCorresponde ==
  ASSUME NEW canal \in Canales, NEW m, NEW s \in Elige(canal, m)
  PROVE  s \in Subs /\ Corresponde(sub[s], m)
BY DEF Elige, Corresponde

\* What is under way belongs to a published message.
LEMMA Publicado ==
  ASSUME IInv, NEW i \in Indices
  PROVE  /\ pc[i] # "nada" => i <= Len(mensajes)
         /\ \A s \in Subs : s \in lista[i] \/ s \in caducas[i] => i <= Len(mensajes)
<1>1. i \in Nat /\ Len(mensajes) \in Nat
  BY NotificacionesAssumption DEF IInv, Forma, Indices, NotificacionesAssumption
<1>2. ~(i > Len(mensajes)) => i <= Len(mensajes)
  BY <1>1
<1>3. QED
  BY <1>2 DEF IInv, NadaAntes

\* The history of a published message only grows, and covers the new table.
LEMMA RecordarCrece ==
  ASSUME Recordar, mensajes' \in Seq(Mensaje), NEW i \in Indices, i <= Len(mensajes')
  PROVE  /\ \A s \in Subs : Pidio(i, s) => Pidio(i, s)'
         /\ \A s \in Subs : Corresponde(sub'[s], mensajes'[i]) => Pidio(i, s)'
<1>1. ~(i > Len(mensajes'))
  BY NotificacionesAssumption DEF Indices, NotificacionesAssumption
<1>2. vigentes'[i] = vigentes[i] \cup
        {<<s, Alcanza(sub'[s], mensajes'[i])>> :
           s \in {t \in Subs : Corresponde(sub'[t], mensajes'[i])}}
  BY <1>1 DEF Recordar
<1>3. ASSUME NEW s \in Subs, Corresponde(sub'[s], mensajes'[i])
      PROVE  Pidio(i, s)'
  <2>1. <<s, Alcanza(sub'[s], mensajes'[i])>> \in vigentes'[i]
    BY <1>2, <1>3
  <2>2. Alcanza(sub'[s], mensajes'[i]) \in BOOLEAN
    BY DEF Alcanza
  <2>3. QED
    BY <2>1, <2>2 DEF Pidio
<1>4. QED
  BY <1>2, <1>3 DEF Pidio

-----------------------------------------------------------------------------
(* One step *)

\* An action that leaves the messages and the handlers alone.
LEMMA SinManejo ==
  ASSUME IInv, UNCHANGED <<mensajes, manejo>>
  PROVE  Paso /\ Forma' /\ NadaAntes'
<1>1. /\ mensajes' = mensajes /\ pc' = pc /\ lista' = lista
      /\ caducas' = caducas /\ intentos' = intentos
  BY DEF manejo
<1>2. MensajesCrecen
  <2>1. mensajes \in Seq(Mensaje)
    BY DEF IInv, Forma
  <2>2. Len(mensajes) <= Len(mensajes')
    BY <1>1, <2>1
  <2>3. QED
    BY <1>1, <2>1, <2>2 DEF MensajesCrecen
<1>3. ListaElegida /\ IntentoDeLista
  BY <1>1 DEF ListaElegida, IntentoDeLista
<1>4. Forma' /\ NadaAntes'
  BY <1>1 DEF IInv, Forma, NadaAntes
<1>5. QED
  BY <1>2, <1>3, <1>4 DEF Paso

\* A handler step of message i that moves to a stage and chooses its list.
LEMMA PasoManejo ==
  ASSUME IInv, NEW i \in Indices, mensajes' = mensajes,
         pc[i] # "nada" \/ \E s \in Subs : s \in lista[i] \/ s \in caducas[i],
         \A k \in Indices \ {i} : pc'[k] = pc[k] /\ lista'[k] = lista[k]
                                   /\ caducas'[k] = caducas[k],
         pc'[i] \in EnCurso \cup {"ignorado", "perdido", "fin", "abortado", "nada"},
         DOMAIN pc' = Indices, DOMAIN lista' = Indices, DOMAIN caducas' = Indices,
         pc' = [k \in Indices |-> pc'[k]],
         \A s \in Subs : s \in lista'[i] =>
           s \in lista[i] \/ Corresponde(sub[s], mensajes[i]),
         \A k \in Indices, s \in Subs :
           <<k, s>> \in intentos' => <<k, s>> \in intentos \/ (k = i /\ s \in lista[i])
  PROVE  Paso /\ Forma' /\ NadaAntes'
<1>1. i <= Len(mensajes)
  BY Publicado
<1>2. MensajesCrecen
  <2>1. mensajes \in Seq(Mensaje)
    BY DEF IInv, Forma
  <2>2. Len(mensajes) <= Len(mensajes')
    BY <2>1
  <2>3. QED
    BY <2>1, <2>2 DEF MensajesCrecen
<1>3. ListaElegida
  BY <1>1 DEF ListaElegida
<1>4. IntentoDeLista
  BY DEF IntentoDeLista
<1>5. \A k \in Indices : pc'[k] \in EnCurso \cup {"nada", "ignorado", "perdido", "fin", "abortado"}
  BY DEF IInv, Forma
<1>6. Forma'
  BY <1>5 DEF IInv, Forma
<1>7. NadaAntes'
  <2> SUFFICES ASSUME NEW k \in Indices, k > Len(mensajes)
               PROVE  /\ pc'[k] = "nada"
                      /\ \A s \in Subs : /\ s \notin lista'[k] /\ s \notin caducas'[k]
                                          /\ <<k, s>> \notin intentos'
    BY DEF NadaAntes
  <2>1. k # i
    <3>1. k \in Nat /\ Len(mensajes) \in Nat
      BY NotificacionesAssumption DEF IInv, Forma, Indices, NotificacionesAssumption
    <3>2. QED
      BY <1>1, <3>1
  <2>2. QED
    BY <2>1 DEF IInv, NadaAntes
<1>8. QED
  BY <1>2, <1>3, <1>4, <1>6, <1>7 DEF Paso

\* Every action keeps the invariant, once the history follows it.
LEMMA PasoAccion ==
  ASSUME IInv, Accion
  PROVE  Paso /\ Forma' /\ NadaAntes'
<1>0. /\ mensajes \in Seq(Mensaje) /\ Len(mensajes) \in Nat
      /\ Mensajes \subseteq Mensaje
      /\ pc \in [Indices -> EnCurso \cup {"nada", "ignorado", "perdido", "fin", "abortado"}]
      /\ DOMAIN pc = Indices /\ DOMAIN lista = Indices /\ DOMAIN caducas = Indices
      /\ pc = [k \in Indices |-> pc[k]] /\ MaxMensajes \in Nat
  BY NotificacionesAssumption DEF IInv, Forma, NotificacionesAssumption
<1>1. ASSUME NEW m \in Mensajes, Publicar(m)
      PROVE  Paso /\ Forma' /\ NadaAntes'
  <2> DEFINE n == Len(mensajes) + 1
  <2>1. /\ mensajes' = Append(mensajes, m) /\ n \in Indices /\ m \in Mensaje
        /\ lista' = lista /\ caducas' = caducas /\ intentos' = intentos
    BY <1>0, <1>1 DEF Publicar, Indices
  <2>2. /\ mensajes' \in Seq(Mensaje) /\ Len(mensajes') = n
        /\ \A k \in Indices : k <= Len(mensajes) => mensajes'[k] = mensajes[k]
    BY <1>0, <2>1 DEF Indices
  <2>3. MensajesCrecen
    BY <1>0, <2>2 DEF MensajesCrecen
  <2>4. ListaElegida /\ IntentoDeLista
    BY <2>1 DEF ListaElegida, IntentoDeLista
  <2>5. /\ pc' \in [Indices -> EnCurso \cup {"nada", "ignorado", "perdido", "fin", "abortado"}]
        /\ \A k \in Indices : k # n => pc'[k] = pc[k]
    BY <1>0, <1>1, <2>1 DEF Publicar, EnCurso
  <2>6. Forma'
    BY <1>0, <2>1, <2>2, <2>5 DEF Forma
  <2>7. NadaAntes'
    <3> SUFFICES ASSUME NEW k \in Indices, k > Len(mensajes')
                 PROVE  /\ pc'[k] = "nada"
                        /\ \A s \in Subs : /\ s \notin lista'[k] /\ s \notin caducas'[k]
                                            /\ <<k, s>> \notin intentos'
      BY DEF NadaAntes
    <3>1. k > Len(mensajes) /\ k # n
      BY <1>0, <2>2 DEF Indices
    <3>2. QED
      BY <2>1, <2>5, <3>1 DEF IInv, NadaAntes
  <2>8. QED
    BY <2>3, <2>4, <2>6, <2>7 DEF Paso
<1>2. ASSUME NEW i \in Indices, Manejar(i)
      PROVE  Paso /\ Forma' /\ NadaAntes'
  <2>1. CASE LeerEmail(i)
    <3>1. \A s \in Subs : s \in lista'[i] => Corresponde(sub[s], mensajes[i])
      <4>1. \A s \in Subs : s \in lista'[i] => s \in Elige("email", mensajes[i])
        BY <1>0, <2>1, NotificacionesAssumption DEF LeerEmail, Pasar, NotificacionesAssumption
      <4>2. QED
        BY <4>1, EligeCorresponde DEF Canales
    <3>2. QED
      BY <1>0, <2>1, <3>1, PasoManejo DEF LeerEmail, Pasar, EnCurso
  <2>2. CASE EnviarEmail(i)
    BY <1>0, <2>2, PasoManejo DEF EnviarEmail, Pasar, EnCurso
  <2>3. CASE LeerPush(i)
    <3>1. \A s \in Subs : s \in lista'[i] => Corresponde(sub[s], mensajes[i])
      <4>1. \A s \in Subs : s \in lista'[i] => s \in Elige("push", mensajes[i])
        BY <1>0, <2>3 DEF LeerPush, Pasar
      <4>2. QED
        BY <4>1, EligeCorresponde DEF Canales
    <3>2. QED
      BY <1>0, <2>3, <3>1, PasoManejo DEF LeerPush, Pasar, EnCurso, TrasPush
  <2>4. CASE FinPush(i)
    BY <1>0, <2>4, PasoManejo DEF FinPush, Pasar, EnCurso, TrasPush
  <2>5. CASE LeerHooks(i)
    <3>1. \A s \in Subs : s \in lista'[i] => Corresponde(sub[s], mensajes[i])
      <4>1. \A s \in Subs : s \in lista'[i] => s \in Elige("webhook", mensajes[i])
        BY <1>0, <2>5 DEF LeerHooks, Pasar
      <4>2. QED
        BY <4>1, EligeCorresponde DEF Canales
    <3>2. QED
      BY <1>0, <2>5, <3>1, PasoManejo DEF LeerHooks, Pasar, EnCurso
  <2>6. CASE FinHooks(i)
    BY <1>0, <2>6, PasoManejo DEF FinHooks, Pasar, EnCurso
  <2>7. CASE LecturaFalla(i)
    BY <1>0, <2>7, PasoManejo DEF LecturaFalla, Pasar, EnCurso
  <2>8. ASSUME NEW s \in Subs, NEW caduca \in BOOLEAN, EnviarPush(i, s, caduca)
        PROVE  Paso /\ Forma' /\ NadaAntes'
    BY <1>0, <2>8, PasoManejo DEF EnviarPush
  <2>9. ASSUME NEW s \in Subs, Desactivar(i, s)
        PROVE  Paso /\ Forma' /\ NadaAntes'
    BY <1>0, <2>9, PasoManejo DEF Desactivar
  <2>10. ASSUME NEW s \in Subs, DesactivarFalla(i, s)
         PROVE  Paso /\ Forma' /\ NadaAntes'
    BY <1>0, <2>10, PasoManejo DEF DesactivarFalla
  <2>11. ASSUME NEW s \in Subs, PostearHook(i, s)
         PROVE  Paso /\ Forma' /\ NadaAntes'
    BY <1>0, <2>11, PasoManejo DEF PostearHook
  <2>12. QED
    BY <1>2, <2>1, <2>2, <2>3, <2>4, <2>5, <2>6, <2>7, <2>8, <2>9, <2>10, <2>11
    DEF Manejar
<1>3. CASE Reinicio
  <2>1. /\ mensajes' = mensajes /\ intentos' = intentos
        /\ pc' = [k \in Indices |-> IF pc[k] \in EnCurso THEN "perdido" ELSE pc[k]]
        /\ lista' = [k \in Indices |-> {}] /\ caducas' = [k \in Indices |-> {}]
    BY <1>3 DEF Reinicio
  <2>2. MensajesCrecen
    BY <1>0, <2>1 DEF MensajesCrecen
  <2>3. ListaElegida /\ IntentoDeLista
    BY <2>1 DEF ListaElegida, IntentoDeLista
  <2>4. Forma'
    BY <1>0, <2>1 DEF Forma
  <2>5. NadaAntes'
    BY <2>1 DEF IInv, NadaAntes, EnCurso
  <2>6. QED
    BY <2>2, <2>3, <2>4, <2>5 DEF Paso
<1>4. ASSUME UNCHANGED <<mensajes, manejo>>
      PROVE  Paso /\ Forma' /\ NadaAntes'
  BY <1>4, SinManejo
<1>5. ASSUME NEW s \in Subs, EliminarSuscripcion(s)
      PROVE  UNCHANGED <<mensajes, manejo>>
  BY <1>5 DEF EliminarSuscripcion, manejo
<1>6. ASSUME NEW s \in Subs, NEW f \in Registros, CrearSuscripcion(s, f)
      PROVE  UNCHANGED <<mensajes, manejo>>
  BY <1>6 DEF CrearSuscripcion, manejo
<1>7. ASSUME NEW q \in Peticiones, NEW s \in Subs, NEW c \in Cambios,
             LeerSuscripcion(q, s, c)
      PROVE  UNCHANGED <<mensajes, manejo>>
  BY <1>7 DEF LeerSuscripcion, manejo
<1>8. ASSUME NEW q \in Peticiones, GuardarSuscripcion(q)
      PROVE  UNCHANGED <<mensajes, manejo>>
  BY <1>8 DEF GuardarSuscripcion, manejo
<1>9. ASSUME NEW p \in Parques, EliminarParque(p)
      PROVE  UNCHANGED <<mensajes, manejo>>
  BY <1>9 DEF EliminarParque, manejo
<1>10. ASSUME Corte \/ Reconexion
       PROVE  UNCHANGED <<mensajes, manejo>>
  BY <1>10 DEF Corte, Reconexion, manejo
<1>11. QED
  BY <1>1, <1>2, <1>3, <1>4, <1>5, <1>6, <1>7, <1>8, <1>9, <1>10 DEF Accion

LEMMA IInvPaso ==
  ASSUME IInv, Accion, Recordar
  PROVE  IInv'
<1>1. Paso /\ Forma' /\ NadaAntes'
  BY PasoAccion
<1>2. MensajesCrecen /\ ListaElegida /\ IntentoDeLista /\ mensajes' \in Seq(Mensaje)
  BY <1>1 DEF Paso, MensajesCrecen
<1>3. \A i \in Indices : i <= Len(mensajes) => i <= Len(mensajes')
  <2>1. Indices \subseteq Nat /\ Len(mensajes) \in Nat /\ Len(mensajes') \in Nat
    BY <1>2, NotificacionesAssumption DEF IInv, Forma, Indices, NotificacionesAssumption
  <2>2. Len(mensajes) <= Len(mensajes')
    BY <1>2 DEF MensajesCrecen
  <2>3. QED
    BY <2>1, <2>2
<1>4. AlDia'
  BY <1>2, RecordarCrece DEF AlDia
<1>5. \A i \in Indices, s \in Subs :
        i <= Len(mensajes) /\ Pidio(i, s) => Pidio(i, s)'
  BY <1>2, <1>3, RecordarCrece
<1>6. \A i \in Indices, s \in Subs : s \in lista[i] => Pidio(i, s)'
  BY <1>5, Publicado DEF IInv, ListaVigente
<1>7. ListaVigente'
  <2> SUFFICES ASSUME NEW i \in Indices, NEW s \in Subs, s \in lista'[i]
               PROVE  Pidio(i, s)'
    BY DEF ListaVigente
  <2>1. CASE s \in lista[i]
    BY <1>6, <2>1
  <2>2. CASE i <= Len(mensajes) /\ Corresponde(sub[s], mensajes[i])
    BY <1>5, <2>2 DEF IInv, AlDia
  <2>3. QED
    BY <1>2, <2>1, <2>2 DEF ListaElegida
<1>8. NotificaVigente'
  <2> SUFFICES ASSUME NEW i \in Indices, NEW s \in Subs, <<i, s>> \in intentos'
               PROVE  Pidio(i, s)'
    BY DEF NotificaVigente, Pidio
  <2>1. CASE s \in lista[i]
    BY <1>6, <2>1
  <2>2. CASE <<i, s>> \in intentos
    <3>1. i <= Len(mensajes)
      <4>1. i \in Nat /\ Len(mensajes) \in Nat
        BY NotificacionesAssumption DEF IInv, Forma, Indices, NotificacionesAssumption
      <4>2. ~(i > Len(mensajes))
        BY <2>2 DEF IInv, NadaAntes
      <4>3. QED
        BY <4>1, <4>2
    <3>2. Pidio(i, s)
      BY <2>2 DEF IInv, NotificaVigente, Pidio
    <3>3. QED
      BY <1>5, <3>1, <3>2
  <2>3. QED
    BY <1>2, <2>1, <2>2 DEF IntentoDeLista
<1>9. QED
  BY <1>1, <1>4, <1>7, <1>8 DEF IInv

LEMMA InicioVigente ==
  ASSUME Init
  PROVE  IInv
<1>1. \A i \in Indices : i \in Nat /\ i > 0
  BY NotificacionesAssumption DEF Indices, NotificacionesAssumption
<1>2. Forma /\ NadaAntes
  BY DEF Init, Forma, NadaAntes
<1>3. AlDia
  BY <1>1 DEF Init, AlDia
<1>4. ListaVigente /\ NotificaVigente
  BY DEF Init, ListaVigente, NotificaVigente
<1>5. QED
  BY <1>2, <1>3, <1>4 DEF IInv

-----------------------------------------------------------------------------
\* The theorem: however the handlers of the messages, the requests, the cuts
\* and the restarts interleave, AlertListenerService and PushService notify
\* only a subscription that at some moment since the alert was published was
\* active and asked for its level.
THEOREM SoloVigentes == Spec => []NotificaVigente
<1>1. Init => IInv
  BY InicioVigente
<1>2. IInv /\ [Next]_vars => IInv'
  <2> SUFFICES ASSUME IInv, [Next]_vars PROVE IInv'
    OBVIOUS
  <2>1. CASE Next
    BY <2>1, IInvPaso DEF Next
  <2>2. CASE UNCHANGED vars
    BY <2>2 DEF vars, IInv, Forma, NadaAntes, AlDia, ListaVigente, NotificaVigente, Pidio
  <2>3. QED
    BY <2>1, <2>2
<1>3. IInv => NotificaVigente
  BY DEF IInv
<1>4. QED
  BY <1>1, <1>2, <1>3, PTL DEF Spec

-----------------------------------------------------------------------------
(* Types *)

LEMMA TiposConstantes ==
  /\ Registros \subseteq Registro /\ Mensajes \subseteq Mensaje
  /\ MaxMensajes \in Nat
  /\ \A f \in Registro, c \in Cambios : Fusionar(f, c) \in Registro
  /\ Indices \subseteq Nat
BY NotificacionesAssumption DEF NotificacionesAssumption, Indices

\* A subscription that is turned off is still a row.
LEMMA ApagadaEsRegistro ==
  ASSUME NEW f \in Registro
  PROVE  [f EXCEPT !.activa = FALSE] \in Registro
BY DEF Registro

\* The state of a handler keeps its types.
TypeManejo ==
  /\ pc \in [Indices -> EnCurso \cup {"nada", "ignorado", "perdido", "fin", "abortado"}]
  /\ lista \in [Indices -> SUBSET (Subs \cup {Operadores})]
  /\ caducas \in [Indices -> SUBSET Subs]
  /\ intentos \in SUBSET (Indices \X (Subs \cup {Operadores}))

LEMMA ManejarTipado ==
  ASSUME TypeOK, NEW i \in Indices, Manejar(i)
  PROVE  /\ TypeManejo'
         /\ sub' \in [Subs -> Registro \cup {SinFila}]
         /\ UNCHANGED <<parques, conectado, mensajes, peticion>>
<1> USE DEF TypeOK, TypeManejo
<1>1. \A canal, m : Elige(canal, m) \subseteq Subs
  BY DEF Elige
<1>2. TrasPush(i) \in EnCurso \cup {"fin"}
  BY DEF TrasPush, EnCurso
<1>3. CASE LeerEmail(i)
  <2> DEFINE l == Elige("email", mensajes[i])
                    \cup (IF mensajes[i].nivel = "rojo" /\ HayOperadores
                            THEN {Operadores} ELSE {})
  <2>1. l \subseteq Subs \cup {Operadores}
    BY <1>1
  <2>2. Pasar(i, "fin", {}) \/ Pasar(i, "push", l) \/ Pasar(i, "enviar", l)
    BY <1>3 DEF LeerEmail
  <2>3. lista' \in [Indices -> SUBSET (Subs \cup {Operadores})]
    BY <2>1, <2>2 DEF Pasar
  <2>4. pc' \in [Indices -> EnCurso \cup {"nada", "ignorado", "perdido", "fin", "abortado"}]
    BY <2>2 DEF Pasar, EnCurso
  <2>5. QED
    BY <1>3, <2>3, <2>4 DEF LeerEmail, tabla
<1>4. CASE EnviarEmail(i)
  BY <1>4 DEF EnviarEmail, Pasar, EnCurso, tabla
<1>5. CASE LeerPush(i)
  <2>1. Pasar(i, "empujar", Elige("push", mensajes[i])) \/ Pasar(i, TrasPush(i), {})
    BY <1>5 DEF LeerPush
  <2>2. lista' \in [Indices -> SUBSET (Subs \cup {Operadores})]
    BY <1>1, <2>1 DEF Pasar
  <2>3. pc' \in [Indices -> EnCurso \cup {"nada", "ignorado", "perdido", "fin", "abortado"}]
    BY <1>2, <2>1 DEF Pasar, EnCurso
  <2>4. QED
    BY <1>5, <2>2, <2>3 DEF LeerPush, tabla
<1>6. CASE FinPush(i)
  BY <1>2, <1>6 DEF FinPush, Pasar, tabla
<1>7. CASE LeerHooks(i)
  <2>1. lista' \in [Indices -> SUBSET (Subs \cup {Operadores})]
    BY <1>1, <1>7 DEF LeerHooks, Pasar
  <2>2. QED
    BY <1>7, <2>1 DEF LeerHooks, Pasar, EnCurso, tabla
<1>8. CASE FinHooks(i)
  BY <1>8 DEF FinHooks, Pasar, tabla
<1>9. CASE LecturaFalla(i)
  BY <1>9 DEF LecturaFalla, Pasar, tabla
<1>10. ASSUME NEW s \in Subs, NEW caduca \in BOOLEAN, EnviarPush(i, s, caduca)
       PROVE  /\ TypeManejo'
              /\ UNCHANGED <<sub, parques, conectado, mensajes, peticion>>
  BY <1>10 DEF EnviarPush, tabla
<1>11. ASSUME NEW s \in Subs, Desactivar(i, s)
       PROVE  /\ TypeManejo'
              /\ sub' \in [Subs -> Registro \cup {SinFila}]
              /\ UNCHANGED <<parques, conectado, mensajes, peticion>>
  <2>1. sub[s] # SinFila => [sub[s] EXCEPT !.activa = FALSE] \in Registro
    BY ApagadaEsRegistro
  <2>2. sub' \in [Subs -> Registro \cup {SinFila}]
    <3> DEFINE f == IF sub[s] = SinFila THEN sub[s] ELSE [sub[s] EXCEPT !.activa = FALSE]
    <3>1. f \in Registro \cup {SinFila}
      BY <2>1
    <3>2. sub' = [sub EXCEPT ![s] = f]
      BY <1>11 DEF Desactivar
    <3> HIDE DEF f
    <3>3. QED
      BY <3>1, <3>2
  <2>3. caducas' \in [Indices -> SUBSET Subs]
    BY <1>11 DEF Desactivar
  <2>4. QED
    BY <1>11, <2>2, <2>3 DEF Desactivar
<1>12. ASSUME NEW s \in Subs, DesactivarFalla(i, s)
       PROVE  /\ TypeManejo'
              /\ UNCHANGED <<sub, parques, conectado, mensajes, peticion>>
  BY <1>12 DEF DesactivarFalla, tabla
<1>13. ASSUME NEW s \in Subs, PostearHook(i, s)
       PROVE  /\ TypeManejo'
              /\ UNCHANGED <<sub, parques, conectado, mensajes, peticion>>
  BY <1>13 DEF PostearHook, tabla
<1>14. QED
  BY <1>3, <1>4, <1>5, <1>6, <1>7, <1>8, <1>9, <1>10, <1>11, <1>12, <1>13 DEF Manejar

LEMMA AccionTipada ==
  ASSUME TypeOK, Accion
  PROVE  /\ TypeManejo'
         /\ sub' \in [Subs -> Registro \cup {SinFila}]
         /\ parques' \in SUBSET Parques /\ conectado' \in BOOLEAN
         /\ mensajes' \in Seq(Mensaje) /\ Len(mensajes') <= MaxMensajes
         /\ peticion' \in [Peticiones -> [id : Subs, fila : Registro] \cup {Ociosa}]
<1> USE DEF TypeOK, TypeManejo
<1>1. ASSUME NEW m \in Mensajes, Publicar(m)
      PROVE  /\ TypeManejo'
             /\ mensajes' \in Seq(Mensaje) /\ Len(mensajes') <= MaxMensajes
             /\ UNCHANGED <<sub, parques, conectado, peticion>>
  <2>1. m \in Mensaje
    BY TiposConstantes
  <2>2. mensajes' \in Seq(Mensaje) /\ Len(mensajes') = Len(mensajes) + 1
    BY <1>1, <2>1 DEF Publicar
  <2>3. Len(mensajes') <= MaxMensajes
    BY <1>1, <2>2, TiposConstantes DEF Publicar
  <2>4. TypeManejo'
    BY <1>1 DEF Publicar, EnCurso
  <2>5. QED
    BY <1>1, <2>2, <2>3, <2>4 DEF Publicar, tabla
<1>2. ASSUME NEW s \in Subs, NEW f \in Registros, CrearSuscripcion(s, f)
      PROVE  /\ sub' \in [Subs -> Registro \cup {SinFila}]
             /\ UNCHANGED <<manejo, parques, conectado, mensajes, peticion>>
  BY <1>2, TiposConstantes DEF CrearSuscripcion
<1>3. ASSUME NEW q \in Peticiones, NEW s \in Subs, NEW c \in Cambios,
             LeerSuscripcion(q, s, c)
      PROVE  /\ peticion' \in [Peticiones -> [id : Subs, fila : Registro] \cup {Ociosa}]
             /\ UNCHANGED <<manejo, sub, parques, conectado, mensajes>>
  <2> DEFINE copia == [id |-> s, fila |-> Fusionar(sub[s], c)]
  <2>1. sub[s] \in Registro
    BY <1>3 DEF LeerSuscripcion
  <2>2. Fusionar(sub[s], c) \in Registro
    BY <2>1, TiposConstantes
  <2>3. copia \in [id : Subs, fila : Registro]
    BY <2>2
  <2>4. peticion' = [peticion EXCEPT ![q] = copia]
    BY <1>3 DEF LeerSuscripcion
  <2> HIDE DEF copia
  <2>5. peticion' \in [Peticiones -> [id : Subs, fila : Registro] \cup {Ociosa}]
    BY <2>3, <2>4
  <2>6. QED
    BY <1>3, <2>5 DEF LeerSuscripcion, tabla
<1>4. ASSUME NEW q \in Peticiones, GuardarSuscripcion(q)
      PROVE  /\ sub' \in [Subs -> Registro \cup {SinFila}]
             /\ peticion' \in [Peticiones -> [id : Subs, fila : Registro] \cup {Ociosa}]
             /\ UNCHANGED <<manejo, parques, conectado, mensajes>>
  <2>1. peticion[q] \in [id : Subs, fila : Registro]
    BY <1>4 DEF GuardarSuscripcion
  <2>2. sub' = [sub EXCEPT ![peticion[q].id] = peticion[q].fila] \/ sub' = sub
    BY <1>4 DEF GuardarSuscripcion
  <2>3. sub' \in [Subs -> Registro \cup {SinFila}]
    BY <2>1, <2>2
  <2>4. peticion' \in [Peticiones -> [id : Subs, fila : Registro] \cup {Ociosa}]
    BY <1>4 DEF GuardarSuscripcion
  <2>5. QED
    BY <1>4, <2>3, <2>4 DEF GuardarSuscripcion
<1>5. ASSUME NEW s \in Subs, EliminarSuscripcion(s)
      PROVE  /\ sub' \in [Subs -> Registro \cup {SinFila}]
             /\ UNCHANGED <<manejo, parques, conectado, mensajes, peticion>>
  BY <1>5 DEF EliminarSuscripcion
<1>6. ASSUME NEW p \in Parques, EliminarParque(p)
      PROVE  /\ sub' \in [Subs -> Registro \cup {SinFila}]
             /\ parques' \in SUBSET Parques
             /\ UNCHANGED <<manejo, conectado, mensajes, peticion>>
  BY <1>6 DEF EliminarParque
<1>7. ASSUME Corte \/ Reconexion
      PROVE  /\ conectado' \in BOOLEAN
             /\ UNCHANGED <<manejo, sub, parques, mensajes, peticion>>
  BY <1>7 DEF Corte, Reconexion, tabla
<1>8. CASE Reinicio
  BY <1>8 DEF Reinicio, tabla, EnCurso
<1>9. QED
  BY <1>1, <1>2, <1>3, <1>4, <1>5, <1>6, <1>7, <1>8, ManejarTipado DEF Accion, manejo

LEMMA RecordarTipado ==
  ASSUME TypeOK, Recordar
  PROVE  /\ vigentes' \in [Indices -> SUBSET (Subs \X BOOLEAN)]
         /\ constantes' \in [Indices -> SUBSET Subs]
<1>1. \A s, m : Alcanza(s, m) \in BOOLEAN
  BY DEF Alcanza
<1>2. constantes' \in [Indices -> SUBSET Subs]
  BY DEF TypeOK, Recordar
<1>3. vigentes' \in [Indices -> SUBSET (Subs \X BOOLEAN)]
  BY <1>1 DEF TypeOK, Recordar
<1>4. QED
  BY <1>2, <1>3

\* The types of the table, of the handlers, of the requests and of the history
\* are kept, whatever the subscriptions, their changes and the messages.
THEOREM TiposDeNotificaciones == Spec => []TypeOK
<1>1. Init => TypeOK
  BY TiposConstantes DEF Init, TypeOK, EnCurso
<1>2. TypeOK /\ [Next]_vars => TypeOK'
  <2> SUFFICES ASSUME TypeOK, [Next]_vars PROVE TypeOK'
    OBVIOUS
  <2>1. CASE Next
    BY <2>1, AccionTipada, RecordarTipado DEF Next, TypeOK, TypeManejo
  <2>2. CASE UNCHANGED vars
    BY <2>2 DEF vars, TypeOK
  <2>3. QED
    BY <2>1, <2>2
<1>3. QED
  BY <1>1, <1>2, PTL DEF Spec

-----------------------------------------------------------------------------
(* Complete delivery *)

\* The await in which the recipients of a channel are tried, and those after it
Etapa == [email |-> "enviar", push |-> "empujar", webhook |-> "postear"]
Despues == [email   |-> {"push", "empujar", "hooks", "postear", "fin"},
            push    |-> {"hooks", "postear", "fin"},
            webhook |-> {"fin"}]

\* d has its turn in the stage of its channel and has been tried after it
Cumplido(i, d, canal) ==
  /\ pc[i] = Etapa[canal] => d \in lista[i] \/ <<i, d>> \in intentos
  /\ pc[i] \in Despues[canal] => <<i, d>> \in intentos

NivelDe(canal, m) == IF canal = "webhook" THEN m.nivel = "rojo" ELSE m.nivel # "verde"

\* The stage of the channel would read d now and send it message i
Destinatario(i, d, canal) ==
  /\ NivelDe(canal, mensajes[i])
  /\ canal = "push" => ConVapid
  /\ \/ d \in Elige(canal, mensajes[i])
     \/ d = Operadores /\ canal = "email" /\ HayOperadores /\ mensajes[i].nivel = "rojo"

\* Those that have not changed since a message still ask for it
Constantes ==
  \A i \in Indices : \A s \in constantes[i] :
    s \in Subs /\ i <= Len(mensajes) /\ Pide(sub[s], mensajes[i])

\* The handler of a message owes nothing to them, nor to the operators
Cumplidos ==
  \A i \in Indices : i <= Len(mensajes) =>
    /\ \A canal \in Canales, s \in constantes[i] :
         Destinatario(i, s, canal) => Cumplido(i, s, canal)
    /\ Destinatario(i, Operadores, "email") => Cumplido(i, Operadores, "email")

EntregaInv == TypeOK /\ Constantes /\ Cumplidos

\* A step that moves no handler between awaits keeps what was fulfilled, when
\* nobody leaves a list without being tried.
LEMMA SinPerder ==
  ASSUME NEW i, NEW d, NEW canal, Cumplido(i, d, canal), pc'[i] = pc[i],
         intentos \subseteq intentos',
         d \in lista[i] => d \in lista'[i] \/ <<i, d>> \in intentos'
  PROVE  Cumplido(i, d, canal)'
BY DEF Cumplido

\* A handler goes past the stage of a channel with its recipients tried.
LEMMA ManejoCumple ==
  ASSUME TypeOK, NEW i \in Indices, NEW canal \in Canales, NEW d,
         Destinatario(i, d, canal), Cumplido(i, d, canal), Manejar(i)
  PROVE  Cumplido(i, d, canal)'
<1> USE DEF Etapa, Despues, Canales
<1>1. CASE LeerEmail(i)
  <2>1. CASE canal = "email"
    <3>1. mensajes[i].nivel # "verde"
      BY <2>1 DEF Destinatario, NivelDe
    <3>2. d \in Elige("email", mensajes[i])
                  \cup (IF mensajes[i].nivel = "rojo" /\ HayOperadores
                          THEN {Operadores} ELSE {})
      BY <2>1 DEF Destinatario
    <3>3. pc'[i] = "enviar" /\ d \in lista'[i]
      BY <1>1, <3>1, <3>2 DEF LeerEmail, Pasar, TypeOK
    <3>4. QED
      BY <2>1, <3>3 DEF Cumplido
  <2>2. CASE canal # "email"
    <3>1. mensajes[i].nivel # "verde"
      BY DEF Destinatario, NivelDe
    <3>2. pc'[i] \in {"enviar", "push"}
      BY <1>1, <3>1 DEF LeerEmail, Pasar, TypeOK
    <3>3. QED
      BY <2>2, <3>2 DEF Cumplido
  <2>3. QED
    BY <2>1, <2>2
<1>2. CASE EnviarEmail(i)
  <2>1. pc[i] = "enviar" /\ pc'[i] = "push" /\ intentos' = intentos \cup ({i} \X lista[i])
    BY <1>2 DEF EnviarEmail, Pasar, TypeOK
  <2>2. canal = "email" => <<i, d>> \in intentos'
    BY <2>1 DEF Cumplido
  <2>3. QED
    BY <2>1, <2>2 DEF Cumplido
<1>3. CASE LeerPush(i)
  <2>1. pc[i] = "push" /\ intentos' = intentos
    BY <1>3 DEF LeerPush
  <2>2. pc'[i] \in {"empujar", "hooks", "fin"}
    BY <1>3 DEF LeerPush, Pasar, TrasPush, TypeOK
  <2>3. CASE canal = "email"
    BY <2>1, <2>2, <2>3 DEF Cumplido
  <2>4. CASE canal = "push"
    <3>1. d \in Elige("push", mensajes[i]) /\ ConVapid
      BY <2>4 DEF Destinatario
    <3>2. pc'[i] = "empujar" /\ d \in lista'[i]
      BY <1>3, <3>1 DEF LeerPush, Pasar, TypeOK
    <3>3. QED
      BY <2>4, <3>2 DEF Cumplido
  <2>5. CASE canal = "webhook"
    <3>1. mensajes[i].nivel = "rojo"
      BY <2>5 DEF Destinatario, NivelDe
    <3>2. pc'[i] \in {"empujar", "hooks"}
      BY <1>3, <3>1 DEF LeerPush, Pasar, TrasPush, TypeOK
    <3>3. QED
      BY <2>5, <3>2 DEF Cumplido
  <2>6. QED
    BY <2>3, <2>4, <2>5
<1>4. CASE FinPush(i)
  <2>1. /\ pc[i] = "empujar" /\ lista[i] = {} /\ intentos' = intentos
        /\ pc'[i] = TrasPush(i)
    BY <1>4 DEF FinPush, Pasar, TypeOK
  <2>2. CASE canal = "webhook"
    <3>1. mensajes[i].nivel = "rojo"
      BY <2>2 DEF Destinatario, NivelDe
    <3>2. QED
      BY <2>1, <2>2, <3>1 DEF Cumplido, TrasPush
  <2>3. CASE canal # "webhook"
    <3>1. <<i, d>> \in intentos
      BY <2>1, <2>3 DEF Cumplido
    <3>2. QED
      BY <2>1, <3>1 DEF Cumplido
  <2>4. QED
    BY <2>2, <2>3
<1>5. CASE LeerHooks(i)
  <2>1. /\ pc[i] = "hooks" /\ pc'[i] = "postear" /\ intentos' = intentos
        /\ lista'[i] = Elige("webhook", mensajes[i])
    BY <1>5 DEF LeerHooks, Pasar, TypeOK
  <2>2. CASE canal = "webhook"
    BY <2>1, <2>2 DEF Destinatario, Cumplido
  <2>3. CASE canal # "webhook"
    BY <2>1, <2>3 DEF Cumplido
  <2>4. QED
    BY <2>2, <2>3
<1>6. CASE FinHooks(i)
  <2>1. /\ pc[i] = "postear" /\ lista[i] = {} /\ pc'[i] = "fin" /\ intentos' = intentos
    BY <1>6 DEF FinHooks, Pasar, TypeOK
  <2>2. QED
    BY <2>1 DEF Cumplido
<1>7. CASE LecturaFalla(i)
  <2>1. pc'[i] = "abortado"
    BY <1>7 DEF LecturaFalla, Pasar, TypeOK
  <2>2. QED
    BY <2>1 DEF Cumplido
<1>8. ASSUME NEW s \in Subs, NEW caduca \in BOOLEAN, EnviarPush(i, s, caduca)
      PROVE  Cumplido(i, d, canal)'
  <2>1. /\ pc' = pc /\ lista'[i] = lista[i] \ {s} /\ intentos' = intentos \cup {<<i, s>>}
    BY <1>8 DEF EnviarPush, TypeOK
  <2>2. QED
    BY <2>1, SinPerder
<1>9. ASSUME NEW s \in Subs, Desactivar(i, s)
      PROVE  Cumplido(i, d, canal)'
  <2>1. pc' = pc /\ lista' = lista /\ intentos' = intentos
    BY <1>9 DEF Desactivar
  <2>2. QED
    BY <2>1, SinPerder
<1>10. ASSUME NEW s \in Subs, DesactivarFalla(i, s)
       PROVE  Cumplido(i, d, canal)'
  <2>1. pc'[i] = "abortado"
    BY <1>10 DEF DesactivarFalla, TypeOK
  <2>2. QED
    BY <2>1 DEF Cumplido
<1>11. ASSUME NEW s \in Subs, PostearHook(i, s)
       PROVE  Cumplido(i, d, canal)'
  <2>1. /\ pc' = pc /\ lista'[i] = lista[i] \ {s} /\ intentos' = intentos \cup {<<i, s>>}
    BY <1>11 DEF PostearHook, TypeOK
  <2>2. QED
    BY <2>1, SinPerder
<1>12. QED
  BY <1>1, <1>2, <1>3, <1>4, <1>5, <1>6, <1>7, <1>8, <1>9, <1>10, <1>11 DEF Manejar

\* The handler of another message, and what is not a handler, leave this one be.
LEMMA AjenoCumple ==
  ASSUME TypeOK, NEW i \in Indices, NEW k \in Indices, i # k, Manejar(k)
  PROVE  /\ pc'[i] = pc[i] /\ lista'[i] = lista[i] /\ intentos \subseteq intentos'
<1> USE DEF TypeOK, Pasar
<1>1. ASSUME NEW s \in Subs, NEW caduca \in BOOLEAN, EnviarPush(k, s, caduca)
      PROVE  pc'[i] = pc[i] /\ lista'[i] = lista[i] /\ intentos \subseteq intentos'
  BY <1>1 DEF EnviarPush
<1>2. ASSUME NEW s \in Subs, Desactivar(k, s) \/ DesactivarFalla(k, s) \/ PostearHook(k, s)
      PROVE  pc'[i] = pc[i] /\ lista'[i] = lista[i] /\ intentos \subseteq intentos'
  BY <1>2 DEF Desactivar, DesactivarFalla, PostearHook
<1>3. CASE LeerEmail(k)
  BY <1>3 DEF LeerEmail
<1>4. CASE EnviarEmail(k) \/ LeerHooks(k) \/ FinHooks(k) \/ LecturaFalla(k)
  BY <1>4 DEF EnviarEmail, LeerHooks, FinHooks, LecturaFalla
<1>5. CASE LeerPush(k) \/ FinPush(k)
  BY <1>5 DEF LeerPush, FinPush
<1>6. QED
  BY <1>1, <1>2, <1>3, <1>4, <1>5 DEF Manejar

\* Every action keeps what a published message has fulfilled.
LEMMA AccionCumple ==
  ASSUME TypeOK, Accion, NEW i \in Indices, i <= Len(mensajes),
         NEW canal \in Canales, NEW d,
         Destinatario(i, d, canal), Cumplido(i, d, canal)
  PROVE  Cumplido(i, d, canal)'
<1>1. ASSUME NEW m \in Mensajes, Publicar(m)
      PROVE  Cumplido(i, d, canal)'
  <2>1. i # Len(mensajes) + 1
    BY TiposConstantes DEF TypeOK
  <2>2. pc'[i] = pc[i] /\ lista' = lista /\ intentos' = intentos
    BY <1>1, <2>1 DEF Publicar, TypeOK
  <2>3. QED
    BY <2>2, SinPerder
<1>2. ASSUME NEW k \in Indices, Manejar(k)
      PROVE  Cumplido(i, d, canal)'
  <2>1. CASE k = i
    BY <1>2, <2>1, ManejoCumple
  <2>2. CASE k # i
    BY <1>2, <2>2, AjenoCumple, SinPerder
  <2>3. QED
    BY <2>1, <2>2
<1>3. CASE Reinicio
  <2>1. /\ intentos' = intentos
        /\ pc'[i] = IF pc[i] \in EnCurso THEN "perdido" ELSE pc[i]
    BY <1>3 DEF Reinicio
  <2>2. CASE pc[i] \in EnCurso
    BY <2>1, <2>2 DEF Cumplido, Etapa, Despues, Canales
  <2>3. CASE pc[i] \notin EnCurso
    <3>1. pc[i] # Etapa[canal]
      BY <2>3 DEF Etapa, Canales, EnCurso
    <3>2. QED
      BY <2>1, <2>3, <3>1 DEF Cumplido
  <2>4. QED
    BY <2>2, <2>3
<1>4. CASE UNCHANGED manejo
  <2>1. pc' = pc /\ lista' = lista /\ intentos' = intentos
    BY <1>4 DEF manejo
  <2>2. QED
    BY <2>1, SinPerder
<1>5. Reinicio \/ UNCHANGED manejo \/ (\E m \in Mensajes : Publicar(m))
               \/ (\E k \in Indices : Manejar(k))
  BY DEF Accion, CrearSuscripcion, LeerSuscripcion, GuardarSuscripcion,
         EliminarSuscripcion, EliminarParque, Corte, Reconexion
<1>6. QED
  BY <1>1, <1>2, <1>3, <1>4, <1>5

\* What an action does to the messages, and the await of one just published.
LEMMA AccionPublica ==
  ASSUME TypeOK, Accion
  PROVE  /\ Len(mensajes) <= Len(mensajes')
         /\ \A i \in Indices : i <= Len(mensajes) => mensajes'[i] = mensajes[i]
         /\ \A i \in Indices : i > Len(mensajes) /\ i <= Len(mensajes') =>
              pc'[i] \in {"email", "ignorado", "perdido"}
<1>1. ASSUME NEW m \in Mensajes, Publicar(m)
      PROVE  /\ Len(mensajes) <= Len(mensajes')
             /\ \A i \in Indices : i <= Len(mensajes) => mensajes'[i] = mensajes[i]
             /\ \A i \in Indices : i > Len(mensajes) /\ i <= Len(mensajes') =>
                  pc'[i] \in {"email", "ignorado", "perdido"}
  <2>1. m \in Mensaje /\ mensajes \in Seq(Mensaje) /\ mensajes' = Append(mensajes, m)
    BY <1>1, TiposConstantes DEF TypeOK, Publicar
  <2>2. /\ Len(mensajes') = Len(mensajes) + 1 /\ Len(mensajes) \in Nat
        /\ \A i \in Indices : i <= Len(mensajes) => mensajes'[i] = mensajes[i]
    BY <2>1, TiposConstantes DEF Indices
  <2>3. ASSUME NEW i \in Indices, i > Len(mensajes), i <= Len(mensajes')
        PROVE  pc'[i] \in {"email", "ignorado", "perdido"}
    <3>1. i = Len(mensajes) + 1
      BY <2>2, <2>3, TiposConstantes
    <3>2. QED
      BY <1>1, <3>1 DEF Publicar, TypeOK
  <2>4. QED
    BY <2>2, <2>3
<1>2. CASE mensajes' = mensajes
  BY <1>2, TiposConstantes DEF TypeOK
<1>3. ASSUME NEW i \in Indices, Manejar(i)
      PROVE  mensajes' = mensajes
  BY <1>3, ManejarTipado
<1>4. QED
  BY <1>1, <1>2, <1>3 DEF Accion, CrearSuscripcion, LeerSuscripcion, GuardarSuscripcion,
         EliminarSuscripcion, EliminarParque, Corte, Reconexion, Reinicio

LEMMA EntregaPaso ==
  ASSUME EntregaInv, Accion, Recordar
  PROVE  EntregaInv'
<1>1. TypeOK'
  BY AccionTipada, RecordarTipado DEF EntregaInv, TypeOK, TypeManejo
<1>2. \A i \in Indices : /\ i > Len(mensajes) \/ i <= Len(mensajes)
                         /\ i > Len(mensajes') \/ i <= Len(mensajes')
  BY <1>1, TiposConstantes DEF EntregaInv, TypeOK
<1>3. ASSUME NEW i \in Indices, NEW s \in constantes'[i]
      PROVE  /\ s \in Subs /\ i <= Len(mensajes') /\ Pide(sub'[s], mensajes'[i])
             /\ i <= Len(mensajes) => s \in constantes[i] /\ sub'[s] = sub[s]
  <2>1. i <= Len(mensajes')
    BY <1>2, <1>3 DEF Recordar
  <2>2. CASE i > Len(mensajes)
    <3>1. ~(i > Len(mensajes')) /\ ~(i <= Len(mensajes))
      BY <1>1, <2>1, <2>2, TiposConstantes DEF EntregaInv, TypeOK
    <3>2. constantes'[i] = {t \in Subs : Pide(sub'[t], mensajes'[i])}
      BY <2>2, <3>1 DEF Recordar
    <3>3. QED
      BY <1>3, <2>1, <3>1, <3>2
  <2>3. CASE i <= Len(mensajes)
    <3>1. s \in constantes[i] /\ sub'[s] = sub[s]
      <4>1. ~(i > Len(mensajes)) /\ ~(i > Len(mensajes'))
        BY <1>1, <1>2, <2>1, <2>3, TiposConstantes DEF TypeOK
      <4>2. constantes'[i] = {t \in constantes[i] : sub'[t] = sub[t]}
        BY <4>1 DEF Recordar
      <4>3. QED
        BY <1>3, <4>2
    <3>2. mensajes'[i] = mensajes[i]
      BY <2>3, AccionPublica DEF EntregaInv
    <3>3. QED
      BY <2>1, <3>1, <3>2 DEF EntregaInv, Constantes
  <2>4. QED
    BY <1>2, <2>2, <2>3
<1>4. Constantes'
  BY <1>3 DEF Constantes
<1>5. ASSUME NEW i \in Indices, i <= Len(mensajes'), i > Len(mensajes),
             NEW d, NEW canal \in Canales
      PROVE  Cumplido(i, d, canal)'
  <2>1. pc'[i] \in {"email", "ignorado", "perdido"}
    BY <1>5, AccionPublica DEF EntregaInv
  <2>2. QED
    BY <2>1 DEF Cumplido, Etapa, Despues, Canales
<1>6. ASSUME NEW i \in Indices, i <= Len(mensajes)
      PROVE  mensajes'[i] = mensajes[i]
  BY <1>6, AccionPublica DEF EntregaInv
<1>7. ASSUME NEW i \in Indices, i <= Len(mensajes'), NEW canal \in Canales,
             NEW s \in constantes'[i], Destinatario(i, s, canal)'
      PROVE  Cumplido(i, s, canal)'
  <2>1. CASE i > Len(mensajes)
    BY <1>5, <1>7, <2>1
  <2>2. CASE i <= Len(mensajes)
    <3>1. s \in constantes[i] /\ sub'[s] = sub[s] /\ s \in Subs /\ mensajes'[i] = mensajes[i]
      BY <1>3, <1>6, <2>2
    <3>2. s \in Elige(canal, mensajes[i])' => s \in Elige(canal, mensajes[i])
      BY <3>1 DEF Elige
    <3>3. Destinatario(i, s, canal)
      BY <1>7, <3>1, <3>2 DEF Destinatario, NivelDe
    <3>4. Cumplido(i, s, canal)
      BY <2>2, <3>1, <3>3 DEF EntregaInv, Cumplidos
    <3>5. QED
      BY <2>2, <3>3, <3>4, AccionCumple DEF EntregaInv
  <2>3. QED
    BY <1>2, <2>1, <2>2
<1>8. ASSUME NEW i \in Indices, i <= Len(mensajes'), Destinatario(i, Operadores, "email")'
      PROVE  Cumplido(i, Operadores, "email")'
  <2>1. "email" \in Canales
    BY DEF Canales
  <2>2. CASE i > Len(mensajes)
    BY <1>5, <1>8, <2>1, <2>2
  <2>3. CASE i <= Len(mensajes)
    <3>1. Operadores \notin Subs
      BY NotificacionesAssumption DEF NotificacionesAssumption
    <3>2. Destinatario(i, Operadores, "email")
      BY <1>6, <1>8, <2>3, <3>1 DEF Destinatario, NivelDe, Elige
    <3>3. Cumplido(i, Operadores, "email")
      BY <2>3, <3>2 DEF EntregaInv, Cumplidos
    <3>4. QED
      BY <2>1, <2>3, <3>2, <3>3, AccionCumple DEF EntregaInv
  <2>4. QED
    BY <1>2, <2>2, <2>3
<1>9. Cumplidos'
  BY <1>7, <1>8 DEF Cumplidos
<1>10. QED
  BY <1>1, <1>4, <1>9 DEF EntregaInv

\* What is due and fulfilled at the end is a complete delivery.
LEMMA EntregaSuficiente ==
  ASSUME EntregaInv, NadaAntes, Forma
  PROVE  EntregaCompleta
<1> SUFFICES ASSUME NEW i \in Indices, pc[i] = "fin"
             PROVE  /\ \A s \in constantes[i] :
                         /\ Atiende(sub[s].canal, mensajes[i])
                         /\ sub[s].canal = "push" => ConVapid
                         => <<i, s>> \in intentos
                    /\ mensajes[i].nivel = "rojo" /\ HayOperadores
                         => <<i, Operadores>> \in intentos
  BY DEF EntregaCompleta
<1>1. i <= Len(mensajes)
  <2>1. ~(i > Len(mensajes))
    BY DEF NadaAntes
  <2>2. QED
    BY <2>1, TiposConstantes DEF EntregaInv, TypeOK
<1>2. ASSUME NEW s \in constantes[i], Atiende(sub[s].canal, mensajes[i]),
             sub[s].canal = "push" => ConVapid
      PROVE  <<i, s>> \in intentos
  <2>1. s \in Subs /\ Pide(sub[s], mensajes[i])
    BY DEF EntregaInv, Constantes
  <2>2. sub[s].canal \in Canales
    BY <2>1 DEF EntregaInv, TypeOK, Pide, Registro
  <2>3. Destinatario(i, s, sub[s].canal)
    BY <1>2, <2>1, <2>2 DEF Destinatario, NivelDe, Atiende, Elige, Pide
  <2>4. Cumplido(i, s, sub[s].canal)
    BY <1>1, <2>2, <2>3 DEF EntregaInv, Cumplidos
  <2>5. QED
    BY <2>2, <2>4 DEF Cumplido, Despues, Canales
<1>3. ASSUME mensajes[i].nivel = "rojo", HayOperadores
      PROVE  <<i, Operadores>> \in intentos
  <2>1. Destinatario(i, Operadores, "email")
    BY <1>3 DEF Destinatario, NivelDe
  <2>2. Cumplido(i, Operadores, "email")
    BY <1>1, <2>1 DEF EntregaInv, Cumplidos
  <2>3. QED
    BY <2>2 DEF Cumplido, Despues
<1>4. QED
  BY <1>2, <1>3

\* The theorem: a handler of AlertListenerService that ends has tried every
\* subscription that asked for its alert and did not change, by mail, push or
\* webhook, and the operators of a red one, for any number of alerts handled
\* at once, of subscriptions and of requests, whatever sends and updates fail.
THEOREM EntregasCompletas == Spec => []EntregaCompleta
<1>1. Init => EntregaInv /\ IInv
  <2> SUFFICES ASSUME Init PROVE EntregaInv /\ IInv
    OBVIOUS
  <2>1. TypeOK
    BY TiposConstantes DEF Init, TypeOK, EnCurso
  <2>2. Constantes
    BY DEF Init, Constantes
  <2>3. \A i \in Indices : ~(i <= Len(mensajes))
    BY NotificacionesAssumption DEF Init, Indices, NotificacionesAssumption
  <2>4. Cumplidos
    BY <2>3 DEF Cumplidos
  <2>5. IInv
    BY InicioVigente
  <2>6. QED
    BY <2>1, <2>2, <2>4, <2>5 DEF EntregaInv
<1>2. EntregaInv /\ IInv /\ [Next]_vars => (EntregaInv /\ IInv)'
  <2> SUFFICES ASSUME EntregaInv, IInv, [Next]_vars PROVE (EntregaInv /\ IInv)'
    OBVIOUS
  <2>1. CASE Next
    BY <2>1, IInvPaso, EntregaPaso DEF Next
  <2>2. CASE UNCHANGED vars
    <3>1. EntregaInv'
      BY <2>2 DEF vars, EntregaInv, TypeOK, Constantes, Cumplidos, Cumplido,
                  Destinatario, Elige
    <3>2. IInv'
      BY <2>2 DEF vars, IInv, Forma, NadaAntes, AlDia, ListaVigente, NotificaVigente, Pidio
    <3>3. QED
      BY <3>1, <3>2
  <2>3. QED
    BY <2>1, <2>2
<1>3. EntregaInv /\ IInv => EntregaCompleta
  BY EntregaSuficiente DEF IInv
<1>4. QED
  BY <1>1, <1>2, <1>3, PTL DEF Spec

=============================================================================
