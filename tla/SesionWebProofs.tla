-------------------------- MODULE SesionWebProofs --------------------------
(***************************************************************************)
(* Proofs about SesionWeb for any number of requests, of calls of refresh  *)
(* and of rotations, with and without lost answers, logging out and        *)
(* reloads.                                                                *)
(***************************************************************************)
EXTENDS SesionWeb, TLAPS

\* Pairs are numbered as they are issued, and a rotation issues a later one
\* than it was given
Emitidos ==
  /\ guardado <= emitidos
  /\ \A r \in Refrescos : par[r] <= emitidos
  /\ \A r \in Refrescos : fase[r] = "bien" => par[r] <= nuevo[r] /\ nuevo[r] <= emitidos

IInv == TypeOK /\ EsperaAcompanada /\ Emitidos

-----------------------------------------------------------------------------
(* Types *)

\* A state without pairs is well typed.
LEMMA TypeOKInit == Init => TypeOK
<1> SUFFICES ASSUME Init PROVE TypeOK
  OBVIOUS
<1> USE DEF Init
<1>1. reintento \in [Peticiones -> BOOLEAN] /\ salida \in BOOLEAN
  OBVIOUS
<1>2. emitidos \in 0..MaxPares
  BY SesionAssumption DEF SesionAssumption
<1>3. QED
  BY <1>1, <1>2 DEF TypeOK, EnCurso, Esperando, Pares

\* What a request does when it is answered keeps the types.
LEMMA TipoPeticion ==
  ASSUME TypeOK, NEW q \in Peticiones, Enviar(q) \/ EnviarAcceso(q) \/ Respuesta(q)
  PROVE  TypeOK'
<1> USE SesionAssumption DEF SesionAssumption, TypeOK, Colocar, Acabar, EnCurso, Esperando, Pares
<1>1. CASE Enviar(q) \/ EnviarAcceso(q)
  BY <1>1 DEF Enviar, EnviarAcceso, servidor
<1>2. CASE AccesoConcedido(q)
  <2>1. reintento' \in [Peticiones -> BOOLEAN] /\ salida' \in BOOLEAN
    BY <1>2 DEF AccesoConcedido
  <2>2. emitidos' \in 0..MaxPares /\ emitidos + 1 \in Pares
    BY <1>2 DEF AccesoConcedido, Emitir
  <2>3. QED
    BY <1>2, <2>1, <2>2 DEF AccesoConcedido, Emitir
<1>3. CASE Contestada(q) \/ Rechazada(q) \/ Encolar(q)
  BY <1>3 DEF Contestada, Rechazada, Encolar, servidor
<1>4. ASSUME NEW r \in Refrescos, Refrescar(q, r)
      PROVE  TypeOK'
  BY <1>4 DEF Refrescar
<1>5. CASE RefrescarSinFicha(q)
  BY <1>5 DEF RefrescarSinFicha, servidor
<1>6. QED
  BY <1>1, <1>2, <1>3, <1>4, <1>5 DEF Respuesta

\* So does every step of a refresh.
LEMMA TipoRefresco ==
  ASSUME TypeOK, NEW r \in Refrescos, Refresco(r)
  PROVE  TypeOK'
<1> USE SesionAssumption DEF SesionAssumption, TypeOK, Liberar, EnCurso, Esperando, Pares
<1>1. CASE LeerRefresco(r)
  BY <1>1 DEF LeerRefresco, pagina
<1>2. CASE Rotar(r)
  <2>1. emitidos' \in 0..MaxPares /\ emitidos + 1 \in Pares
    BY <1>2 DEF Rotar, Emitir
  <2>2. QED
    BY <1>2, <2>1 DEF Rotar, Emitir, pagina
<1>3. CASE RotarFalla(r)
  BY <1>3 DEF RotarFalla, pagina
<1>4. CASE RefrescoBien(r)
  <2>1. nuevo[r] \in 1..MaxPares \cup {0}
    OBVIOUS
  <2>2. QED
    BY <1>4, <2>1 DEF RefrescoBien
<1>5. CASE RefrescoMal(r)
  <2>1. pc' \in [Peticiones -> EnCurso \cup {"libre"}] /\ reintento' \in [Peticiones -> BOOLEAN]
    BY <1>5 DEF RefrescoMal
  <2>2. guardado' = 0 /\ revocaciones' \in SUBSET Pares /\ vuelo' = "nulo"
    BY <1>5 DEF RefrescoMal, CerrarSesion
  <2>3. fase' \in [Refrescos -> {"libre", "leer", "rotar", "bien", "mal"}]
        /\ par' \in [Refrescos -> Pares \cup {0}] /\ nuevo' \in [Refrescos -> Pares \cup {0}]
    BY <1>5 DEF RefrescoMal
  <2>4. QED
    BY <1>5, <2>1, <2>2, <2>3 DEF RefrescoMal
<1>6. CASE RefrescoHuerfano(r)
  BY <1>6 DEF RefrescoHuerfano, pagina
<1>7. QED
  BY <1>1, <1>2, <1>3, <1>4, <1>5, <1>6 DEF Refresco

\* And every step of the specification.
LEMMA TypeOKStep ==
  ASSUME TypeOK, [Next]_vars
  PROVE  TypeOK'
<1>1. CASE \E q \in Peticiones : Enviar(q) \/ EnviarAcceso(q) \/ Respuesta(q)
  BY <1>1, TipoPeticion
<1>2. CASE \E r \in Refrescos : Refresco(r)
  BY <1>2, TipoRefresco
<1>3. ASSUME NEW n \in Pares, Revocar(n) \/ Caducar(n)
      PROVE  TypeOK'
  BY <1>3 DEF TypeOK, Revocar, Caducar, pagina
<1>4. CASE Salir
  BY <1>4 DEF Salir, CerrarSesion, TypeOK, pagina, servidor
<1>5. CASE Recargar
  BY <1>5 DEF Recargar, TypeOK, servidor, EnCurso
<1>6. CASE UNCHANGED vars
  BY <1>6 DEF vars, TypeOK
<1>7. QED
  BY <1>1, <1>2, <1>3, <1>4, <1>5, <1>6 DEF Next

-----------------------------------------------------------------------------
(* Who waits for whom, and the order of the pairs *)

\* A request that is not the first one may come and go without leaving a
\* refresh alone.
LEMMA EsperaPeticion ==
  ASSUME IInv, NEW q \in Peticiones, Enviar(q) \/ EnviarAcceso(q) \/ Respuesta(q)
  PROVE  EsperaAcompanada' /\ Emitidos'
<1>0. emitidos \in Nat /\ \A r \in Refrescos : par[r] \in Nat /\ nuevo[r] \in Nat
  BY SesionAssumption DEF SesionAssumption, IInv, TypeOK, Pares
<1> USE SesionAssumption DEF SesionAssumption, IInv, TypeOK, EsperaAcompanada, Emitidos, Colocar, Acabar, Esperando
<1>1. CASE Enviar(q) \/ EnviarAcceso(q)
  BY <1>1 DEF Enviar, EnviarAcceso, servidor
<1>2. CASE AccesoConcedido(q)
  <2>1. EsperaAcompanada'
    BY <1>2 DEF AccesoConcedido
  <2>2. Emitidos'
    <3>1. guardado' = emitidos + 1 /\ emitidos' = emitidos + 1 /\ UNCHANGED <<par, fase, nuevo>>
      BY <1>2 DEF AccesoConcedido, Emitir
    <3>2. QED
      BY <1>0, <3>1
  <2>3. QED
    BY <2>1, <2>2
<1>3. CASE Contestada(q) \/ Rechazada(q)
  BY <1>3 DEF Contestada, Rechazada, Da401, servidor
<1>4. CASE Encolar(q)
  BY <1>4 DEF Encolar, Da401, servidor
<1>5. ASSUME NEW r \in Refrescos, Refrescar(q, r)
      PROVE  EsperaAcompanada' /\ Emitidos'
  BY <1>5 DEF Refrescar, Da401
<1>6. CASE RefrescarSinFicha(q)
  BY <1>6 DEF RefrescarSinFicha, Da401, servidor
<1>7. QED
  BY <1>1, <1>2, <1>3, <1>4, <1>5, <1>6 DEF Respuesta

\* The end of a refresh wakes everybody who waited for it.
LEMMA EsperaRefresco ==
  ASSUME IInv, NEW r \in Refrescos, Refresco(r)
  PROVE  EsperaAcompanada' /\ Emitidos'
<1>0. emitidos \in Nat /\ \A t \in Refrescos : par[t] \in Nat /\ nuevo[t] \in Nat
  BY SesionAssumption DEF SesionAssumption, IInv, TypeOK, Pares
<1> USE SesionAssumption DEF SesionAssumption, IInv, TypeOK, EsperaAcompanada, Emitidos, Liberar, Esperando
<1>1. CASE LeerRefresco(r)
  BY <1>1 DEF LeerRefresco, pagina
<1>2. CASE Rotar(r)
  <2>1. EsperaAcompanada'
    BY <1>2 DEF Rotar, pagina
  <2>2. Emitidos'
    <3>1. /\ emitidos' = emitidos + 1 /\ UNCHANGED <<par, guardado>>
          /\ nuevo'[r] = emitidos + 1
          /\ \A t \in Refrescos : t # r => nuevo'[t] = nuevo[t] /\ fase'[t] = fase[t]
      BY <1>2 DEF Rotar, Emitir
    <3>2. guardado \in Nat
      BY DEF Pares
    <3>3. QED
      BY <1>0, <3>1, <3>2
  <2>3. QED
    BY <2>1, <2>2
<1>3. CASE RotarFalla(r)
  BY <1>3 DEF RotarFalla, pagina
<1>4. CASE RefrescoBien(r)
  BY <1>4 DEF RefrescoBien
<1>5. CASE RefrescoMal(r)
  BY <1>5 DEF RefrescoMal, CerrarSesion
<1>6. CASE RefrescoHuerfano(r)
  BY <1>6 DEF RefrescoHuerfano, pagina
<1>7. QED
  BY <1>1, <1>2, <1>3, <1>4, <1>5, <1>6 DEF Refresco

\* The invariant holds when the page opens and survives every step.
LEMMA IInvStep ==
  ASSUME IInv, [Next]_vars
  PROVE  IInv'
<1>1. TypeOK'
  BY TypeOKStep DEF IInv
<1>2. EsperaAcompanada' /\ Emitidos'
  <2>1. CASE \E q \in Peticiones : Enviar(q) \/ EnviarAcceso(q) \/ Respuesta(q)
    BY <2>1, EsperaPeticion
  <2>2. CASE \E r \in Refrescos : Refresco(r)
    BY <2>2, EsperaRefresco
  <2>3. ASSUME NEW n \in Pares, Revocar(n) \/ Caducar(n)
        PROVE  EsperaAcompanada' /\ Emitidos'
    BY <2>3 DEF IInv, EsperaAcompanada, Emitidos, Revocar, Caducar, pagina
  <2>4. CASE Salir
    <3>1. guardado' = 0 /\ emitidos \in Nat
      BY <2>4, SesionAssumption DEF Salir, CerrarSesion, IInv, TypeOK, SesionAssumption
    <3>2. QED
      BY <2>4, <3>1 DEF IInv, EsperaAcompanada, Emitidos, Salir, pagina, servidor
  <2>5. CASE Recargar
    BY <2>5, SesionAssumption
    DEF IInv, TypeOK, EsperaAcompanada, Emitidos, Recargar, Esperando, servidor, SesionAssumption
  <2>6. CASE UNCHANGED vars
    BY <2>6 DEF vars, IInv, EsperaAcompanada, Emitidos
  <2>7. QED
    BY <2>1, <2>2, <2>3, <2>4, <2>5, <2>6 DEF Next
<1>3. QED
  BY <1>1, <1>2 DEF IInv

LEMMA IInvInit == Init => IInv
<1> SUFFICES ASSUME Init PROVE IInv
  OBVIOUS
<1>1. EsperaAcompanada
  BY SesionAssumption DEF SesionAssumption, Init, EsperaAcompanada, Esperando
<1>2. Emitidos
  BY DEF Init, Emitidos
<1>3. QED
  BY <1>1, <1>2, TypeOKInit DEF IInv

LEMMA Invariante == Spec => []IInv
BY IInvInit, IInvStep, PTL DEF Spec

-----------------------------------------------------------------------------
\* The types of the variables are kept for every instance of the constants.
THEOREM TipoCorrecto == Spec => []TypeOK
<1>1. IInv => TypeOK
  BY DEF IInv
<1>2. QED
  BY <1>1, Invariante, PTL

\* However many requests are rejected, queued, answered late or forgotten by a
\* reload, and whenever the user logs out: a refresh in flight has its first
\* request, and nobody waits without one (or the dead promise).
THEOREM NadieEsperaSolo == Spec => []EsperaAcompanada
<1>1. IInv => EsperaAcompanada
  BY DEF IInv
<1>2. QED
  BY <1>1, Invariante, PTL

\* The store never goes back to an older pair.
THEOREM ParNoRetrocede == Spec => ParAvanza
<1> DEFINE Avanza ==
      /\ guardado # 0 /\ guardado' # 0
      /\ vuelo \in Refrescos => par[vuelo] = guardado
      => guardado' >= guardado
<1>1. ASSUME IInv, [Next]_vars
      PROVE  [Avanza]_guardado
  <2>0. guardado \in Nat /\ emitidos \in Nat
    BY <1>1, SesionAssumption DEF IInv, TypeOK, Pares, SesionAssumption
  <2>1. ASSUME NEW q \in Peticiones, AccesoConcedido(q)
        PROVE  [Avanza]_guardado
    BY <2>1, <2>0, <1>1 DEF AccesoConcedido, IInv, Emitidos
  <2>2. ASSUME NEW r \in Refrescos, RefrescoBien(r)
        PROVE  [Avanza]_guardado
    BY <2>2, <2>0, <1>1 DEF RefrescoBien, IInv, Emitidos
  <2>3. CASE guardado' = 0 \/ UNCHANGED guardado
    BY <2>3, <2>0
  <2>4. CASE \E q \in Peticiones : Enviar(q) \/ EnviarAcceso(q) \/ Respuesta(q)
    BY <2>1, <2>3, <2>4 DEF Enviar, EnviarAcceso, Respuesta, Contestada, Rechazada, Encolar,
       Refrescar, RefrescarSinFicha
  <2>5. CASE \E r \in Refrescos : Refresco(r)
    BY <2>2, <2>3, <2>5 DEF Refresco, LeerRefresco, Rotar, RotarFalla, RefrescoMal,
       CerrarSesion, RefrescoHuerfano
  <2>6. QED
    BY <1>1, <2>3, <2>4, <2>5 DEF Next, Revocar, Caducar, Salir, CerrarSesion, Recargar, vars
<1>2. QED
  BY <1>1, Invariante, PTL DEF Spec, ParAvanza

-----------------------------------------------------------------------------
(* The session goes on *)

\* Nobody leaves, no page is reloaded and every answer arrives
Tranquila == ~FallaRed /\ ~Salidas /\ ~Recargas

\* The server works on one refresh at most, the one the page waits for, with
\* the pair of the store; it is stored in Redis until its heir is
Relevo ==
  \A r \in Refrescos : fase[r] # "libre" =>
    /\ vuelo = r /\ guardado = par[r] /\ guardado # 0
    /\ \/ fase[r] \in {"leer", "rotar"} /\ par[r] \in vivos
       \/ fase[r] = "bien" /\ nuevo[r] \in vivos

\* Between refreshes the pair of the store can be presented
ParVivo == guardado # 0 /\ vuelo \notin Refrescos => guardado \in vivos

\* Only one login is sent at a time, by a page without a session
UnAcceso ==
  \A q \in Peticiones : pc[q] = "acceso" =>
    guardado = 0 /\ \A o \in Peticiones : pc[o] = "acceso" => o = q

ContinuaInv ==
  IInv /\ Relevo /\ ParVivo /\ UnAcceso /\ revocaciones = {} /\ SesionContinua

\* A refresh in flight renews the pair of the store.
LEMMA EnVuelo ==
  ASSUME ContinuaInv
  PROVE  vuelo \in Refrescos => guardado # 0 /\ fase[vuelo] # "libre"
BY DEF ContinuaInv, IInv, EsperaAcompanada, Relevo

LEMMA ContinuaPeticion ==
  ASSUME Tranquila, ContinuaInv, NEW q \in Peticiones,
         Enviar(q) \/ EnviarAcceso(q) \/ Respuesta(q)
  PROVE  Relevo' /\ ParVivo' /\ UnAcceso' /\ revocaciones' = {} /\ SesionContinua'
<1>0. pc \in [Peticiones -> EnCurso \cup {"libre"}] /\ emitidos \in Nat
  BY SesionAssumption DEF SesionAssumption, ContinuaInv, IInv, TypeOK
<1> USE DEF Colocar, Acabar
<1>1. CASE Enviar(q)
  <2>1. UnAcceso'
    BY <1>0, <1>1 DEF ContinuaInv, UnAcceso, Enviar
  <2>2. QED
    BY <1>1, <2>1 DEF ContinuaInv, Relevo, ParVivo, SesionContinua, Enviar, servidor
<1>2. CASE EnviarAcceso(q)
  <2>1. UnAcceso'
    BY <1>0, <1>2 DEF ContinuaInv, UnAcceso, EnviarAcceso
  <2>2. QED
    BY <1>2, <2>1 DEF ContinuaInv, Relevo, ParVivo, SesionContinua, EnviarAcceso, servidor
<1>3. CASE AccesoConcedido(q)
  <2>1. guardado = 0 /\ \A o \in Peticiones : pc[o] = "acceso" => o = q
    BY <1>3 DEF AccesoConcedido, ContinuaInv, UnAcceso
  <2>2. vuelo \notin Refrescos /\ \A r \in Refrescos : fase[r] = "libre"
    BY <2>1, EnVuelo DEF ContinuaInv, Relevo
  <2>3. \A o \in Peticiones : pc'[o] # "acceso"
    BY <1>0, <1>3, <2>1 DEF AccesoConcedido
  <2>4. /\ guardado' = emitidos + 1 /\ emitidos' = emitidos + 1
        /\ vivos' = vivos \cup {emitidos + 1}
        /\ UNCHANGED <<vuelo, fase, revocaciones>>
    BY <1>3 DEF AccesoConcedido, Emitir
  <2>5. QED
    BY <1>0, <2>2, <2>3, <2>4 DEF ContinuaInv, Relevo, ParVivo, UnAcceso, SesionContinua
<1>4. CASE Contestada(q) \/ Rechazada(q)
  <2>1. UnAcceso'
    BY <1>0, <1>4 DEF ContinuaInv, UnAcceso, Contestada, Rechazada
  <2>2. QED
    BY <1>4, <2>1
    DEF ContinuaInv, Relevo, ParVivo, SesionContinua, Contestada, Rechazada, servidor
<1>5. CASE Encolar(q)
  <2>1. UnAcceso'
    BY <1>0, <1>5 DEF ContinuaInv, UnAcceso, Encolar
  <2>2. QED
    BY <1>5, <2>1 DEF ContinuaInv, Relevo, ParVivo, SesionContinua, Encolar, servidor
<1>6. ASSUME NEW r \in Refrescos, Refrescar(q, r)
      PROVE  Relevo' /\ ParVivo' /\ UnAcceso' /\ revocaciones' = {} /\ SesionContinua'
  <2>1. UnAcceso'
    BY <1>0, <1>6 DEF ContinuaInv, UnAcceso, Refrescar
  <2>2. guardado \in vivos /\ \A t \in Refrescos : fase[t] = "libre"
    <3>1. vuelo \notin Refrescos
      BY <1>6, SesionAssumption DEF Refrescar, SesionAssumption
    <3>2. QED
      BY <1>6, <3>1 DEF Refrescar, ContinuaInv, ParVivo, Relevo
  <2>3. Relevo'
    BY <1>6, <2>2 DEF Relevo, Refrescar, ContinuaInv, IInv, TypeOK
  <2>4. QED
    BY <1>6, <2>1, <2>3 DEF ContinuaInv, ParVivo, SesionContinua, Refrescar
<1>7. CASE RefrescarSinFicha(q)
  <2>1. UnAcceso'
    BY <1>0, <1>7 DEF ContinuaInv, UnAcceso, RefrescarSinFicha
  <2>2. \A r \in Refrescos : fase[r] = "libre"
    BY <1>7 DEF RefrescarSinFicha, ContinuaInv, Relevo
  <2>3. QED
    BY <1>7, <2>1, <2>2
    DEF ContinuaInv, Relevo, ParVivo, SesionContinua, RefrescarSinFicha, servidor
<1>8. QED
  BY <1>1, <1>2, <1>3, <1>4, <1>5, <1>6, <1>7 DEF Respuesta

LEMMA ContinuaRefresco ==
  ASSUME Tranquila, ContinuaInv, NEW r \in Refrescos, Refresco(r)
  PROVE  Relevo' /\ ParVivo' /\ UnAcceso' /\ revocaciones' = {} /\ SesionContinua'
<1>0. /\ emitidos \in Nat /\ \A t \in Refrescos : nuevo[t] \in Nat
      /\ fase \in [Refrescos -> {"libre", "leer", "rotar", "bien", "mal"}]
      /\ par \in [Refrescos -> Pares \cup {0}] /\ nuevo \in [Refrescos -> Pares \cup {0}]
      /\ vivos \subseteq Pares /\ 0 \notin Pares
      /\ vuelo = r => r # "nulo" /\ "nulo" \notin Refrescos
  BY SesionAssumption DEF SesionAssumption, ContinuaInv, IInv, TypeOK, Pares
<1>1. fase[r] # "libre" =>
        /\ vuelo = r /\ guardado = par[r] /\ guardado # 0 /\ fase[r] # "mal"
        /\ fase[r] \in {"leer", "rotar"} => par[r] \in vivos
        /\ fase[r] = "bien" => nuevo[r] \in vivos
        /\ \A t \in Refrescos : t # r => fase[t] = "libre"
        /\ \A o \in Peticiones : pc[o] # "acceso"
  BY DEF ContinuaInv, Relevo, UnAcceso
<1>2. CASE LeerRefresco(r)
  <2>1. Relevo'
    BY <1>0, <1>1, <1>2 DEF Relevo, LeerRefresco, pagina
  <2>2. QED
    BY <1>2, <2>1 DEF ContinuaInv, ParVivo, UnAcceso, SesionContinua, LeerRefresco, pagina
<1>3. CASE Rotar(r)
  <2>1. /\ vuelo' = vuelo /\ guardado' = guardado /\ par' = par /\ pc' = pc
        /\ revocaciones' = revocaciones /\ vivos' = (vivos \ {par[r]}) \cup {emitidos + 1}
        /\ nuevo'[r] = emitidos + 1 /\ fase' = [fase EXCEPT ![r] = "bien"]
        /\ fase[r] = "rotar"
    BY <1>0, <1>3 DEF Rotar, Emitir, pagina
  <2>2. Relevo'
    BY <1>0, <1>1, <2>1 DEF Relevo
  <2>3. QED
    BY <1>1, <2>1, <2>2 DEF ContinuaInv, ParVivo, UnAcceso, SesionContinua
<1>4. CASE RotarFalla(r)
  BY <1>4 DEF Tranquila, RotarFalla
<1>5. CASE RefrescoBien(r)
  <2>1. /\ guardado' = nuevo[r] /\ vuelo' = "nulo" /\ vivos' = vivos
        /\ nuevo[r] \in vivos /\ fase' = [fase EXCEPT ![r] = "libre"]
        /\ revocaciones' = revocaciones
    BY <1>1, <1>5 DEF RefrescoBien, Liberar
  <2>2. \A t \in Refrescos : fase'[t] = "libre"
    BY <1>0, <1>1, <1>5, <2>1 DEF RefrescoBien
  <2>3. guardado' # 0
    BY <1>0, <2>1
  <2>4. \A o \in Peticiones : pc'[o] # "acceso"
    BY <1>1, <1>5 DEF RefrescoBien
  <2>5. QED
    BY <1>0, <2>1, <2>2, <2>3, <2>4
    DEF ContinuaInv, Relevo, ParVivo, UnAcceso, SesionContinua
<1>6. CASE RefrescoMal(r)
  BY <1>1, <1>6 DEF Tranquila, RefrescoMal
<1>7. CASE RefrescoHuerfano(r)
  BY <1>1, <1>7 DEF RefrescoHuerfano
<1>8. QED
  BY <1>2, <1>3, <1>4, <1>5, <1>6, <1>7 DEF Refresco

\* The theorem: while nobody logs out, no page is reloaded and every answer
\* arrives, the interceptors of api.ts keep the session, however many requests
\* are rejected at once or late, for any number of rotations and with wrong
\* credentials: a refresh never presents a pair that was rotated already.
THEOREM SesionSigue == Tranquila => (Spec => []SesionContinua)
<1> SUFFICES ASSUME Tranquila PROVE Spec => []SesionContinua
  OBVIOUS
<1>1. Init => ContinuaInv
  BY IInvInit DEF Init, ContinuaInv, Relevo, ParVivo, UnAcceso, SesionContinua
<1>2. ContinuaInv /\ [Next]_vars => ContinuaInv'
  <2> SUFFICES ASSUME ContinuaInv, [Next]_vars PROVE ContinuaInv'
    OBVIOUS
  <2>1. IInv'
    BY IInvStep DEF ContinuaInv
  <2>2. CASE \E q \in Peticiones : Enviar(q) \/ EnviarAcceso(q) \/ Respuesta(q)
    BY <2>1, <2>2, ContinuaPeticion DEF ContinuaInv
  <2>3. CASE \E r \in Refrescos : Refresco(r)
    BY <2>1, <2>3, ContinuaRefresco DEF ContinuaInv
  <2>4. ASSUME NEW n \in Pares, Revocar(n)
        PROVE  ContinuaInv'
    BY <2>4 DEF Revocar, ContinuaInv
  <2>5. ASSUME NEW n \in Pares, Caducar(n)
        PROVE  ContinuaInv'
    BY <2>1, <2>5
    DEF ContinuaInv, Relevo, ParVivo, UnAcceso, SesionContinua, Caducar, pagina
  <2>6. ~Salir /\ ~Recargar
    BY DEF Tranquila, Salir, Recargar
  <2>7. CASE UNCHANGED vars
    BY <2>1, <2>7 DEF vars, ContinuaInv, Relevo, ParVivo, UnAcceso, SesionContinua
  <2>8. QED
    BY <2>2, <2>3, <2>4, <2>5, <2>6, <2>7 DEF Next
<1>3. ContinuaInv => SesionContinua
  BY DEF ContinuaInv
<1>4. QED
  BY <1>1, <1>2, <1>3, PTL DEF Spec

=============================================================================
