----------------------------- MODULE SesionWeb -----------------------------
(***************************************************************************)
(* The session of a browser tab: the interceptors of frontend/src/lib/     *)
(* api.ts with their refresh in flight and its queue, the store of tokens  *)
(* (stores/auth.store.ts), and the side of AuthService that rotates and    *)
(* revokes refresh tokens.                                                 *)
(*                                                                         *)
(* A pair is an access and a refresh token issued together, named by its   *)
(* order; 0 is no pair.  JavaScript runs each handler to its next await    *)
(* without interruption: what follows an await is an action.               *)
(***************************************************************************)
EXTENDS Naturals, FiniteSets

CONSTANTS
  Peticiones,   \* requests through the axios instance api
  Refrescos,    \* calls of POST /auth/refresh that may be in progress
  FallaRed,     \* TRUE: answers may be lost
  FallaAcceso,  \* TRUE: credentials or codes may be wrong
  Salidas,      \* TRUE: the user may log out
  Recargas,     \* TRUE: the page may be reloaded
  MaxPares      \* bound on the pairs issued

ASSUME SesionAssumption ==
  /\ {FallaRed, FallaAcceso, Salidas, Recargas} \subseteq BOOLEAN
  /\ MaxPares \in Nat
  /\ "nulo" \notin Refrescos /\ "muerto" \notin Refrescos

VARIABLES
  guardado,      \* the pair of the store, kept in localStorage
  vuelo,         \* refreshInFlight: "nulo", the call it waits for, or "muerto":
                 \* a rejected promise nobody will clear
  pc,            \* pc[q]: where the request is
  ficha,         \* ficha[q]: the pair whose access token it carries
  reintento,     \* reintento[q]: __retry
  fase,          \* fase[r]: where the server is with the call of refresh
  par,           \* par[r]: the pair the call presented
  nuevo,         \* nuevo[r]: the pair it issued
  emitidos,      \* pairs issued so far
  vivos,         \* refresh tokens stored in Redis
  validos,       \* access tokens that have not expired
  revocaciones,  \* POST /auth/logout on their way
  salida         \* history: the user logged out and has not logged in since

pagina == <<vuelo, pc, ficha, reintento>>
servidor == <<fase, par, nuevo, emitidos, vivos, validos>>
vars == <<guardado, vuelo, pc, ficha, reintento, fase, par, nuevo, emitidos, vivos,
          validos, revocaciones, salida>>

Pares == 1..MaxPares
Esperando == {"primera", "cola"}
EnCurso == Esperando \cup {"enviada", "acceso"}

TypeOK ==
  /\ guardado \in Pares \cup {0}
  /\ vuelo \in Refrescos \cup {"nulo", "muerto"}
  /\ pc \in [Peticiones -> EnCurso \cup {"libre"}]
  /\ ficha \in [Peticiones -> Pares \cup {0}]
  /\ reintento \in [Peticiones -> BOOLEAN]
  /\ fase \in [Refrescos -> {"libre", "leer", "rotar", "bien", "mal"}]
  /\ par \in [Refrescos -> Pares \cup {0}]
  /\ nuevo \in [Refrescos -> Pares \cup {0}]
  /\ emitidos \in 0..MaxPares
  /\ vivos \in SUBSET Pares /\ validos \in SUBSET Pares
  /\ revocaciones \in SUBSET Pares
  /\ salida \in BOOLEAN

Init ==
  /\ guardado = 0 /\ vuelo = "nulo"
  /\ pc = [q \in Peticiones |-> "libre"]
  /\ ficha = [q \in Peticiones |-> 0]
  /\ reintento = [q \in Peticiones |-> FALSE]
  /\ fase = [r \in Refrescos |-> "libre"]
  /\ par = [r \in Refrescos |-> 0]
  /\ nuevo = [r \in Refrescos |-> 0]
  /\ emitidos = 0 /\ vivos = {} /\ validos = {}
  /\ revocaciones = {} /\ salida = FALSE

-----------------------------------------------------------------------------
(* Requests *)

Colocar(q, lugar, f, otra) ==
  /\ pc' = [pc EXCEPT ![q] = lugar]
  /\ ficha' = [ficha EXCEPT ![q] = f]
  /\ reintento' = [reintento EXCEPT ![q] = otra]

Acabar(q) == Colocar(q, "libre", 0, FALSE)

\* A page asks for data: the request interceptor adds the token of the store
Enviar(q) ==
  /\ pc[q] = "libre" /\ guardado # 0
  /\ Colocar(q, "enviada", guardado, FALSE)
  /\ UNCHANGED <<guardado, vuelo, servidor, revocaciones, salida>>

\* LoginPage sends credentials or a code, one at a time: its button waits
EnviarAcceso(q) ==
  /\ pc[q] = "libre" /\ guardado = 0
  /\ \A o \in Peticiones : pc[o] # "acceso"
  /\ Colocar(q, "acceso", 0, FALSE)
  /\ UNCHANGED <<guardado, vuelo, servidor, revocaciones, salida>>

Emitir(vs) ==
  /\ emitidos < MaxPares
  /\ emitidos' = emitidos + 1
  /\ vivos' = vs \cup {emitidos + 1}
  /\ validos' = validos \cup {emitidos + 1}

\* The second step was right: issueTokens, then setTokens in the page
AccesoConcedido(q) ==
  /\ pc[q] = "acceso"
  /\ Emitir(vivos)
  /\ guardado' = emitidos + 1
  /\ salida' = FALSE
  /\ Acabar(q)
  /\ UNCHANGED <<vuelo, fase, par, nuevo, revocaciones>>

\* An answer other than 401, or none at all
Contestada(q) ==
  /\ \/ pc[q] = "enviada" /\ ficha[q] \in validos
     \/ pc[q] \in {"enviada", "acceso"} /\ FallaRed
  /\ Acabar(q)
  /\ UNCHANGED <<guardado, vuelo, servidor, revocaciones, salida>>

\* The answer is 401: an access token that expired, or wrong credentials
Da401(q) ==
  \/ pc[q] = "enviada" /\ ficha[q] \notin validos
  \/ pc[q] = "acceso" /\ FallaAcceso

\* 401 on a request that was sent again: its caller gets the error
Rechazada(q) ==
  /\ Da401(q) /\ reintento[q]
  /\ Acabar(q)
  /\ UNCHANGED <<guardado, vuelo, servidor, revocaciones, salida>>

\* 401 with a refresh in flight: the request waits in the queue
Encolar(q) ==
  /\ Da401(q) /\ ~reintento[q] /\ vuelo # "nulo"
  /\ Colocar(q, "cola", 0, TRUE)
  /\ UNCHANGED <<guardado, vuelo, servidor, revocaciones, salida>>

\* Mutated form: the refresh presents the pair of the rejected request
RefrescarAnterior(q, r) ==
  /\ Da401(q) /\ ~reintento[q] /\ vuelo = "nulo"
  /\ guardado # 0 /\ fase[r] = "libre"
  /\ vuelo' = r
  /\ fase' = [fase EXCEPT ![r] = "leer"]
  /\ par' = [par EXCEPT ![r] = ficha[q]]
  /\ Colocar(q, "primera", 0, TRUE)
  /\ UNCHANGED <<guardado, nuevo, emitidos, vivos, validos, revocaciones, salida>>

\* 401 without one: doRefresh presents the refresh token of the store
Refrescar(q, r) ==
  /\ Da401(q) /\ ~reintento[q] /\ vuelo = "nulo"
  /\ guardado # 0 /\ fase[r] = "libre"
  /\ vuelo' = r
  /\ fase' = [fase EXCEPT ![r] = "leer"]
  /\ par' = [par EXCEPT ![r] = guardado]
  /\ Colocar(q, "primera", 0, TRUE)
  /\ UNCHANGED <<guardado, nuevo, emitidos, vivos, validos, revocaciones, salida>>

\* 401 without a refresh token: doRefresh throws before its try, so that its
\* finally does not run and refreshInFlight keeps the rejected promise
RefrescarSinFicha(q) ==
  /\ Da401(q) /\ ~reintento[q] /\ vuelo = "nulo"
  /\ guardado = 0
  /\ vuelo' = "muerto"
  /\ Acabar(q)
  /\ UNCHANGED <<guardado, servidor, revocaciones, salida>>

-----------------------------------------------------------------------------
(* AuthService.refresh *)

LeerRefresco(r) ==
  /\ fase[r] = "leer"
  /\ fase' = [fase EXCEPT ![r] = IF par[r] \in vivos THEN "rotar" ELSE "mal"]
  /\ UNCHANGED <<guardado, pagina, par, nuevo, emitidos, vivos, validos, revocaciones, salida>>

\* redis.del of the old token, issueTokens
Rotar(r) ==
  /\ fase[r] = "rotar"
  /\ Emitir(vivos \ {par[r]})
  /\ nuevo' = [nuevo EXCEPT ![r] = emitidos + 1]
  /\ fase' = [fase EXCEPT ![r] = "bien"]
  /\ UNCHANGED <<guardado, pagina, par, revocaciones, salida>>

\* The old token is gone and the new pair is not issued: the user was disabled
\* or a query failed
RotarFalla(r) ==
  /\ FallaRed
  /\ fase[r] = "rotar"
  /\ vivos' = vivos \ {par[r]}
  /\ fase' = [fase EXCEPT ![r] = "mal"]
  /\ UNCHANGED <<guardado, pagina, par, nuevo, emitidos, validos, revocaciones, salida>>

Liberar(r) ==
  /\ fase' = [fase EXCEPT ![r] = "libre"]
  /\ par' = [par EXCEPT ![r] = 0]
  /\ nuevo' = [nuevo EXCEPT ![r] = 0]

\* Mutated form: only the request that started the refresh goes on
RefrescoSoloPrimera(r) ==
  /\ vuelo = r /\ fase[r] = "bien"
  /\ guardado' = nuevo[r]
  /\ vuelo' = "nulo"
  /\ pc' = [q \in Peticiones |-> IF pc[q] = "primera" THEN "enviada" ELSE pc[q]]
  /\ ficha' = [q \in Peticiones |-> IF pc[q] = "primera" THEN nuevo[r] ELSE ficha[q]]
  /\ Liberar(r)
  /\ UNCHANGED <<reintento, emitidos, vivos, validos, revocaciones, salida>>

\* Mutated form: an answer nobody waits for any more is stored too
RefrescoTardio(r) ==
  /\ fase[r] = "bien"
  /\ guardado' = nuevo[r]
  /\ vuelo' = "nulo"
  /\ pc' = [q \in Peticiones |-> IF pc[q] \in Esperando THEN "enviada" ELSE pc[q]]
  /\ ficha' = [q \in Peticiones |-> IF pc[q] \in Esperando THEN nuevo[r] ELSE ficha[q]]
  /\ Liberar(r)
  /\ UNCHANGED <<reintento, emitidos, vivos, validos, revocaciones, salida>>

\* The answer arrives: setTokens, the queue resolves, every request that
\* waited is sent again
RefrescoBien(r) ==
  /\ vuelo = r /\ fase[r] = "bien"
  /\ guardado' = nuevo[r]
  /\ vuelo' = "nulo"
  /\ pc' = [q \in Peticiones |-> IF pc[q] \in Esperando THEN "enviada" ELSE pc[q]]
  /\ ficha' = [q \in Peticiones |-> IF pc[q] \in Esperando THEN nuevo[r] ELSE ficha[q]]
  /\ Liberar(r)
  /\ UNCHANGED <<reintento, emitidos, vivos, validos, revocaciones, salida>>

\* Mutated form: the revocation is sent without looking at the store
CerrarSinMirar ==
  /\ guardado' = 0
  /\ revocaciones' = revocaciones \cup {guardado}

\* store.logout: the pair goes and its revocation is sent without waiting
CerrarSesion ==
  /\ guardado' = 0
  /\ revocaciones' = revocaciones \cup ({guardado} \ {0})

\* The refresh was refused, or its answer is lost while the server goes on:
\* the requests that waited fail and the session is closed
RefrescoMal(r) ==
  /\ vuelo = r
  /\ \/ fase[r] = "mal" /\ Liberar(r)
     \/ FallaRed /\ UNCHANGED <<fase, par, nuevo>>
  /\ vuelo' = "nulo"
  /\ pc' = [q \in Peticiones |-> IF pc[q] \in Esperando THEN "libre" ELSE pc[q]]
  /\ reintento' = [q \in Peticiones |-> reintento[q] /\ pc[q] \notin Esperando]
  /\ CerrarSesion
  /\ UNCHANGED <<ficha, emitidos, vivos, validos, salida>>

\* The server ends a call nobody waits for any more
RefrescoHuerfano(r) ==
  /\ vuelo # r /\ fase[r] \in {"bien", "mal"}
  /\ Liberar(r)
  /\ UNCHANGED <<guardado, pagina, emitidos, vivos, validos, revocaciones, salida>>

-----------------------------------------------------------------------------
(* The user and the environment *)

Salir ==
  /\ Salidas /\ guardado # 0
  /\ CerrarSesion
  /\ salida' = TRUE
  /\ UNCHANGED <<pagina, servidor>>

\* AuthService.logout behind JwtAuthGuard: with an expired access token it
\* answers 401 and revokes nothing; the page ignores the answer
Revocar(n) ==
  /\ n \in revocaciones
  /\ revocaciones' = revocaciones \ {n}
  /\ \/ vivos' = IF n \in validos THEN vivos \ {n} ELSE vivos
     \/ FallaRed /\ UNCHANGED vivos
  /\ UNCHANGED <<guardado, pagina, fase, par, nuevo, emitidos, validos, salida>>

\* A reload forgets everything but localStorage
Recargar ==
  /\ Recargas
  /\ vuelo' = "nulo"
  /\ pc' = [q \in Peticiones |-> "libre"]
  /\ ficha' = [q \in Peticiones |-> 0]
  /\ reintento' = [q \in Peticiones |-> FALSE]
  /\ UNCHANGED <<guardado, servidor, revocaciones, salida>>

\* Access tokens last 15 minutes.  Bound: each request in progress may still
\* need a rotation
Caducar(n) ==
  /\ n \in validos
  /\ emitidos + Cardinality(Peticiones) <= MaxPares
  /\ validos' = validos \ {n}
  /\ UNCHANGED <<guardado, pagina, fase, par, nuevo, emitidos, vivos, revocaciones, salida>>

Respuesta(q) ==
  \/ AccesoConcedido(q) \/ Contestada(q) \/ Rechazada(q) \/ Encolar(q)
  \/ (\E r \in Refrescos : Refrescar(q, r)) \/ RefrescarSinFicha(q)

Refresco(r) ==
  \/ LeerRefresco(r) \/ Rotar(r) \/ RotarFalla(r)
  \/ RefrescoBien(r) \/ RefrescoMal(r) \/ RefrescoHuerfano(r)

Next ==
  \/ \E q \in Peticiones : Enviar(q) \/ EnviarAcceso(q) \/ Respuesta(q)
  \/ \E r \in Refrescos : Refresco(r)
  \/ \E n \in Pares : Revocar(n) \/ Caducar(n)
  \/ Salir \/ Recargar

Spec == Init /\ [][Next]_vars

\* Every HTTP call is answered or times out, and its continuation runs
FairSpec ==
  /\ Spec
  /\ \A q \in Peticiones : WF_vars(Respuesta(q))
  /\ \A r \in Refrescos : WF_vars(Refresco(r))

-----------------------------------------------------------------------------
(* Properties *)

\* While answers arrive and the user does not log out, the session goes on:
\* several requests rejected at once or late, around one rotation or the next,
\* never present a pair that was already rotated.
SesionContinua == emitidos > 0 => guardado # 0

\* The store never goes back to a pair older than the one it holds: answers of
\* refreshes given up for lost are not stored.  (Except when the user left and
\* came back while a refresh was in flight: that refresh stores its pair.)
ParAvanza ==
  [][ /\ guardado # 0 /\ guardado' # 0
      /\ vuelo \in Refrescos => par[vuelo] = guardado
      => guardado' >= guardado ]_guardado

\* A refresh in flight has somebody waiting for it, and whoever waits has a
\* refresh in flight or a dead one.
EsperaAcompanada ==
  /\ vuelo \in Refrescos =>
       /\ fase[vuelo] # "libre"
       /\ \E q \in Peticiones : pc[q] = "primera"
  /\ \A q \in Peticiones : pc[q] \in Esperando => vuelo # "nulo"

\* The operator's test guide, TC-05: each wrong attempt is answered.  No
\* request waits for ever.
TodaPeticionTermina == \A q \in Peticiones : pc[q] # "libre" ~> pc[q] = "libre"

=============================================================================
