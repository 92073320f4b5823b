------------------------------- MODULE Acceso -------------------------------
(***************************************************************************)
(* Signing in: the two steps of LoginPage, the handlers of AuthService     *)
(* behind them (login, verifyOtp, resendOtp, refresh) over their keys in   *)
(* Redis, and the users an administrator edits meanwhile (UsersService,    *)
(* UsuariosPage).  One action per command sent to Redis or PostgreSQL.     *)
(*                                                                         *)
(* Codes are numbered by the order in which they are sent for a challenge; *)
(* code 0 is one that was never sent.  Keys of Redis may expire at any     *)
(* moment.  A page waits for its request, and gives up after 60 s: only    *)
(* the mail is taken to last that long.                                    *)
(***************************************************************************)
EXTENDS Naturals

CONSTANTS
  Cuentas,      \* users that are known to the system
  Paginas,      \* login pages open in browsers
  Peticiones,   \* requests that may be in progress on the server
  Desafios,     \* challenges that may be issued
  MaxIntentos,  \* OTP_MAX_ATTEMPTS
  MaxFallos,    \* login.maxAttempts
  MaxCodigos,   \* bound on the codes sent for a challenge
  MaxContador,  \* bound on the failures counted for an account
  Cortes,       \* TRUE: a request may be cut between two commands
  Altas,        \* TRUE: administrators also activate accounts
  Modos         \* values OTP_REQUIRED may have

Nadie == "nadie"

ASSUME AccesoAssumption ==
  /\ Nadie \notin Cuentas \cup Paginas \cup Peticiones \cup Desafios
  /\ {MaxIntentos, MaxFallos, MaxCodigos, MaxContador} \subseteq Nat \ {0}
  /\ MaxFallos > 1 /\ {Cortes, Altas} \subseteq BOOLEAN /\ Modos \subseteq BOOLEAN

VARIABLES
  otp,       \* otpRequired()
  activo,    \* activo[u]: column of usuarios
  desafios,  \* desafios[d]: the key auth:otp:d
  fallos,    \* fallos[u]: the key auth:att:u, 0 if there is none
  caduca,    \* accounts whose key auth:att has a time to live
  bloqueo,   \* accounts whose key auth:lock exists
  vivos,     \* pages whose refresh token is in Redis
  pagina,    \* pagina[p]: what the page shows and awaits
  pet,       \* pet[q]: the request
  \* history
  usados,    \* challenges issued so far
  ultimo,    \* ultimo[d]: the last code generated for it
  errores,   \* errores[d]: wrong codes answered since then
  canjes,    \* canjes[d]: sessions it gave
  excusa     \* accounts whose counter or lock a cut request or an expiry left behind

servidor == <<activo, desafios, fallos, caduca, bloqueo, vivos>>
historia == <<usados, ultimo, errores, canjes, excusa>>
vars == <<otp, servidor, pagina, pet, historia>>

SinDesafio == [hay |-> FALSE, cuenta |-> Nadie, codigo |-> 0, intentos |-> 0]
Libre == [fase |-> "libre", pagina |-> Nadie, cuenta |-> Nadie, desafio |-> Nadie,
          codigo |-> 0, copia |-> SinDesafio, testigo |-> FALSE]
Cerrada == [paso |-> "credenciales", cuenta |-> Nadie, desafio |-> Nadie, espera |-> Nadie]

Fases == {"libre", "candado", "clave", "fallar", "caducar", "bloquear", "limpiar",
          "retar", "correo", "leer", "anular", "contar", "consumir", "buscar", "guardar",
          "emitir", "releer", "reescribir", "reenvio", "canje", "quitar", "buscarPar"}
Retos == [hay : BOOLEAN, cuenta : Cuentas \cup {Nadie}, codigo : 0..MaxCodigos,
          intentos : 0..MaxIntentos]

TypeOK ==
  /\ otp \in BOOLEAN
  /\ activo \in [Cuentas -> BOOLEAN]
  /\ desafios \in [Desafios -> Retos]
  /\ fallos \in [Cuentas -> 0..MaxContador]
  /\ caduca \subseteq Cuentas /\ bloqueo \subseteq Cuentas /\ vivos \subseteq Paginas
  /\ pagina \in [Paginas -> [paso : {"credenciales", "codigo", "dentro"},
                             cuenta : Cuentas \cup {Nadie},
                             desafio : Desafios \cup {Nadie},
                             espera : Peticiones \cup {Nadie}]]
  /\ pet \in [Peticiones -> [fase : Fases, pagina : Paginas \cup {Nadie},
                             cuenta : Cuentas \cup {Nadie},
                             desafio : Desafios \cup {Nadie},
                             codigo : 0..MaxCodigos, copia : Retos,
                             testigo : BOOLEAN]]
  /\ usados \subseteq Desafios
  /\ ultimo \in [Desafios -> 0..MaxCodigos]
  /\ errores \in [Desafios -> 0..MaxIntentos]
  /\ canjes \in [Desafios -> 0..2]
  /\ excusa \subseteq Cuentas

Init ==
  /\ otp \in Modos
  /\ activo = [u \in Cuentas |-> TRUE]
  /\ desafios = [d \in Desafios |-> SinDesafio]
  /\ fallos = [u \in Cuentas |-> 0]
  /\ caduca = {} /\ bloqueo = {} /\ vivos = {}
  /\ pagina = [p \in Paginas |-> Cerrada]
  /\ pet = [q \in Peticiones |-> Libre]
  /\ usados = {}
  /\ ultimo = [d \in Desafios |-> 0]
  /\ errores = [d \in Desafios |-> 0]
  /\ canjes = [d \in Desafios |-> 0]
  /\ excusa = {}

-----------------------------------------------------------------------------
(* LoginPage: its buttons wait while a request is in flight, except the one  *)
(* that goes back to the credentials.                                        *)

\* testigo: history, the account was active at some moment of the request
Enviar(p, q, fase, u, c) ==
  /\ pet[q] = Libre /\ pagina[p].espera = Nadie
  /\ pet' = [pet EXCEPT ![q] = [Libre EXCEPT !.fase = fase, !.pagina = p, !.cuenta = u,
                                  !.desafio = pagina[p].desafio, !.codigo = c,
                                  !.testigo = activo[u]]]
  /\ pagina' = [pagina EXCEPT ![p].espera = q, ![p].cuenta = u]
  /\ UNCHANGED <<otp, servidor, historia>>

SubmitCredentials(p, q, u, bien) ==
  /\ pagina[p].paso = "credenciales"
  /\ Enviar(p, q, "candado", u, IF bien THEN 1 ELSE 0)

\* Mutated form: the button does not wait for the answer
SubmitOtpSinEspera(p, q, c) ==
  /\ pagina[p].paso = "codigo" /\ c <= ultimo[pagina[p].desafio]
  /\ pet[q] = Libre
  /\ pet' = [pet EXCEPT ![q] = [Libre EXCEPT !.fase = "leer", !.pagina = p,
               !.cuenta = pagina[p].cuenta, !.desafio = pagina[p].desafio, !.codigo = c,
               !.testigo = activo[pagina[p].cuenta]]]
  /\ pagina' = [pagina EXCEPT ![p].espera = q]
  /\ UNCHANGED <<otp, servidor, historia>>

SubmitOtp(p, q, c) ==
  /\ pagina[p].paso = "codigo" /\ c <= ultimo[pagina[p].desafio]
  /\ Enviar(p, q, "leer", pagina[p].cuenta, c)

\* The server and the page count the same 30 seconds: the wait is over or not
ResendCode(p, q) ==
  /\ pagina[p].paso = "codigo"
  /\ Enviar(p, q, "releer", pagina[p].cuenta, 0)

\* "Cambiar cuenta": its button does not wait, and what is in flight goes on
BackToCredentials(p) ==
  /\ pagina[p].paso = "codigo"
  /\ pagina' = [pagina EXCEPT ![p].paso = "credenciales", ![p].desafio = Nadie]
  /\ UNCHANGED <<otp, servidor, pet, historia>>

\* Before the session the page keeps nothing that survives a reload
Recargar(p) ==
  /\ pagina[p].paso # "dentro" /\ pagina[p] # Cerrada
  /\ pagina' = [pagina EXCEPT ![p] = Cerrada]
  /\ UNCHANGED <<otp, servidor, pet, historia>>

\* The access token of a session expired
PedirRefresco(p, q) ==
  /\ pagina[p].paso = "dentro"
  /\ Enviar(p, q, "canje", pagina[p].cuenta, 0)

Vencer(q) ==
  LET p == pet[q].pagina IN
  /\ pet[q].fase \in {"correo", "reenvio"} /\ p \in Paginas
  /\ pagina[p].espera = q
  /\ pagina' = [pagina EXCEPT ![p].espera = Nadie]
  /\ UNCHANGED <<otp, servidor, pet, historia>>

-----------------------------------------------------------------------------
Pasar(q, fase) == pet' = [pet EXCEPT ![q].fase = fase]

\* The answer of q leaves its page, if it still waits, as v says
Responder(q, v) ==
  /\ pet' = [pet EXCEPT ![q] = Libre]
  /\ pagina' = IF pet[q].pagina \in Paginas /\ pagina[pet[q].pagina].espera = q
               THEN [pagina EXCEPT ![pet[q].pagina] = [v EXCEPT !.espera = Nadie]]
               ELSE pagina

\* An error message: the page stays where it was
Rechazar(q) == Responder(q, pagina[pet[q].pagina])

(* login *)

LeerCandado(q) ==
  /\ pet[q].fase = "candado"
  /\ IF pet[q].cuenta \in bloqueo
     THEN Rechazar(q)
     ELSE Pasar(q, "clave") /\ UNCHANGED pagina
  /\ UNCHANGED <<otp, servidor, historia>>

\* The row is read with its hash, then bcrypt compares
CompararClave(q) ==
  /\ pet[q].fase = "clave"
  /\ IF activo[pet[q].cuenta] /\ pet[q].codigo = 1
     THEN pet' = [pet EXCEPT ![q].fase = "limpiar", ![q].codigo = 0]
     ELSE pet' = [pet EXCEPT ![q].fase = "fallar", ![q].codigo = 0]
  /\ UNCHANGED <<otp, servidor, pagina, historia>>

LimpiarFallos(q) ==
  LET u == pet[q].cuenta IN
  /\ pet[q].fase = "limpiar"
  /\ fallos' = [fallos EXCEPT ![u] = 0]
  /\ caduca' = caduca \ {u} /\ excusa' = excusa \ {u}
  /\ Pasar(q, IF otp THEN "retar" ELSE "guardar")
  /\ UNCHANGED <<otp, activo, desafios, bloqueo, vivos, pagina, usados, ultimo,
                 errores, canjes>>

\* The challenge is stored; its mail comes next
Retar(q, d) ==
  /\ pet[q].fase = "retar" /\ d \notin usados
  /\ desafios' = [desafios EXCEPT ![d] = [hay |-> TRUE, cuenta |-> pet[q].cuenta,
                                          codigo |-> 1, intentos |-> 0]]
  /\ usados' = usados \cup {d}
  /\ ultimo' = [ultimo EXCEPT ![d] = 1]
  /\ pet' = [pet EXCEPT ![q].fase = "correo", ![q].desafio = d]
  /\ UNCHANGED <<otp, activo, fallos, caduca, bloqueo, vivos, pagina, errores, canjes, excusa>>

\* sendOtpEmail: a failure of SMTP is logged and the answer is the same
EnviarCodigo(q) ==
  /\ pet[q].fase = "correo"
  /\ Responder(q, [paso |-> "codigo", cuenta |-> pet[q].cuenta, desafio |-> pet[q].desafio,
                   espera |-> Nadie])
  /\ UNCHANGED <<otp, servidor, historia>>

-----------------------------------------------------------------------------
(* registerFailure *)

\* Mutated form: the time to live is renewed when the account is locked
TrasFalloAlBloquear(n) == IF n >= MaxFallos THEN "caducar" ELSE "libre"

\* Mutated form: one failure more than the limit
TrasFalloTarde(n) == IF n = 1 THEN "caducar" ELSE IF n > MaxFallos THEN "bloquear" ELSE "libre"

TrasFallo(n) ==
  IF n = 1 THEN "caducar" ELSE IF n >= MaxFallos THEN "bloquear" ELSE "libre"

\* INCR
Fallar(q) ==
  LET u == pet[q].cuenta
      n == fallos[u] + 1 IN
  /\ pet[q].fase = "fallar" /\ n <= MaxContador
  /\ fallos' = [fallos EXCEPT ![u] = n]
  /\ IF TrasFallo(n) = "libre"
     THEN Rechazar(q)
     ELSE Pasar(q, TrasFallo(n)) /\ UNCHANGED pagina
  /\ UNCHANGED <<otp, activo, desafios, caduca, bloqueo, vivos, historia>>

\* EXPIRE: nothing if the key is gone meanwhile
Caducar(q) ==
  LET u == pet[q].cuenta IN
  /\ pet[q].fase = "caducar"
  /\ caduca' = IF fallos[u] > 0 THEN caduca \cup {u} ELSE caduca
  /\ Rechazar(q)
  /\ UNCHANGED <<otp, activo, desafios, fallos, bloqueo, vivos, historia>>

Bloquear(q) ==
  /\ pet[q].fase = "bloquear"
  /\ bloqueo' = bloqueo \cup {pet[q].cuenta}
  /\ Rechazar(q)
  /\ UNCHANGED <<otp, activo, desafios, fallos, caduca, vivos, historia>>

\* The lock ends before the counter it came from
VenceBloqueo(u) ==
  /\ u \in bloqueo
  /\ bloqueo' = bloqueo \ {u}
  /\ excusa' = IF fallos[u] >= MaxFallos THEN excusa \cup {u} ELSE excusa
  /\ UNCHANGED <<otp, activo, desafios, fallos, caduca, vivos, pagina, pet, usados,
                 ultimo, errores, canjes>>

VenceContador(u) ==
  /\ u \in caduca
  /\ fallos' = [fallos EXCEPT ![u] = 0]
  /\ caduca' = caduca \ {u} /\ excusa' = excusa \ {u}
  /\ UNCHANGED <<otp, activo, desafios, bloqueo, vivos, pagina, pet, usados,
                 ultimo, errores, canjes>>

-----------------------------------------------------------------------------
(* verifyOtp: the challenge is read once; what follows works on the copy     *)

\* Mutated form: the attempts are not looked at
LeerSinTope(q) ==
  LET c == desafios[pet[q].desafio] IN
  /\ pet[q].fase = "leer"
  /\ IF ~c.hay
     THEN Rechazar(q)
     ELSE /\ pet' = [pet EXCEPT ![q].copia = c, ![q].codigo = 0,
            ![q].fase = IF pet[q].codigo # c.codigo THEN "contar" ELSE "consumir"]
          /\ UNCHANGED pagina
  /\ UNCHANGED <<otp, servidor, historia>>

Leer(q) ==
  LET c == desafios[pet[q].desafio] IN
  /\ pet[q].fase = "leer"
  /\ IF ~c.hay
     THEN Rechazar(q)
     ELSE /\ pet' = [pet EXCEPT ![q].copia = c, ![q].codigo = 0,
            ![q].fase = IF c.intentos >= MaxIntentos THEN "anular"
                        ELSE IF pet[q].codigo # c.codigo THEN "contar" ELSE "consumir"]
          /\ UNCHANGED pagina
  /\ UNCHANGED <<otp, servidor, historia>>

Anular(q) ==
  /\ pet[q].fase = "anular"
  /\ desafios' = [desafios EXCEPT ![pet[q].desafio] = SinDesafio]
  /\ Rechazar(q)
  /\ UNCHANGED <<otp, activo, fallos, caduca, bloqueo, vivos, historia>>

\* The copy is written back with one more attempt, for a second at least,
\* also when the key expired meanwhile
Contar(q) ==
  LET d == pet[q].desafio IN
  /\ pet[q].fase = "contar"
  /\ desafios' = [desafios EXCEPT ![d] = [pet[q].copia EXCEPT !.intentos = @ + 1]]
  /\ errores' = [errores EXCEPT ![d] = @ + 1]
  /\ Rechazar(q)
  /\ UNCHANGED <<otp, activo, fallos, caduca, bloqueo, vivos, usados, ultimo,
                 canjes, excusa>>

Consumir(q) ==
  LET d == pet[q].desafio IN
  /\ pet[q].fase = "consumir"
  /\ desafios' = [desafios EXCEPT ![d] = SinDesafio]
  /\ canjes' = [canjes EXCEPT ![d] = @ + 1]
  /\ pet' = [pet EXCEPT ![q].fase = "buscar", ![q].copia = SinDesafio]
  /\ UNCHANGED <<otp, activo, fallos, caduca, bloqueo, vivos, pagina, usados,
                 ultimo, errores, excusa>>

\* Mutated form: the account is looked up by its id only
BuscarSinActivo(q) ==
  /\ pet[q].fase = "buscar"
  /\ Pasar(q, "guardar")
  /\ UNCHANGED <<otp, servidor, pagina, historia>>

Buscar(q) ==
  /\ pet[q].fase = "buscar"
  /\ IF activo[pet[q].cuenta]
     THEN Pasar(q, "guardar") /\ UNCHANGED pagina
     ELSE Rechazar(q)
  /\ UNCHANGED <<otp, servidor, historia>>

Atestiguar(u) == [q \in Peticiones |->
  IF pet[q].cuenta = u THEN [pet[q] EXCEPT !.testigo = TRUE] ELSE pet[q]]

\* users.save writes back every column of the row that was read and differs
\* now: the account was active then
Guardar(q) ==
  LET u == pet[q].cuenta IN
  /\ pet[q].fase = "guardar"
  /\ activo' = [activo EXCEPT ![u] = TRUE]
  /\ pet' = [Atestiguar(u) EXCEPT ![q].fase = "emitir"]
  /\ UNCHANGED <<otp, desafios, fallos, caduca, bloqueo, vivos, pagina, historia>>

\* issueTokens, then setTokens in the page that waits
EmitirPar(q) ==
  LET p == pet[q].pagina IN
  /\ pet[q].fase = "emitir"
  /\ Responder(q, [paso |-> "dentro", cuenta |-> pet[q].cuenta, desafio |-> Nadie,
                   espera |-> Nadie])
  /\ vivos' = IF pagina[p].espera = q THEN vivos \cup {p} ELSE vivos
  /\ UNCHANGED <<otp, activo, desafios, fallos, caduca, bloqueo, historia>>

(* resendOtp *)

Releer(q) ==
  LET c == desafios[pet[q].desafio] IN
  /\ pet[q].fase = "releer"
  /\ \/ ~c.hay /\ Rechazar(q)
     \/ c.hay /\ Rechazar(q)       \* the wait is not over
     \/ /\ c.hay
        /\ pet' = [pet EXCEPT ![q].copia = c, ![q].fase = "reescribir"]
        /\ UNCHANGED pagina
  /\ UNCHANGED <<otp, servidor, historia>>

\* A new code, no attempts, and a minute to live at least
Reescribir(q) ==
  LET d == pet[q].desafio IN
  /\ pet[q].fase = "reescribir" /\ ultimo[d] < MaxCodigos
  /\ desafios' = [desafios EXCEPT ![d] =
       [pet[q].copia EXCEPT !.codigo = ultimo[d] + 1, !.intentos = 0]]
  /\ ultimo' = [ultimo EXCEPT ![d] = @ + 1]
  /\ errores' = [errores EXCEPT ![d] = 0]
  /\ pet' = [pet EXCEPT ![q].fase = "reenvio", ![q].copia = SinDesafio]
  /\ UNCHANGED <<otp, activo, fallos, caduca, bloqueo, vivos, pagina, usados,
                 canjes, excusa>>

ReenviarCodigo(q) ==
  /\ pet[q].fase = "reenvio"
  /\ Rechazar(q)
  /\ UNCHANGED <<otp, servidor, historia>>

(* refresh: an error takes the page back to the credentials *)

Canjear(q) ==
  LET p == pet[q].pagina IN
  /\ pet[q].fase = "canje"
  /\ IF p \in vivos THEN Pasar(q, "quitar") /\ UNCHANGED pagina
     ELSE Responder(q, Cerrada)
  /\ UNCHANGED <<otp, servidor, historia>>

QuitarPar(q) ==
  /\ pet[q].fase = "quitar"
  /\ vivos' = vivos \ {pet[q].pagina}
  /\ Pasar(q, "buscarPar")
  /\ UNCHANGED <<otp, activo, desafios, fallos, caduca, bloqueo, pagina, historia>>

BuscarPar(q) ==
  /\ pet[q].fase = "buscarPar"
  /\ IF activo[pet[q].cuenta]
     THEN Pasar(q, "emitir") /\ UNCHANGED pagina
     ELSE Responder(q, Cerrada)
  /\ UNCHANGED <<otp, servidor, historia>>

-----------------------------------------------------------------------------
(* Time, failures, and the administrator *)

ExpiraDesafio(d) ==
  /\ desafios[d].hay
  /\ desafios' = [desafios EXCEPT ![d] = SinDesafio]
  /\ UNCHANGED <<otp, activo, fallos, caduca, bloqueo, vivos, pagina, pet, historia>>

\* Redis or PostgreSQL fails at the next command, or the API restarts
Cortar(q) ==
  /\ Cortes /\ pet[q] # Libre
  /\ excusa' = IF pet[q].fase \in {"caducar", "bloquear"}
               THEN excusa \cup {pet[q].cuenta} ELSE excusa
  /\ IF pet[q].fase \in {"canje", "quitar", "buscarPar"}
     THEN Responder(q, Cerrada) ELSE Rechazar(q)
  /\ UNCHANGED <<otp, servidor, usados, ultimo, errores, canjes>>

\* openEdit copied the row, as old as the list it came from; guardar sends
\* every field of the form, and update overwrites with them
Update(u, v) ==
  /\ v => Altas
  /\ activo' = [activo EXCEPT ![u] = v]
  /\ pet' = IF v THEN Atestiguar(u) ELSE pet
  /\ UNCHANGED <<otp, desafios, fallos, caduca, bloqueo, vivos, pagina, historia>>

Remove(u) ==
  /\ activo[u]
  /\ activo' = [activo EXCEPT ![u] = FALSE]
  /\ UNCHANGED <<otp, desafios, fallos, caduca, bloqueo, vivos, pagina, pet, historia>>

-----------------------------------------------------------------------------
Pagina(p, q) ==
  \/ \E u \in Cuentas, bien \in BOOLEAN : SubmitCredentials(p, q, u, bien)
  \/ \E c \in 0..MaxCodigos : SubmitOtp(p, q, c)
  \/ ResendCode(p, q)
  \/ PedirRefresco(p, q)

Servidor(q) ==
  \/ LeerCandado(q) \/ CompararClave(q) \/ LimpiarFallos(q) \/ EnviarCodigo(q)
  \/ \E d \in Desafios : Retar(q, d)
  \/ Fallar(q) \/ Caducar(q) \/ Bloquear(q)
  \/ Leer(q) \/ Anular(q) \/ Contar(q) \/ Consumir(q)
  \/ Buscar(q) \/ Guardar(q) \/ EmitirPar(q)
  \/ Releer(q) \/ Reescribir(q) \/ ReenviarCodigo(q)
  \/ Canjear(q) \/ QuitarPar(q) \/ BuscarPar(q)

Next ==
  \/ \E p \in Paginas, q \in Peticiones : Pagina(p, q)
  \/ \E q \in Peticiones : Servidor(q) \/ Vencer(q) \/ Cortar(q)
  \/ \E p \in Paginas : BackToCredentials(p) \/ Recargar(p)
  \/ \E d \in Desafios : ExpiraDesafio(d)
  \/ \E u \in Cuentas : \/ VenceBloqueo(u) \/ VenceContador(u)
                        \/ Remove(u) \/ \E v \in BOOLEAN : Update(u, v)

Spec == Init /\ [][Next]_vars

-----------------------------------------------------------------------------
(* Properties *)

\* A challenge that can be answered carries the last code that was sent for
\* it and every wrong answer since, although both are read and written back
\* in separate commands: no attempt is lost and no old code comes back.
DesafioFiel ==
  \A d \in Desafios : desafios[d].hay =>
    desafios[d].codigo = ultimo[d] /\ desafios[d].intentos = errores[d]

\* A challenge gives one session at most, although verifyOtp reads it and
\* deletes it in two commands.
UnaSesionPorDesafio == \A d \in Desafios : canjes[d] <= 1

EnFase(u, f) == \E q \in Peticiones : pet[q].cuenta = u /\ pet[q].fase = f

\* A counter of failures either expires or a request is about to make it
\* expire, whatever other requests increment or delete it meanwhile; only a
\* request that is cut leaves one that never goes away.
ContadorCaduca ==
  \A u \in Cuentas :
    fallos[u] > 0 => u \in caduca \/ EnFase(u, "caducar") \/ u \in excusa

\* An account with as many failures as the limit is locked or about to be,
\* unless its lock expired first or the request that locks it was cut.
BloqueoOportuno ==
  \A u \in Cuentas :
    fallos[u] >= MaxFallos => u \in bloqueo \/ EnFase(u, "bloquear") \/ u \in excusa

\* The server goes on to a session only for an account that was active at some moment of
\* the request: a deactivation before the second step, or before a refresh,
\* is seen.
ParDeActivo ==
  \A q \in Peticiones : pet[q].fase \in {"guardar", "emitir"} => pet[q].testigo

\* An account that was deactivated stays so while no administrator activates
\* it: TC-29 of the operator's tests deactivates a user and expects that "El
\* usuario no puede loguear".  A sign-in that read the row before saves it
\* back, active, afterwards.
BajaFirme == [][\A u \in Cuentas : ~activo[u] => ~activo'[u]]_activo

=============================================================================
