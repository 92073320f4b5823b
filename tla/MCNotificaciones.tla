-------------------------- MODULE MCNotificaciones --------------------------
(***************************************************************************)
(* Two scenes: one alert over two subscriptions of any channel, of a park  *)
(* or of all, with queries that fail; and two alerts over one mail         *)
(* subscription that overlapping requests pause, edit and remove, with     *)
(* disconnections and restarts.                                            *)
(***************************************************************************)
EXTENDS Notificaciones, TLC

CONSTANTS s1, q1

VARIABLE escena

todas == <<vars, escena>>

Fila(canal, parque, niveles, activa) ==
  [canal |-> canal, parque |-> parque, niveles |-> niveles, activa |-> activa]
Aviso(parque, nivel, estado) == [parque |-> parque, nivel |-> nivel, estado |-> estado]

\* Subscriptions of one park or of all
RegistrosMixtos ==
  {Fila(c, p, {"rojo", "amarillo"}, TRUE) : c \in Canales, p \in Parques \cup {SinParque}}

\* Mails, active or paused
RegistrosCorreo ==
  {Fila("email", SinParque, n, a) : n \in {{"rojo"}, {"rojo", "amarillo"}}, a \in BOOLEAN}

RegistrosMC == RegistrosMixtos \cup RegistrosCorreo

\* What the page of subscriptions sends: the channel and levels it shows, and
\* the opposite of the state it shows.  Another client may leave activa out.
CambiosMC ==
  {[canal |-> c, niveles |-> {"rojo"}, activa |-> a] : c \in {"email", "push"}, a \in BOOLEAN}
  \cup {[canal |-> "email", niveles |-> {"amarillo"}]}

AvisosAbiertos == {Aviso(p, n, "activa") : p \in Parques, n \in {"rojo", "amarillo"}}
AvisosVarios ==
  {Aviso(SinParque, "amarillo", "activa"), Aviso(SinParque, "rojo", "activa"),
   Aviso(SinParque, "verde", "activa"), Aviso(SinParque, "rojo", "cerrada")}
AvisosMC == AvisosAbiertos \cup AvisosVarios

EnVuelo == {peticion[q].fila.canal : q \in {r \in Peticiones : peticion[r] # Ociosa}}

\* What each scene leaves out, as a state predicate
Entrega ==
  /\ conectado /\ Len(mensajes) <= 1 /\ (mensajes # <<>> => mensajes[1] \in AvisosAbiertos)
  /\ \A s \in Subs : sub[s] \notin RegistrosCorreo \ RegistrosMixtos
  /\ EnVuelo \subseteq {"push"} /\ \A q \in Peticiones \ {q1} : peticion[q] = Ociosa
  /\ \A i \in Indices : pc[i] # "perdido"

Vigencia ==
  /\ parques = {}
  /\ \A i \in DOMAIN mensajes :
       mensajes[i] \in IF i = 1 THEN AvisosVarios ELSE {Aviso(SinParque, "rojo", "activa")}
  /\ \A s \in Subs : sub[s] = SinFila \/ (s = s1 /\ sub[s].canal = "email")
  /\ EnVuelo \subseteq IF conectado THEN {"email"} ELSE {}
  /\ \A i \in Indices : pc[i] # "abortado"

EnEscena == IF escena = "entrega" THEN Entrega ELSE Vigencia

InitEscenas ==
  \/ Init /\ escena = "entrega" /\ Entrega
  \/ /\ escena = "vigencia" /\ parques = {}
     /\ sub \in [Subs -> RegistrosCorreo \cup {SinFila}] /\ \A s \in Subs \ {s1} : sub[s] = SinFila
     /\ conectado = TRUE /\ mensajes = <<>> /\ intentos = {}
     /\ pc = [i \in Indices |-> "nada"]
     /\ lista = [i \in Indices |-> {}] /\ caducas = [i \in Indices |-> {}]
     /\ peticion = [q \in Peticiones |-> Ociosa]
     /\ vigentes = [i \in Indices |-> {}] /\ constantes = [i \in Indices |-> {}]

NextEscenas == Next /\ UNCHANGED escena /\ EnEscena'

SpecEscenas ==
  /\ InitEscenas /\ [][NextEscenas]_todas
  /\ \A i \in Indices : WF_todas(Manejar(i) /\ Recordar /\ UNCHANGED escena)

=============================================================================
