---------------------------- MODULE AccesoProofs ----------------------------
(***************************************************************************)
(* Every invariant of Acceso, for any number of accounts, pages, requests  *)
(* and challenges.  None is inductive: what the server writes back is a    *)
(* copy that a request read before, so the invariant says who may hold a   *)
(* copy of a challenge (one request, the one its page waits for) and that  *)
(* the copy is still what the key says.                                    *)
(***************************************************************************)
EXTENDS Acceso, TLAPS

\* The phases of a request that reads or writes its challenge
Toca == {"correo", "leer", "anular", "contar", "consumir", "releer", "reescribir"}

\* Those in which it holds a copy of it
Copiado == {"anular", "contar", "consumir", "reescribir"}

Vistas == [paso : {"credenciales", "codigo", "dentro"}, cuenta : Cuentas \cup {Nadie},
           desafio : Desafios \cup {Nadie}, espera : Peticiones \cup {Nadie}]
Pets == [fase : Fases, pagina : Paginas \cup {Nadie}, cuenta : Cuentas \cup {Nadie},
         desafio : Desafios \cup {Nadie}, codigo : 0..MaxCodigos, copia : Retos,
         testigo : BOOLEAN]

\* A request has its account and its page, and a challenge in use if it needs one
Situadas ==
  /\ \A q \in Peticiones :
       /\ pet[q].fase # "libre" => pet[q].cuenta \in Cuentas /\ pet[q].pagina \in Paginas
       /\ pet[q].fase \in Toca => pet[q].desafio \in usados
  /\ \A p \in Paginas :
       /\ pagina[p].paso # "credenciales" => pagina[p].cuenta \in Cuentas
       /\ pagina[p].paso = "codigo" => pagina[p].desafio \in usados

\* A challenge is on one page and in one request, the one the page waits for
UnTitular ==
  /\ \A q, r \in Peticiones :
       q # r /\ pet[q].fase \in Toca /\ pet[r].fase \in Toca => pet[q].desafio # pet[r].desafio
  /\ \A p \in Paginas, q \in Peticiones :
       /\ pagina[p].paso = "codigo" /\ pet[q].fase \in Toca
       /\ pagina[p].desafio = pet[q].desafio
       => pagina[p].espera = q /\ pet[q].fase # "correo"
  /\ \A p, r \in Paginas :
       /\ p # r /\ pagina[p].paso = "codigo" /\ pagina[r].paso = "codigo"
       => pagina[p].desafio # pagina[r].desafio

\* A copy of a challenge is what its key said, and nobody was let in with it
CopiaFiel ==
  \A q \in Peticiones : pet[q].fase \in Copiado =>
    LET d == pet[q].desafio IN
    /\ pet[q].copia.hay /\ pet[q].copia.codigo = ultimo[d]
    /\ pet[q].copia.intentos = errores[d] /\ canjes[d] = 0
    /\ pet[q].fase = "contar" => errores[d] < MaxIntentos

\* A challenge that was not issued has no history; one that can be answered gave no session
SinGastar ==
  \A d \in Desafios :
    /\ d \notin usados => ~desafios[d].hay /\ errores[d] = 0 /\ canjes[d] = 0
    /\ desafios[d].hay => canjes[d] = 0

\* A request for an account that is active knows it
Testigos ==
  \A q \in Peticiones :
    /\ pet[q].fase # "libre" /\ activo[pet[q].cuenta] => pet[q].testigo
    /\ pet[q].fase = "limpiar" => pet[q].testigo

IRetos == UnTitular /\ CopiaFiel /\ SinGastar /\ DesafioFiel /\ UnaSesionPorDesafio
IActivo == Testigos /\ ParDeActivo
IFallos == ContadorCaduca /\ BloqueoOportuno

IInv == TypeOK /\ Situadas /\ IRetos /\ IActivo /\ IFallos

-----------------------------------------------------------------------------
(* Effects *)

\* A page that shows the credentials and a free request are well typed.
LEMMA Iniciales == Cerrada \in Vistas /\ Libre \in Pets /\ SinDesafio \in Retos
<1>1. SinDesafio \in Retos
  BY AccesoAssumption DEF AccesoAssumption, SinDesafio, Retos
<1>2. Libre \in Pets
  BY <1>1, AccesoAssumption DEF AccesoAssumption, Libre, Pets, Fases
<1>3. Cerrada \in Vistas
  BY DEF Cerrada, Vistas
<1> QED BY <1>1, <1>2, <1>3

LEMMA TiposDe == TypeOK => pet \in [Peticiones -> Pets] /\ pagina \in [Paginas -> Vistas]
BY DEF TypeOK, Pets, Vistas

\* A request that answers is free, and changes at most the page that waits for it.
LEMMA RespuestaDe ==
  ASSUME TypeOK, NEW q \in Peticiones, NEW v, Responder(q, v),
         \A p \in Paginas : p = pet[q].pagina => [v EXCEPT !.espera = Nadie] \in Vistas
  PROVE  /\ pet' \in [Peticiones -> Pets] /\ pagina' \in [Paginas -> Vistas]
         /\ pet'[q] = Libre /\ \A r \in Peticiones \ {q} : pet'[r] = pet[r]
         /\ \A p \in Paginas : \/ pagina'[p] = pagina[p] /\ (p = pet[q].pagina => pagina[p].espera # q)
                               \/ /\ pagina'[p] = [v EXCEPT !.espera = Nadie]
                                  /\ p = pet[q].pagina /\ pagina[p].espera = q
<1>1. pet \in [Peticiones -> Pets] /\ pagina \in [Paginas -> Vistas] /\ Libre \in Pets
  BY TiposDe, Iniciales
<1> DEFINE w == [v EXCEPT !.espera = Nadie]
<1>2. /\ pet' = [pet EXCEPT ![q] = Libre]
      /\ pagina' = IF pet[q].pagina \in Paginas /\ pagina[pet[q].pagina].espera = q
                     THEN [pagina EXCEPT ![pet[q].pagina] = w] ELSE pagina
  BY DEF Responder
<1>3. \A p \in Paginas : p = pet[q].pagina => w \in Vistas
  OBVIOUS
<1> HIDE DEF w
<1>4. pet' \in [Peticiones -> Pets] /\ pet'[q] = Libre /\ \A r \in Peticiones \ {q} : pet'[r] = pet[r]
  BY <1>1, <1>2
<1>5. /\ pagina' \in [Paginas -> Vistas]
      /\ \A p \in Paginas : \/ pagina'[p] = pagina[p] /\ (p = pet[q].pagina => pagina[p].espera # q)
                            \/ /\ pagina'[p] = w
                               /\ p = pet[q].pagina /\ pagina[p].espera = q
  BY <1>1, <1>2, <1>3
<1> QED BY <1>4, <1>5 DEF w

\* A rejection frees the request and leaves the page that waits where it is.
LEMMA RechazoDe ==
  ASSUME TypeOK, NEW q \in Peticiones, Rechazar(q)
  PROVE  /\ pet' \in [Peticiones -> Pets] /\ pagina' \in [Paginas -> Vistas]
         /\ pet'[q] = Libre /\ \A r \in Peticiones \ {q} : pet'[r] = pet[r]
         /\ \A p \in Paginas :
              /\ pagina'[p].paso = pagina[p].paso /\ pagina'[p].cuenta = pagina[p].cuenta
              /\ pagina'[p].desafio = pagina[p].desafio
              /\ pagina'[p].espera = pagina[p].espera \/ pagina[p].espera = q
<1>1. pet \in [Peticiones -> Pets] /\ pagina \in [Paginas -> Vistas]
  BY TiposDe
<1>2. \A p \in Paginas : [pagina[p] EXCEPT !.espera = Nadie] \in Vistas
  BY <1>1 DEF Vistas
<1>3. \A p \in Paginas : p = pet[q].pagina => [pagina[pet[q].pagina] EXCEPT !.espera = Nadie] \in Vistas
  BY <1>2
<1>4. Responder(q, pagina[pet[q].pagina])
  BY DEF Rechazar
<1>5. \A p \in Paginas :
        \/ pagina'[p] = pagina[p]
        \/ pagina'[p] = [pagina[p] EXCEPT !.espera = Nadie] /\ pagina[p].espera = q
  BY <1>3, <1>4, RespuestaDe
<1>6. \A p \in Paginas :
        /\ pagina'[p].paso = pagina[p].paso /\ pagina'[p].cuenta = pagina[p].cuenta
        /\ pagina'[p].desafio = pagina[p].desafio
        /\ pagina'[p].espera = pagina[p].espera \/ pagina[p].espera = q
  <2>1. \A p \in Paginas :
          LET w == [pagina[p] EXCEPT !.espera = Nadie] IN
          /\ w.paso = pagina[p].paso /\ w.cuenta = pagina[p].cuenta
          /\ w.desafio = pagina[p].desafio
    BY <1>1 DEF Vistas
  <2> QED BY <1>5, <2>1
<1>7. /\ pet' \in [Peticiones -> Pets] /\ pagina' \in [Paginas -> Vistas]
      /\ pet'[q] = Libre /\ \A r \in Peticiones \ {q} : pet'[r] = pet[r]
  BY <1>3, <1>4, RespuestaDe
<1> QED BY <1>6, <1>7

\* A request that goes on changes its phase only.
LEMMA PasoDe ==
  ASSUME TypeOK, NEW q \in Peticiones, NEW f \in Fases, Pasar(q, f)
  PROVE  /\ pet' \in [Peticiones -> Pets]
         /\ \A r \in Peticiones \ {q} : pet'[r] = pet[r]
         /\ pet'[q] = [pet[q] EXCEPT !.fase = f]
<1>1. pet \in [Peticiones -> Pets]
  BY TiposDe
<1>2. [pet[q] EXCEPT !.fase = f] \in Pets
  BY <1>1 DEF Pets
<1> QED BY <1>1, <1>2 DEF Pasar

-----------------------------------------------------------------------------
(* Shapes of a step, and what each part of the invariant needs of them *)

\* Request q ends: no page gets a challenge from it
Salida(q) ==
  /\ pet' \in [Peticiones -> Pets] /\ pagina' \in [Paginas -> Vistas]
  /\ pet'[q] = Libre /\ \A r \in Peticiones \ {q} : pet'[r] = pet[r]
  /\ \A p \in Paginas :
       /\ pagina'[p].paso # "credenciales" => pagina'[p].cuenta \in Cuentas
       /\ pagina'[p].paso = "codigo" =>
            /\ pagina[p].paso = "codigo" /\ pagina'[p].desafio = pagina[p].desafio
            /\ pagina'[p].espera = pagina[p].espera \/ pagina[p].espera = q

\* Request q goes on with what it has
Avanza(q) ==
  /\ pet' \in [Peticiones -> Pets] /\ pagina' = pagina
  /\ pet[q].fase # "libre" /\ \A r \in Peticiones \ {q} : pet'[r] = pet[r]
  /\ pet'[q].pagina = pet[q].pagina /\ pet'[q].cuenta = pet[q].cuenta
  /\ pet'[q].desafio = pet[q].desafio /\ pet'[q].testigo = pet[q].testigo
  /\ pet'[q].fase \in Toca => pet[q].fase \in Toca /\ pet'[q].fase # "correo"

\* No request and no page gets a challenge
MismoReto ==
  /\ \A r \in Peticiones : pet'[r].fase \in Toca =>
       /\ pet[r].fase \in Toca /\ pet'[r].desafio = pet[r].desafio
       /\ pet'[r].fase = "correo" => pet[r].fase = "correo"
  /\ \A p \in Paginas : pagina'[p].paso = "codigo" =>
       /\ pagina[p].paso = "codigo" /\ pagina'[p].desafio = pagina[p].desafio
       /\ \/ pagina'[p].espera = pagina[p].espera
          \/ \A r \in Peticiones : pagina[p].espera = r => pet'[r].fase \notin Toca \ {"correo"}

\* No request gets a copy
MismaCopia ==
  \A r \in Peticiones : pet'[r].fase \in Copiado =>
    /\ pet'[r].fase = pet[r].fase /\ pet'[r].desafio = pet[r].desafio
    /\ pet'[r].copia = pet[r].copia

\* No request gets near a session but those that saw the account active
MismoTestigo ==
  \A r \in Peticiones : pet'[r].fase # "libre" =>
    /\ pet[r].fase # "libre" /\ pet'[r].cuenta = pet[r].cuenta
    /\ pet'[r].testigo = pet[r].testigo
    /\ pet'[r].fase \in {"limpiar", "guardar", "emitir"} => pet[r].testigo

RetosQuietos == UNCHANGED <<desafios, usados, ultimo, errores, canjes>>
FallosQuietos == UNCHANGED <<fallos, caduca, bloqueo>>

LEMMA TitularQuieto == ASSUME UnTitular, MismoReto PROVE UnTitular'
BY DEF UnTitular, MismoReto

LEMMA CopiaQuieta ==
  ASSUME IRetos, MismaCopia, RetosQuietos
  PROVE  CopiaFiel' /\ SinGastar' /\ DesafioFiel' /\ UnaSesionPorDesafio'
<1>1. CopiaFiel'
  BY DEF IRetos, CopiaFiel, MismaCopia, RetosQuietos
<1>2. SinGastar' /\ DesafioFiel' /\ UnaSesionPorDesafio'
  BY DEF IRetos, SinGastar, DesafioFiel, UnaSesionPorDesafio, RetosQuietos
<1> QED BY <1>1, <1>2

LEMMA TestigoQuieto == ASSUME Testigos, MismoTestigo, activo' = activo PROVE IActivo'
BY DEF Testigos, MismoTestigo, IActivo, ParDeActivo

\* A request outside registerFailure, or one that is excused, may end or go on.
LEMMA FalloQuieto ==
  ASSUME IFallos, NEW q \in Peticiones, FallosQuietos, excusa \subseteq excusa',
         \A r \in Peticiones \ {q} : pet'[r] = pet[r],
         pet[q].fase \in {"caducar", "bloquear"} => pet[q].cuenta \in excusa'
  PROVE  IFallos'
<1>1. \A u \in Cuentas :
        /\ EnFase(u, "caducar") => EnFase(u, "caducar")' \/ u \in excusa'
        /\ EnFase(u, "bloquear") => EnFase(u, "bloquear")' \/ u \in excusa'
  BY DEF EnFase
<1> QED BY <1>1 DEF IFallos, ContadorCaduca, BloqueoOportuno, FallosQuietos

LEMMA SalidaQuieta ==
  ASSUME IInv, NEW q \in Peticiones, Salida(q), usados' = usados
  PROVE  Situadas' /\ UnTitular' /\ MismaCopia /\ (activo' = activo => IActivo')
<1>1. Situadas'
  BY DEF IInv, Situadas, Salida, Libre, Toca
<1>2. MismoReto
  BY DEF Salida, MismoReto, Libre, Toca
<1>3. UnTitular'
  BY <1>2, TitularQuieto DEF IInv, IRetos
<1>4. MismaCopia
  BY DEF Salida, MismaCopia, Libre, Copiado
<1>5. MismoTestigo
  BY DEF Salida, MismoTestigo, Libre, IInv, IActivo, Testigos, ParDeActivo
<1>6. activo' = activo => IActivo'
  BY <1>5, TestigoQuieto DEF IInv, IActivo
<1> QED BY <1>1, <1>3, <1>4, <1>6

LEMMA AvanceQuieto ==
  ASSUME IInv, NEW q \in Peticiones, Avanza(q), usados' = usados
  PROVE  /\ Situadas' /\ UnTitular'
         /\ pet'[q].fase \notin Copiado => MismaCopia
         /\ (pet'[q].fase \in {"limpiar", "guardar", "emitir"} => pet[q].testigo)
            /\ activo' = activo => IActivo'
<1>1. Situadas'
  BY DEF IInv, Situadas, Avanza
<1>2. MismoReto
  BY DEF Avanza, MismoReto
<1>3. UnTitular'
  BY <1>2, TitularQuieto DEF IInv, IRetos
<1>4. pet'[q].fase \notin Copiado => MismaCopia
  BY DEF Avanza, MismaCopia
<1>5. (pet'[q].fase \in {"limpiar", "guardar", "emitir"} => pet[q].testigo) => MismoTestigo
  BY DEF Avanza, MismoTestigo, IInv, IActivo, Testigos, ParDeActivo
<1>6. (pet'[q].fase \in {"limpiar", "guardar", "emitir"} => pet[q].testigo)
      /\ activo' = activo => IActivo'
  BY <1>5, TestigoQuieto DEF IInv, IActivo
<1> QED BY <1>1, <1>3, <1>4, <1>6

\* Three ways of ending
LEMMA RechazoSale == ASSUME IInv, NEW q \in Peticiones, Rechazar(q) PROVE Salida(q)
<1>1. TypeOK /\ Situadas
  BY DEF IInv
<1>2. /\ pet' \in [Peticiones -> Pets] /\ pagina' \in [Paginas -> Vistas]
      /\ pet'[q] = Libre /\ \A r \in Peticiones \ {q} : pet'[r] = pet[r]
      /\ \A p \in Paginas :
           /\ pagina'[p].paso = pagina[p].paso /\ pagina'[p].cuenta = pagina[p].cuenta
           /\ pagina'[p].desafio = pagina[p].desafio
           /\ pagina'[p].espera = pagina[p].espera \/ pagina[p].espera = q
  BY <1>1, RechazoDe
<1> QED BY <1>1, <1>2 DEF Salida, Situadas

LEMMA RespuestaSale ==
  ASSUME IInv, NEW q \in Peticiones, NEW v \in Vistas, Responder(q, v),
         v.paso # "codigo", v.paso # "credenciales" => v.cuenta \in Cuentas
  PROVE  Salida(q)
<1>1. TypeOK /\ Situadas
  BY DEF IInv
<1> DEFINE w == [v EXCEPT !.espera = Nadie]
<1>2. w \in Vistas /\ w.paso = v.paso /\ w.cuenta = v.cuenta
  BY DEF Vistas
<1>3. \A p \in Paginas : p = pet[q].pagina => w \in Vistas
  BY <1>2
<1>4. /\ pet' \in [Peticiones -> Pets] /\ pagina' \in [Paginas -> Vistas]
      /\ pet'[q] = Libre /\ \A r \in Peticiones \ {q} : pet'[r] = pet[r]
      /\ \A p \in Paginas : pagina'[p] = pagina[p] \/ pagina'[p] = w
  BY <1>1, <1>3, RespuestaDe
<1> HIDE DEF w
<1> QED BY <1>1, <1>2, <1>4 DEF Salida, Situadas

LEMMA CierreSale ==
  ASSUME IInv, NEW q \in Peticiones, Responder(q, Cerrada) PROVE Salida(q)
BY Iniciales, RespuestaSale DEF Cerrada

\* A step of a request that goes on by Pasar.
LEMMA PasoAvanza ==
  ASSUME IInv, NEW q \in Peticiones, NEW f \in Fases, Pasar(q, f), pagina' = pagina,
         pet[q].fase # "libre", f \in Toca => pet[q].fase \in Toca /\ f # "correo"
  PROVE  Avanza(q) /\ pet'[q].fase = f
<1>1. TypeOK
  BY DEF IInv
<1>2. /\ pet' \in [Peticiones -> Pets]
      /\ \A r \in Peticiones \ {q} : pet'[r] = pet[r]
      /\ pet'[q] = [pet[q] EXCEPT !.fase = f]
  BY <1>1, PasoDe
<1>3. pet[q] \in Pets
  BY <1>1, TiposDe
<1>4. /\ pet'[q].pagina = pet[q].pagina /\ pet'[q].cuenta = pet[q].cuenta
      /\ pet'[q].desafio = pet[q].desafio /\ pet'[q].testigo = pet[q].testigo
      /\ pet'[q].fase = f
  BY <1>2, <1>3 DEF Pets
<1> QED BY <1>2, <1>4 DEF Avanza

\* Only requests, pages, sessions and excuses change
Tranquilo ==
  /\ UNCHANGED <<otp, activo>> /\ RetosQuietos /\ FallosQuietos
  /\ vivos' \subseteq Paginas /\ excusa \subseteq excusa' /\ excusa' \subseteq Cuentas

LEMMA TiposTras ==
  ASSUME TypeOK, Tranquilo, pet' \in [Peticiones -> Pets], pagina' \in [Paginas -> Vistas]
  PROVE  TypeOK'
BY DEF TypeOK, Tranquilo, RetosQuietos, FallosQuietos, Pets, Vistas

LEMMA FinTranquilo ==
  ASSUME IInv, NEW q \in Peticiones, Salida(q), Tranquilo,
         pet[q].fase \in {"caducar", "bloquear"} => pet[q].cuenta \in excusa'
  PROVE  IInv'
<1>1. TypeOK'
  BY TiposTras DEF IInv, Salida
<1>2. Situadas' /\ UnTitular' /\ MismaCopia /\ IActivo'
  BY SalidaQuieta DEF Tranquilo, RetosQuietos
<1>3. IRetos'
  BY <1>2, CopiaQuieta DEF IInv, IRetos, Tranquilo
<1>4. IFallos'
  BY FalloQuieto DEF IInv, Tranquilo, Salida
<1> QED BY <1>1, <1>2, <1>3, <1>4 DEF IInv

LEMMA AvanceTranquilo ==
  ASSUME IInv, NEW q \in Peticiones, Avanza(q), Tranquilo,
         pet'[q].fase \notin Copiado, pet[q].fase \notin {"caducar", "bloquear"},
         pet'[q].fase \in {"limpiar", "guardar", "emitir"} => pet[q].testigo
  PROVE  IInv'
<1>1. TypeOK'
  BY TiposTras, TiposDe DEF IInv, Avanza
<1>2. Situadas' /\ UnTitular' /\ MismaCopia /\ IActivo'
  BY AvanceQuieto DEF Tranquilo, RetosQuietos
<1>3. IRetos'
  BY <1>2, CopiaQuieta DEF IInv, IRetos, Tranquilo
<1>4. IFallos'
  BY FalloQuieto DEF IInv, Tranquilo, Avanza
<1> QED BY <1>1, <1>2, <1>3, <1>4 DEF IInv

LEMMA PaginaTranquila ==
  ASSUME IInv, pet' = pet, UNCHANGED <<otp, servidor, historia>>, MismoReto,
         pagina' \in [Paginas -> Vistas],
         \A p \in Paginas : pagina'[p].paso # "credenciales" => pagina'[p].cuenta \in Cuentas
  PROVE  IInv'
<1>1. Tranquilo
  BY DEF Tranquilo, RetosQuietos, FallosQuietos, servidor, historia, IInv, TypeOK
<1>2. TypeOK'
  BY <1>1, TiposTras, TiposDe DEF IInv
<1>3. Situadas'
  BY DEF IInv, Situadas, MismoReto, historia
<1>4. UnTitular'
  BY TitularQuieto DEF IInv, IRetos
<1>5. MismaCopia
  BY DEF MismaCopia
<1>6. IRetos'
  BY <1>1, <1>4, <1>5, CopiaQuieta DEF IInv, IRetos, Tranquilo
<1>7. IActivo' /\ IFallos'
  BY DEF IInv, IActivo, IFallos, Testigos, ParDeActivo, ContadorCaduca, BloqueoOportuno,
         EnFase, servidor, historia
<1> QED BY <1>2, <1>3, <1>6, <1>7 DEF IInv

-----------------------------------------------------------------------------
(* Pages *)

\* A page sends a request with the challenge it shows.
LEMMA EnviarFiel ==
  ASSUME IInv, NEW p \in Paginas, NEW q \in Peticiones, NEW u \in Cuentas,
         NEW c \in 0..MaxCodigos, NEW f \in {"candado", "leer", "releer", "canje"},
         Enviar(p, q, f, u, c), f \in Toca <=> pagina[p].paso = "codigo"
  PROVE  IInv'
<1>1. pet \in [Peticiones -> Pets] /\ pagina \in [Paginas -> Vistas] /\ activo \in [Cuentas -> BOOLEAN]
  BY TiposDe DEF IInv, TypeOK
<1> DEFINE x == [Libre EXCEPT !.fase = f, !.pagina = p, !.cuenta = u,
                      !.desafio = pagina[p].desafio, !.codigo = c, !.testigo = activo[u]]
<1>2. x \in Pets /\ x.fase = f /\ x.pagina = p /\ x.cuenta = u
      /\ x.desafio = pagina[p].desafio /\ x.testigo = activo[u]
  <2>1. pagina[p].desafio \in Desafios \cup {Nadie} /\ activo[u] \in BOOLEAN /\ f \in Fases
    BY <1>1 DEF Vistas, Fases
  <2> QED BY <2>1, Iniciales DEF Pets
<1>3. pet' = [pet EXCEPT ![q] = x]
  BY DEF Enviar
<1> HIDE DEF x
<1>4. /\ pagina' \in [Paginas -> Vistas]
      /\ \A r \in Paginas : /\ pagina'[r].paso = pagina[r].paso
                            /\ pagina'[r].desafio = pagina[r].desafio
                            /\ r # p => pagina'[r] = pagina[r]
      /\ pagina'[p].cuenta = u /\ pagina'[p].espera = q
  <2>1. pagina' = [pagina EXCEPT ![p] = [pagina[p] EXCEPT !.espera = q, !.cuenta = u]]
    BY <1>1 DEF Enviar, Vistas
  <2>2. /\ [pagina[p] EXCEPT !.espera = q, !.cuenta = u] \in Vistas
        /\ [pagina[p] EXCEPT !.espera = q, !.cuenta = u].paso = pagina[p].paso
        /\ [pagina[p] EXCEPT !.espera = q, !.cuenta = u].desafio = pagina[p].desafio
        /\ [pagina[p] EXCEPT !.espera = q, !.cuenta = u].cuenta = u
        /\ [pagina[p] EXCEPT !.espera = q, !.cuenta = u].espera = q
    BY <1>1 DEF Vistas
  <2> QED BY <1>1, <2>1, <2>2
<1>5. /\ pet' \in [Peticiones -> Pets] /\ \A r \in Peticiones \ {q} : pet'[r] = pet[r]
      /\ pet'[q].fase = f /\ pet'[q].pagina = p /\ pet'[q].cuenta = u
      /\ pet'[q].desafio = pagina[p].desafio /\ pet'[q].testigo = activo[u]
  BY <1>1, <1>2, <1>3
<1>6. /\ pagina[p].espera = Nadie /\ pet[q].fase = "libre" /\ Nadie \notin Peticiones
      /\ UNCHANGED <<otp, servidor, historia>>
  BY AccesoAssumption DEF AccesoAssumption, Enviar, Libre
<1>7. Tranquilo /\ usados' = usados /\ activo' = activo
  BY <1>6 DEF Tranquilo, RetosQuietos, FallosQuietos, servidor, historia, IInv, TypeOK
<1>8. TypeOK'
  BY <1>4, <1>5, <1>7, TiposTras DEF IInv
<1>9. Situadas'
  BY <1>4, <1>5, <1>7 DEF IInv, Situadas
<1>10. UnTitular'
  <2>1. UnTitular
    BY DEF IInv, IRetos
  <2>2. \A r \in Peticiones \ {q} : f \in Toca /\ pet[r].fase \in Toca => pagina[p].desafio # pet[r].desafio
    BY <1>6, <2>1 DEF UnTitular
  <2>3. \A r \in Paginas \ {p} : f \in Toca /\ pagina[r].paso = "codigo" => pagina[p].desafio # pagina[r].desafio
    BY <2>1 DEF UnTitular
  <2>4. \A r, t \in Peticiones :
          r # t /\ pet'[r].fase \in Toca /\ pet'[t].fase \in Toca => pet'[r].desafio # pet'[t].desafio
    BY <1>5, <2>1, <2>2 DEF UnTitular
  <2>5. \A r \in Paginas, t \in Peticiones :
          /\ pagina'[r].paso = "codigo" /\ pet'[t].fase \in Toca
          /\ pagina'[r].desafio = pet'[t].desafio
          => pagina'[r].espera = t /\ pet'[t].fase # "correo"
    BY <1>4, <1>5, <1>6, <2>1, <2>2, <2>3 DEF UnTitular
  <2>6. \A r, t \in Paginas :
          r # t /\ pagina'[r].paso = "codigo" /\ pagina'[t].paso = "codigo" => pagina'[r].desafio # pagina'[t].desafio
    BY <1>4, <2>1 DEF UnTitular
  <2> QED BY <2>4, <2>5, <2>6 DEF UnTitular
<1>11. MismaCopia
  BY <1>5 DEF MismaCopia, Copiado
<1>12. IRetos'
  BY <1>7, <1>10, <1>11, CopiaQuieta DEF IInv, IRetos, Tranquilo
<1>13. IActivo'
  BY <1>5, <1>7 DEF IInv, IActivo, Testigos, ParDeActivo
<1>14. IFallos'
  BY <1>5, <1>6, <1>7, FalloQuieto DEF IInv, Tranquilo
<1> QED BY <1>8, <1>9, <1>12, <1>13, <1>14 DEF IInv

\* What a page sends, and what it does on its own, keep the invariant.
LEMMA PaginaFiel ==
  ASSUME IInv, NEW p \in Paginas, NEW q \in Peticiones, Pagina(p, q) PROVE IInv'
<1>1. CASE \E u \in Cuentas, bien \in BOOLEAN : SubmitCredentials(p, q, u, bien)
  <2>1. PICK u \in Cuentas, bien \in BOOLEAN : SubmitCredentials(p, q, u, bien)
    BY <1>1
  <2>2. (IF bien THEN 1 ELSE 0) \in 0..MaxCodigos
    BY AccesoAssumption DEF AccesoAssumption
  <2>3. pagina[p].paso = "credenciales" /\ Enviar(p, q, "candado", u, IF bien THEN 1 ELSE 0)
    BY <2>1 DEF SubmitCredentials
  <2> QED BY <2>2, <2>3, EnviarFiel DEF Toca
<1>2. CASE \E c \in 0..MaxCodigos : SubmitOtp(p, q, c)
  <2>1. PICK c \in 0..MaxCodigos : SubmitOtp(p, q, c)
    BY <1>2
  <2>2. pagina[p].paso = "codigo" /\ Enviar(p, q, "leer", pagina[p].cuenta, c)
    BY <2>1 DEF SubmitOtp
  <2>3. pagina[p].cuenta \in Cuentas
    BY <2>2 DEF IInv, Situadas
  <2> QED BY <2>2, <2>3, EnviarFiel DEF Toca
<1>3. CASE ResendCode(p, q)
  <2>1. pagina[p].paso = "codigo" /\ Enviar(p, q, "releer", pagina[p].cuenta, 0)
    BY <1>3 DEF ResendCode
  <2>2. pagina[p].cuenta \in Cuentas /\ 0 \in 0..MaxCodigos
    BY <2>1, AccesoAssumption DEF IInv, Situadas, AccesoAssumption
  <2> QED BY <2>1, <2>2, EnviarFiel DEF Toca
<1>4. CASE PedirRefresco(p, q)
  <2>1. pagina[p].paso = "dentro" /\ Enviar(p, q, "canje", pagina[p].cuenta, 0)
    BY <1>4 DEF PedirRefresco
  <2>2. pagina[p].cuenta \in Cuentas /\ 0 \in 0..MaxCodigos
    BY <2>1, AccesoAssumption DEF IInv, Situadas, AccesoAssumption
  <2> QED BY <2>1, <2>2, EnviarFiel DEF Toca
<1> QED BY <1>1, <1>2, <1>3, <1>4 DEF Pagina

\* A page leaves its challenge, is reloaded, or gives up its request.
LEMMA VistaFiel ==
  ASSUME IInv, NEW p \in Paginas, NEW w \in Vistas, pagina' = [pagina EXCEPT ![p] = w],
         pet' = pet, UNCHANGED <<otp, servidor, historia>>,
         w.paso # "credenciales" => w.paso = pagina[p].paso /\ w.cuenta = pagina[p].cuenta,
         w.paso = "codigo" => w.desafio = pagina[p].desafio
           /\ \A r \in Peticiones : pagina[p].espera = r => pet[r].fase \notin Toca \ {"correo"}
  PROVE  IInv'
<1>1. pagina \in [Paginas -> Vistas]
  BY TiposDe DEF IInv
<1>2. /\ pagina' \in [Paginas -> Vistas] /\ pagina'[p] = w
      /\ \A r \in Paginas \ {p} : pagina'[r] = pagina[r]
  BY <1>1
<1>3. MismoReto
  BY <1>2 DEF MismoReto
<1>4. \A r \in Paginas : pagina'[r].paso # "credenciales" => pagina'[r].cuenta \in Cuentas
  BY <1>2 DEF IInv, Situadas
<1> QED BY <1>2, <1>3, <1>4, PaginaTranquila

LEMMA BackToCredentialsFiel ==
  ASSUME IInv, NEW p \in Paginas, BackToCredentials(p) PROVE IInv'
<1>1. pagina \in [Paginas -> Vistas]
  BY TiposDe DEF IInv
<1> DEFINE w == [pagina[p] EXCEPT !.paso = "credenciales", !.desafio = Nadie]
<1>2. w \in Vistas /\ w.paso = "credenciales"
  BY <1>1 DEF Vistas
<1>3. pagina' = [pagina EXCEPT ![p] = w]
  BY <1>1 DEF BackToCredentials, Vistas
<1>4. pet' = pet /\ UNCHANGED <<otp, servidor, historia>>
  BY DEF BackToCredentials
<1> HIDE DEF w
<1> QED BY <1>2, <1>3, <1>4, VistaFiel

LEMMA RecargarFiel == ASSUME IInv, NEW p \in Paginas, Recargar(p) PROVE IInv'
<1>1. Cerrada \in Vistas /\ Cerrada.paso = "credenciales"
  BY Iniciales DEF Cerrada
<1>2. /\ pagina' = [pagina EXCEPT ![p] = Cerrada] /\ pet' = pet
      /\ UNCHANGED <<otp, servidor, historia>>
  BY DEF Recargar
<1> QED BY <1>1, <1>2, VistaFiel

LEMMA VencerFiel == ASSUME IInv, NEW q \in Peticiones, Vencer(q) PROVE IInv'
<1>1. pagina \in [Paginas -> Vistas]
  BY TiposDe DEF IInv
<1> DEFINE p == pet[q].pagina
           w == [pagina[p] EXCEPT !.espera = Nadie]
<1>2. /\ p \in Paginas /\ pagina' = [pagina EXCEPT ![p].espera = Nadie] /\ pagina[p].espera = q
      /\ pet[q].fase \in {"correo", "reenvio"}
      /\ pet' = pet /\ UNCHANGED <<otp, servidor, historia>>
  BY DEF Vencer
<1> HIDE DEF p
<1>3. /\ w \in Vistas /\ w.paso = pagina[p].paso /\ w.cuenta = pagina[p].cuenta
      /\ w.desafio = pagina[p].desafio
  BY <1>1, <1>2 DEF Vistas
<1>4. pagina' = [pagina EXCEPT ![p] = w]
  BY <1>1, <1>2 DEF Vistas
<1> HIDE DEF w
<1>5. \A r \in Peticiones : pagina[p].espera = r => pet[r].fase \notin Toca \ {"correo"}
  BY <1>2 DEF Toca
<1> QED BY <1>2, <1>3, <1>4, <1>5, VistaFiel

-----------------------------------------------------------------------------
(* Requests that touch neither a challenge nor a counter *)

\* A request that fails, or goes on outside its challenge.
LEMMA SinEfecto ==
  ASSUME IInv, UNCHANGED <<otp, servidor, historia>>
  PROVE  Tranquilo
BY DEF Tranquilo, RetosQuietos, FallosQuietos, servidor, historia, IInv, TypeOK

LEMMA RechazoFiel ==
  ASSUME IInv, NEW q \in Peticiones, Rechazar(q), UNCHANGED <<otp, servidor, historia>>,
         pet[q].fase \notin {"caducar", "bloquear"}
  PROVE  IInv'
BY SinEfecto, RechazoSale, FinTranquilo

LEMMA CierreFiel ==
  ASSUME IInv, NEW q \in Peticiones, Responder(q, Cerrada), UNCHANGED <<otp, servidor, historia>>,
         pet[q].fase \notin {"caducar", "bloquear"}
  PROVE  IInv'
BY SinEfecto, CierreSale, FinTranquilo

LEMMA PasoFiel ==
  ASSUME IInv, NEW q \in Peticiones, NEW f \in Fases \ Toca, Pasar(q, f), pagina' = pagina,
         Tranquilo, pet[q].fase \notin {"libre", "caducar", "bloquear"},
         f \in {"limpiar", "guardar", "emitir"} => pet[q].testigo
  PROVE  IInv'
<1>1. Avanza(q) /\ pet'[q].fase = f
  BY PasoAvanza
<1>2. f \notin Copiado
  BY DEF Copiado, Toca
<1> QED BY <1>1, <1>2, AvanceTranquilo

\* A request whose account is active has seen it so.
LEMMA ActivoVisto ==
  ASSUME IInv, NEW q \in Peticiones, pet[q].fase # "libre", activo[pet[q].cuenta]
  PROVE  pet[q].testigo
BY DEF IInv, IActivo, Testigos

LEMMA LeerCandadoFiel == ASSUME IInv, NEW q \in Peticiones, LeerCandado(q) PROVE IInv'
<1>1. pet[q].fase = "candado" /\ UNCHANGED <<otp, servidor, historia>>
  BY DEF LeerCandado
<1>2. CASE Rechazar(q)
  BY <1>1, <1>2, RechazoFiel
<1>3. CASE Pasar(q, "clave") /\ pagina' = pagina
  BY <1>1, <1>3, SinEfecto, PasoFiel DEF Fases, Toca
<1> QED BY <1>2, <1>3 DEF LeerCandado

LEMMA CompararClaveFiel == ASSUME IInv, NEW q \in Peticiones, CompararClave(q) PROVE IInv'
<1>1. pet[q].fase = "clave" /\ pagina' = pagina /\ UNCHANGED <<otp, servidor, historia>>
  BY DEF CompararClave
<1>2. pet \in [Peticiones -> Pets] /\ 0 \in 0..MaxCodigos
  BY TiposDe, AccesoAssumption DEF IInv, AccesoAssumption
<1>3. PICK f \in {"limpiar", "fallar"} :
        /\ pet' = [pet EXCEPT ![q].fase = f, ![q].codigo = 0]
        /\ f = "limpiar" => activo[pet[q].cuenta]
  BY DEF CompararClave
<1> DEFINE x == [pet[q] EXCEPT !.fase = f, !.codigo = 0]
<1>4. /\ x \in Pets /\ x.fase = f /\ x.pagina = pet[q].pagina /\ x.cuenta = pet[q].cuenta
      /\ x.desafio = pet[q].desafio /\ x.testigo = pet[q].testigo
  BY <1>2 DEF Pets, Fases
<1>5. pet' = [pet EXCEPT ![q] = x]
  BY <1>2, <1>3 DEF Pets
<1> HIDE DEF x
<1>6. Avanza(q) /\ pet'[q].fase = f
  BY <1>1, <1>2, <1>4, <1>5 DEF Avanza, Toca
<1>7. f = "limpiar" => pet[q].testigo
  BY <1>1, <1>3, ActivoVisto
<1> QED BY <1>1, <1>6, <1>7, SinEfecto, AvanceTranquilo DEF Copiado

LEMMA BuscarFiel == ASSUME IInv, NEW q \in Peticiones, Buscar(q) PROVE IInv'
<1>1. pet[q].fase = "buscar" /\ UNCHANGED <<otp, servidor, historia>>
  BY DEF Buscar
<1>2. CASE Rechazar(q)
  BY <1>1, <1>2, RechazoFiel
<1>3. CASE activo[pet[q].cuenta] /\ Pasar(q, "guardar") /\ pagina' = pagina
  BY <1>1, <1>3, SinEfecto, ActivoVisto, PasoFiel DEF Fases, Toca
<1> QED BY <1>2, <1>3 DEF Buscar

LEMMA CanjearFiel == ASSUME IInv, NEW q \in Peticiones, Canjear(q) PROVE IInv'
<1>1. pet[q].fase = "canje" /\ UNCHANGED <<otp, servidor, historia>>
  BY DEF Canjear
<1>2. CASE Responder(q, Cerrada)
  BY <1>1, <1>2, CierreFiel
<1>3. CASE Pasar(q, "quitar") /\ pagina' = pagina
  BY <1>1, <1>3, SinEfecto, PasoFiel DEF Fases, Toca
<1> QED BY <1>2, <1>3 DEF Canjear

LEMMA QuitarParFiel == ASSUME IInv, NEW q \in Peticiones, QuitarPar(q) PROVE IInv'
<1>1. pet[q].fase = "quitar" /\ Pasar(q, "buscarPar") /\ pagina' = pagina
  BY DEF QuitarPar
<1>2. Tranquilo
  BY DEF QuitarPar, Tranquilo, RetosQuietos, FallosQuietos, historia, IInv, TypeOK
<1> QED BY <1>1, <1>2, PasoFiel DEF Fases, Toca

LEMMA BuscarParFiel == ASSUME IInv, NEW q \in Peticiones, BuscarPar(q) PROVE IInv'
<1>1. pet[q].fase = "buscarPar" /\ UNCHANGED <<otp, servidor, historia>>
  BY DEF BuscarPar
<1>2. CASE Responder(q, Cerrada)
  BY <1>1, <1>2, CierreFiel
<1>3. CASE activo[pet[q].cuenta] /\ Pasar(q, "emitir") /\ pagina' = pagina
  BY <1>1, <1>3, SinEfecto, ActivoVisto, PasoFiel DEF Fases, Toca
<1> QED BY <1>2, <1>3 DEF BuscarPar

LEMMA EmitirParFiel == ASSUME IInv, NEW q \in Peticiones, EmitirPar(q) PROVE IInv'
<1> DEFINE v == [paso |-> "dentro", cuenta |-> pet[q].cuenta, desafio |-> Nadie, espera |-> Nadie]
<1>1. pet[q].fase = "emitir" /\ Responder(q, v)
  BY DEF EmitirPar
<1>2. pet[q].cuenta \in Cuentas /\ pet[q].pagina \in Paginas
  BY <1>1 DEF IInv, Situadas
<1>3. v \in Vistas /\ v.paso = "dentro" /\ v.cuenta = pet[q].cuenta
  BY <1>2 DEF Vistas
<1> HIDE DEF v
<1>4. Salida(q)
  BY <1>1, <1>2, <1>3, RespuestaSale
<1>5. Tranquilo
  BY <1>2 DEF EmitirPar, Tranquilo, RetosQuietos, FallosQuietos, historia, IInv, TypeOK
<1> QED BY <1>1, <1>4, <1>5, FinTranquilo

LEMMA ReenviarCodigoFiel == ASSUME IInv, NEW q \in Peticiones, ReenviarCodigo(q) PROVE IInv'
BY RechazoFiel DEF ReenviarCodigo

LEMMA CortarFiel == ASSUME IInv, NEW q \in Peticiones, Cortar(q) PROVE IInv'
<1>1. pet \in [Peticiones -> Pets]
  BY TiposDe DEF IInv
<1>2. Salida(q)
  BY RechazoSale, CierreSale DEF Cortar
<1>3. pet[q].fase \in {"caducar", "bloquear"} => pet[q].cuenta \in Cuentas
  BY DEF IInv, Situadas
<1>4. Tranquilo
  BY <1>3 DEF Cortar, Tranquilo, RetosQuietos, FallosQuietos, servidor, IInv, TypeOK
<1>5. pet[q].fase \in {"caducar", "bloquear"} => pet[q].cuenta \in excusa'
  BY DEF Cortar
<1> QED BY <1>2, <1>4, <1>5, FinTranquilo

-----------------------------------------------------------------------------
(* Counters and locks *)

\* A step that moves counters, locks and excuses only.
LEMMA RestoQuieto ==
  ASSUME IInv, NEW q \in Peticiones, Salida(q) \/ Avanza(q),
         pet'[q].fase \notin Copiado \cup {"limpiar", "emitir"},
         pet'[q].fase = "guardar" => pet[q].testigo,
         UNCHANGED <<otp, activo, vivos>>, RetosQuietos,
         fallos' \in [Cuentas -> 0..MaxContador], caduca' \subseteq Cuentas,
         bloqueo' \subseteq Cuentas, excusa' \subseteq Cuentas, IFallos'
  PROVE  IInv'
<1>1. pet' \in [Peticiones -> Pets] /\ pagina' \in [Paginas -> Vistas]
  BY TiposDe DEF Salida, Avanza, IInv
<1>2. TypeOK'
  BY <1>1 DEF IInv, TypeOK, RetosQuietos, Pets, Vistas
<1>3. Situadas' /\ UnTitular' /\ MismaCopia /\ IActivo'
  BY SalidaQuieta, AvanceQuieto DEF RetosQuietos
<1>4. IRetos'
  BY <1>3, CopiaQuieta DEF IInv, IRetos
<1> QED BY <1>2, <1>3, <1>4 DEF IInv

LEMMA LimpiarFallosFiel == ASSUME IInv, NEW q \in Peticiones, LimpiarFallos(q) PROVE IInv'
<1> DEFINE u == pet[q].cuenta
<1>1. /\ pet[q].fase = "limpiar" /\ pagina' = pagina
      /\ fallos' = [fallos EXCEPT ![u] = 0] /\ caduca' = caduca \ {u} /\ excusa' = excusa \ {u}
      /\ UNCHANGED <<otp, activo, vivos, bloqueo>> /\ RetosQuietos
  BY DEF LimpiarFallos, RetosQuietos
<1>2. PICK f \in {"retar", "guardar"} : Pasar(q, f)
  BY DEF LimpiarFallos
<1>3. Avanza(q) /\ pet'[q].fase = f
  BY <1>1, <1>2, PasoAvanza DEF Fases, Toca
<1>4. u \in Cuentas /\ pet[q].testigo
  BY <1>1 DEF IInv, Situadas, IActivo, Testigos
<1>5. /\ fallos \in [Cuentas -> 0..MaxContador] /\ 0 \in 0..MaxContador /\ MaxFallos > 0
      /\ caduca \subseteq Cuentas /\ bloqueo \subseteq Cuentas /\ excusa \subseteq Cuentas
      /\ MaxFallos \in Nat
  BY AccesoAssumption DEF AccesoAssumption, IInv, TypeOK
<1> HIDE DEF u
<1>6. fallos' \in [Cuentas -> 0..MaxContador] /\ fallos'[u] = 0
      /\ \A w \in Cuentas \ {u} : fallos'[w] = fallos[w]
  BY <1>1, <1>4, <1>5
<1>7. \A w \in Cuentas :
        /\ EnFase(w, "caducar") => EnFase(w, "caducar")'
        /\ EnFase(w, "bloquear") => EnFase(w, "bloquear")'
  BY <1>1, <1>3 DEF Avanza, EnFase
<1>8. ContadorCaduca'
  BY <1>1, <1>6, <1>7 DEF IInv, IFallos, ContadorCaduca
<1>9. BloqueoOportuno'
  BY <1>1, <1>5, <1>6, <1>7 DEF IInv, IFallos, BloqueoOportuno
<1> QED BY <1>1, <1>3, <1>4, <1>5, <1>6, <1>8, <1>9, RestoQuieto DEF IFallos, Copiado

LEMMA FallarFiel == ASSUME IInv, NEW q \in Peticiones, Fallar(q) PROVE IInv'
<1>1. /\ MaxFallos \in Nat /\ MaxFallos > 1 /\ MaxContador \in Nat
      /\ fallos \in [Cuentas -> 0..MaxContador]
      /\ caduca \subseteq Cuentas /\ bloqueo \subseteq Cuentas /\ excusa \subseteq Cuentas
  BY AccesoAssumption DEF AccesoAssumption, IInv, TypeOK
<1>2. PICK u \in Cuentas : u = pet[q].cuenta
  BY DEF Fallar, IInv, Situadas
<1>3. PICK n \in 1..MaxContador : n = fallos[u] + 1
  BY <1>1, <1>2 DEF Fallar
<1>4. /\ pet[q].fase = "fallar"
      /\ fallos' = [fallos EXCEPT ![u] = n]
      /\ UNCHANGED <<otp, activo, vivos, caduca, bloqueo, excusa>> /\ RetosQuietos
  BY <1>2, <1>3 DEF Fallar, RetosQuietos, historia
<1>5. \/ TrasFallo(n) = "libre" /\ Rechazar(q)
      \/ TrasFallo(n) # "libre" /\ Pasar(q, TrasFallo(n)) /\ pagina' = pagina
  BY <1>2, <1>3 DEF Fallar
<1>6. pet[q] \in Pets
  BY TiposDe DEF IInv
<1>7. /\ n = 1 => TrasFallo(n) = "caducar"
      /\ n >= MaxFallos => TrasFallo(n) = "bloquear"
      /\ TrasFallo(n) \in {"libre", "caducar", "bloquear"}
  BY <1>1 DEF TrasFallo
<1>8. \/ TrasFallo(n) = "libre" /\ Salida(q)
      \/ TrasFallo(n) # "libre" /\ Avanza(q) /\ pet'[q].fase = TrasFallo(n)
  <2>1. CASE TrasFallo(n) = "libre" /\ Rechazar(q)
    BY <2>1, RechazoSale
  <2>2. CASE TrasFallo(n) # "libre" /\ Pasar(q, TrasFallo(n)) /\ pagina' = pagina
    <3>1. TrasFallo(n) \in Fases \ Toca
      BY <1>7, <2>2 DEF Fases, Toca
    <3> QED BY <1>4, <2>2, <3>1, PasoAvanza
  <2> QED BY <1>5, <2>1, <2>2
<1>9. \A r \in Peticiones \ {q} : pet'[r] = pet[r]
  BY <1>8 DEF Salida, Avanza
<1>10. pet'[q].fase \in {"libre", "caducar", "bloquear"}
      /\ (pet'[q].fase # "libre" => pet'[q].cuenta = u)
      /\ (TrasFallo(n) # "libre" => pet'[q].fase = TrasFallo(n))
  BY <1>2, <1>6, <1>7, <1>8 DEF Salida, Avanza, Libre
<1>11. fallos' \in [Cuentas -> 0..MaxContador] /\ fallos'[u] = n
      /\ \A w \in Cuentas \ {u} : fallos'[w] = fallos[w]
  BY <1>1, <1>4
<1>12. \A w \in Cuentas :
        /\ EnFase(w, "caducar") => EnFase(w, "caducar")'
        /\ EnFase(w, "bloquear") => EnFase(w, "bloquear")'
  BY <1>4, <1>9 DEF EnFase
<1>13. /\ n = 1 => EnFase(u, "caducar")'
       /\ n >= MaxFallos => EnFase(u, "bloquear")'
  BY <1>7, <1>10 DEF EnFase
<1>14. ContadorCaduca'
  <2>1. n = 1 \/ fallos[u] > 0
    BY <1>1, <1>3
  <2> QED BY <1>4, <1>11, <1>12, <1>13, <2>1 DEF IInv, IFallos, ContadorCaduca
<1>15. BloqueoOportuno'
  BY <1>4, <1>11, <1>12, <1>13 DEF IInv, IFallos, BloqueoOportuno
<1> QED BY <1>1, <1>4, <1>8, <1>10, <1>11, <1>14, <1>15, RestoQuieto DEF IFallos, Copiado

LEMMA CaducarFiel == ASSUME IInv, NEW q \in Peticiones, Caducar(q) PROVE IInv'
<1> DEFINE u == pet[q].cuenta
<1>1. /\ pet[q].fase = "caducar" /\ Rechazar(q)
      /\ caduca' = IF fallos[u] > 0 THEN caduca \cup {u} ELSE caduca
      /\ UNCHANGED <<otp, activo, vivos, fallos, bloqueo, excusa>> /\ RetosQuietos
  BY DEF Caducar, RetosQuietos, historia
<1>2. Salida(q) /\ pet'[q].fase = "libre"
  <2>1. Salida(q)
    BY <1>1, RechazoSale
  <2> QED BY <2>1 DEF Salida, Libre
<1>3. /\ u \in Cuentas /\ fallos \in [Cuentas -> 0..MaxContador]
      /\ caduca \subseteq Cuentas /\ bloqueo \subseteq Cuentas /\ excusa \subseteq Cuentas
  BY <1>1 DEF IInv, TypeOK, Situadas
<1>4. caduca' \subseteq Cuentas /\ caduca \subseteq caduca' /\ (fallos[u] > 0 => u \in caduca')
  BY <1>1, <1>3
<1>5. \A w \in Cuentas :
        /\ EnFase(w, "caducar") => EnFase(w, "caducar")' \/ w = u
        /\ EnFase(w, "bloquear") => EnFase(w, "bloquear")'
  BY <1>1, <1>2 DEF Salida, EnFase
<1>6. ContadorCaduca' /\ BloqueoOportuno'
  BY <1>1, <1>4, <1>5 DEF IInv, IFallos, ContadorCaduca, BloqueoOportuno
<1> QED BY <1>1, <1>2, <1>3, <1>4, <1>6, RestoQuieto DEF IFallos, Copiado

LEMMA BloquearFiel == ASSUME IInv, NEW q \in Peticiones, Bloquear(q) PROVE IInv'
<1> DEFINE u == pet[q].cuenta
<1>1. /\ pet[q].fase = "bloquear" /\ Rechazar(q) /\ bloqueo' = bloqueo \cup {u}
      /\ UNCHANGED <<otp, activo, vivos, fallos, caduca, excusa>> /\ RetosQuietos
  BY DEF Bloquear, RetosQuietos, historia
<1>2. Salida(q) /\ pet'[q].fase = "libre"
  <2>1. Salida(q)
    BY <1>1, RechazoSale
  <2> QED BY <2>1 DEF Salida, Libre
<1>3. /\ u \in Cuentas /\ fallos \in [Cuentas -> 0..MaxContador]
      /\ caduca \subseteq Cuentas /\ bloqueo \subseteq Cuentas /\ excusa \subseteq Cuentas
  BY <1>1 DEF IInv, TypeOK, Situadas
<1>4. \A w \in Cuentas :
        /\ EnFase(w, "caducar") => EnFase(w, "caducar")'
        /\ EnFase(w, "bloquear") => EnFase(w, "bloquear")' \/ w = u
  BY <1>1, <1>2 DEF Salida, EnFase
<1>5. ContadorCaduca' /\ BloqueoOportuno'
  BY <1>1, <1>4 DEF IInv, IFallos, ContadorCaduca, BloqueoOportuno
<1> QED BY <1>1, <1>2, <1>3, <1>5, RestoQuieto DEF IFallos, Copiado

\* Time passes for a counter or a lock.
LEMMA RelojFiel ==
  ASSUME IInv, UNCHANGED <<otp, activo, vivos, pet, pagina>>, RetosQuietos,
         fallos' \in [Cuentas -> 0..MaxContador], caduca' \subseteq Cuentas,
         bloqueo' \subseteq Cuentas, excusa' \subseteq Cuentas, IFallos'
  PROVE  IInv'
<1>1. TypeOK'
  BY DEF IInv, TypeOK, RetosQuietos
<1>2. Situadas' /\ MismoReto /\ MismaCopia
  BY DEF IInv, Situadas, MismoReto, MismaCopia, RetosQuietos
<1>3. UnTitular'
  BY <1>2, TitularQuieto DEF IInv, IRetos
<1>4. IRetos'
  BY <1>2, <1>3, CopiaQuieta DEF IInv, IRetos
<1>5. IActivo'
  BY DEF IInv, IActivo, Testigos, ParDeActivo
<1> QED BY <1>1, <1>2, <1>4, <1>5 DEF IInv

LEMMA VenceBloqueoFiel == ASSUME IInv, NEW u \in Cuentas, VenceBloqueo(u) PROVE IInv'
<1>1. /\ bloqueo' = bloqueo \ {u}
      /\ excusa' = IF fallos[u] >= MaxFallos THEN excusa \cup {u} ELSE excusa
      /\ UNCHANGED <<otp, activo, vivos, pet, pagina, fallos, caduca>> /\ RetosQuietos
  BY DEF VenceBloqueo, RetosQuietos
<1>2. /\ fallos' \in [Cuentas -> 0..MaxContador] /\ caduca' \subseteq Cuentas
      /\ bloqueo' \subseteq Cuentas /\ excusa' \subseteq Cuentas /\ excusa \subseteq excusa'
      /\ fallos[u] >= MaxFallos => u \in excusa'
  BY <1>1 DEF IInv, TypeOK
<1>3. \A w \in Cuentas :
        /\ EnFase(w, "caducar") => EnFase(w, "caducar")'
        /\ EnFase(w, "bloquear") => EnFase(w, "bloquear")'
  BY <1>1 DEF EnFase
<1>4. ContadorCaduca' /\ BloqueoOportuno'
  BY <1>1, <1>2, <1>3 DEF IInv, IFallos, ContadorCaduca, BloqueoOportuno
<1> QED BY <1>1, <1>2, <1>4, RelojFiel DEF IFallos

LEMMA VenceContadorFiel == ASSUME IInv, NEW u \in Cuentas, VenceContador(u) PROVE IInv'
<1>1. /\ fallos' = [fallos EXCEPT ![u] = 0] /\ caduca' = caduca \ {u} /\ excusa' = excusa \ {u}
      /\ UNCHANGED <<otp, activo, vivos, pet, pagina, bloqueo>> /\ RetosQuietos
  BY DEF VenceContador, RetosQuietos
<1>2. /\ fallos \in [Cuentas -> 0..MaxContador] /\ 0 \in 0..MaxContador /\ ~(0 >= MaxFallos)
      /\ caduca \subseteq Cuentas /\ bloqueo \subseteq Cuentas /\ excusa \subseteq Cuentas
  BY AccesoAssumption DEF AccesoAssumption, IInv, TypeOK
<1>3. /\ fallos' \in [Cuentas -> 0..MaxContador] /\ fallos'[u] = 0
      /\ \A w \in Cuentas \ {u} : fallos'[w] = fallos[w]
  BY <1>1, <1>2
<1>4. \A w \in Cuentas :
        /\ EnFase(w, "caducar") => EnFase(w, "caducar")'
        /\ EnFase(w, "bloquear") => EnFase(w, "bloquear")'
  BY <1>1 DEF EnFase
<1>5. ContadorCaduca'
  BY <1>1, <1>3, <1>4 DEF IInv, IFallos, ContadorCaduca
<1>6. BloqueoOportuno'
  BY <1>1, <1>2, <1>3, <1>4 DEF IInv, IFallos, BloqueoOportuno
<1> QED BY <1>1, <1>2, <1>3, <1>5, <1>6, RelojFiel DEF IFallos

-----------------------------------------------------------------------------
(* Accounts that are activated and deactivated *)

LEMMA AtestiguarDe ==
  ASSUME TypeOK, NEW u \in Cuentas
  PROVE  LET f == Atestiguar(u) IN
         /\ f \in [Peticiones -> Pets]
         /\ \A r \in Peticiones :
              /\ f[r].fase = pet[r].fase /\ f[r].pagina = pet[r].pagina
              /\ f[r].cuenta = pet[r].cuenta /\ f[r].desafio = pet[r].desafio
              /\ f[r].copia = pet[r].copia
              /\ pet[r].testigo \/ pet[r].cuenta = u => f[r].testigo
<1>1. pet \in [Peticiones -> Pets]
  BY TiposDe
<1>2. \A r \in Peticiones :
        LET x == [pet[r] EXCEPT !.testigo = TRUE] IN
        /\ x \in Pets /\ x.fase = pet[r].fase /\ x.pagina = pet[r].pagina
        /\ x.cuenta = pet[r].cuenta /\ x.desafio = pet[r].desafio
        /\ x.copia = pet[r].copia /\ x.testigo
  BY <1>1 DEF Pets
<1> QED BY <1>1, <1>2 DEF Atestiguar

\* The only request that moves, if any, goes from the row it saved to the session.
LEMMA SelloFiel ==
  ASSUME IInv, pagina' = pagina, pet' \in [Peticiones -> Pets],
         UNCHANGED <<otp, vivos, excusa>>, RetosQuietos, FallosQuietos,
         activo' \in [Cuentas -> BOOLEAN],
         \A r \in Peticiones :
           /\ pet'[r].pagina = pet[r].pagina /\ pet'[r].cuenta = pet[r].cuenta
           /\ pet'[r].desafio = pet[r].desafio /\ pet'[r].copia = pet[r].copia
           /\ pet'[r].fase = pet[r].fase \/ (pet[r].fase = "guardar" /\ pet'[r].fase = "emitir")
           /\ pet[r].testigo => pet'[r].testigo
           /\ pet[r].fase # "libre" /\ activo'[pet[r].cuenta] /\ ~activo[pet[r].cuenta] => pet'[r].testigo
  PROVE  IInv'
<1>1. TypeOK'
  BY DEF IInv, TypeOK, RetosQuietos, FallosQuietos, Pets
<1>2. Situadas'
  BY DEF IInv, Situadas, RetosQuietos, Toca
<1>3. MismoReto /\ MismaCopia
  BY DEF MismoReto, MismaCopia, Toca, Copiado
<1>4. UnTitular'
  BY <1>3, TitularQuieto DEF IInv, IRetos
<1>5. IRetos'
  BY <1>3, <1>4, CopiaQuieta DEF IInv, IRetos
<1>6. IActivo'
  BY DEF IInv, IActivo, Testigos, ParDeActivo
<1>7. \A w \in Cuentas :
        /\ EnFase(w, "caducar") => EnFase(w, "caducar")'
        /\ EnFase(w, "bloquear") => EnFase(w, "bloquear")'
  BY DEF EnFase
<1>8. IFallos'
  BY <1>7 DEF IInv, IFallos, ContadorCaduca, BloqueoOportuno, FallosQuietos
<1> QED BY <1>1, <1>2, <1>5, <1>6, <1>8 DEF IInv

LEMMA GuardarFiel == ASSUME IInv, NEW q \in Peticiones, Guardar(q) PROVE IInv'
<1>1. TypeOK /\ activo \in [Cuentas -> BOOLEAN]
  BY DEF IInv, TypeOK
<1>2. PICK u \in Cuentas : u = pet[q].cuenta
  BY DEF Guardar, IInv, Situadas
<1> DEFINE f == Atestiguar(u)
           x == [f[q] EXCEPT !.fase = "emitir"]
<1>3. /\ pet[q].fase = "guardar" /\ activo' = [activo EXCEPT ![u] = TRUE] /\ pagina' = pagina
      /\ pet' = [f EXCEPT ![q].fase = "emitir"]
      /\ UNCHANGED <<otp, vivos, excusa>> /\ RetosQuietos /\ FallosQuietos
  BY <1>2 DEF Guardar, RetosQuietos, FallosQuietos, historia
<1>4. /\ f \in [Peticiones -> Pets]
      /\ \A r \in Peticiones :
           /\ f[r].fase = pet[r].fase /\ f[r].pagina = pet[r].pagina
           /\ f[r].cuenta = pet[r].cuenta /\ f[r].desafio = pet[r].desafio
           /\ f[r].copia = pet[r].copia
           /\ pet[r].testigo \/ pet[r].cuenta = u => f[r].testigo
  BY <1>1, AtestiguarDe
<1> HIDE DEF f
<1>5. /\ x \in Pets /\ x.fase = "emitir" /\ x.pagina = f[q].pagina /\ x.cuenta = f[q].cuenta
      /\ x.desafio = f[q].desafio /\ x.copia = f[q].copia /\ x.testigo = f[q].testigo
  BY <1>4 DEF Pets, Fases
<1>6. pet' = [f EXCEPT ![q] = x]
  BY <1>3, <1>4 DEF Pets
<1> HIDE DEF x
<1>7. activo' \in [Cuentas -> BOOLEAN] /\ \A w \in Cuentas \ {u} : activo'[w] = activo[w]
  BY <1>1, <1>3
<1>8. /\ pet' \in [Peticiones -> Pets] /\ pet'[q] = x
      /\ \A r \in Peticiones \ {q} : pet'[r] = f[r]
  BY <1>4, <1>5, <1>6
<1>9. \A r \in Peticiones : pet[r].fase # "libre" => pet[r].cuenta \in Cuentas
  BY DEF IInv, Situadas
<1>10. \A r \in Peticiones :
           /\ pet'[r].pagina = pet[r].pagina /\ pet'[r].cuenta = pet[r].cuenta
           /\ pet'[r].desafio = pet[r].desafio /\ pet'[r].copia = pet[r].copia
           /\ pet'[r].fase = pet[r].fase \/ (pet[r].fase = "guardar" /\ pet'[r].fase = "emitir")
           /\ pet[r].testigo => pet'[r].testigo
           /\ pet[r].fase # "libre" /\ activo'[pet[r].cuenta] /\ ~activo[pet[r].cuenta] => pet'[r].testigo
  BY <1>2, <1>3, <1>4, <1>5, <1>7, <1>8, <1>9
<1> QED BY <1>3, <1>7, <1>8, <1>10, SelloFiel

LEMMA UpdateFiel ==
  ASSUME IInv, NEW u \in Cuentas, NEW v \in BOOLEAN, Update(u, v) PROVE IInv'
<1>1. TypeOK /\ activo \in [Cuentas -> BOOLEAN] /\ pet \in [Peticiones -> Pets]
  BY TiposDe DEF IInv, TypeOK
<1>2. /\ activo' = [activo EXCEPT ![u] = v] /\ pagina' = pagina
      /\ pet' = IF v THEN Atestiguar(u) ELSE pet
      /\ UNCHANGED <<otp, vivos, excusa>> /\ RetosQuietos /\ FallosQuietos
  BY DEF Update, RetosQuietos, FallosQuietos, historia
<1>3. /\ activo' \in [Cuentas -> BOOLEAN] /\ activo'[u] = v
      /\ \A w \in Cuentas \ {u} : activo'[w] = activo[w]
  BY <1>1, <1>2
<1>4. /\ pet' \in [Peticiones -> Pets]
      /\ \A r \in Peticiones :
           /\ pet'[r].fase = pet[r].fase /\ pet'[r].pagina = pet[r].pagina
           /\ pet'[r].cuenta = pet[r].cuenta /\ pet'[r].desafio = pet[r].desafio
           /\ pet'[r].copia = pet[r].copia
           /\ pet[r].testigo \/ (v /\ pet[r].cuenta = u) => pet'[r].testigo
  <2>1. CASE v
    BY <1>1, <1>2, <2>1, AtestiguarDe
  <2>2. CASE ~v
    BY <1>1, <1>2, <2>2
  <2> QED BY <2>1, <2>2
<1>5. \A r \in Peticiones : pet[r].fase # "libre" => pet[r].cuenta \in Cuentas
  BY DEF IInv, Situadas
<1>6. \A r \in Peticiones :
        pet[r].fase # "libre" /\ activo'[pet[r].cuenta] /\ ~activo[pet[r].cuenta] => pet'[r].testigo
  BY <1>3, <1>4, <1>5
<1> QED BY <1>2, <1>3, <1>4, <1>6, SelloFiel

LEMMA RemoveFiel == ASSUME IInv, NEW u \in Cuentas, Remove(u) PROVE IInv'
<1>1. activo \in [Cuentas -> BOOLEAN] /\ pet \in [Peticiones -> Pets]
  BY TiposDe DEF IInv, TypeOK
<1>2. /\ activo' = [activo EXCEPT ![u] = FALSE] /\ UNCHANGED <<pagina, pet>>
      /\ UNCHANGED <<otp, vivos, excusa>> /\ RetosQuietos /\ FallosQuietos
  BY DEF Remove, RetosQuietos, FallosQuietos, historia
<1>3. /\ activo' \in [Cuentas -> BOOLEAN] /\ ~activo'[u]
      /\ \A w \in Cuentas \ {u} : activo'[w] = activo[w]
  BY <1>1, <1>2
<1>4. \A r \in Peticiones : pet[r].fase # "libre" => pet[r].cuenta \in Cuentas
  BY DEF IInv, Situadas
<1>5. \A r \in Peticiones :
        pet[r].fase # "libre" /\ activo'[pet[r].cuenta] /\ ~activo[pet[r].cuenta] => pet'[r].testigo
  BY <1>3, <1>4
<1> QED BY <1>1, <1>2, <1>3, <1>5, SelloFiel

-----------------------------------------------------------------------------
(* Challenges *)

LEMMA ExpiraDesafioFiel == ASSUME IInv, NEW d \in Desafios, ExpiraDesafio(d) PROVE IInv'
<1>1. /\ desafios' = [desafios EXCEPT ![d] = SinDesafio]
      /\ UNCHANGED <<otp, activo, fallos, caduca, bloqueo, vivos, pagina, pet, usados, ultimo,
                     errores, canjes, excusa>>
  BY DEF ExpiraDesafio, historia
<1>2. desafios \in [Desafios -> Retos] /\ SinDesafio \in Retos /\ ~SinDesafio.hay
  BY Iniciales DEF IInv, TypeOK, SinDesafio
<1>3. /\ desafios' \in [Desafios -> Retos] /\ ~desafios'[d].hay
      /\ \A e \in Desafios \ {d} : desafios'[e] = desafios[e]
  BY <1>1, <1>2
<1>4. TypeOK'
  BY <1>1, <1>3 DEF IInv, TypeOK
<1>5. Situadas' /\ IActivo'
  BY <1>1 DEF IInv, Situadas, IActivo, Testigos, ParDeActivo
<1>6. UnTitular' /\ CopiaFiel' /\ UnaSesionPorDesafio'
  BY <1>1 DEF IInv, IRetos, UnTitular, CopiaFiel, UnaSesionPorDesafio
<1>7. SinGastar' /\ DesafioFiel'
  BY <1>1, <1>3 DEF IInv, IRetos, SinGastar, DesafioFiel
<1>8. IFallos'
  BY <1>1 DEF IInv, IFallos, ContadorCaduca, BloqueoOportuno, EnFase
<1> QED BY <1>4, <1>5, <1>6, <1>7, <1>8 DEF IInv, IRetos

\* The challenge is new: no page and no other request has it.
LEMMA RetarFiel ==
  ASSUME IInv, NEW q \in Peticiones, NEW d \in Desafios, Retar(q, d) PROVE IInv'
<1>1. /\ TypeOK /\ Situadas /\ IRetos /\ IActivo /\ IFallos
      /\ pet \in [Peticiones -> Pets] /\ pagina \in [Paginas -> Vistas]
  BY TiposDe DEF IInv
<1> DEFINE x == [pet[q] EXCEPT !.fase = "correo", !.desafio = d]
           c == [hay |-> TRUE, cuenta |-> pet[q].cuenta, codigo |-> 1, intentos |-> 0]
<1>2. /\ pet[q].fase = "retar" /\ d \notin usados /\ usados' = usados \cup {d}
      /\ desafios' = [desafios EXCEPT ![d] = c] /\ ultimo' = [ultimo EXCEPT ![d] = 1]
      /\ pet' = [pet EXCEPT ![q].fase = "correo", ![q].desafio = d] /\ pagina' = pagina
      /\ UNCHANGED <<otp, activo, fallos, caduca, bloqueo, vivos, errores, canjes, excusa>>
  BY DEF Retar
<1>3. /\ x \in Pets /\ x.fase = "correo" /\ x.pagina = pet[q].pagina /\ x.cuenta = pet[q].cuenta
      /\ x.desafio = d /\ x.testigo = pet[q].testigo
  BY <1>1 DEF Pets, Fases
<1>4. pet' = [pet EXCEPT ![q] = x]
  BY <1>1, <1>2 DEF Pets
<1>5. c \in Retos /\ c.hay /\ c.codigo = 1 /\ c.intentos = 0 /\ 1 \in 0..MaxCodigos
  BY <1>1, AccesoAssumption DEF AccesoAssumption, Retos, Pets
<1> HIDE DEF x, c
<1>6. /\ pet' \in [Peticiones -> Pets] /\ \A r \in Peticiones \ {q} : pet'[r] = pet[r]
      /\ pet'[q] = x
  BY <1>1, <1>3, <1>4
<1>7. /\ desafios' \in [Desafios -> Retos] /\ ultimo' \in [Desafios -> 0..MaxCodigos]
      /\ desafios'[d] = c /\ ultimo'[d] = 1
      /\ \A e \in Desafios \ {d} : desafios'[e] = desafios[e] /\ ultimo'[e] = ultimo[e]
  BY <1>1, <1>2, <1>5 DEF TypeOK
<1>8. TypeOK'
  BY <1>1, <1>2, <1>6, <1>7 DEF TypeOK, Pets
<1>9. Situadas'
  BY <1>1, <1>2, <1>3, <1>6 DEF Situadas
<1>10. /\ \A r \in Peticiones \ {q} : pet[r].fase \in Toca => pet[r].desafio # d
       /\ \A p \in Paginas : pagina[p].paso = "codigo" => pagina[p].desafio # d
  BY <1>1, <1>2 DEF Situadas
<1>11. UnTitular'
  BY <1>1, <1>2, <1>3, <1>6, <1>10 DEF IRetos, UnTitular
<1>12. CopiaFiel'
  <2> SUFFICES ASSUME NEW r \in Peticiones, pet'[r].fase \in Copiado
               PROVE  LET e == pet'[r].desafio IN
                      /\ pet'[r].copia.hay /\ pet'[r].copia.codigo = ultimo'[e]
                      /\ pet'[r].copia.intentos = errores'[e] /\ canjes'[e] = 0
                      /\ pet'[r].fase = "contar" => errores'[e] < MaxIntentos
    BY DEF CopiaFiel
  <2>1. r # q /\ pet'[r] = pet[r]
    BY <1>3, <1>6 DEF Copiado
  <2>2. pet[r].desafio \in Desafios \ {d}
    BY <1>1, <1>10, <2>1 DEF Situadas, TypeOK, Copiado, Toca
  <2> QED BY <1>1, <1>2, <1>7, <2>1, <2>2 DEF IRetos, CopiaFiel
<1>13. SinGastar' /\ DesafioFiel' /\ UnaSesionPorDesafio'
  BY <1>1, <1>2, <1>5, <1>7 DEF IRetos, SinGastar, DesafioFiel, UnaSesionPorDesafio
<1>14. MismoTestigo
  BY <1>2, <1>3, <1>6, <1>1 DEF MismoTestigo, IActivo, ParDeActivo, Testigos
<1>15. IActivo'
  BY <1>1, <1>2, <1>14, TestigoQuieto DEF IActivo
<1>16. IFallos'
  BY <1>1, <1>2, <1>6, FalloQuieto DEF FallosQuietos
<1> QED BY <1>8, <1>9, <1>11, <1>12, <1>13, <1>15, <1>16 DEF IInv, IRetos

\* The page that asked shows the challenge, and the request leaves it.
LEMMA EnviarCodigoFiel == ASSUME IInv, NEW q \in Peticiones, EnviarCodigo(q) PROVE IInv'
<1> DEFINE d == pet[q].desafio
           v == [paso |-> "codigo", cuenta |-> pet[q].cuenta, desafio |-> d, espera |-> Nadie]
           w == [v EXCEPT !.espera = Nadie]
<1>1. /\ TypeOK /\ Situadas /\ IRetos /\ IActivo /\ IFallos
      /\ pet \in [Peticiones -> Pets] /\ pagina \in [Paginas -> Vistas]
  BY TiposDe DEF IInv
<1>2. pet[q].fase = "correo" /\ Responder(q, v) /\ UNCHANGED <<otp, servidor, historia>>
  BY DEF EnviarCodigo
<1>3. pet[q].cuenta \in Cuentas /\ d \in usados /\ d \in Desafios
  BY <1>1, <1>2 DEF Situadas, TypeOK, Toca
<1>4. /\ w \in Vistas /\ w.paso = "codigo" /\ w.cuenta = pet[q].cuenta /\ w.desafio = d
  BY <1>3 DEF Vistas
<1>5. \A p \in Paginas : p = pet[q].pagina => w \in Vistas
  BY <1>4
<1> HIDE DEF v, w
<1>6. /\ pet' \in [Peticiones -> Pets] /\ pagina' \in [Paginas -> Vistas]
      /\ pet'[q] = Libre /\ \A r \in Peticiones \ {q} : pet'[r] = pet[r]
      /\ \A p \in Paginas : pagina'[p] = pagina[p] \/ (pagina'[p] = w /\ p = pet[q].pagina)
  <2>1. [v EXCEPT !.espera = Nadie] = w
    BY DEF w
  <2> QED BY <1>1, <1>2, <1>5, <2>1, RespuestaDe
<1>7. pet'[q].fase = "libre"
  BY <1>6 DEF Libre
<1>8. Tranquilo
  BY <1>2, SinEfecto
<1>9. TypeOK'
  BY <1>1, <1>6, <1>8, TiposTras
<1>10. Situadas'
  BY <1>1, <1>2, <1>3, <1>4, <1>6, <1>7 DEF Situadas, historia, Toca
<1>11. UnTitular'
  <2>1. UnTitular
    BY <1>1 DEF IRetos
  <2>2. \A r \in Peticiones : pet'[r].fase \in Toca => r # q /\ pet'[r] = pet[r] /\ pet[r].desafio # d
    BY <1>2, <1>6, <1>7, <2>1 DEF UnTitular, Toca
  <2>3. \A p \in Paginas : pagina[p].paso = "codigo" => pagina[p].desafio # d
    BY <1>2, <2>1 DEF UnTitular, Toca
  <2> HIDE DEF d
  <2>4. \A r, t \in Peticiones :
          r # t /\ pet'[r].fase \in Toca /\ pet'[t].fase \in Toca => pet'[r].desafio # pet'[t].desafio
    BY <2>1, <2>2 DEF UnTitular
  <2>5. \A p \in Paginas, t \in Peticiones :
          /\ pagina'[p].paso = "codigo" /\ pet'[t].fase \in Toca
          /\ pagina'[p].desafio = pet'[t].desafio
          => pagina'[p].espera = t /\ pet'[t].fase # "correo"
    BY <1>4, <1>6, <2>1, <2>2 DEF UnTitular
  <2>6. \A p, r \in Paginas :
          p # r /\ pagina'[p].paso = "codigo" /\ pagina'[r].paso = "codigo" => pagina'[p].desafio # pagina'[r].desafio
    BY <1>4, <1>6, <2>1, <2>3 DEF UnTitular
  <2> QED BY <2>4, <2>5, <2>6 DEF UnTitular
<1>12. MismaCopia /\ MismoTestigo
  BY <1>1, <1>6, <1>7 DEF MismaCopia, MismoTestigo, Copiado, IActivo, Testigos, ParDeActivo
<1>13. IRetos'
  BY <1>1, <1>8, <1>11, <1>12, CopiaQuieta DEF IRetos, Tranquilo
<1>14. IActivo' /\ IFallos'
  BY <1>1, <1>2, <1>6, <1>8, <1>12, TestigoQuieto, FalloQuieto DEF IActivo, Tranquilo
<1> QED BY <1>9, <1>10, <1>13, <1>14 DEF IInv

\* A request that reads its challenge has a copy of what the key says.
LEMMA CopiaTomada ==
  ASSUME IInv, NEW q \in Peticiones, Avanza(q), UNCHANGED <<otp, servidor, historia>>,
         pet[q].fase \in Toca, pet'[q].fase \in Copiado,
         pet'[q].copia = desafios[pet[q].desafio], desafios[pet[q].desafio].hay,
         pet'[q].fase = "contar" => ~(desafios[pet[q].desafio].intentos >= MaxIntentos)
  PROVE  IInv'
<1> DEFINE d == pet[q].desafio
<1>1. TypeOK /\ Situadas /\ IRetos /\ IActivo /\ IFallos
  BY DEF IInv
<1>2. Tranquilo /\ RetosQuietos
  BY SinEfecto DEF Tranquilo
<1>3. TypeOK'
  BY <1>1, <1>2, TiposTras, TiposDe DEF Avanza
<1>4. Situadas' /\ UnTitular' /\ IActivo'
  BY <1>2, AvanceQuieto DEF Tranquilo, RetosQuietos, Copiado
<1>5. d \in Desafios /\ desafios[d] \in Retos /\ MaxIntentos \in Nat
  BY <1>1, AccesoAssumption DEF AccesoAssumption, Situadas, TypeOK
<1>6. /\ desafios[d].codigo = ultimo[d] /\ desafios[d].intentos = errores[d] /\ canjes[d] = 0
      /\ pet'[q].fase = "contar" => errores[d] < MaxIntentos
  BY <1>1, <1>5 DEF IRetos, DesafioFiel, SinGastar, Retos
<1>7. CopiaFiel'
  <2> SUFFICES ASSUME NEW r \in Peticiones, pet'[r].fase \in Copiado
               PROVE  LET e == pet'[r].desafio IN
                      /\ pet'[r].copia.hay /\ pet'[r].copia.codigo = ultimo'[e]
                      /\ pet'[r].copia.intentos = errores'[e] /\ canjes'[e] = 0
                      /\ pet'[r].fase = "contar" => errores'[e] < MaxIntentos
    BY DEF CopiaFiel
  <2>1. CASE r = q
    BY <1>2, <1>6, <2>1 DEF RetosQuietos, Avanza
  <2>2. CASE r # q
    BY <1>1, <1>2, <2>2 DEF IRetos, CopiaFiel, RetosQuietos, Avanza
  <2> QED BY <2>1, <2>2
<1>8. SinGastar' /\ DesafioFiel' /\ UnaSesionPorDesafio'
  BY <1>1, <1>2 DEF IRetos, SinGastar, DesafioFiel, UnaSesionPorDesafio, RetosQuietos
<1>9. IFallos'
  BY <1>1, <1>2, FalloQuieto DEF Tranquilo, Avanza, Toca
<1> QED BY <1>3, <1>4, <1>7, <1>8, <1>9 DEF IInv, IRetos

LEMMA LeerFiel == ASSUME IInv, NEW q \in Peticiones, Leer(q) PROVE IInv'
<1> DEFINE c == desafios[pet[q].desafio]
<1>1. pet[q].fase = "leer" /\ UNCHANGED <<otp, servidor, historia>>
  BY DEF Leer
<1>2. CASE Rechazar(q)
  BY <1>1, <1>2, RechazoFiel
<1>3. CASE ~Rechazar(q)
  <2>1. PICK f \in {"anular", "contar", "consumir"} :
          /\ c.hay /\ pagina' = pagina
          /\ pet' = [pet EXCEPT ![q].copia = c, ![q].codigo = 0, ![q].fase = f]
          /\ f = "contar" => ~(c.intentos >= MaxIntentos)
    BY <1>3 DEF Leer
  <2> DEFINE x == [pet[q] EXCEPT !.copia = c, !.codigo = 0, !.fase = f]
  <2>2. /\ pet \in [Peticiones -> Pets] /\ c \in Retos /\ 0 \in 0..MaxCodigos
    BY <1>1, TiposDe, AccesoAssumption DEF AccesoAssumption, IInv, TypeOK, Situadas, Toca
  <2> HIDE DEF c
  <2>3. /\ x \in Pets /\ x.fase = f /\ x.pagina = pet[q].pagina /\ x.cuenta = pet[q].cuenta
        /\ x.desafio = pet[q].desafio /\ x.testigo = pet[q].testigo /\ x.copia = c
    BY <2>2 DEF Pets, Fases
  <2>4. pet' = [pet EXCEPT ![q] = x]
    BY <2>1, <2>2 DEF Pets
  <2> HIDE DEF x
  <2>5. Avanza(q) /\ pet'[q] = x
    BY <1>1, <2>1, <2>2, <2>3, <2>4 DEF Avanza, Toca
  <2> QED BY <1>1, <2>1, <2>3, <2>5, CopiaTomada DEF c, Toca, Copiado
<1> QED BY <1>2, <1>3

LEMMA ReleerFiel == ASSUME IInv, NEW q \in Peticiones, Releer(q) PROVE IInv'
<1> DEFINE c == desafios[pet[q].desafio]
<1>1. pet[q].fase = "releer" /\ UNCHANGED <<otp, servidor, historia>>
  BY DEF Releer
<1>2. CASE Rechazar(q)
  BY <1>1, <1>2, RechazoFiel
<1>3. CASE ~Rechazar(q)
  <2>1. /\ c.hay /\ pagina' = pagina
        /\ pet' = [pet EXCEPT ![q].copia = c, ![q].fase = "reescribir"]
    BY <1>3 DEF Releer
  <2> DEFINE x == [pet[q] EXCEPT !.copia = c, !.fase = "reescribir"]
  <2>2. pet \in [Peticiones -> Pets] /\ c \in Retos
    BY <1>1, TiposDe DEF IInv, TypeOK, Situadas, Toca
  <2> HIDE DEF c
  <2>3. /\ x \in Pets /\ x.fase = "reescribir" /\ x.pagina = pet[q].pagina
        /\ x.cuenta = pet[q].cuenta /\ x.desafio = pet[q].desafio
        /\ x.testigo = pet[q].testigo /\ x.copia = c
    BY <2>2 DEF Pets, Fases
  <2>4. pet' = [pet EXCEPT ![q] = x]
    BY <2>1, <2>2 DEF Pets
  <2> HIDE DEF x
  <2>5. Avanza(q) /\ pet'[q] = x
    BY <1>1, <2>1, <2>2, <2>3, <2>4 DEF Avanza, Toca
  <2> QED BY <1>1, <2>1, <2>3, <2>5, CopiaTomada DEF c, Toca, Copiado
<1> QED BY <1>2, <1>3

\* The only request with a copy of a challenge writes it, and gives the copy up.
LEMMA CopiaEscrita ==
  ASSUME IInv, NEW q \in Peticiones, NEW d \in Desafios, d = pet[q].desafio,
         Salida(q) \/ Avanza(q), pet[q].fase \in Copiado,
         pet'[q].fase \notin Copiado \cup {"limpiar", "guardar", "emitir"},
         UNCHANGED <<otp, activo, vivos, excusa, usados>>, FallosQuietos,
         desafios' \in [Desafios -> Retos], ultimo' \in [Desafios -> 0..MaxCodigos],
         errores' \in [Desafios -> 0..MaxIntentos], canjes' \in [Desafios -> 0..2],
         \A e \in Desafios \ {d} : /\ desafios'[e] = desafios[e] /\ ultimo'[e] = ultimo[e]
                                   /\ errores'[e] = errores[e] /\ canjes'[e] = canjes[e],
         desafios'[d].hay => /\ desafios'[d].codigo = ultimo'[d]
                             /\ desafios'[d].intentos = errores'[d] /\ canjes'[d] = 0,
         canjes'[d] <= 1
  PROVE  IInv'
<1>1. TypeOK /\ Situadas /\ IRetos /\ IActivo /\ IFallos
  BY DEF IInv
<1>2. /\ pet' \in [Peticiones -> Pets] /\ pagina' \in [Paginas -> Vistas]
      /\ \A r \in Peticiones \ {q} : pet'[r] = pet[r]
  BY <1>1, TiposDe DEF Salida, Avanza
<1>3. TypeOK'
  BY <1>1, <1>2 DEF TypeOK, FallosQuietos, Pets, Vistas
<1>4. Situadas' /\ UnTitular' /\ IActivo'
  BY SalidaQuieta, AvanceQuieto
<1>5. d \in usados
  BY <1>1 DEF Situadas, Toca, Copiado
<1>6. CopiaFiel'
  <2> SUFFICES ASSUME NEW r \in Peticiones, pet'[r].fase \in Copiado
               PROVE  LET e == pet'[r].desafio IN
                      /\ pet'[r].copia.hay /\ pet'[r].copia.codigo = ultimo'[e]
                      /\ pet'[r].copia.intentos = errores'[e] /\ canjes'[e] = 0
                      /\ pet'[r].fase = "contar" => errores'[e] < MaxIntentos
    BY DEF CopiaFiel
  <2>1. r # q /\ pet'[r] = pet[r]
    BY <1>2
  <2>2. pet[r].fase \in Toca /\ pet[q].fase \in Toca
    BY <2>1 DEF Copiado, Toca
  <2>3. pet[r].desafio \in Desafios \ {d}
    BY <1>1, <2>1, <2>2 DEF Situadas, TypeOK, IRetos, UnTitular
  <2> QED BY <1>1, <2>1, <2>3 DEF IRetos, CopiaFiel
<1>7. SinGastar' /\ DesafioFiel' /\ UnaSesionPorDesafio'
  BY <1>1, <1>5 DEF IRetos, SinGastar, DesafioFiel, UnaSesionPorDesafio
<1>8. IFallos'
  BY <1>1, <1>2, FalloQuieto DEF Copiado
<1> QED BY <1>3, <1>4, <1>6, <1>7, <1>8 DEF IInv, IRetos

\* The copy that a request holds, in its types.
LEMMA CopiaDe ==
  ASSUME IInv, NEW q \in Peticiones, pet[q].fase \in Copiado
  PROVE  LET d == pet[q].desafio IN
         /\ d \in Desafios /\ pet[q] \in Pets /\ pet[q].copia \in Retos /\ pet[q].copia.hay
         /\ pet[q].copia.codigo = ultimo[d] /\ pet[q].copia.intentos = errores[d]
         /\ canjes[d] = 0
         /\ pet[q].fase = "contar" => errores[d] < MaxIntentos
<1>1. pet[q].desafio \in Desafios
  BY DEF IInv, Situadas, TypeOK, Copiado, Toca
<1>2. pet[q] \in Pets /\ pet[q].copia \in Retos
  BY TiposDe DEF IInv, Pets
<1> QED BY <1>1, <1>2 DEF IInv, IRetos, CopiaFiel

LEMMA AnularFiel == ASSUME IInv, NEW q \in Peticiones, Anular(q) PROVE IInv'
<1>1. PICK d \in Desafios : d = pet[q].desafio
  BY CopiaDe DEF Anular, Copiado
<1>2. /\ pet[q].fase = "anular" /\ Rechazar(q) /\ desafios' = [desafios EXCEPT ![d] = SinDesafio]
      /\ UNCHANGED <<otp, activo, vivos, excusa, usados, ultimo, errores, canjes>> /\ FallosQuietos
  BY <1>1 DEF Anular, historia, FallosQuietos
<1>3. Salida(q)
  BY <1>2, RechazoSale
<1>4. pet'[q].fase = "libre"
  BY <1>3 DEF Salida, Libre
<1>5. /\ desafios \in [Desafios -> Retos] /\ ultimo \in [Desafios -> 0..MaxCodigos]
      /\ errores \in [Desafios -> 0..MaxIntentos] /\ canjes \in [Desafios -> 0..2]
      /\ SinDesafio \in Retos /\ ~SinDesafio.hay /\ canjes[d] <= 1
  BY Iniciales DEF IInv, TypeOK, SinDesafio, IRetos, UnaSesionPorDesafio
<1>6. /\ desafios' \in [Desafios -> Retos] /\ ~desafios'[d].hay
      /\ \A e \in Desafios \ {d} : desafios'[e] = desafios[e]
  BY <1>2, <1>5
<1> QED BY <1>1, <1>2, <1>3, <1>4, <1>5, <1>6, CopiaEscrita DEF Copiado

LEMMA ContarFiel == ASSUME IInv, NEW q \in Peticiones, Contar(q) PROVE IInv'
<1>1. PICK d \in Desafios : d = pet[q].desafio
  BY CopiaDe DEF Contar, Copiado
<1> DEFINE x == [pet[q].copia EXCEPT !.intentos = @ + 1]
<1>2. /\ pet[q].fase = "contar" /\ Rechazar(q) /\ desafios' = [desafios EXCEPT ![d] = x]
      /\ errores' = [errores EXCEPT ![d] = @ + 1]
      /\ UNCHANGED <<otp, activo, vivos, excusa, usados, ultimo, canjes>> /\ FallosQuietos
  BY <1>1 DEF Contar, FallosQuietos
<1>3. Salida(q)
  BY <1>2, RechazoSale
<1>4. pet'[q].fase = "libre"
  BY <1>3 DEF Salida, Libre
<1>5. /\ pet[q].copia \in Retos /\ pet[q].copia.hay /\ pet[q].copia.codigo = ultimo[d]
      /\ pet[q].copia.intentos = errores[d] /\ canjes[d] = 0 /\ errores[d] < MaxIntentos
  BY <1>1, <1>2, CopiaDe DEF Copiado
<1>6. /\ desafios \in [Desafios -> Retos] /\ ultimo \in [Desafios -> 0..MaxCodigos]
      /\ errores \in [Desafios -> 0..MaxIntentos] /\ canjes \in [Desafios -> 0..2]
      /\ MaxIntentos \in Nat
  BY AccesoAssumption DEF AccesoAssumption, IInv, TypeOK
<1>7. errores[d] + 1 \in 0..MaxIntentos
  BY <1>5, <1>6
<1>8. x \in Retos /\ x.codigo = ultimo[d] /\ x.intentos = errores[d] + 1
  BY <1>5, <1>7 DEF Retos
<1> HIDE DEF x
<1>9. /\ desafios' \in [Desafios -> Retos] /\ desafios'[d] = x
      /\ \A e \in Desafios \ {d} : desafios'[e] = desafios[e]
  BY <1>2, <1>6, <1>8
<1>10. /\ errores' \in [Desafios -> 0..MaxIntentos] /\ errores'[d] = errores[d] + 1
       /\ \A e \in Desafios \ {d} : errores'[e] = errores[e]
  BY <1>2, <1>6, <1>7
<1>11. canjes'[d] = 0
  BY <1>2, <1>5
<1>12. canjes'[d] <= 1
  BY <1>11
<1>13. desafios'[d].codigo = ultimo'[d] /\ desafios'[d].intentos = errores'[d]
  BY <1>2, <1>8, <1>9, <1>10
<1> QED BY <1>1, <1>2, <1>3, <1>4, <1>6, <1>9, <1>10, <1>11, <1>12, <1>13, CopiaEscrita DEF Copiado

LEMMA ConsumirFiel == ASSUME IInv, NEW q \in Peticiones, Consumir(q) PROVE IInv'
<1>1. PICK d \in Desafios : d = pet[q].desafio
  BY CopiaDe DEF Consumir, Copiado
<1> DEFINE x == [pet[q] EXCEPT !.fase = "buscar", !.copia = SinDesafio]
<1>2. /\ pet[q].fase = "consumir" /\ desafios' = [desafios EXCEPT ![d] = SinDesafio]
      /\ canjes' = [canjes EXCEPT ![d] = @ + 1] /\ pagina' = pagina
      /\ pet' = [pet EXCEPT ![q].fase = "buscar", ![q].copia = SinDesafio]
      /\ UNCHANGED <<otp, activo, vivos, excusa, usados, ultimo, errores>> /\ FallosQuietos
  BY <1>1 DEF Consumir, FallosQuietos
<1>3. canjes[d] = 0
  BY <1>1, <1>2, CopiaDe DEF Copiado
<1>4. /\ desafios \in [Desafios -> Retos] /\ ultimo \in [Desafios -> 0..MaxCodigos]
      /\ errores \in [Desafios -> 0..MaxIntentos] /\ canjes \in [Desafios -> 0..2]
      /\ SinDesafio \in Retos /\ ~SinDesafio.hay /\ pet \in [Peticiones -> Pets]
  BY Iniciales, TiposDe DEF IInv, TypeOK, SinDesafio
<1>5. /\ x \in Pets /\ x.fase = "buscar" /\ x.pagina = pet[q].pagina
      /\ x.cuenta = pet[q].cuenta /\ x.desafio = pet[q].desafio /\ x.testigo = pet[q].testigo
  BY <1>4 DEF Pets, Fases
<1>6. pet' = [pet EXCEPT ![q] = x]
  BY <1>2, <1>4 DEF Pets
<1> HIDE DEF x
<1>7. Avanza(q) /\ pet'[q].fase = "buscar"
  BY <1>2, <1>4, <1>5, <1>6 DEF Avanza, Toca
<1>8. /\ desafios' \in [Desafios -> Retos] /\ ~desafios'[d].hay
      /\ \A e \in Desafios \ {d} : desafios'[e] = desafios[e]
  BY <1>2, <1>4
<1>9. /\ canjes' \in [Desafios -> 0..2] /\ canjes'[d] <= 1
      /\ \A e \in Desafios \ {d} : canjes'[e] = canjes[e]
  BY <1>2, <1>3, <1>4
<1> QED BY <1>1, <1>2, <1>4, <1>7, <1>8, <1>9, CopiaEscrita DEF Copiado

LEMMA ReescribirFiel == ASSUME IInv, NEW q \in Peticiones, Reescribir(q) PROVE IInv'
<1>1. PICK d \in Desafios : d = pet[q].desafio
  BY CopiaDe DEF Reescribir, Copiado
<1> DEFINE n == ultimo[d] + 1
           y == [pet[q].copia EXCEPT !.codigo = n, !.intentos = 0]
           x == [pet[q] EXCEPT !.fase = "reenvio", !.copia = SinDesafio]
<1>2. /\ pet[q].fase = "reescribir" /\ ultimo[d] < MaxCodigos
      /\ desafios' = [desafios EXCEPT ![d] = y] /\ ultimo' = [ultimo EXCEPT ![d] = n]
      /\ errores' = [errores EXCEPT ![d] = 0] /\ pagina' = pagina
      /\ pet' = [pet EXCEPT ![q].fase = "reenvio", ![q].copia = SinDesafio]
      /\ UNCHANGED <<otp, activo, vivos, excusa, usados, canjes>> /\ FallosQuietos
  BY <1>1 DEF Reescribir, FallosQuietos
<1>3. canjes[d] = 0 /\ pet[q].copia \in Retos
  BY <1>1, <1>2, CopiaDe DEF Copiado
<1>4. /\ desafios \in [Desafios -> Retos] /\ ultimo \in [Desafios -> 0..MaxCodigos]
      /\ errores \in [Desafios -> 0..MaxIntentos] /\ canjes \in [Desafios -> 0..2]
      /\ SinDesafio \in Retos /\ pet \in [Peticiones -> Pets]
      /\ MaxCodigos \in Nat /\ MaxIntentos \in Nat
  BY Iniciales, TiposDe, AccesoAssumption DEF AccesoAssumption, IInv, TypeOK
<1>5. n \in 0..MaxCodigos /\ 0 \in 0..MaxIntentos
  BY <1>2, <1>4
<1> HIDE DEF n
<1>6. y \in Retos /\ y.codigo = n /\ y.intentos = 0
  BY <1>3, <1>5 DEF Retos
<1>7. /\ x \in Pets /\ x.fase = "reenvio" /\ x.pagina = pet[q].pagina
      /\ x.cuenta = pet[q].cuenta /\ x.desafio = pet[q].desafio /\ x.testigo = pet[q].testigo
  BY <1>4 DEF Pets, Fases
<1>8. pet' = [pet EXCEPT ![q] = x]
  BY <1>2, <1>4 DEF Pets
<1> HIDE DEF x, y
<1>9. Avanza(q) /\ pet'[q].fase = "reenvio"
  BY <1>2, <1>4, <1>7, <1>8 DEF Avanza, Toca
<1>10. /\ desafios' \in [Desafios -> Retos] /\ ultimo' \in [Desafios -> 0..MaxCodigos]
       /\ errores' \in [Desafios -> 0..MaxIntentos]
       /\ desafios'[d] = y /\ ultimo'[d] = n /\ errores'[d] = 0
       /\ \A e \in Desafios \ {d} :
            desafios'[e] = desafios[e] /\ ultimo'[e] = ultimo[e] /\ errores'[e] = errores[e]
  BY <1>2, <1>4, <1>5, <1>6
<1>11. canjes'[d] = 0
  BY <1>2, <1>3
<1>12. canjes'[d] <= 1
  BY <1>11
<1> QED BY <1>1, <1>2, <1>4, <1>6, <1>9, <1>10, <1>11, <1>12, CopiaEscrita DEF Copiado

-----------------------------------------------------------------------------
LEMMA InicioFiel == Init => IInv
<1> SUFFICES ASSUME Init PROVE IInv
  OBVIOUS
<1>1. /\ MaxIntentos \in Nat /\ MaxCodigos \in Nat /\ MaxContador \in Nat
      /\ MaxFallos \in Nat /\ MaxFallos > 1 /\ Modos \subseteq BOOLEAN
  BY AccesoAssumption DEF AccesoAssumption
<1>2. /\ \A q \in Peticiones : pet[q].fase = "libre"
      /\ \A p \in Paginas : pagina[p].paso = "credenciales"
      /\ \A d \in Desafios : ~desafios[d].hay /\ errores[d] = 0 /\ canjes[d] = 0
      /\ \A u \in Cuentas : fallos[u] = 0
  BY DEF Init, Libre, Cerrada, SinDesafio
<1>3. TypeOK
  <2>1. pet \in [Peticiones -> Pets] /\ pagina \in [Paginas -> Vistas] /\ desafios \in [Desafios -> Retos]
    BY Iniciales DEF Init
  <2>2. /\ otp \in BOOLEAN /\ activo \in [Cuentas -> BOOLEAN]
        /\ fallos \in [Cuentas -> 0..MaxContador]
        /\ caduca \subseteq Cuentas /\ bloqueo \subseteq Cuentas /\ vivos \subseteq Paginas
        /\ usados \subseteq Desafios /\ ultimo \in [Desafios -> 0..MaxCodigos]
        /\ errores \in [Desafios -> 0..MaxIntentos] /\ canjes \in [Desafios -> 0..2]
        /\ excusa \subseteq Cuentas
    BY <1>1 DEF Init
  <2> QED BY <2>1, <2>2 DEF TypeOK, Pets, Vistas
<1>4. Situadas /\ UnTitular /\ CopiaFiel
  BY <1>2 DEF Situadas, UnTitular, CopiaFiel, Toca, Copiado
<1>5. SinGastar /\ DesafioFiel /\ UnaSesionPorDesafio
  BY <1>2 DEF SinGastar, DesafioFiel, UnaSesionPorDesafio
<1>6. IActivo
  BY <1>2 DEF IActivo, Testigos, ParDeActivo
<1>7. IFallos
  BY <1>1, <1>2 DEF IFallos, ContadorCaduca, BloqueoOportuno
<1> QED BY <1>3, <1>4, <1>5, <1>6, <1>7 DEF IInv, IRetos

LEMMA ServidorFiel == ASSUME IInv, NEW q \in Peticiones, Servidor(q) PROVE IInv'
BY LeerCandadoFiel, CompararClaveFiel, LimpiarFallosFiel, EnviarCodigoFiel, RetarFiel,
   FallarFiel, CaducarFiel, BloquearFiel, LeerFiel, AnularFiel, ContarFiel, ConsumirFiel,
   BuscarFiel, GuardarFiel, EmitirParFiel, ReleerFiel, ReescribirFiel, ReenviarCodigoFiel,
   CanjearFiel, QuitarParFiel, BuscarParFiel DEF Servidor

LEMMA QuietoFiel == ASSUME IInv, UNCHANGED vars PROVE IInv'
<1>1. UNCHANGED <<otp, servidor, historia>> /\ pet' = pet /\ pagina' = pagina
  BY DEF vars
<1>2. MismoReto /\ pagina' \in [Paginas -> Vistas]
  BY <1>1, TiposDe DEF MismoReto, IInv
<1>3. \A p \in Paginas : pagina'[p].paso # "credenciales" => pagina'[p].cuenta \in Cuentas
  BY <1>1 DEF IInv, Situadas
<1> QED BY <1>1, <1>2, <1>3, PaginaTranquila

LEMMA PasoInductivo == IInv /\ [Next]_vars => IInv'
<1> SUFFICES ASSUME IInv, [Next]_vars PROVE IInv'
  OBVIOUS
<1>1. CASE \E p \in Paginas, q \in Peticiones : Pagina(p, q)
  BY <1>1, PaginaFiel
<1>2. CASE \E q \in Peticiones : Servidor(q) \/ Vencer(q) \/ Cortar(q)
  BY <1>2, ServidorFiel, VencerFiel, CortarFiel
<1>3. CASE \E p \in Paginas : BackToCredentials(p) \/ Recargar(p)
  BY <1>3, BackToCredentialsFiel, RecargarFiel
<1>4. CASE \E d \in Desafios : ExpiraDesafio(d)
  BY <1>4, ExpiraDesafioFiel
<1>5. CASE \E u \in Cuentas : \/ VenceBloqueo(u) \/ VenceContador(u)
                              \/ Remove(u) \/ \E v \in BOOLEAN : Update(u, v)
  BY <1>5, VenceBloqueoFiel, VenceContadorFiel, RemoveFiel, UpdateFiel
<1>6. CASE UNCHANGED vars
  BY <1>6, QuietoFiel
<1> QED BY <1>1, <1>2, <1>3, <1>4, <1>5, <1>6 DEF Next

LEMMA Siempre == Spec => []IInv
BY InicioFiel, PasoInductivo, PTL DEF Spec

\* Every variable keeps its type; the attempts of a challenge stay within
\* OTP_MAX_ATTEMPTS because one request at a time counts them.
THEOREM TipoCorrecto == Spec => []TypeOK
<1>1. IInv => TypeOK
  BY DEF IInv
<1> QED BY <1>1, Siempre, PTL

\* verifyOtp and resendOtp read a challenge and write it back in separate
\* commands, yet no attempt is lost and no old code comes back.
THEOREM DesafiosFieles == Spec => []DesafioFiel
<1>1. IInv => DesafioFiel
  BY DEF IInv, IRetos
<1> QED BY <1>1, Siempre, PTL

\* verifyOtp reads a challenge and deletes it in two commands, yet it lets
\* one session in.
THEOREM UnaSesion == Spec => []UnaSesionPorDesafio
<1>1. IInv => UnaSesionPorDesafio
  BY DEF IInv, IRetos
<1> QED BY <1>1, Siempre, PTL

\* registerFailure increments and then sets the time to live: a counter of
\* failures has its expiry or a request is about to set it, unless that
\* request was cut.
THEOREM ContadoresCaducan == Spec => []ContadorCaduca
<1>1. IInv => ContadorCaduca
  BY DEF IInv, IFallos
<1>2. QED
  BY <1>1, Siempre, PTL

\* registerFailure locks the account in a command of its own: a counter at
\* its limit has its lock or a request is about to set it, unless that
\* request was cut.
THEOREM BloqueosOportunos == Spec => []BloqueoOportuno
<1>1. IInv => BloqueoOportuno
  BY DEF IInv, IFallos
<1>2. QED
  BY <1>1, Siempre, PTL

\* The server goes on to a session only for an account that was active at
\* some moment of the request.
THEOREM SoloActivos == Spec => []ParDeActivo
<1>1. IInv => ParDeActivo
  BY DEF IInv, IActivo
<1> QED BY <1>1, Siempre, PTL

=============================================================================
