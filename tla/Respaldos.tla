----------------------------- MODULE Respaldos -----------------------------
(***************************************************************************)
(* Backups (backend/src/backups, frontend/src/pages/BackupsPage.tsx,       *)
(* scripts/restore-pnnc.sh) of the two stores that Reportes writes, taken  *)
(* and restored while the API goes on serving requests.                    *)
(*                                                                         *)
(* A job is a handler of BackupsService between its awaits.  A backup      *)
(* holds the rows its dump saw and the objects copied after it.  What the  *)
(* dump and the archive contain besides reports, the cryptography and the  *)
(* manifest are abstracted to whether abrirPnnc accepts the file.          *)
(***************************************************************************)
EXTENDS Reportes

CONSTANTS
  Trabajos,     \* jobs of BackupsService that may be in progress
  Segundos,     \* the seconds that name backups
  Cifrados,     \* are backups made with a password?  Both, or one of them
  Subidos,      \* names of uploaded files
  MaxPedidos,   \* bound on the jobs asked for
  Reinicios,    \* TRUE: the API may restart
  ConPnncPass   \* PNNC_PASS is set where restore-pnnc.sh runs

ASSUME RespaldosAssumption ==
  /\ Cifrados \subseteq BOOLEAN /\ MaxPedidos \in Nat
  /\ {Reinicios, ConPnncPass} \subseteq BOOLEAN

VARIABLES
  respaldos,  \* the bucket of backups: content of each name
  pedidos,    \* jobs asked for
  trabajo,    \* trabajo[t]: the state of the job
  espera,     \* jobs whose answer the page still waits for
  bases,      \* jobs whose temporary database exists
  restos      \* history: temporary databases a failure or a restart left

varsRespaldos == <<respaldos, pedidos, trabajo, espera, bases, restos>>
vars == <<varsReportes, varsRespaldos>>

\* crear names by the second and by -enc; recibirUpload names apart
Nombres == (Segundos \X Cifrados) \cup Subidos
Ninguno == [hay |-> FALSE, cifrado |-> FALSE, legible |-> FALSE, filas |-> {},
            objetos |-> {}, excusas |-> {}]
Contenidos == [hay : BOOLEAN, cifrado : BOOLEAN, legible : BOOLEAN,
               filas : SUBSET Informes, objetos : SUBSET Informes,
               excusas : SUBSET Informes]

\* excusas: history, the reports a backup or a restoration has a reason to miss
Vacio == [paso |-> "libre", cifrado |-> FALSE, filas |-> {}, objetos |-> {},
          pendientes |-> {}, excusas |-> {}]
Fases == {"libre", "volcar", "listar", "copiar", "tirar", "crear", "cargar", "archivos",
          "probar", "soltar"}
Estados == [paso : Fases, cifrado : BOOLEAN, filas : SUBSET Informes,
            objetos : SUBSET Informes, pendientes : SUBSET Informes,
            excusas : SUBSET Informes]

TypeOK ==
  /\ TypeOKReportes
  /\ respaldos \in [Nombres -> Contenidos]
  /\ pedidos \in 0..MaxPedidos
  /\ trabajo \in [Trabajos -> Estados]
  /\ espera \subseteq Trabajos /\ bases \subseteq Trabajos /\ restos \subseteq Trabajos

Init ==
  /\ InitReportes
  /\ respaldos = [n \in Nombres |-> Ninguno]
  /\ pedidos = 0
  /\ trabajo = [t \in Trabajos |-> Vacio]
  /\ espera = {} /\ bases = {} /\ restos = {}

Pasar(t, s) == trabajo' = [trabajo EXCEPT ![t] = s]

\* The handler answers or throws: its finally cleans the temporary directory
Fin(t) ==
  /\ Pasar(t, Vacio)
  /\ espera' = espera \ {t}

Aparte == <<respaldos, pedidos, bases, restos>>

-----------------------------------------------------------------------------
(* BackupsPage: its button waits for the answer, up to a timeout; the job    *)
(* goes on without it.                                                       *)

Libre(t) ==
  /\ espera = {} /\ trabajo[t] = Vacio
  /\ pedidos < MaxPedidos /\ pedidos' = pedidos + 1

PedirRespaldo(t, cifrado) ==
  /\ Libre(t)
  /\ Pasar(t, [Vacio EXCEPT !.paso = "volcar", !.cifrado = cifrado])
  /\ espera' = {t}
  /\ UNCHANGED <<varsReportes, respaldos, bases, restos>>

\* abrirPnnc: archive, version, password and checksum
Abre(n) == respaldos[n].hay /\ respaldos[n].legible

\* verify, restore-test and restore-prod of the modal: what does not open is
\* answered 400 and what is not there 404, before anything else happens
PedirRestauracion(t, n, fase) ==
  /\ Libre(t) /\ t \notin bases
  /\ Abre(n)
  /\ Pasar(t, [Vacio EXCEPT !.paso = fase, !.filas = respaldos[n].filas,
                            !.pendientes = respaldos[n].objetos,
                            !.excusas = respaldos[n].excusas])
  /\ espera' = {t}
  /\ UNCHANGED <<varsReportes, respaldos, bases, restos>>

Vencer(t) ==
  /\ t \in espera
  /\ espera' = espera \ {t}
  /\ UNCHANGED <<varsReportes, trabajo, Aparte>>

-----------------------------------------------------------------------------
(* crear *)

\* pg_dump: one snapshot of the database
Volcar(t) ==
  /\ trabajo[t].paso = "volcar"
  /\ Pasar(t, [trabajo[t] EXCEPT !.paso = "listar", !.filas = filas,
                                 !.excusas = filas \ objetos])
  /\ UNCHANGED <<varsReportes, espera, Aparte>>

Listar(t) ==
  /\ trabajo[t].paso = "listar"
  /\ Pasar(t, [trabajo[t] EXCEPT !.paso = "copiar", !.pendientes = objetos])
  /\ UNCHANGED <<varsReportes, espera, Aparte>>

\* A name that is gone is skipped
Copiar(t, r) ==
  /\ trabajo[t].paso = "copiar" /\ r \in trabajo[t].pendientes
  /\ Pasar(t, [trabajo[t] EXCEPT !.pendientes = @ \ {r}, !.objetos = @ \cup ({r} \cap objetos)])
  /\ UNCHANGED <<varsReportes, espera, Aparte>>

\* So is one that cannot be read
CopiarFalla(t, r) ==
  /\ trabajo[t].paso = "copiar" /\ r \in trabajo[t].pendientes /\ FallaMinio
  /\ Pasar(t, [trabajo[t] EXCEPT !.pendientes = @ \ {r}, !.excusas = @ \cup {r}])
  /\ UNCHANGED <<varsReportes, espera, Aparte>>

Contenido(s) == [hay |-> TRUE, cifrado |-> s.cifrado, legible |-> TRUE,
                 filas |-> s.filas, objetos |-> s.objetos, excusas |-> s.excusas]

\* Mutated form: the database is dumped after the files were copied
SubidaConVolcadoFinal(t, segundo) ==
  /\ trabajo[t].paso = "copiar" /\ trabajo[t].pendientes = {}
  /\ respaldos' = [respaldos EXCEPT ![<<segundo, trabajo[t].cifrado>>] =
                                      Contenido([trabajo[t] EXCEPT !.filas = filas])]
  /\ Fin(t)
  /\ UNCHANGED <<varsReportes, pedidos, bases, restos>>

\* crearPnnc and putObject: two backups of one second share their name
Subida(t, segundo) ==
  /\ trabajo[t].paso = "copiar" /\ trabajo[t].pendientes = {}
  /\ respaldos' = [respaldos EXCEPT ![<<segundo, trabajo[t].cifrado>>] =
                                      Contenido(trabajo[t])]
  /\ Fin(t)
  /\ UNCHANGED <<varsReportes, pedidos, bases, restos>>

CrearFalla(t) ==
  /\ \/ trabajo[t].paso = "volcar" /\ FallaBD
     \/ trabajo[t].paso = "listar" /\ FallaMinio
     \/ trabajo[t].paso = "copiar" /\ trabajo[t].pendientes = {} /\ FallaMinio
  /\ Fin(t)
  /\ UNCHANGED <<varsReportes, Aparte>>

-----------------------------------------------------------------------------
(* restoreProd *)

SinTocar == <<objetos, sistema, paso, informe, correos, usados>>

\* pg_restore --clean --if-exists: DROP, CREATE, COPY, each on its own
Tirar(t) ==
  /\ trabajo[t].paso = "tirar"
  /\ tablas' = FALSE /\ filas' = {}
  /\ Pasar(t, [trabajo[t] EXCEPT !.paso = "crear"])
  /\ UNCHANGED <<SinTocar, faltas, espera, Aparte>>

CrearTablas(t) ==
  /\ trabajo[t].paso = "crear"
  /\ tablas' = TRUE
  /\ Pasar(t, [trabajo[t] EXCEPT !.paso = "cargar"])
  /\ UNCHANGED <<filas, SinTocar, faltas, espera, Aparte>>

Cargar(t) ==
  /\ trabajo[t].paso = "cargar" /\ tablas
  /\ filas' = filas \cup trabajo[t].filas
  /\ Pasar(t, [trabajo[t] EXCEPT !.paso = "archivos"])
  /\ UNCHANGED <<tablas, SinTocar, faltas, espera, Aparte>>

\* "errors ignored on restore" is taken for success
CargarIgnora(t) ==
  /\ trabajo[t].paso = "cargar"
  /\ FallaBD \/ ~tablas
  /\ Pasar(t, [trabajo[t] EXCEPT !.paso = "archivos"])
  /\ UNCHANGED <<varsReportes, espera, Aparte>>

\* Any other failure ends the request; the database stays as it is
RestaurarFalla(t) ==
  /\ FallaBD
  /\ \/ trabajo[t].paso \in {"tirar", "crear", "cargar"}
     \/ trabajo[t].paso = "probar" /\ t \notin bases
  /\ Fin(t)
  /\ UNCHANGED <<varsReportes, Aparte>>

ReponerArchivo(t, r) ==
  /\ trabajo[t].paso = "archivos" /\ r \in trabajo[t].pendientes
  /\ objetos' = objetos \cup {r}
  /\ Pasar(t, [trabajo[t] EXCEPT !.pendientes = @ \ {r}])
  /\ UNCHANGED <<filas, tablas, sistema, paso, informe, correos, usados, faltas, espera, Aparte>>

\* A put that fails is counted as restored
ReponerFalla(t, r) ==
  /\ trabajo[t].paso = "archivos" /\ r \in trabajo[t].pendientes /\ FallaMinio
  /\ Pasar(t, [trabajo[t] EXCEPT !.pendientes = @ \ {r}, !.excusas = @ \cup {r}])
  /\ UNCHANGED <<varsReportes, espera, Aparte>>

\* The answer says ok: from here on only what the job could not copy is excused
Restaurado(t) ==
  /\ trabajo[t].paso = "archivos" /\ trabajo[t].pendientes = {}
  /\ faltas' = (faltas \ trabajo[t].filas) \cup trabajo[t].excusas
  /\ Fin(t)
  /\ UNCHANGED <<filas, tablas, SinTocar, Aparte>>

-----------------------------------------------------------------------------
(* restoreTest *)

CrearBase(t) ==
  /\ trabajo[t].paso = "probar" /\ t \notin bases
  /\ bases' = bases \cup {t}
  /\ UNCHANGED <<varsReportes, respaldos, pedidos, trabajo, espera, restos>>

\* Mutated form: the database is dropped only after a restoration that worked
ContarSinFinally(t) ==
  /\ trabajo[t].paso = "probar" /\ t \in bases
  /\ \/ Pasar(t, [trabajo[t] EXCEPT !.paso = "soltar"]) /\ UNCHANGED espera
     \/ FallaBD /\ Fin(t)
  /\ UNCHANGED <<varsReportes, Aparte>>

\* Restored and counted, or not: the inner finally comes next
Contar(t) ==
  /\ trabajo[t].paso = "probar" /\ t \in bases
  /\ Pasar(t, [trabajo[t] EXCEPT !.paso = "soltar"])
  /\ UNCHANGED <<varsReportes, espera, Aparte>>

SoltarBase(t) ==
  /\ trabajo[t].paso = "soltar"
  /\ bases' = bases \ {t}
  /\ Fin(t)
  /\ UNCHANGED <<varsReportes, respaldos, pedidos, restos>>

SoltarFalla(t) ==
  /\ trabajo[t].paso = "soltar" /\ FallaBD
  /\ restos' = restos \cup {t}
  /\ Fin(t)
  /\ UNCHANGED <<varsReportes, respaldos, pedidos, bases>>

-----------------------------------------------------------------------------
(* eliminar, recibirUpload, restore-pnnc.sh *)

EliminarRespaldo(n) ==
  /\ respaldos[n].hay
  /\ respaldos' = [respaldos EXCEPT ![n] = Ninguno]
  /\ UNCHANGED <<varsReportes, pedidos, trabajo, espera, bases, restos>>

\* A backup that was downloaded comes back, whole or damaged: what is not
\* encrypted has its checksum verified, of the rest only the manifest is read
RecibirUpload(n, m, entero) ==
  /\ respaldos[n].hay /\ m \in Subidos /\ ~respaldos[m].hay
  /\ (respaldos[n].legible /\ entero) \/ respaldos[n].cifrado
  /\ respaldos' = [respaldos EXCEPT
       ![m] = [respaldos[n] EXCEPT !.legible = respaldos[n].legible /\ entero]]
  /\ UNCHANGED <<varsReportes, pedidos, trabajo, espera, bases, restos>>

\* Mutated form: a request goes on after the restart
InterrumpirSinPaso ==
  /\ informe' = [q \in Peticiones |-> "ninguno"]
  /\ trabajo' = [t \in Trabajos |-> Vacio]
  /\ espera' = {}
  /\ restos' = restos \cup bases
  /\ UNCHANGED paso

\* Requests and jobs end where they are; databases under test stay
Interrumpir ==
  /\ paso' = [q \in Peticiones |-> "libre"]
  /\ informe' = [q \in Peticiones |-> "ninguno"]
  /\ trabajo' = [t \in Trabajos |-> Vacio]
  /\ espera' = {}
  /\ restos' = restos \cup bases

Reinicio ==
  /\ Reinicios
  /\ Interrumpir
  /\ UNCHANGED <<filas, objetos, tablas, sistema, correos, usados, faltas, respaldos, pedidos, bases>>

\* --prod: stops the API, restores the rows, not the files, and starts it.
\* The heredoc takes the place of the typed password: only PNNC_PASS opens
\* an encrypted file.  "|| true" hides a pg_restore that loads nothing.
RestaurarCLI(n) ==
  /\ Reinicios
  /\ Abre(n) /\ (respaldos[n].cifrado => ConPnncPass)
  /\ Interrumpir
  /\ tablas' = TRUE
  /\ filas' \in {respaldos[n].filas} \cup (IF FallaBD THEN {{}} ELSE {})
  /\ UNCHANGED <<objetos, sistema, correos, usados, faltas, respaldos, pedidos, bases>>

-----------------------------------------------------------------------------
EnCopia(t) == trabajo[t].paso \notin {"libre", "volcar", "probar", "soltar"}

\* An object removed during a backup or a restoration is a reason to miss it
QuitarObjetoDurante(q) ==
  /\ QuitarObjeto(q)
  /\ trabajo' = [t \in Trabajos |->
       IF EnCopia(t) THEN [trabajo[t] EXCEPT !.excusas = @ \cup {informe[q]}]
                     ELSE trabajo[t]]
  /\ UNCHANGED <<espera, Aparte>>

PasoTrabajo(t) ==
  \/ Vencer(t) \/ Volcar(t) \/ Listar(t) \/ CrearFalla(t)
  \/ \E s \in Segundos : Subida(t, s)
  \/ \E r \in Informes : \/ Copiar(t, r) \/ CopiarFalla(t, r)
                        \/ ReponerArchivo(t, r) \/ ReponerFalla(t, r)
  \/ Tirar(t) \/ CrearTablas(t) \/ Cargar(t) \/ CargarIgnora(t)
  \/ RestaurarFalla(t) \/ Restaurado(t)
  \/ CrearBase(t) \/ Contar(t) \/ SoltarBase(t) \/ SoltarFalla(t)

Next ==
  \/ \E q \in Peticiones : \/ PasoReportes(q) /\ UNCHANGED varsRespaldos
                          \/ QuitarObjetoDurante(q)
  \/ \E t \in Trabajos :
       \/ PasoTrabajo(t)
       \/ \E c \in Cifrados : PedirRespaldo(t, c)
       \/ \E n \in Nombres, fase \in {"tirar", "probar"} : PedirRestauracion(t, n, fase)
  \/ \E n \in Nombres : EliminarRespaldo(n) \/ RestaurarCLI(n)
  \/ \E n \in Nombres, m \in Subidos, entero \in BOOLEAN : RecibirUpload(n, m, entero)
  \/ Reinicio

Spec == Init /\ [][Next]_vars

-----------------------------------------------------------------------------
(* A stored backup has the file of every row it has, unless the copy failed  *)
(* or the report was being removed meanwhile: whatever is generated while    *)
(* crear runs is either in neither part or in both, or only a file.          *)
RespaldoCompleto ==
  \A n \in Nombres : respaldos[n].filas \subseteq respaldos[n].objetos \cup respaldos[n].excusas

(* A temporary database outlives its restore-test only if the DROP failed or *)
(* the API restarted under it.                                               *)
PruebaSinRestos ==
  \A t \in bases : trabajo[t].paso \in {"probar", "soltar"} \/ t \in restos

=============================================================================
