------------------------------ MODULE Reportes ------------------------------
(***************************************************************************)
(* Reports: an object in the bucket reportes of MinIO and a row in the     *)
(* table reportes that names it, written and removed in separate steps by  *)
(* backend/src/reportes.  One action per await that reaches MinIO or       *)
(* PostgreSQL.  Dates of objects (Date.now() in their names) are taken as  *)
(* different, so a report is named once.  The module Respaldos composes    *)
(* these steps with the backups of both stores.                            *)
(***************************************************************************)
EXTENDS Naturals

CONSTANTS
  Informes,       \* reports that may be generated
  Programados,    \* those the scheduler generates, in the name of SYSTEM_USER
  Peticiones,     \* requests and cron jobs that may be in progress
  Instalaciones,  \* does the table usuarios have a row for SYSTEM_USER?
  FallaMinio,     \* TRUE: MinIO may fail
  FallaBD         \* TRUE: PostgreSQL may fail

ASSUME ReportesAssumption ==
  /\ Programados \subseteq Informes
  /\ Instalaciones \subseteq BOOLEAN
  /\ {FallaMinio, FallaBD} \subseteq BOOLEAN

VARIABLES
  filas,     \* rows of the table reportes
  objetos,   \* objects of the bucket reportes
  tablas,    \* the tables of the database exist
  sistema,   \* usuarios has the row of SYSTEM_USER
  paso,      \* paso[q]: what the request does next
  informe,   \* informe[q]: the report it works on
  correos,   \* reports announced by mail
  usados,    \* history: reports whose generation began
  faltas     \* history: reports whose object may be missing, for a reason:
             \* it was removed, or a backup or a restoration could not copy it

varsReportes == <<filas, objetos, tablas, sistema, paso, informe, correos, usados, faltas>>

Pasos == {"libre", "subir", "guardar", "correo", "quitarObjeto", "quitarFila"}

TypeOKReportes ==
  /\ filas \subseteq Informes /\ objetos \subseteq Informes
  /\ tablas \in BOOLEAN /\ sistema \in BOOLEAN
  /\ paso \in [Peticiones -> Pasos]
  /\ informe \in [Peticiones -> Informes \cup {"ninguno"}]
  /\ \A q \in Peticiones : paso[q] # "libre" => informe[q] \in Informes
  /\ correos \subseteq Informes
  /\ usados \subseteq Informes /\ faltas \subseteq Informes

InitReportes ==
  /\ filas = {} /\ objetos = {} /\ tablas = TRUE
  /\ sistema \in Instalaciones
  /\ paso = [q \in Peticiones |-> "libre"]
  /\ informe = [q \in Peticiones |-> "ninguno"]
  /\ correos = {} /\ usados = {} /\ faltas = {}

Seguir(q, lugar) ==
  /\ paso' = [paso EXCEPT ![q] = lugar]
  /\ UNCHANGED <<informe, sistema, usados>>

Acabar(q) ==
  /\ paso' = [paso EXCEPT ![q] = "libre"]
  /\ informe' = [informe EXCEPT ![q] = "ninguno"]
  /\ UNCHANGED <<sistema, usados>>

-----------------------------------------------------------------------------
(* generar *)

\* Mutated form: the row is saved before the file is stored
GenerarFilaPrimero(q, r) ==
  /\ paso[q] = "libre" /\ r \notin usados /\ tablas
  /\ filas' = filas \cup {r}
  /\ paso' = [paso EXCEPT ![q] = "subir"]
  /\ informe' = [informe EXCEPT ![q] = r]
  /\ usados' = usados \cup {r}
  /\ UNCHANGED <<objetos, tablas, sistema, correos, faltas>>

\* The alerts of the report are read and its file is built in memory
Generar(q, r) ==
  /\ paso[q] = "libre" /\ r \notin usados /\ tablas
  /\ paso' = [paso EXCEPT ![q] = "subir"]
  /\ informe' = [informe EXCEPT ![q] = r]
  /\ usados' = usados \cup {r}
  /\ UNCHANGED <<filas, objetos, tablas, sistema, correos, faltas>>

Subir(q) ==
  /\ paso[q] = "subir"
  /\ objetos' = objetos \cup {informe[q]}
  /\ Seguir(q, "guardar")
  /\ UNCHANGED <<filas, tablas, correos, faltas>>

\* putObject rejects, with the object stored or not: 500, no row
SubirFalla(q) ==
  /\ paso[q] = "subir" /\ FallaMinio
  /\ objetos' \in {objetos, objetos \cup {informe[q]}}
  /\ Acabar(q)
  /\ UNCHANGED <<filas, tablas, correos, faltas>>

\* The foreign key generado_por -> usuarios
AutorExiste(r) == r \in Programados => sistema

Guardar(q) ==
  /\ paso[q] = "guardar" /\ tablas /\ AutorExiste(informe[q])
  /\ filas' = filas \cup {informe[q]}
  /\ IF informe[q] \in Programados THEN Seguir(q, "correo") ELSE Acabar(q)
  /\ UNCHANGED <<objetos, tablas, correos, faltas>>

\* save rejects: the object stays and no row names it
GuardarFalla(q) ==
  /\ paso[q] = "guardar"
  /\ FallaBD \/ ~tablas \/ ~AutorExiste(informe[q])
  /\ Acabar(q)
  /\ UNCHANGED <<filas, objetos, tablas, correos, faltas>>

\* The scheduler mails the link of the report it generated
EmailReporte(q) ==
  /\ paso[q] = "correo"
  /\ correos' = correos \cup {informe[q]}
  /\ Acabar(q)
  /\ UNCHANGED <<filas, objetos, tablas, faltas>>

-----------------------------------------------------------------------------
(* remove *)

BuscarInforme(q, r) ==
  /\ paso[q] = "libre" /\ tablas /\ r \in filas
  /\ paso' = [paso EXCEPT ![q] = "quitarObjeto"]
  /\ informe' = [informe EXCEPT ![q] = r]
  /\ UNCHANGED <<filas, objetos, tablas, sistema, correos, usados, faltas>>

QuitarObjeto(q) ==
  /\ paso[q] = "quitarObjeto"
  /\ objetos' = objetos \ {informe[q]}
  /\ faltas' = faltas \cup {informe[q]}
  /\ Seguir(q, "quitarFila")
  /\ UNCHANGED <<filas, tablas, correos>>

\* A failure of removeObject is ignored
QuitarObjetoFalla(q) ==
  /\ paso[q] = "quitarObjeto" /\ FallaMinio
  /\ Seguir(q, "quitarFila")
  /\ UNCHANGED <<filas, objetos, tablas, correos, faltas>>

QuitarFila(q) ==
  /\ paso[q] = "quitarFila" /\ tablas
  /\ filas' = filas \ {informe[q]}
  /\ Acabar(q)
  /\ UNCHANGED <<objetos, tablas, correos, faltas>>

QuitarFilaFalla(q) ==
  /\ paso[q] = "quitarFila"
  /\ FallaBD \/ ~tablas
  /\ Acabar(q)
  /\ UNCHANGED <<filas, objetos, tablas, correos, faltas>>

\* Steps that leave the bucket's past alone
PasoReportes(q) ==
  \/ \E r \in Informes : Generar(q, r) \/ BuscarInforme(q, r)
  \/ Subir(q) \/ SubirFalla(q) \/ Guardar(q) \/ GuardarFalla(q) \/ EmailReporte(q)
  \/ QuitarObjetoFalla(q) \/ QuitarFila(q) \/ QuitarFilaFalla(q)

\* What a download needs: a row, and the object it names
Descargable(r) == r \in filas /\ r \in objetos

(* Every report of the table can be downloaded, unless its object was        *)
(* removed, or a copy of it failed, for a reason on record: generar stores   *)
(* the file before the row, crear dumps the database before it lists the     *)
(* files, and restoreProd brings the files of a backup back with its rows.   *)
FilaConArchivo == \A r \in filas : Descargable(r) \/ r \in faltas

=============================================================================
