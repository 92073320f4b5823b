------------------------------- MODULE Reglas -------------------------------
(***************************************************************************)
(* The alert rules: the table reglas_alerta, the requests of               *)
(* ReglasController and ReglasService behind the ValidationPipe of main.ts,*)
(* and ReglasPage with its list, its editor and its buttons.  A handler    *)
(* stops between the query that finds the rule and the one that writes it, *)
(* so requests of the page and of other administrators interleave; the     *)
(* list is read once and does not poll.                                    *)
(***************************************************************************)
EXTENDS Naturals

CONSTANTS
  Reglas,      \* ids of rules that may exist
  Nueva,       \* the empty id of a draft that no rule has yet
  Contenidos,  \* what a rule may say: name, condition, action and level
  Blanco,      \* BLANK: what a new draft says
  Peticiones,  \* requests at once
  OtroAdmin,   \* TRUE: other administrators use the API meanwhile
  FallaAPI     \* TRUE: requests may fail

ASSUME ReglasAssumption ==
  /\ Nueva \notin Reglas /\ Blanco \in Contenidos
  /\ OtroAdmin \in BOOLEAN /\ FallaAPI \in BOOLEAN

VARIABLES
  regla,     \* regla[r]: the row, or SinFila
  montada,   \* the page is on the screen
  lista,     \* what the page shows of the table, or NoCargada
  consulta,  \* the GET of the list: asked for, and the rows read for it
  editor,    \* the open draft, or Cerrado
  error,     \* what the page says under the draft
  peticion,  \* peticion[q]: a request and how far it is, or Libre
  ajena,     \* history: the page cannot know of something its list misses
  usadas     \* ids that were given to a row: uuid_generate_v4 gives others

tabla == <<regla, usadas>>
pagina == <<montada, lista, consulta, editor, error>>
vars == <<tabla, pagina, peticion, ajena>>

SinFila == [id |-> Nueva]
NoCargada == [r \in {} |-> SinFila]
NoLeida == [pedida |-> FALSE, filas |-> NoCargada]
Cerrado == [id |-> "cerrado"]
Libre == [fase |-> "libre"]

Fila == [id : Reglas, creado_en : {"fecha"}, contenido : Contenidos, activa : BOOLEAN]
Filas == [Reglas -> Fila \cup {SinFila}]

\* What editing holds: the row it was opened from, or BLANK without id or date
Edicion == Fila \cup [id : {Nueva}, creado_en : {""}, contenido : Contenidos, activa : BOOLEAN]
Borrador == [id : Reglas \cup {Nueva}, edicion : Edicion, json : BOOLEAN]

\* The fields of ReglaDto and UpdateReglaDto
CamposDto == {"contenido", "activa"}
Cuerpo == [activa : BOOLEAN] \cup [contenido : Contenidos] \cup Edicion \cup {SinFila}
Fases == {"enviada", "leida", "hecha", "rechazada", "ausente"}

\* propia: the page waits for the answer
Peticion == [tipo : {"guardar", "alternar", "eliminar", "cambiar"}, propia : BOOLEAN,
             id : Reglas \cup {Nueva}, cuerpo : Cuerpo, fase : Fases, copia : Fila \cup {SinFila}]

TypeOK ==
  /\ regla \in Filas
  /\ montada \in BOOLEAN
  /\ lista \in Filas \cup {NoCargada}
  /\ consulta \in [pedida : BOOLEAN, filas : Filas \cup {NoCargada}]
  /\ editor \in Borrador \cup {Cerrado}
  /\ error \in {"", "json", "rechazada", "ausente", "red"}
  /\ peticion \in [Peticiones -> Peticion \cup {Libre}]
  /\ ajena \in BOOLEAN
  /\ usadas \in SUBSET Reglas

Init ==
  /\ regla \in [Reglas -> Fila \cup {SinFila}]
  /\ \A r \in Reglas : regla[r] # SinFila => regla[r].id = r
  /\ montada = FALSE /\ lista = NoCargada /\ consulta = NoLeida
  /\ editor = Cerrado /\ error = ""
  /\ peticion = [q \in Peticiones |-> Libre]
  /\ ajena = FALSE /\ usadas = {r \in Reglas : regla[r] # SinFila}

Propia(q) == peticion[q] # Libre /\ peticion[q].propia
DeGuardar(q) == Propia(q) /\ peticion[q].tipo = "guardar"

-----------------------------------------------------------------------------
(* The list: useQuery without refetchInterval *)

\* Every query is stale when its page mounts; a request in flight is joined.
\* The hooks of the page start again
Montar ==
  /\ ~montada /\ montada' = TRUE
  /\ consulta' = [consulta EXCEPT !.pedida = TRUE]
  /\ editor' = Cerrado /\ error' = ""
  /\ UNCHANGED <<tabla, lista, peticion, ajena>>

\* A save in flight is left without the hooks it would call, but invalidates
Desmontar ==
  /\ montada /\ montada' = FALSE
  /\ editor' = Cerrado /\ error' = ""
  /\ peticion' = [q \in Peticiones |-> IF DeGuardar(q) THEN [peticion[q] EXCEPT !.tipo = "cambiar"]
                                                       ELSE peticion[q]]
  /\ UNCHANGED <<tabla, lista, consulta, ajena>>

\* findAll
LeerLista ==
  /\ consulta.pedida /\ consulta.filas = NoCargada
  /\ consulta' = [consulta EXCEPT !.filas = regla]
  /\ ajena' = FALSE
  /\ UNCHANGED <<tabla, montada, lista, editor, error, peticion>>

RecibirLista ==
  /\ consulta.filas # NoCargada
  /\ lista' = consulta.filas /\ consulta' = NoLeida
  /\ UNCHANGED <<tabla, montada, editor, error, peticion, ajena>>

\* The request and its retry fail: the list keeps what it shows
FallarLista ==
  /\ FallaAPI /\ consulta.pedida
  /\ consulta' = NoLeida /\ ajena' = TRUE
  /\ UNCHANGED <<tabla, montada, lista, editor, error, peticion>>

\* Mutated form: an answer on its way is good enough
InvalidarSinCancelar ==
  /\ consulta' = IF montada THEN [consulta EXCEPT !.pedida = TRUE] ELSE consulta
  /\ ajena' = (ajena \/ ~montada)

\* invalidateQueries cancels the request in flight and asks again, unless
\* nothing was loaded yet, and only for the page on the screen
Invalidar ==
  /\ consulta' = IF ~montada THEN consulta
                 ELSE IF consulta.pedida /\ lista = NoCargada THEN consulta
                 ELSE [pedida |-> TRUE, filas |-> NoCargada]
  /\ ajena' = (ajena \/ ~montada)

-----------------------------------------------------------------------------
(* The editor and the buttons *)

Enviar(q, tipo, propia, id, cuerpo) ==
  /\ peticion[q] = Libre
  /\ peticion' = [peticion EXCEPT ![q] =
       [tipo |-> tipo, propia |-> propia, id |-> id, cuerpo |-> cuerpo,
        fase |-> "enviada", copia |-> SinFila]]

Mostrada(r) == montada /\ lista # NoCargada /\ lista[r] # SinFila

\* openEdit(r): the whole row is copied into the draft
Editar(r) ==
  /\ Mostrada(r)
  /\ editor' = [id |-> r, edicion |-> lista[r], json |-> TRUE] /\ error' = ""
  /\ UNCHANGED <<tabla, montada, lista, consulta, peticion, ajena>>

\* openEdit(null)
NuevaRegla ==
  /\ montada
  /\ editor' = [id |-> Nueva, json |-> TRUE,
                edicion |-> [id |-> Nueva, creado_en |-> "", contenido |-> Blanco, activa |-> TRUE]]
  /\ error' = ""
  /\ UNCHANGED <<tabla, montada, lista, consulta, peticion, ajena>>

\* The inputs of the draft; what the text says need not be JSON
Escribir(c, a, json) ==
  /\ editor # Cerrado
  /\ editor' = [editor EXCEPT !.edicion.contenido = c, !.edicion.activa = a, !.json = json]
  /\ UNCHANGED <<tabla, montada, lista, consulta, error, peticion, ajena>>

CerrarEditor ==
  /\ editor # Cerrado /\ editor' = Cerrado
  /\ UNCHANGED <<tabla, montada, lista, consulta, error, peticion, ajena>>

\* GUARDAR: the body is the draft, { ...editing, condicion }
Guardar(q) ==
  /\ editor # Cerrado /\ \A k \in Peticiones : ~DeGuardar(k)
  /\ IF editor.json THEN Enviar(q, "guardar", TRUE, editor.id, editor.edicion) /\ UNCHANGED error
     ELSE peticion[q] = Libre /\ error' = "json" /\ UNCHANGED peticion
  /\ UNCHANGED <<tabla, montada, lista, consulta, editor, ajena>>

\* Pausar, Reactivar: the opposite of what the list shows
Alternar(q, r) ==
  /\ Mostrada(r)
  /\ Enviar(q, "alternar", TRUE, r, [activa |-> ~lista[r].activa])
  /\ UNCHANGED <<tabla, pagina, ajena>>

\* Eliminar, confirmed
Eliminar(q, r) ==
  /\ Mostrada(r)
  /\ Enviar(q, "eliminar", TRUE, r, SinFila)
  /\ UNCHANGED <<tabla, pagina, ajena>>

\* Another administrator's DELETE, PATCH or POST
PedirOtro(q, id, c) ==
  /\ OtroAdmin
  /\ \/ Enviar(q, "cambiar", FALSE, id, [contenido |-> c])
     \/ id # Nueva /\ Enviar(q, "eliminar", FALSE, id, SinFila)
  /\ UNCHANGED <<tabla, pagina, ajena>>

-----------------------------------------------------------------------------
(* ReglasService *)

Pasar(q, fase) == peticion' = [peticion EXCEPT ![q].fase = fase]

\* whitelist and forbidNonWhitelisted: a body with other fields is rejected
Valida(p) == p.tipo = "eliminar" \/ DOMAIN p.cuerpo \subseteq CamposDto

\* Object.assign(r, ...) of the fields the body brings
Asignar(f, c) == [k \in DOMAIN f |-> IF k \in DOMAIN c THEN c[k] ELSE f[k]]

\* The pipe, and then findOne
LeerRegla(q) ==
  /\ peticion[q] # Libre /\ peticion[q].fase = "enviada"
  /\ LET p == peticion[q]
     IN  IF ~Valida(p) THEN Pasar(q, "rechazada")
         ELSE /\ p.id \in Reglas
              /\ IF regla[p.id] = SinFila THEN Pasar(q, "ausente")
                 ELSE peticion' = [peticion EXCEPT ![q].fase = "leida",
                        ![q].copia = IF p.tipo = "eliminar" THEN regla[p.id]
                                     ELSE Asignar(regla[p.id], p.cuerpo)]
  /\ UNCHANGED <<tabla, pagina, ajena>>

\* repo.save(r) writes the columns of the copy that differ, and inserts the
\* row again when it is gone; repo.remove(r) deletes by id
Escritura(q) ==
  /\ peticion[q] # Libre /\ peticion[q].fase = "leida"
  /\ LET p == peticion[q]
     IN  /\ regla' = [regla EXCEPT ![p.id] = IF p.tipo = "eliminar" THEN SinFila ELSE p.copia]
         /\ ajena' = (ajena \/ ~p.propia)
  /\ Pasar(q, "hecha")
  /\ UNCHANGED <<usadas, pagina>>

\* create: a row of its own
Crear(q, r) ==
  /\ peticion[q] # Libre /\ peticion[q].fase = "enviada"
  /\ peticion[q].id = Nueva /\ Valida(peticion[q])
  /\ r \notin usadas /\ usadas' = usadas \cup {r}
  /\ regla' = [regla EXCEPT ![r] =
       Asignar([id |-> r, creado_en |-> "fecha", contenido |-> Blanco, activa |-> TRUE],
               peticion[q].cuerpo)]
  /\ ajena' = (ajena \/ ~peticion[q].propia)
  /\ Pasar(q, "hecha")
  /\ UNCHANGED pagina

-----------------------------------------------------------------------------
(* The answers *)

Soltar(q) == peticion' = [peticion EXCEPT ![q] = Libre]

\* onSuccess: saving also closes the draft, whichever is open
RecibirHecha(q) ==
  /\ peticion[q].fase = "hecha"
  /\ Soltar(q)
  /\ IF Propia(q) THEN Invalidar ELSE UNCHANGED <<consulta, ajena>>
  /\ IF DeGuardar(q) THEN editor' = Cerrado /\ error' = ""
                                     ELSE UNCHANGED <<editor, error>>
  /\ UNCHANGED <<tabla, montada, lista>>

\* onError: only saving says why
Avisar(q, motivo) ==
  error' = IF DeGuardar(q) THEN motivo ELSE error

RecibirError(q) ==
  /\ peticion[q].fase \in {"rechazada", "ausente"}
  /\ Soltar(q) /\ Avisar(q, peticion[q].fase)
  /\ UNCHANGED <<tabla, montada, lista, consulta, editor, ajena>>

\* The page gives up: the request was lost, or is still served for nobody
FallarPeticion(q) ==
  /\ FallaAPI /\ Propia(q)
  /\ Soltar(q) \/ peticion' = [peticion EXCEPT ![q].propia = FALSE]
  /\ Avisar(q, "red") /\ ajena' = TRUE
  /\ UNCHANGED <<tabla, montada, lista, consulta, editor>>

Next ==
  \/ Montar \/ Desmontar \/ LeerLista \/ RecibirLista \/ FallarLista
  \/ NuevaRegla \/ CerrarEditor
  \/ \E r \in Reglas : Editar(r)
  \/ \E c \in Contenidos, a, json \in BOOLEAN : Escribir(c, a, json)
  \/ \E q \in Peticiones :
       \/ Guardar(q) \/ LeerRegla(q) \/ Escritura(q)
       \/ RecibirHecha(q) \/ RecibirError(q) \/ FallarPeticion(q)
       \/ \E r \in Reglas : Alternar(q, r) \/ Eliminar(q, r) \/ Crear(q, r)
       \/ \E id \in Reglas \cup {Nueva}, c \in Contenidos : PedirOtro(q, id, c)

Spec == Init /\ [][Next]_vars

-----------------------------------------------------------------------------
(* Properties *)

SinEnvios == \A q \in Peticiones : ~Propia(q)

\* Once the buttons pressed in the page were answered and its list has settled,
\* the list is the table, in whatever order they were served and answered,
\* unless the page cannot know better: another administrator changed a rule
\* since, or a request failed.
ListaFiel ==
  montada /\ lista # NoCargada /\ ~consulta.pedida /\ SinEnvios /\ ~ajena => lista = regla

=============================================================================
