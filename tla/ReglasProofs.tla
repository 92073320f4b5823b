---------------------------- MODULE ReglasProofs ----------------------------
(***************************************************************************)
(* Proofs about Reglas for any number of rules, of contents and of         *)
(* requests, with other administrators and with requests that fail.        *)
(***************************************************************************)
EXTENDS Reglas, TLAPS

-----------------------------------------------------------------------------
(* Types *)

\* The table and the requests; the page
TiposTabla ==
  /\ regla \in Filas /\ usadas \in SUBSET Reglas /\ ajena \in BOOLEAN
  /\ peticion \in [Peticiones -> Peticion \cup {Libre}]

TiposPagina ==
  /\ montada \in BOOLEAN /\ lista \in Filas \cup {NoCargada}
  /\ consulta \in [pedida : BOOLEAN, filas : Filas \cup {NoCargada}]
  /\ editor \in Borrador \cup {Cerrado}
  /\ error \in {"", "json", "rechazada", "ausente", "red"}

\* Only rules that exist are removed: the id of the request is not the empty one
DeBorrar ==
  \A q \in Peticiones :
    peticion[q] # Libre /\ peticion[q].tipo = "eliminar" => peticion[q].id \in Reglas

\* A row is a draft; the drafts of a rule that exists and of a new one
LEMMA Constantes ==
  /\ Blanco \in Contenidos /\ Nueva \notin Reglas
  /\ NoLeida \in [pedida : BOOLEAN, filas : Filas \cup {NoCargada}]
  /\ \A f \in Fila : f \in Edicion /\ f \in Cuerpo /\ f # SinFila
  /\ Edicion \subseteq Cuerpo /\ SinFila \in Cuerpo
  /\ \A a \in BOOLEAN : [activa |-> a] \in Cuerpo
  /\ \A c \in Contenidos : [contenido |-> c] \in Cuerpo
<1>1. Blanco \in Contenidos /\ Nueva \notin Reglas
  BY ReglasAssumption DEF ReglasAssumption
<1>2. NoLeida \in [pedida : BOOLEAN, filas : Filas \cup {NoCargada}]
  BY DEF NoLeida
<1>3. \A f \in Fila : f \in Edicion /\ f \in Cuerpo
  BY DEF Edicion, Cuerpo
<1>4. \A f \in Fila : f # SinFila
  BY <1>1 DEF Fila, SinFila
<1>5. Edicion \subseteq Cuerpo /\ SinFila \in Cuerpo
  BY DEF Cuerpo
<1>6. /\ \A a \in BOOLEAN : [activa |-> a] \in Cuerpo
      /\ \A c \in Contenidos : [contenido |-> c] \in Cuerpo
  BY DEF Cuerpo
<1>7. QED
  BY <1>1, <1>2, <1>3, <1>4, <1>5, <1>6

\* What Object.assign leaves is a row when what it is given is.
LEMMA AsignarTipo ==
  ASSUME NEW f \in Fila, NEW c \in Cuerpo, DOMAIN c \subseteq CamposDto
  PROVE  Asignar(f, c) \in Fila
<1>1. f = [id |-> f.id, creado_en |-> f.creado_en, contenido |-> f.contenido, activa |-> f.activa]
      /\ DOMAIN f = {"id", "creado_en", "contenido", "activa"}
      /\ f.id \in Reglas /\ f.creado_en = "fecha" /\ f.contenido \in Contenidos /\ f.activa \in BOOLEAN
  BY DEF Fila
<1>2. \/ c \in [activa : BOOLEAN] /\ DOMAIN c = {"activa"}
      \/ c \in [contenido : Contenidos] /\ DOMAIN c = {"contenido"}
  <2>1. c \notin Edicion
    <3>1. \A e \in Edicion : "id" \in DOMAIN e
      BY DEF Edicion, Fila
    <3>2. QED
      BY <3>1 DEF CamposDto
  <2>2. c # SinFila
    BY DEF SinFila, CamposDto
  <2>3. QED
    BY <2>1, <2>2 DEF Cuerpo
<1>3. ("activa" \in DOMAIN c => c["activa"] \in BOOLEAN)
      /\ ("contenido" \in DOMAIN c => c["contenido"] \in Contenidos)
      /\ "id" \notin DOMAIN c /\ "creado_en" \notin DOMAIN c
  BY <1>2
<1> DEFINE g == Asignar(f, c)
<1>4. g = [k \in {"id", "creado_en", "contenido", "activa"} |-> IF k \in DOMAIN c THEN c[k] ELSE f[k]]
  BY <1>1 DEF Asignar
<1>5. /\ g["id"] \in Reglas /\ g["creado_en"] \in {"fecha"}
      /\ g["contenido"] \in Contenidos /\ g["activa"] \in BOOLEAN
  BY <1>1, <1>3, <1>4
<1>6. g = [id |-> g["id"], creado_en |-> g["creado_en"], contenido |-> g["contenido"],
           activa |-> g["activa"]]
  BY <1>4
<1>7. QED
  BY <1>5, <1>6 DEF Fila

\* A request is sent, goes on, or is done with.
LEMMA EnviarTipo ==
  ASSUME TiposTabla, NEW q \in Peticiones, NEW id \in Reglas \cup {Nueva}, NEW c \in Cuerpo,
         NEW tipo \in {"guardar", "alternar", "eliminar", "cambiar"}, NEW propia \in BOOLEAN,
         Enviar(q, tipo, propia, id, c), UNCHANGED <<tabla, ajena>>
  PROVE  TiposTabla'
<1> DEFINE p == [tipo |-> tipo, propia |-> propia, id |-> id, cuerpo |-> c,
                 fase |-> "enviada", copia |-> SinFila]
<1>1. p \in Peticion
  BY DEF Peticion, Fases
<1>2. peticion' = [peticion EXCEPT ![q] = p]
  BY DEF Enviar
<1> HIDE DEF p
<1>3. QED
  BY <1>1, <1>2 DEF TiposTabla, tabla

LEMMA PasarTipo ==
  ASSUME TiposTabla, NEW q \in Peticiones, peticion[q] # Libre, NEW fase \in Fases,
         NEW copia \in Fila \cup {SinFila}
  PROVE  /\ [peticion EXCEPT ![q].fase = fase] \in [Peticiones -> Peticion \cup {Libre}]
         /\ [peticion EXCEPT ![q].fase = fase, ![q].copia = copia]
              \in [Peticiones -> Peticion \cup {Libre}]
         /\ [peticion EXCEPT ![q].propia = FALSE] \in [Peticiones -> Peticion \cup {Libre}]
         /\ [peticion EXCEPT ![q] = Libre] \in [Peticiones -> Peticion \cup {Libre}]
<1> DEFINE p == peticion[q]
<1>1. p \in Peticion
  BY DEF TiposTabla
<1>2. /\ [p EXCEPT !.fase = fase] \in Peticion
      /\ [p EXCEPT !.fase = fase, !.copia = copia] \in Peticion
      /\ [p EXCEPT !.propia = FALSE] \in Peticion
  BY <1>1 DEF Peticion
<1>3. peticion \in [Peticiones -> Peticion \cup {Libre}]
  BY DEF TiposTabla
<1>4. QED
  BY <1>2, <1>3

\* The pipe and findOne leave a request that goes on with a row, or is answered.
LEMMA LeerReglaTipo ==
  ASSUME TiposTabla, NEW q \in Peticiones, LeerRegla(q)
  PROVE  TiposTabla'
<1> DEFINE p == peticion[q]
           copia == IF p.tipo = "eliminar" THEN regla[p.id] ELSE Asignar(regla[p.id], p.cuerpo)
<1>1. p \in Peticion /\ peticion[q] # Libre /\ UNCHANGED <<tabla, ajena>>
  BY DEF LeerRegla, TiposTabla
<1>2. CASE Pasar(q, "rechazada") \/ Pasar(q, "ausente")
  <2>1. PICK fase \in Fases : Pasar(q, fase)
    BY <1>2 DEF Fases
  <2>2. [peticion EXCEPT ![q].fase = fase] \in [Peticiones -> Peticion \cup {Libre}]
    BY <1>1, PasarTipo
  <2>3. QED
    BY <1>1, <2>1, <2>2 DEF TiposTabla, tabla, Pasar
<1>3. CASE /\ Valida(p) /\ p.id \in Reglas /\ regla[p.id] # SinFila
           /\ peticion' = [peticion EXCEPT ![q].fase = "leida", ![q].copia = copia]
  <2>1. regla[p.id] \in Fila
    BY <1>3 DEF TiposTabla, Filas
  <2>2. p.tipo # "eliminar" => Asignar(regla[p.id], p.cuerpo) \in Fila
    BY <1>1, <1>3, <2>1, AsignarTipo DEF Valida, Peticion
  <2>3. copia \in Fila \cup {SinFila}
    BY <2>1, <2>2
  <2> HIDE DEF copia
  <2>4. peticion' \in [Peticiones -> Peticion \cup {Libre}]
    BY <1>1, <1>3, <2>3, PasarTipo DEF Fases
  <2>5. QED
    BY <1>1, <2>4 DEF TiposTabla, tabla
<1>4. QED
  BY <1>2, <1>3 DEF LeerRegla

\* What the database writes is a row, or none.
LEMMA EscribirTipo ==
  ASSUME TiposTabla, DeBorrar, NEW q \in Peticiones,
         Escritura(q) \/ \E r \in Reglas : Crear(q, r)
  PROVE  TiposTabla'
<1> DEFINE p == peticion[q]
<1>1. p \in Peticion /\ peticion[q] # Libre
      /\ peticion' = [peticion EXCEPT ![q].fase = "hecha"]
  BY DEF Escritura, Crear, TiposTabla, Pasar
<1>2. peticion' \in [Peticiones -> Peticion \cup {Libre}]
  BY <1>1, PasarTipo DEF Fases
<1>3. ajena' \in BOOLEAN
  BY DEF Escritura, Crear, TiposTabla
<1>4. regla' \in Filas /\ usadas' \in SUBSET Reglas
  <2>1. CASE Escritura(q)
    <3>1. regla' = [regla EXCEPT ![p.id] = IF p.tipo = "eliminar" THEN SinFila ELSE p.copia]
          /\ usadas' = usadas
      BY <2>1 DEF Escritura
    <3>2. p.copia \in Fila \cup {SinFila}
      BY <1>1 DEF Peticion
    <3>3. QED
      BY <3>1, <3>2 DEF TiposTabla, Filas
  <2>2. ASSUME NEW r \in Reglas, Crear(q, r)
        PROVE  regla' \in Filas /\ usadas' \in SUBSET Reglas
    <3> DEFINE f == [id |-> r, creado_en |-> "fecha", contenido |-> Blanco, activa |-> TRUE]
    <3>1. f \in Fila
      BY Constantes DEF Fila
    <3>2. p.tipo # "eliminar"
      BY <1>1, <2>2, Constantes DEF Crear, DeBorrar
    <3>3. p.cuerpo \in Cuerpo /\ DOMAIN p.cuerpo \subseteq CamposDto
      BY <1>1, <2>2, <3>2 DEF Crear, Valida, Peticion
    <3>4. Asignar(f, p.cuerpo) \in Fila
      BY <3>1, <3>3, AsignarTipo
    <3>5. regla' = [regla EXCEPT ![r] = Asignar(f, p.cuerpo)] /\ usadas' = usadas \cup {r}
      BY <2>2 DEF Crear
    <3> HIDE DEF f
    <3>6. QED
      BY <3>4, <3>5 DEF TiposTabla, Filas
  <2>3. QED
    BY <2>1, <2>2
<1>5. QED
  BY <1>2, <1>3, <1>4 DEF TiposTabla

\* The answers and the page giving up free a request, or let it go on for
\* nobody; what a save becomes when its page is left.
LEMMA RecibirTipo ==
  ASSUME TiposTabla, NEW q \in Peticiones,
         RecibirHecha(q) \/ RecibirError(q) \/ FallarPeticion(q)
  PROVE  TiposTabla'
<1>1. UNCHANGED tabla /\ ajena' \in BOOLEAN
  BY DEF RecibirHecha, RecibirError, FallarPeticion, Invalidar, TiposTabla
<1>2. \/ Soltar(q)
      \/ Propia(q) /\ peticion' = [peticion EXCEPT ![q].propia = FALSE]
  BY DEF RecibirHecha, RecibirError, FallarPeticion
<1>3. [peticion EXCEPT ![q] = Libre] \in [Peticiones -> Peticion \cup {Libre}]
  BY DEF TiposTabla
<1>4. Propia(q) => [peticion EXCEPT ![q].propia = FALSE] \in [Peticiones -> Peticion \cup {Libre}]
  <2>1. \E fase \in Fases : TRUE
    BY DEF Fases
  <2>2. QED
    BY <2>1, PasarTipo DEF Propia
<1>5. peticion' \in [Peticiones -> Peticion \cup {Libre}]
  BY <1>2, <1>3, <1>4 DEF Soltar
<1>6. QED
  BY <1>1, <1>5 DEF TiposTabla, tabla

LEMMA DesmontarTipo ==
  ASSUME TiposTabla, Desmontar
  PROVE  TiposTabla'
<1>1. ASSUME NEW q \in Peticiones
      PROVE  peticion'[q] \in Peticion \cup {Libre}
  <2>1. peticion[q] \in Peticion \cup {Libre}
    BY DEF TiposTabla
  <2>2. peticion'[q] = IF DeGuardar(q) THEN [peticion[q] EXCEPT !.tipo = "cambiar"]
                                       ELSE peticion[q]
    BY DEF Desmontar
  <2>3. CASE DeGuardar(q)
    BY <2>1, <2>2, <2>3 DEF DeGuardar, Propia, Peticion
  <2>4. CASE ~DeGuardar(q)
    BY <2>1, <2>2, <2>4
  <2>5. QED
    BY <2>3, <2>4
<1>2. peticion' = [q \in Peticiones |-> peticion'[q]]
  BY DEF Desmontar
<1>3. QED
  BY <1>1, <1>2 DEF TiposTabla, Desmontar, tabla

\* The inputs change what the draft says.
LEMMA EscribirBorrador ==
  ASSUME editor \in Borrador \cup {Cerrado}, NEW c \in Contenidos, NEW a \in BOOLEAN,
         NEW json \in BOOLEAN, Escribir(c, a, json)
  PROVE  editor' \in Borrador
<1>1. editor \in Borrador
  BY DEF Escribir
<1>2. [editor.edicion EXCEPT !.contenido = c, !.activa = a] \in Edicion
  <2>1. editor.edicion \in Edicion
    BY <1>1 DEF Borrador
  <2>2. QED
    BY <2>1 DEF Edicion, Fila
<1>3. editor' = [editor EXCEPT !.edicion = [editor.edicion EXCEPT !.contenido = c, !.activa = a],
                               !.json = json]
  BY <1>1 DEF Escribir, Borrador
<1>4. QED
  BY <1>1, <1>2, <1>3 DEF Borrador

LEMMA TiposPaginaStep ==
  ASSUME TiposTabla, TiposPagina, Next
  PROVE  TiposPagina'
<1> USE DEF TiposPagina
<1>1. CASE Montar \/ Desmontar
  BY <1>1 DEF Montar, Desmontar
<1>2. CASE LeerLista \/ RecibirLista \/ FallarLista
  BY <1>2, Constantes DEF LeerLista, RecibirLista, FallarLista, TiposTabla
<1>3. CASE NuevaRegla \/ CerrarEditor
  <2>1. [id |-> Nueva, creado_en |-> "", contenido |-> Blanco, activa |-> TRUE] \in Edicion
    BY Constantes DEF Edicion
  <2> DEFINE e == [id |-> Nueva, creado_en |-> "", contenido |-> Blanco, activa |-> TRUE]
  <2> HIDE DEF e
  <2>2. e \in Edicion => [id |-> Nueva, json |-> TRUE, edicion |-> e] \in Borrador
    BY DEF Borrador
  <2>3. editor' \in Borrador \cup {Cerrado}
    BY <1>3, <2>1, <2>2 DEF NuevaRegla, CerrarEditor, e
  <2>4. QED
    BY <1>3, <2>3 DEF NuevaRegla, CerrarEditor
<1>4. ASSUME NEW r \in Reglas, Editar(r)
      PROVE  TiposPagina'
  <2>1. lista[r] \in Edicion
    BY <1>4, Constantes DEF Editar, Mostrada, Filas
  <2>2. [id |-> r, edicion |-> lista[r], json |-> TRUE] \in Borrador
    BY <2>1 DEF Borrador
  <2>3. QED
    BY <1>4, <2>2 DEF Editar
<1>5. ASSUME NEW c \in Contenidos, NEW a \in BOOLEAN, NEW json \in BOOLEAN, Escribir(c, a, json)
      PROVE  TiposPagina'
  BY <1>5, EscribirBorrador DEF Escribir
<1>6. ASSUME NEW q \in Peticiones,
             \/ Guardar(q)
             \/ \E r \in Reglas : Alternar(q, r) \/ Eliminar(q, r)
             \/ \E id \in Reglas \cup {Nueva}, c \in Contenidos : PedirOtro(q, id, c)
      PROVE  TiposPagina'
  BY <1>6 DEF Guardar, Alternar, Eliminar, PedirOtro, pagina
<1>7. ASSUME NEW q \in Peticiones,
             LeerRegla(q) \/ Escritura(q) \/ \E r \in Reglas : Crear(q, r)
      PROVE  TiposPagina'
  BY <1>7 DEF LeerRegla, Escritura, Crear, pagina
<1>8. ASSUME NEW q \in Peticiones, RecibirHecha(q)
      PROVE  TiposPagina'
  <2>1. [pedida |-> TRUE, filas |-> NoCargada] \in [pedida : BOOLEAN, filas : Filas \cup {NoCargada}]
    OBVIOUS
  <2>2. consulta' \in {consulta, [pedida |-> TRUE, filas |-> NoCargada]}
    BY <1>8 DEF RecibirHecha, Invalidar
  <2>3. editor' \in {editor, Cerrado} /\ error' \in {error, ""} /\ UNCHANGED <<montada, lista>>
    BY <1>8 DEF RecibirHecha
  <2>4. QED
    BY <2>1, <2>2, <2>3
<1>9. ASSUME NEW q \in Peticiones, RecibirError(q) \/ FallarPeticion(q)
      PROVE  TiposPagina'
  BY <1>9 DEF RecibirError, FallarPeticion, Avisar
<1>10. QED
  BY <1>1, <1>2, <1>3, <1>4, <1>5, <1>6, <1>7, <1>8, <1>9 DEF Next

\* The buttons and the other administrators ask for what the table may hold.
LEMMA PedirTipo ==
  ASSUME TiposTabla, TiposPagina, NEW q \in Peticiones,
         \/ Guardar(q)
         \/ \E r \in Reglas : Alternar(q, r) \/ Eliminar(q, r)
         \/ \E id \in Reglas \cup {Nueva}, c \in Contenidos : PedirOtro(q, id, c)
  PROVE  TiposTabla'
<1>1. CASE Guardar(q)
  <2>1. editor \in Borrador /\ UNCHANGED <<tabla, ajena>>
    BY <1>1 DEF Guardar, TiposPagina
  <2>2. editor.id \in Reglas \cup {Nueva} /\ editor.edicion \in Cuerpo
    BY <2>1, Constantes DEF Borrador
  <2>3. Enviar(q, "guardar", TRUE, editor.id, editor.edicion) \/ UNCHANGED peticion
    BY <1>1 DEF Guardar
  <2>4. CASE Enviar(q, "guardar", TRUE, editor.id, editor.edicion)
    BY <2>1, <2>2, <2>4, EnviarTipo
  <2>5. CASE UNCHANGED peticion
    BY <2>1, <2>5 DEF TiposTabla, tabla
  <2>6. QED
    BY <2>3, <2>4, <2>5
<1>2. ASSUME NEW r \in Reglas, Alternar(q, r)
      PROVE  TiposTabla'
  <2>1. lista[r].activa \in BOOLEAN
    BY <1>2, Constantes DEF Alternar, Mostrada, TiposPagina, Filas, Fila
  <2>2. [activa |-> ~lista[r].activa] \in Cuerpo
    BY <2>1, Constantes
  <2>3. Enviar(q, "alternar", TRUE, r, [activa |-> ~lista[r].activa]) /\ UNCHANGED <<tabla, ajena>>
    BY <1>2 DEF Alternar
  <2>4. QED
    BY <2>2, <2>3, EnviarTipo
<1>3. ASSUME NEW r \in Reglas, Eliminar(q, r)
      PROVE  TiposTabla'
  BY <1>3, Constantes, EnviarTipo DEF Eliminar
<1>4. ASSUME NEW id \in Reglas \cup {Nueva}, NEW c \in Contenidos, PedirOtro(q, id, c)
      PROVE  TiposTabla'
  <2>1. [contenido |-> c] \in Cuerpo /\ SinFila \in Cuerpo
    BY Constantes
  <2>2. /\ UNCHANGED <<tabla, ajena>>
        /\ \/ Enviar(q, "cambiar", FALSE, id, [contenido |-> c])
           \/ Enviar(q, "eliminar", FALSE, id, SinFila)
    BY <1>4 DEF PedirOtro
  <2>3. QED
    BY <2>1, <2>2, EnviarTipo
<1>5. QED
  BY <1>1, <1>2, <1>3, <1>4

-----------------------------------------------------------------------------
(* What each own request may become, and what the list owes the table *)

\* A draft is rejected before it is served: its fields are not those of the DTO
Rechazables ==
  \A q \in Peticiones :
    Propia(q) /\ peticion[q].tipo \in {"guardar", "cambiar"} =>
      peticion[q].cuerpo \in Edicion /\ peticion[q].fase \in {"enviada", "rechazada"}

\* The other buttons are those of a list that was loaded
Cargada ==
  \A q \in Peticiones :
    Propia(q) /\ peticion[q].tipo \in {"alternar", "eliminar"} => lista # NoCargada

\* Unless there is news the page cannot know of, or an answer that will make it
\* ask again, the rows on their way are the table, and so is a settled list
AlDia ==
  ~ajena /\ (\A q \in Peticiones : Propia(q) => peticion[q].fase # "hecha") =>
    /\ consulta.filas # NoCargada => consulta.filas = regla
    /\ ~consulta.pedida /\ lista # NoCargada => lista = regla

IInv == TiposTabla /\ TiposPagina /\ DeBorrar /\ Rechazables /\ Cargada /\ AlDia

\* A draft brings an id, which no DTO declares.
LEMMA BorradorInvalido == \A e \in Edicion : ~(DOMAIN e \subseteq CamposDto)
<1>1. \A e \in Edicion : "id" \in DOMAIN e
  BY DEF Edicion, Fila
<1>2. QED
  BY <1>1 DEF CamposDto

\* The service moves one request on and leaves what it asks for as it is; what
\* it writes is somebody else's news, or that of a request about to be answered.
LEMMA ServirInv ==
  ASSUME IInv, NEW q \in Peticiones,
         LeerRegla(q) \/ Escritura(q) \/ \E r \in Reglas : Crear(q, r)
  PROVE  DeBorrar' /\ Rechazables' /\ Cargada' /\ AlDia'
<1> DEFINE p == peticion[q]
<1>1. p \in Peticion /\ p # Libre /\ UNCHANGED pagina
  BY DEF LeerRegla, Escritura, Crear, IInv, TiposTabla
<1>2. \A k \in Peticiones \ {q} : peticion'[k] = peticion[k]
  BY DEF LeerRegla, Escritura, Crear, Pasar, IInv, TiposTabla
<1>3. /\ peticion'[q].tipo = p.tipo /\ peticion'[q].propia = p.propia
      /\ peticion'[q].id = p.id /\ peticion'[q].cuerpo = p.cuerpo
  <2>1. CASE \E fase \in Fases : Pasar(q, fase)
    BY <1>1, <2>1 DEF Pasar, Peticion, IInv, TiposTabla
  <2>2. CASE LeerRegla(q) /\ ~\E fase \in Fases : Pasar(q, fase)
    <3>1. PICK copia : peticion' = [peticion EXCEPT ![q].fase = "leida", ![q].copia = copia]
      BY <2>2 DEF LeerRegla, Fases
    <3>2. QED
      BY <1>1, <3>1 DEF Peticion, IInv, TiposTabla
  <2>3. QED
    BY <2>1, <2>2 DEF Escritura, Crear, Fases
<1>4. Propia(q) /\ p.tipo \in {"guardar", "cambiar"} => LeerRegla(q) /\ ~Valida(p)
  <2>1. Propia(q) /\ p.tipo \in {"guardar", "cambiar"} =>
          p.cuerpo \in Edicion /\ p.fase \in {"enviada", "rechazada"}
    BY DEF IInv, Rechazables
  <2>2. p.tipo \in {"guardar", "cambiar"} /\ p.cuerpo \in Edicion => ~Valida(p)
    BY BorradorInvalido DEF Valida
  <2>3. Escritura(q) => p.fase = "leida"
    BY DEF Escritura
  <2>4. (\E r \in Reglas : Crear(q, r)) => Valida(p)
    BY DEF Crear
  <2>5. QED
    BY <2>1, <2>2, <2>3, <2>4
<1>5. LeerRegla(q) => /\ p.fase = "enviada" /\ UNCHANGED <<regla, ajena>>
                      /\ peticion'[q].fase \in {"leida", "ausente", "rechazada"}
                      /\ ~Valida(p) => peticion'[q].fase = "rechazada"
  <2>1. ASSUME NEW fase \in Fases, Pasar(q, fase)
        PROVE  peticion'[q].fase = fase
    BY <1>1, <2>1 DEF Pasar, Peticion, IInv, TiposTabla
  <2>2. ASSUME NEW copia, peticion' = [peticion EXCEPT ![q].fase = "leida", ![q].copia = copia]
        PROVE  peticion'[q].fase = "leida"
    BY <1>1, <2>2 DEF Peticion, IInv, TiposTabla
  <2>3. QED
    BY <2>1, <2>2 DEF LeerRegla, tabla, Fases
<1>6. ~LeerRegla(q) => peticion'[q].fase = "hecha" /\ (~p.propia => ajena')
  <2>1. ~LeerRegla(q) => Pasar(q, "hecha") /\ ajena' = (ajena \/ ~p.propia)
    BY DEF Escritura, Crear
  <2>2. Pasar(q, "hecha") => peticion'[q].fase = "hecha"
    BY <1>1 DEF Pasar, Peticion, IInv, TiposTabla
  <2>3. QED
    BY <2>1, <2>2
<1>7. DeBorrar'
  BY <1>1, <1>2, <1>3 DEF IInv, DeBorrar
<1>8. Rechazables'
  BY <1>1, <1>2, <1>3, <1>4, <1>5 DEF IInv, Rechazables, Propia
<1>9. Cargada'
  BY <1>1, <1>2, <1>3 DEF IInv, Cargada, Propia, pagina
<1>10. peticion'[q] # Libre
  BY <1>5, <1>6 DEF Libre
<1>11. AlDia'
  <2>1. CASE LeerRegla(q)
    BY <1>1, <1>2, <1>5, <2>1 DEF IInv, AlDia, Propia, pagina
  <2>2. CASE ~LeerRegla(q)
    BY <1>1, <1>3, <1>6, <1>10, <2>2 DEF AlDia, Propia
  <2>3. QED
    BY <2>1, <2>2
<1>12. QED
  BY <1>7, <1>8, <1>9, <1>11

\* A request is sent: of a draft, of a rule the list shows, or somebody else's.
LEMMA PedirInv ==
  ASSUME IInv, NEW q \in Peticiones,
         \/ Guardar(q)
         \/ \E r \in Reglas : Alternar(q, r) \/ Eliminar(q, r)
         \/ \E id \in Reglas \cup {Nueva}, c \in Contenidos : PedirOtro(q, id, c)
  PROVE  DeBorrar' /\ Rechazables' /\ Cargada' /\ AlDia'
<1>1. UNCHANGED <<regla, lista, consulta, ajena>> /\ peticion[q] = Libre
  BY DEF Guardar, Alternar, Eliminar, PedirOtro, Enviar, tabla, pagina
<1>2. \/ UNCHANGED peticion
      \/ \E tipo \in {"guardar", "alternar", "eliminar", "cambiar"}, propia \in BOOLEAN,
            id \in Reglas \cup {Nueva}, c \in Cuerpo :
           /\ Enviar(q, tipo, propia, id, c)
           /\ tipo = "eliminar" => id \in Reglas
           /\ propia /\ tipo \in {"guardar", "cambiar"} => c \in Edicion
           /\ propia /\ tipo \in {"alternar", "eliminar"} => lista # NoCargada
  <2>1. CASE Guardar(q)
    <3>1. editor.id \in Reglas \cup {Nueva} /\ editor.edicion \in Edicion
      BY <2>1 DEF Guardar, IInv, TiposPagina, Borrador
    <3>2. QED
      BY <2>1, <3>1, Constantes DEF Guardar
  <2>2. ASSUME NEW r \in Reglas, Alternar(q, r)
        PROVE  /\ Enviar(q, "alternar", TRUE, r, [activa |-> ~lista[r].activa])
               /\ lista # NoCargada /\ [activa |-> ~lista[r].activa] \in Cuerpo
    <3>1. lista[r].activa \in BOOLEAN
      BY <2>2, Constantes DEF Alternar, Mostrada, IInv, TiposPagina, Filas, Fila
    <3>2. [activa |-> ~lista[r].activa] \in Cuerpo
      BY <3>1, Constantes
    <3>3. QED
      BY <2>2, <3>2 DEF Alternar, Mostrada
  <2>3. ASSUME NEW r \in Reglas, Eliminar(q, r)
        PROVE  Enviar(q, "eliminar", TRUE, r, SinFila) /\ lista # NoCargada /\ SinFila \in Cuerpo
    BY <2>3, Constantes DEF Eliminar, Mostrada
  <2>4. ASSUME NEW id \in Reglas \cup {Nueva}, NEW c \in Contenidos, PedirOtro(q, id, c)
        PROVE  /\ [contenido |-> c] \in Cuerpo /\ SinFila \in Cuerpo
               /\ \/ Enviar(q, "cambiar", FALSE, id, [contenido |-> c])
                  \/ id \in Reglas /\ Enviar(q, "eliminar", FALSE, id, SinFila)
    BY <2>4, Constantes DEF PedirOtro
  <2>5. QED
    BY <2>1, <2>2, <2>3, <2>4
<1>3. CASE UNCHANGED peticion
  BY <1>1, <1>3 DEF IInv, DeBorrar, Rechazables, Cargada, AlDia, Propia
<1>4. ASSUME NEW tipo \in {"guardar", "alternar", "eliminar", "cambiar"}, NEW propia \in BOOLEAN,
             NEW id \in Reglas \cup {Nueva}, NEW c \in Cuerpo,
             Enviar(q, tipo, propia, id, c),
             tipo = "eliminar" => id \in Reglas,
             propia /\ tipo \in {"guardar", "cambiar"} => c \in Edicion,
             propia /\ tipo \in {"alternar", "eliminar"} => lista # NoCargada
      PROVE  DeBorrar' /\ Rechazables' /\ Cargada' /\ AlDia'
  <2>1. \A k \in Peticiones \ {q} : peticion'[k] = peticion[k]
    BY <1>4 DEF Enviar, IInv, TiposTabla
  <2>2. peticion'[q] = [tipo |-> tipo, propia |-> propia, id |-> id, cuerpo |-> c,
                        fase |-> "enviada", copia |-> SinFila]
    BY <1>4 DEF Enviar, IInv, TiposTabla
  <2>3. ~Propia(q)
    BY <1>1 DEF Propia
  <2>4. DeBorrar'
    BY <1>4, <2>1, <2>2 DEF IInv, DeBorrar
  <2>5. Rechazables'
    BY <1>4, <2>1, <2>2 DEF IInv, Rechazables, Propia
  <2>6. Cargada'
    BY <1>1, <1>4, <2>1, <2>2 DEF IInv, Cargada, Propia
  <2>7. AlDia'
    <3>1. (\A k \in Peticiones : Propia(k)' => peticion'[k].fase # "hecha")
          => (\A k \in Peticiones : Propia(k) => peticion[k].fase # "hecha")
      BY <2>1, <2>3 DEF Propia
    <3>2. QED
      BY <1>1, <3>1 DEF IInv, AlDia
  <2>8. QED
    BY <2>4, <2>5, <2>6, <2>7
<1>5. QED
  BY <1>2, <1>3, <1>4

\* A request is done with: when it changed the table, the list asks again, or
\* the page that is away misses it.
LEMMA RecibirInv ==
  ASSUME IInv, NEW q \in Peticiones,
         RecibirHecha(q) \/ RecibirError(q) \/ FallarPeticion(q)
  PROVE  DeBorrar' /\ Rechazables' /\ Cargada' /\ AlDia'
<1>1. \A k \in Peticiones \ {q} : peticion'[k] = peticion[k]
  BY DEF RecibirHecha, RecibirError, FallarPeticion, Soltar, IInv, TiposTabla
<1>2. UNCHANGED <<regla, lista>>
  BY DEF RecibirHecha, RecibirError, FallarPeticion, tabla
<1>3. \/ peticion'[q] = Libre
      \/ FallarPeticion(q) /\ peticion'[q] = [peticion[q] EXCEPT !.propia = FALSE]
  BY DEF RecibirHecha, RecibirError, FallarPeticion, Soltar, IInv, TiposTabla
<1>4. ~Propia(q)'
  <2>1. CASE peticion'[q] = Libre
    BY <2>1 DEF Propia
  <2>2. CASE FallarPeticion(q) /\ peticion'[q] = [peticion[q] EXCEPT !.propia = FALSE]
    BY <2>2 DEF FallarPeticion, Propia, IInv, TiposTabla, Peticion
  <2>3. QED
    BY <1>3, <2>1, <2>2
<1>5. DeBorrar'
  <2>1. CASE peticion'[q] = Libre
    BY <1>1, <2>1 DEF IInv, DeBorrar
  <2>2. CASE FallarPeticion(q) /\ peticion'[q] = [peticion[q] EXCEPT !.propia = FALSE]
    <3>1. peticion[q] \in Peticion /\ peticion[q] # Libre
      BY <2>2 DEF FallarPeticion, Propia, IInv, TiposTabla
    <3>2. peticion'[q].tipo = peticion[q].tipo /\ peticion'[q].id = peticion[q].id
      BY <2>2, <3>1 DEF Peticion
    <3>3. QED
      BY <1>1, <3>1, <3>2 DEF IInv, DeBorrar
  <2>3. QED
    BY <1>3, <2>1, <2>2
<1>6. Rechazables' /\ Cargada'
  BY <1>1, <1>2, <1>4 DEF IInv, Rechazables, Cargada, Propia
<1>7. AlDia'
  <2>1. CASE FallarPeticion(q)
    BY <2>1 DEF FallarPeticion, AlDia
  <2>2. CASE \/ RecibirError(q)
             \/ RecibirHecha(q) /\ ~Propia(q)
    <3>1. UNCHANGED <<consulta, ajena>> /\ (Propia(q) => peticion[q].fase # "hecha")
      BY <2>2 DEF RecibirError, RecibirHecha
    <3>2. QED
      BY <1>1, <1>2, <3>1 DEF IInv, AlDia, Propia
  <2>3. CASE RecibirHecha(q) /\ Propia(q)
    <3>1. peticion[q].fase = "hecha" /\ peticion[q] \in Peticion
      BY <2>3 DEF RecibirHecha, Propia, IInv, TiposTabla
    <3>2. lista # NoCargada
      BY <2>3, <3>1 DEF IInv, Rechazables, Cargada, Peticion
    <3>3. CASE ~montada
      BY <2>3, <3>3 DEF RecibirHecha, Invalidar, AlDia
    <3>4. CASE montada
      <4>1. consulta' = [pedida |-> TRUE, filas |-> NoCargada]
        BY <2>3, <3>2, <3>4 DEF RecibirHecha, Invalidar
      <4>2. QED
        BY <4>1 DEF AlDia
    <3>5. QED
      BY <3>3, <3>4
  <2>4. QED
    BY <2>1, <2>2, <2>3
<1>8. QED
  BY <1>5, <1>6, <1>7

\* Leaving the page keeps how far its requests are.
LEMMA DesmontarInv ==
  ASSUME IInv, Desmontar
  PROVE  DeBorrar' /\ Rechazables' /\ Cargada' /\ AlDia'
<1>1. UNCHANGED <<regla, lista, consulta, ajena>>
  BY DEF Desmontar, tabla
<1>2. ASSUME NEW q \in Peticiones
      PROVE  \/ peticion'[q] = peticion[q]
             \/ /\ Propia(q) /\ peticion[q].tipo = "guardar" /\ Propia(q)'
                /\ peticion'[q].tipo = "cambiar" /\ peticion'[q].cuerpo = peticion[q].cuerpo
                /\ peticion'[q].fase = peticion[q].fase
  <2>1. peticion'[q] = IF DeGuardar(q) THEN [peticion[q] EXCEPT !.tipo = "cambiar"]
                                       ELSE peticion[q]
    BY DEF Desmontar
  <2>2. CASE DeGuardar(q)
    <3>1. peticion[q] \in Peticion /\ Propia(q) /\ peticion[q].tipo = "guardar"
      BY <2>2 DEF DeGuardar, Propia, IInv, TiposTabla
    <3>2. peticion'[q] = [peticion[q] EXCEPT !.tipo = "cambiar"]
      BY <2>1, <2>2
    <3>3. /\ peticion'[q].tipo = "cambiar" /\ peticion'[q].cuerpo = peticion[q].cuerpo
          /\ peticion'[q].fase = peticion[q].fase /\ peticion'[q].propia
      BY <3>1, <3>2 DEF Peticion, Propia
    <3>4. peticion'[q] # Libre
      BY <3>1, <3>3 DEF IInv, Rechazables, Libre
    <3>5. QED
      BY <3>1, <3>3, <3>4 DEF Propia
  <2>3. QED
    BY <2>1, <2>2
<1>3. DeBorrar'
  BY <1>2 DEF IInv, DeBorrar
<1>4. Rechazables'
  BY <1>2 DEF IInv, Rechazables, Propia
<1>5. Cargada'
  BY <1>1, <1>2 DEF IInv, Cargada, Propia
<1>6. AlDia'
  BY <1>1, <1>2 DEF IInv, AlDia, Propia
<1>7. QED
  BY <1>3, <1>4, <1>5, <1>6

\* The list is asked for, read and answered; the editor does not touch it.
LEMMA PaginaInv ==
  ASSUME IInv, UNCHANGED peticion,
         \/ Montar \/ LeerLista \/ RecibirLista \/ FallarLista \/ NuevaRegla \/ CerrarEditor
         \/ \E r \in Reglas : Editar(r)
         \/ \E c \in Contenidos, a, json \in BOOLEAN : Escribir(c, a, json)
  PROVE  DeBorrar' /\ Rechazables' /\ Cargada' /\ AlDia'
<1>1. DeBorrar' /\ Rechazables'
  BY DEF IInv, DeBorrar, Rechazables, Propia
<1>2. \/ UNCHANGED lista
      \/ RecibirLista /\ lista' = consulta.filas /\ lista' # NoCargada
  BY DEF Montar, LeerLista, RecibirLista, FallarLista, NuevaRegla, CerrarEditor, Editar, Escribir
<1>3. Cargada'
  BY <1>2 DEF IInv, Cargada, Propia
<1>4. AlDia'
  <2>1. CASE LeerLista
    BY <2>1 DEF LeerLista, AlDia, IInv, TiposPagina, tabla
  <2>2. CASE RecibirLista
    BY <2>2 DEF RecibirLista, AlDia, IInv, NoLeida, tabla, Propia
  <2>3. CASE FallarLista
    BY <2>3 DEF FallarLista, AlDia
  <2>4. CASE Montar
    <3>1. consulta'.pedida /\ consulta'.filas = consulta.filas
      BY <2>4 DEF Montar, IInv, TiposPagina
    <3>2. QED
      BY <2>4, <3>1 DEF Montar, AlDia, IInv, tabla, Propia
  <2>5. CASE \/ NuevaRegla \/ CerrarEditor
             \/ \E r \in Reglas : Editar(r)
             \/ \E c \in Contenidos, a, json \in BOOLEAN : Escribir(c, a, json)
    <3>1. UNCHANGED <<regla, lista, consulta, ajena>>
      BY <2>5 DEF NuevaRegla, CerrarEditor, Editar, Escribir, tabla
    <3>2. QED
      BY <3>1 DEF AlDia, IInv, Propia
  <2>6. QED
    BY <2>1, <2>2, <2>3, <2>4, <2>5
<1>5. QED
  BY <1>1, <1>3, <1>4

-----------------------------------------------------------------------------
(* Theorems *)

LEMMA IInvInit == Init => IInv
<1> SUFFICES ASSUME Init PROVE IInv
  OBVIOUS
<1>1. TiposTabla
  BY DEF Init, TiposTabla, Filas
<1>2. TiposPagina
  BY Constantes DEF Init, TiposPagina
<1>3. \A q \in Peticiones : peticion[q] = Libre
  BY DEF Init
<1>4. DeBorrar /\ Rechazables /\ Cargada
  BY <1>3 DEF DeBorrar, Rechazables, Cargada, Propia
<1>5. AlDia
  BY DEF Init, AlDia, NoLeida
<1>6. QED
  BY <1>1, <1>2, <1>4, <1>5 DEF IInv

LEMMA IInvStep == IInv /\ [Next]_vars => IInv'
<1> SUFFICES ASSUME IInv, [Next]_vars PROVE IInv'
  OBVIOUS
<1>1. CASE UNCHANGED vars
  BY <1>1 DEF IInv, TiposTabla, TiposPagina, DeBorrar, Rechazables, Cargada, AlDia, Propia,
              vars, tabla, pagina
<1>2. CASE Next
  <2>1. TiposPagina'
    BY <1>2, TiposPaginaStep DEF IInv
  <2>2. CASE \/ Montar \/ LeerLista \/ RecibirLista \/ FallarLista \/ NuevaRegla \/ CerrarEditor
             \/ \E r \in Reglas : Editar(r)
             \/ \E c \in Contenidos, a, json \in BOOLEAN : Escribir(c, a, json)
    <3>1. UNCHANGED <<tabla, peticion>> /\ ajena' \in BOOLEAN
      BY <2>2 DEF Montar, LeerLista, RecibirLista, FallarLista, NuevaRegla, CerrarEditor,
                  Editar, Escribir, IInv, TiposTabla
    <3>2. TiposTabla'
      BY <3>1 DEF IInv, TiposTabla, tabla
    <3>3. QED
      BY <2>1, <2>2, <3>1, <3>2, PaginaInv DEF IInv
  <2>3. CASE Desmontar
    BY <2>1, <2>3, DesmontarTipo, DesmontarInv DEF IInv
  <2>4. ASSUME NEW q \in Peticiones,
               \/ Guardar(q)
               \/ \E r \in Reglas : Alternar(q, r) \/ Eliminar(q, r)
               \/ \E id \in Reglas \cup {Nueva}, c \in Contenidos : PedirOtro(q, id, c)
        PROVE  IInv'
    BY <2>1, <2>4, PedirTipo, PedirInv DEF IInv
  <2>5. ASSUME NEW q \in Peticiones, LeerRegla(q)
        PROVE  IInv'
    BY <2>1, <2>5, LeerReglaTipo, ServirInv DEF IInv
  <2>6. ASSUME NEW q \in Peticiones, Escritura(q) \/ \E r \in Reglas : Crear(q, r)
        PROVE  IInv'
    BY <2>1, <2>6, EscribirTipo, ServirInv DEF IInv
  <2>7. ASSUME NEW q \in Peticiones, RecibirHecha(q) \/ RecibirError(q) \/ FallarPeticion(q)
        PROVE  IInv'
    BY <2>1, <2>7, RecibirTipo, RecibirInv DEF IInv
  <2>8. QED
    BY <1>2, <2>2, <2>3, <2>4, <2>5, <2>6, <2>7 DEF Next
<1>3. QED
  BY <1>1, <1>2

\* The rows, the requests and the page keep their types, whatever a body
\* brings and whoever is served in between.
THEOREM TipoCorrecto == Spec => []TypeOK
<1>1. IInv => TypeOK
  BY DEF IInv, TiposTabla, TiposPagina, TypeOK
<1>2. QED
  BY IInvInit, IInvStep, <1>1, PTL DEF Spec

\* For any number of rules and of requests, the list of the page ends up
\* being the table once its own requests were answered and it has settled,
\* unless somebody else changed it since or a request failed.
THEOREM ListaSigueALaTabla == Spec => []ListaFiel
<1>1. IInv => ListaFiel
  BY DEF IInv, AlDia, ListaFiel, SinEnvios
<1>2. QED
  BY IInvInit, IInvStep, <1>1, PTL DEF Spec

=============================================================================
