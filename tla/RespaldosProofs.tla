--------------------------- MODULE RespaldosProofs ---------------------------
(***************************************************************************)
(* Proofs about Respaldos.  What a row may miss is on record at every      *)
(* moment: in faltas for the table, in excusas for a backup and for a job. *)
(* The inductive invariant says so of each stage a row passes through.     *)
(***************************************************************************)
EXTENDS Respaldos, TLAPS

\* A row about to be saved has its file
PorGuardar ==
  \A q \in Peticiones : paso[q] = "guardar" => informe[q] \in objetos \cup faltas

Volcados == {"listar", "copiar"}
Restaurando == {"tirar", "crear", "cargar", "archivos"}

\* What a job keeps of the two stores
Conocido(t) ==
  LET s == trabajo[t] IN
  /\ s.paso \in Volcados \cup Restaurando => s.filas \subseteq objetos \cup faltas
  /\ s.paso = "listar" => s.filas \subseteq objetos \cup s.excusas
  /\ s.paso = "copiar" => /\ s.filas \subseteq s.objetos \cup s.pendientes \cup s.excusas
                          /\ s.filas \cap s.pendientes \subseteq objetos \cup s.excusas
  /\ s.paso \in {"tirar", "crear", "cargar"} => s.filas \subseteq s.pendientes \cup s.excusas
  /\ s.paso = "archivos" => s.filas \subseteq objetos \cup s.pendientes \cup s.excusas

RespaldoConocido ==
  \A n \in Nombres : respaldos[n].filas \subseteq objetos \cup faltas

IInv ==
  /\ TypeOK
  /\ FilaConArchivo
  /\ PorGuardar
  /\ \A t \in Trabajos : Conocido(t)
  /\ RespaldoConocido
  /\ RespaldoCompleto

-----------------------------------------------------------------------------
(* Types *)

\* Empty stores and no jobs are well typed.
LEMMA TypeOKInit == Init => TypeOK
<1> SUFFICES ASSUME Init PROVE TypeOK
  OBVIOUS
<1> USE RespaldosAssumption, ReportesAssumption DEF RespaldosAssumption, ReportesAssumption
<1>1. TypeOKReportes
  BY DEF Init, InitReportes, TypeOKReportes, Pasos
<1>2. Ninguno \in Contenidos /\ Vacio \in Estados
  BY DEF Ninguno, Contenidos, Vacio, Estados, Fases
<1>3. QED
  BY <1>1, <1>2 DEF Init, TypeOK

\* Requests for reports keep their types.
LEMMA TipoReportes ==
  ASSUME TypeOKReportes, NEW q \in Peticiones, PasoReportes(q) \/ QuitarObjeto(q)
  PROVE  TypeOKReportes'
<1> USE DEF TypeOKReportes, Pasos, Seguir, Acabar
<1>1. ASSUME NEW r \in Informes, Generar(q, r) \/ BuscarInforme(q, r)
      PROVE  TypeOKReportes'
  BY <1>1 DEF Generar, BuscarInforme
<1>2. CASE Subir(q) \/ SubirFalla(q)
  BY <1>2 DEF Subir, SubirFalla
<1>3. CASE Guardar(q)
  BY <1>3 DEF Guardar
<1>4. CASE GuardarFalla(q)
  BY <1>4 DEF GuardarFalla
<1>5. CASE EmailReporte(q)
  BY <1>5 DEF EmailReporte
<1>6. CASE QuitarObjeto(q) \/ QuitarObjetoFalla(q)
  BY <1>6 DEF QuitarObjeto, QuitarObjetoFalla
<1>7. CASE QuitarFila(q) \/ QuitarFilaFalla(q)
  BY <1>7 DEF QuitarFila, QuitarFilaFalla
<1>8. QED
  BY <1>1, <1>2, <1>3, <1>4, <1>5, <1>6, <1>7 DEF PasoReportes

\* So does every step of a job: of a backup, ...
LEMMA TipoCopia ==
  ASSUME TypeOK, NEW t \in Trabajos
  PROVE  /\ Vencer(t) \/ Volcar(t) \/ Listar(t) \/ CrearFalla(t) => TypeOK'
         /\ \A r \in Informes : Copiar(t, r) \/ CopiarFalla(t, r) => TypeOK'
         /\ \A s \in Segundos : Subida(t, s) => TypeOK'
<1> USE DEF TypeOK, Aparte, Pasar, Fin
<1>1. trabajo[t] \in Estados /\ Vacio \in Estados
  BY DEF Vacio, Estados, Fases
<1>2. TypeOKReportes /\ UNCHANGED varsReportes => TypeOKReportes'
  BY DEF TypeOKReportes, varsReportes
<1>3. CASE Vencer(t)
  BY <1>2, <1>3 DEF Vencer
<1>4. CASE Volcar(t)
  <2>1. trabajo'[t] \in Estados
    BY <1>1, <1>4 DEF Volcar, Estados, Fases, TypeOKReportes
  <2>2. QED
    BY <1>2, <1>4, <2>1 DEF Volcar
<1>5. CASE Listar(t)
  <2>1. trabajo'[t] \in Estados
    BY <1>1, <1>5 DEF Listar, Estados, Fases, TypeOKReportes
  <2>2. QED
    BY <1>2, <1>5, <2>1 DEF Listar
<1>6. CASE CrearFalla(t)
  BY <1>1, <1>2, <1>6 DEF CrearFalla
<1>7. ASSUME NEW r \in Informes, Copiar(t, r) \/ CopiarFalla(t, r)
      PROVE  TypeOK'
  <2>1. trabajo'[t] \in Estados
    <3>1. CASE Copiar(t, r)
      BY <1>1, <3>1 DEF Copiar, Estados, Fases
    <3>2. CASE CopiarFalla(t, r)
      BY <1>1, <3>2 DEF CopiarFalla, Estados, Fases
    <3>3. QED
      BY <1>7, <3>1, <3>2
  <2>2. QED
    BY <1>2, <1>7, <2>1 DEF Copiar, CopiarFalla
<1>8. ASSUME NEW s \in Segundos, Subida(t, s)
      PROVE  TypeOK'
  <2>1. Contenido(trabajo[t]) \in Contenidos
    BY <1>1 DEF Contenido, Contenidos, Estados
  <2>2. QED
    BY <1>1, <1>2, <1>8, <2>1 DEF Subida
<1>9. QED
  BY <1>3, <1>4, <1>5, <1>6, <1>7, <1>8

\* ... of a restoration, ...
LEMMA TipoRestauracion ==
  ASSUME TypeOK, NEW t \in Trabajos
  PROVE  /\ \A r \in Informes : ReponerArchivo(t, r) \/ ReponerFalla(t, r) => TypeOK'
         /\ Tirar(t) \/ CrearTablas(t) \/ Cargar(t) \/ CargarIgnora(t) => TypeOK'
         /\ RestaurarFalla(t) \/ Restaurado(t) => TypeOK'
<1> USE DEF TypeOK, Aparte, Pasar, Fin, SinTocar
<1>1. trabajo[t] \in Estados /\ Vacio \in Estados
  BY DEF Vacio, Estados, Fases
<1>2. TypeOKReportes /\ UNCHANGED varsReportes => TypeOKReportes'
  BY DEF TypeOKReportes, varsReportes
<1>3. CASE Tirar(t) \/ CrearTablas(t) \/ Cargar(t) \/ CargarIgnora(t)
  <2>1. trabajo'[t] \in Estados
    BY <1>1, <1>3 DEF Tirar, CrearTablas, Cargar, CargarIgnora, Estados, Fases
  <2>2. TypeOKReportes'
    BY <1>1, <1>2, <1>3 DEF Tirar, CrearTablas, Cargar, CargarIgnora, Estados, TypeOKReportes
  <2>3. QED
    BY <1>3, <2>1, <2>2 DEF Tirar, CrearTablas, Cargar, CargarIgnora
<1>4. CASE RestaurarFalla(t)
  BY <1>1, <1>2, <1>4 DEF RestaurarFalla
<1>5. ASSUME NEW r \in Informes, ReponerArchivo(t, r) \/ ReponerFalla(t, r)
      PROVE  TypeOK'
  <2>1. trabajo'[t] \in Estados
    <3>1. CASE ReponerArchivo(t, r)
      BY <1>1, <3>1 DEF ReponerArchivo, Estados, Fases
    <3>2. CASE ReponerFalla(t, r)
      BY <1>1, <3>2 DEF ReponerFalla, Estados, Fases
    <3>3. QED
      BY <1>5, <3>1, <3>2
  <2>2. TypeOKReportes'
    BY <1>2, <1>5 DEF ReponerArchivo, ReponerFalla, TypeOKReportes
  <2>3. QED
    BY <1>5, <2>1, <2>2 DEF ReponerArchivo, ReponerFalla
<1>6. CASE Restaurado(t)
  <2>1. TypeOKReportes'
    BY <1>1, <1>6 DEF Restaurado, Estados, TypeOKReportes
  <2>2. QED
    BY <1>1, <1>6, <2>1 DEF Restaurado
<1>7. QED
  BY <1>3, <1>4, <1>5, <1>6

\* ... and of a restore-test.
LEMMA TipoPrueba ==
  ASSUME TypeOK, NEW t \in Trabajos,
         CrearBase(t) \/ Contar(t) \/ SoltarBase(t) \/ SoltarFalla(t)
  PROVE  TypeOK'
<1> USE DEF TypeOK, Aparte, Pasar, Fin
<1>1. trabajo[t] \in Estados /\ Vacio \in Estados
  BY DEF Vacio, Estados, Fases
<1>2. TypeOKReportes'
  BY DEF TypeOKReportes, varsReportes, CrearBase, Contar, SoltarBase, SoltarFalla
<1>3. CASE CrearBase(t)
  BY <1>2, <1>3 DEF CrearBase
<1>4. CASE Contar(t)
  <2>1. trabajo'[t] \in Estados
    BY <1>1, <1>4 DEF Contar, Estados, Fases
  <2>2. QED
    BY <1>2, <1>4, <2>1 DEF Contar
<1>5. CASE SoltarBase(t) \/ SoltarFalla(t)
  BY <1>1, <1>2, <1>5 DEF SoltarBase, SoltarFalla
<1>6. QED
  BY <1>3, <1>4, <1>5

\* Requests for backups, restarts and the command line keep the types.
LEMMA TipoResto ==
  ASSUME TypeOK
  PROVE  /\ \A q \in Peticiones : QuitarObjetoDurante(q) => TypeOK'
         /\ \A t \in Trabajos, c \in Cifrados : PedirRespaldo(t, c) => TypeOK'
         /\ \A t \in Trabajos, n \in Nombres, fase \in {"tirar", "probar"} :
              PedirRestauracion(t, n, fase) => TypeOK'
         /\ \A n \in Nombres : EliminarRespaldo(n) \/ RestaurarCLI(n) => TypeOK'
         /\ \A n \in Nombres, m \in Subidos, entero \in BOOLEAN :
              RecibirUpload(n, m, entero) => TypeOK'
         /\ Reinicio => TypeOK'
<1> USE RespaldosAssumption DEF RespaldosAssumption, TypeOK, Pasar, Libre
<1>1. Vacio \in Estados /\ Ninguno \in Contenidos
  BY DEF Vacio, Estados, Fases, Ninguno, Contenidos
<1>2. TypeOKReportes /\ UNCHANGED varsReportes => TypeOKReportes'
  BY DEF TypeOKReportes, varsReportes
<1>3. ASSUME NEW q \in Peticiones, QuitarObjetoDurante(q)
      PROVE  TypeOK'
  <2>1. TypeOKReportes'
    BY <1>3, TipoReportes DEF QuitarObjetoDurante
  <2>2. informe[q] \in Informes
    BY <1>3 DEF QuitarObjetoDurante, QuitarObjeto, TypeOKReportes
  <2>3. \A t \in Trabajos :
          [trabajo[t] EXCEPT !.excusas = @ \cup {informe[q]}] \in Estados
    BY <2>2 DEF Estados
  <2>4. trabajo' \in [Trabajos -> Estados]
    BY <1>3, <2>3 DEF QuitarObjetoDurante
  <2>5. QED
    BY <1>3, <2>1, <2>4 DEF QuitarObjetoDurante, Aparte
<1>4. ASSUME NEW t \in Trabajos, NEW c \in Cifrados, PedirRespaldo(t, c)
      PROVE  TypeOK'
  <2>1. trabajo'[t] \in Estados
    BY <1>1, <1>4 DEF PedirRespaldo, Estados, Fases
  <2>2. pedidos' \in 0..MaxPedidos
    BY <1>4 DEF PedirRespaldo
  <2>3. QED
    BY <1>2, <1>4, <2>1, <2>2 DEF PedirRespaldo
<1>5. ASSUME NEW t \in Trabajos, NEW n \in Nombres, NEW fase \in {"tirar", "probar"},
             PedirRestauracion(t, n, fase)
      PROVE  TypeOK'
  <2>1. respaldos[n] \in Contenidos
    OBVIOUS
  <2>2. trabajo'[t] \in Estados
    BY <1>1, <1>5, <2>1 DEF PedirRestauracion, Estados, Fases, Contenidos
  <2>3. pedidos' \in 0..MaxPedidos
    BY <1>5 DEF PedirRestauracion
  <2>4. QED
    BY <1>2, <1>5, <2>2, <2>3 DEF PedirRestauracion
<1>6. ASSUME NEW n \in Nombres, NEW m \in Subidos, NEW entero \in BOOLEAN,
             RecibirUpload(n, m, entero)
      PROVE  TypeOK'
  <2>1. [respaldos[n] EXCEPT !.legible = respaldos[n].legible /\ entero] \in Contenidos
    BY DEF Contenidos
  <2>2. m \in Nombres
    BY DEF Nombres
  <2>3. QED
    BY <1>2, <1>6, <2>1, <2>2 DEF RecibirUpload
<1>7. ASSUME NEW n \in Nombres, EliminarRespaldo(n) \/ RestaurarCLI(n)
      PROVE  TypeOK'
  <2>1. CASE EliminarRespaldo(n)
    BY <1>1, <1>2, <2>1 DEF EliminarRespaldo
  <2>2. CASE RestaurarCLI(n)
    <3>1. respaldos[n].filas \subseteq Informes
      BY DEF Contenidos
    <3>2. TypeOKReportes'
      BY <2>2, <3>1 DEF RestaurarCLI, Interrumpir, TypeOKReportes, Pasos
    <3>3. QED
      BY <1>1, <2>2, <3>2 DEF RestaurarCLI, Interrumpir
  <2>3. QED
    BY <1>7, <2>1, <2>2
<1>8. CASE Reinicio
  <2>1. TypeOKReportes'
    BY <1>8 DEF Reinicio, Interrumpir, TypeOKReportes, Pasos
  <2>2. QED
    BY <1>1, <1>8, <2>1 DEF Reinicio, Interrumpir
<1>9. QED
  BY <1>3, <1>4, <1>5, <1>6, <1>7, <1>8

\* Every step keeps the types.
LEMMA TypeOKPaso == TypeOK /\ [Next]_vars => TypeOK'
<1> SUFFICES ASSUME TypeOK, [Next]_vars PROVE TypeOK'
  OBVIOUS
<1>1. ASSUME NEW q \in Peticiones, PasoReportes(q), UNCHANGED varsRespaldos
      PROVE  TypeOK'
  BY <1>1, TipoReportes DEF TypeOK, varsRespaldos
<1>2. ASSUME NEW t \in Trabajos, PasoTrabajo(t)
      PROVE  TypeOK'
  BY <1>2, TipoCopia, TipoRestauracion, TipoPrueba DEF PasoTrabajo
<1>3. CASE UNCHANGED vars
  BY <1>3 DEF TypeOK, TypeOKReportes, vars, varsReportes, varsRespaldos
<1>4. QED
  BY <1>1, <1>2, <1>3, TipoResto DEF Next

\* THEOREM of types: for any number of reports, requests, jobs and names.
THEOREM TipoCorrecto == Spec => []TypeOK
BY TypeOKInit, TypeOKPaso, PTL DEF Spec

-----------------------------------------------------------------------------
(* Databases of restore-tests *)

\* A job that creates a database is the only one that uses it, until it drops
\* it, fails to, or is cut by a restart.
LEMMA PruebaPaso == TypeOK /\ PruebaSinRestos /\ [Next]_vars => PruebaSinRestos'
<1> SUFFICES ASSUME TypeOK, PruebaSinRestos, [Next]_vars PROVE PruebaSinRestos'
  OBVIOUS
<1> USE DEF TypeOK, PruebaSinRestos, Pasar, Fin, Aparte
<1>1. CASE UNCHANGED varsRespaldos
  BY <1>1 DEF varsRespaldos
<1>2. ASSUME NEW q \in Peticiones, QuitarObjetoDurante(q)
      PROVE  PruebaSinRestos'
  <2>1. \A t \in Trabajos : trabajo'[t].paso = trabajo[t].paso
    BY <1>2 DEF QuitarObjetoDurante, Estados
  <2>2. QED
    BY <1>2, <2>1 DEF QuitarObjetoDurante
<1>3. ASSUME NEW t \in Trabajos, PasoTrabajo(t)
      PROVE  PruebaSinRestos'
  <2>1. CASE CrearBase(t)
    BY <2>1 DEF CrearBase
  <2>2. CASE Contar(t)
    <3>1. trabajo'[t].paso = "soltar"
      BY <2>2 DEF Contar, Estados
    <3>2. QED
      BY <2>2, <3>1 DEF Contar
  <2>3. CASE SoltarBase(t) \/ SoltarFalla(t)
    BY <2>3 DEF SoltarBase, SoltarFalla
  <2>4. CASE Vencer(t)
    BY <2>4 DEF Vencer
  <2>5. CASE ~(CrearBase(t) \/ Contar(t) \/ SoltarBase(t) \/ SoltarFalla(t) \/ Vencer(t))
    <3>1. t \in bases => trabajo[t].paso \notin {"probar", "soltar"}
      BY <1>3, <2>5 DEF PasoTrabajo, Volcar, Listar, CrearFalla, Subida, Copiar,
           CopiarFalla, ReponerArchivo, ReponerFalla, Tirar, CrearTablas, Cargar,
           CargarIgnora, RestaurarFalla, Restaurado
    <3>2. UNCHANGED <<bases, restos>>
      BY <1>3, <2>5 DEF PasoTrabajo, Volcar, Listar, CrearFalla, Subida, Copiar,
           CopiarFalla, ReponerArchivo, ReponerFalla, Tirar, CrearTablas, Cargar,
           CargarIgnora, RestaurarFalla, Restaurado
    <3>3. \A u \in Trabajos : u # t => trabajo'[u] = trabajo[u]
      BY <1>3, <2>5 DEF PasoTrabajo, Volcar, Listar, CrearFalla, Subida, Copiar,
           CopiarFalla, ReponerArchivo, ReponerFalla, Tirar, CrearTablas, Cargar,
           CargarIgnora, RestaurarFalla, Restaurado
    <3>4. QED
      BY <3>1, <3>2, <3>3
  <2>6. QED
    BY <2>1, <2>2, <2>3, <2>4, <2>5
<1>4. ASSUME NEW t \in Trabajos, NEW c \in Cifrados, PedirRespaldo(t, c)
      PROVE  PruebaSinRestos'
  <2>1. trabajo[t].paso = "libre"
    BY <1>4 DEF PedirRespaldo, Libre, Vacio
  <2>2. QED
    BY <1>4, <2>1 DEF PedirRespaldo
<1>5. ASSUME NEW t \in Trabajos, NEW n \in Nombres, NEW fase \in {"tirar", "probar"},
             PedirRestauracion(t, n, fase)
      PROVE  PruebaSinRestos'
  BY <1>5 DEF PedirRestauracion, Libre
<1>6. ASSUME NEW n \in Nombres, EliminarRespaldo(n) \/ RestaurarCLI(n)
      PROVE  PruebaSinRestos'
  BY <1>6 DEF EliminarRespaldo, RestaurarCLI, Interrumpir
<1>7. ASSUME NEW n \in Nombres, NEW m \in Subidos, NEW entero \in BOOLEAN,
             RecibirUpload(n, m, entero)
      PROVE  PruebaSinRestos'
  BY <1>7 DEF RecibirUpload
<1>8. CASE Reinicio
  BY <1>8 DEF Reinicio, Interrumpir
<1>9. QED
  BY <1>1, <1>2, <1>3, <1>4, <1>5, <1>6, <1>7, <1>8 DEF Next, vars

\* A temporary database that outlives its restore-test was left by a failure
\* of its DROP or by a restart, whatever else runs next to it.
THEOREM PruebaLimpia == Spec => []PruebaSinRestos
<1>1. Init => PruebaSinRestos
  BY DEF Init, PruebaSinRestos
<1>2. QED
  BY <1>1, TypeOKInit, TypeOKPaso, PruebaPaso, PTL DEF Spec

-----------------------------------------------------------------------------
(* Rows and files *)

\* The part of the invariant that no job takes part in.
Almacen == FilaConArchivo /\ PorGuardar /\ RespaldoConocido

\* Objects that are there, or excused, stay so.
Crece == objetos \subseteq objetos' /\ objetos \cup faltas \subseteq objetos' \cup faltas'

\* Rows, requests and backups that nobody touches know of nothing else, ...
LEMMA AlmacenCrece ==
  ASSUME Almacen, objetos \cup faltas \subseteq objetos' \cup faltas',
         UNCHANGED <<filas, paso, informe, respaldos>>
  PROVE  Almacen'
BY DEF Almacen, FilaConArchivo, Descargable, PorGuardar, RespaldoConocido

\* ... nor do jobs.
LEMMA ConocidoCrece ==
  ASSUME NEW t \in Trabajos, Conocido(t), Crece, trabajo'[t] = trabajo[t]
  PROVE  Conocido(t)'
BY DEF Conocido, Crece, Volcados, Restaurando

\* generar stores the file before it saves the row; remove is the only one
\* that takes an object away.
LEMMA AlmacenReportes ==
  ASSUME TypeOK, Almacen, NEW q \in Peticiones,
         (PasoReportes(q) /\ UNCHANGED varsRespaldos) \/ QuitarObjetoDurante(q)
  PROVE  Almacen' /\ objetos \cup faltas \subseteq objetos' \cup faltas'
<1> USE DEF TypeOK, TypeOKReportes, Almacen, FilaConArchivo, Descargable, PorGuardar,
         RespaldoConocido, varsRespaldos, Seguir, Acabar
<1>1. ASSUME NEW r \in Informes, Generar(q, r) \/ BuscarInforme(q, r),
             UNCHANGED varsRespaldos
      PROVE  Almacen' /\ objetos \cup faltas \subseteq objetos' \cup faltas'
  BY <1>1 DEF Generar, BuscarInforme
<1>2. CASE (Subir(q) \/ SubirFalla(q)) /\ UNCHANGED varsRespaldos
  BY <1>2 DEF Subir, SubirFalla
<1>3. CASE Guardar(q) /\ UNCHANGED varsRespaldos
  BY <1>3 DEF Guardar
<1>4. CASE (GuardarFalla(q) \/ EmailReporte(q)) /\ UNCHANGED varsRespaldos
  BY <1>4 DEF GuardarFalla, EmailReporte
<1>5. CASE (QuitarObjetoFalla(q) \/ QuitarFila(q) \/ QuitarFilaFalla(q))
             /\ UNCHANGED varsRespaldos
  BY <1>5 DEF QuitarObjetoFalla, QuitarFila, QuitarFilaFalla
<1>6. CASE QuitarObjetoDurante(q)
  BY <1>6 DEF QuitarObjetoDurante, QuitarObjeto, Aparte
<1>7. QED
  BY <1>1, <1>2, <1>3, <1>4, <1>5, <1>6 DEF PasoReportes

\* Next to them, jobs keep an excuse for what was removed.
LEMMA ConocidoReportes ==
  ASSUME TypeOK, NEW t \in Trabajos, Conocido(t), NEW q \in Peticiones,
         (PasoReportes(q) /\ UNCHANGED varsRespaldos) \/ QuitarObjetoDurante(q)
  PROVE  Conocido(t)'
<1>1. CASE PasoReportes(q) /\ UNCHANGED varsRespaldos
  <2>1. Crece
    BY <1>1 DEF Crece, PasoReportes, Generar, BuscarInforme, Subir, SubirFalla, Guardar,
         GuardarFalla, EmailReporte, QuitarObjetoFalla, QuitarFila, QuitarFilaFalla
  <2>2. QED
    BY <1>1, <2>1, ConocidoCrece DEF varsRespaldos
<1>2. CASE QuitarObjetoDurante(q)
  <2> DEFINE x == informe[q]
  <2>1. objetos' = objetos \ {x} /\ faltas' = faltas \cup {x}
    BY <1>2 DEF QuitarObjetoDurante, QuitarObjeto
  <2>2. CASE EnCopia(t)
    <3>1. trabajo'[t] = [trabajo[t] EXCEPT !.excusas = @ \cup {x}]
      BY <1>2, <2>2 DEF QuitarObjetoDurante
    <3>2. /\ trabajo'[t].paso = trabajo[t].paso
          /\ trabajo'[t].filas = trabajo[t].filas
          /\ trabajo'[t].objetos = trabajo[t].objetos
          /\ trabajo'[t].pendientes = trabajo[t].pendientes
          /\ trabajo'[t].excusas = trabajo[t].excusas \cup {x}
      BY <3>1 DEF TypeOK, Estados
    <3>3. QED
      BY <2>1, <3>2 DEF Conocido, Volcados, Restaurando
  <2>3. CASE ~EnCopia(t)
    <3>1. trabajo'[t] = trabajo[t]
      BY <1>2, <2>3 DEF QuitarObjetoDurante
    <3>2. QED
      BY <2>3, <3>1 DEF EnCopia, Conocido, Volcados, Restaurando
  <2>4. QED
    BY <2>2, <2>3
<1>3. QED
  BY <1>1, <1>2

\* A step of a job leaves the other jobs, and the objects, alone or adds some.
LEMMA PasoAjeno ==
  ASSUME TypeOK, NEW t \in Trabajos, PasoTrabajo(t), ~Restaurado(t)
  PROVE  /\ Crece
         /\ \A u \in Trabajos \ {t} : trabajo'[u] = trabajo[u]
<1> USE DEF Crece, Pasar, Fin, Aparte, SinTocar, varsReportes, TypeOK
<1>1. CASE Vencer(t) \/ Volcar(t) \/ Listar(t) \/ CrearFalla(t) \/ RestaurarFalla(t)
  BY <1>1 DEF Vencer, Volcar, Listar, CrearFalla, RestaurarFalla
<1>2. ASSUME NEW s \in Segundos, Subida(t, s)
      PROVE  Crece /\ \A u \in Trabajos \ {t} : trabajo'[u] = trabajo[u]
  BY <1>2 DEF Subida
<1>3. ASSUME NEW r \in Informes,
             Copiar(t, r) \/ CopiarFalla(t, r) \/ ReponerArchivo(t, r) \/ ReponerFalla(t, r)
      PROVE  Crece /\ \A u \in Trabajos \ {t} : trabajo'[u] = trabajo[u]
  BY <1>3 DEF Copiar, CopiarFalla, ReponerArchivo, ReponerFalla
<1>4. CASE Tirar(t) \/ CrearTablas(t) \/ Cargar(t) \/ CargarIgnora(t)
  BY <1>4 DEF Tirar, CrearTablas, Cargar, CargarIgnora
<1>5. CASE CrearBase(t) \/ Contar(t) \/ SoltarBase(t) \/ SoltarFalla(t)
  BY <1>5 DEF CrearBase, Contar, SoltarBase, SoltarFalla
<1>6. QED
  BY <1>1, <1>2, <1>3, <1>4, <1>5 DEF PasoTrabajo

\* crear dumps the rows before it lists the files, and skips only what is gone
\* or cannot be read.
LEMMA ConocidoCopia ==
  ASSUME IInv, NEW t \in Trabajos
  PROVE  /\ Vencer(t) \/ Volcar(t) \/ Listar(t) \/ CrearFalla(t) => Conocido(t)'
         /\ \A r \in Informes : Copiar(t, r) \/ CopiarFalla(t, r) => Conocido(t)'
         /\ \A s \in Segundos : Subida(t, s) => Conocido(t)'
<1> USE DEF Conocido, Volcados, Restaurando, Pasar, Fin, varsReportes, TypeOK, IInv
<1>1. trabajo[t] \in Estados
  OBVIOUS
<1>2. CASE Vencer(t)
  BY <1>2 DEF Vencer
<1>3. CASE Volcar(t)
  <2>1. /\ trabajo'[t].paso = "listar" /\ trabajo'[t].filas = filas
        /\ trabajo'[t].excusas = filas \ objetos
    BY <1>1, <1>3 DEF Volcar, Estados
  <2>2. QED
    BY <1>3, <2>1 DEF Volcar, FilaConArchivo, Descargable
<1>4. CASE Listar(t)
  <2>1. /\ trabajo'[t].paso = "copiar" /\ trabajo'[t].filas = trabajo[t].filas
        /\ trabajo'[t].pendientes = objetos
        /\ trabajo'[t].objetos = trabajo[t].objetos
        /\ trabajo'[t].excusas = trabajo[t].excusas
    BY <1>1, <1>4 DEF Listar, Estados
  <2>2. QED
    BY <1>4, <2>1 DEF Listar
<1>5. CASE CrearFalla(t)
  BY <1>5 DEF CrearFalla, Vacio
<1>6. ASSUME NEW r \in Informes, Copiar(t, r)
      PROVE  Conocido(t)'
  <2>1. /\ trabajo'[t].paso = "copiar" /\ trabajo'[t].filas = trabajo[t].filas
        /\ trabajo'[t].pendientes = trabajo[t].pendientes \ {r}
        /\ trabajo'[t].objetos = trabajo[t].objetos \cup ({r} \cap objetos)
        /\ trabajo'[t].excusas = trabajo[t].excusas
    BY <1>1, <1>6 DEF Copiar, Estados
  <2>2. QED
    BY <1>6, <2>1 DEF Copiar
<1>7. ASSUME NEW r \in Informes, CopiarFalla(t, r)
      PROVE  Conocido(t)'
  <2>1. /\ trabajo'[t].paso = "copiar" /\ trabajo'[t].filas = trabajo[t].filas
        /\ trabajo'[t].pendientes = trabajo[t].pendientes \ {r}
        /\ trabajo'[t].objetos = trabajo[t].objetos
        /\ trabajo'[t].excusas = trabajo[t].excusas \cup {r}
    BY <1>1, <1>7 DEF CopiarFalla, Estados
  <2>2. QED
    BY <1>7, <2>1 DEF CopiarFalla
<1>8. ASSUME NEW s \in Segundos, Subida(t, s)
      PROVE  Conocido(t)'
  BY <1>8 DEF Subida, Vacio
<1>9. QED
  BY <1>2, <1>3, <1>4, <1>5, <1>6, <1>7, <1>8

\* A restoration knows of every row it loads that its file is there, or still
\* to be restored, or excused.
LEMMA ConocidoRestauracion ==
  ASSUME IInv, NEW t \in Trabajos
  PROVE  /\ \A r \in Informes : ReponerArchivo(t, r) \/ ReponerFalla(t, r) => Conocido(t)'
         /\ Tirar(t) \/ CrearTablas(t) \/ Cargar(t) \/ CargarIgnora(t) => Conocido(t)'
         /\ RestaurarFalla(t) \/ Restaurado(t) => Conocido(t)'
<1> USE DEF Conocido, Volcados, Restaurando, Pasar, Fin, SinTocar, varsReportes, TypeOK, IInv
<1>1. trabajo[t] \in Estados
  OBVIOUS
<1>2. CASE Tirar(t) \/ CrearTablas(t) \/ Cargar(t) \/ CargarIgnora(t)
  <2>1. /\ trabajo[t].paso \in {"tirar", "crear", "cargar"}
        /\ trabajo'[t].paso \in {"crear", "cargar", "archivos"}
        /\ trabajo'[t].filas = trabajo[t].filas
        /\ trabajo'[t].pendientes = trabajo[t].pendientes
        /\ trabajo'[t].excusas = trabajo[t].excusas
    BY <1>1, <1>2 DEF Tirar, CrearTablas, Cargar, CargarIgnora, Estados
  <2>2. UNCHANGED <<objetos, faltas>>
    BY <1>2 DEF Tirar, CrearTablas, Cargar, CargarIgnora
  <2>3. QED
    BY <2>1, <2>2
<1>3. ASSUME NEW r \in Informes, ReponerArchivo(t, r)
      PROVE  Conocido(t)'
  <2>1. /\ trabajo'[t].paso = "archivos" /\ trabajo'[t].filas = trabajo[t].filas
        /\ trabajo'[t].pendientes = trabajo[t].pendientes \ {r}
        /\ trabajo'[t].excusas = trabajo[t].excusas
    BY <1>1, <1>3 DEF ReponerArchivo, Estados
  <2>2. QED
    BY <1>3, <2>1 DEF ReponerArchivo
<1>4. ASSUME NEW r \in Informes, ReponerFalla(t, r)
      PROVE  Conocido(t)'
  <2>1. /\ trabajo'[t].paso = "archivos" /\ trabajo'[t].filas = trabajo[t].filas
        /\ trabajo'[t].pendientes = trabajo[t].pendientes \ {r}
        /\ trabajo'[t].excusas = trabajo[t].excusas \cup {r}
    BY <1>1, <1>4 DEF ReponerFalla, Estados
  <2>2. QED
    BY <1>4, <2>1 DEF ReponerFalla
<1>5. CASE RestaurarFalla(t) \/ Restaurado(t)
  BY <1>5 DEF RestaurarFalla, Restaurado, Vacio
<1>6. QED
  BY <1>2, <1>3, <1>4, <1>5

\* A restore-test keeps nothing.
LEMMA ConocidoPrueba ==
  ASSUME IInv, NEW t \in Trabajos,
         CrearBase(t) \/ Contar(t) \/ SoltarBase(t) \/ SoltarFalla(t)
  PROVE  Conocido(t)'
<1> USE DEF Conocido, Volcados, Restaurando, Pasar, Fin, varsReportes, TypeOK, IInv
<1>1. trabajo[t] \in Estados
  OBVIOUS
<1>2. CASE CrearBase(t)
  BY <1>2 DEF CrearBase
<1>3. CASE Contar(t)
  <2>1. trabajo'[t].paso = "soltar"
    BY <1>1, <1>3 DEF Contar, Estados
  <2>2. QED
    BY <2>1
<1>4. CASE SoltarBase(t) \/ SoltarFalla(t)
  BY <1>4 DEF SoltarBase, SoltarFalla, Vacio
<1>5. QED
  BY <1>2, <1>3, <1>4

\* What a restoration excuses at its end covers everything known before.
LEMMA AlFinal ==
  ASSUME IInv, NEW t \in Trabajos, Restaurado(t)
  PROVE  /\ objetos' = objetos /\ objetos \cup faltas \subseteq objetos' \cup faltas'
         /\ \A u \in Trabajos \ {t} : trabajo'[u] = trabajo[u]
<1>1. trabajo[t].filas \subseteq objetos \cup trabajo[t].excusas
  BY DEF IInv, Conocido, Restaurado, Volcados, Restaurando
<1>2. QED
  BY <1>1 DEF Restaurado, SinTocar, Pasar, Fin, IInv, TypeOK

\* Every job keeps what it knows, whichever of them takes the step.
LEMMA ConocidoTrabajo ==
  ASSUME IInv, NEW t \in Trabajos, PasoTrabajo(t)
  PROVE  \A u \in Trabajos : Conocido(u)'
<1>1. Conocido(t)'
  BY ConocidoCopia, ConocidoRestauracion, ConocidoPrueba DEF PasoTrabajo
<1>2. ASSUME NEW u \in Trabajos \ {t}
      PROVE  Conocido(u)'
  <2>1. Crece /\ trabajo'[u] = trabajo[u]
    BY PasoAjeno, AlFinal DEF IInv, Crece
  <2>2. Conocido(u)
    BY DEF IInv
  <2>3. QED
    BY <2>1, <2>2, ConocidoCrece
<1>3. QED
  BY <1>1, <1>2

\* A restoration loads only rows it knows of; a backup holds what its job knew.
LEMMA AlmacenTrabajo ==
  ASSUME IInv, NEW t \in Trabajos, PasoTrabajo(t)
  PROVE  Almacen' /\ RespaldoCompleto'
<1> USE DEF IInv, TypeOK
<1>1. Almacen
  BY DEF Almacen
<1>2. objetos \cup faltas \subseteq objetos' \cup faltas'
  BY PasoAjeno, AlFinal DEF Crece
<1>3. CASE UNCHANGED <<filas, paso, informe, respaldos>>
  BY <1>1, <1>2, <1>3, AlmacenCrece DEF RespaldoCompleto
<1>4. ASSUME NEW s \in Segundos, Subida(t, s)
      PROVE  Almacen' /\ RespaldoCompleto'
  <2>1. /\ trabajo[t].filas \subseteq objetos \cup faltas
        /\ trabajo[t].filas \subseteq trabajo[t].objetos \cup trabajo[t].excusas
    BY <1>4 DEF Subida, Conocido, Volcados
  <2> DEFINE c == Contenido(trabajo[t])
  <2>2. c.filas = trabajo[t].filas /\ c.objetos = trabajo[t].objetos
          /\ c.excusas = trabajo[t].excusas
    BY DEF Contenido
  <2>3. \A n \in Nombres : respaldos'[n] = respaldos[n] \/ respaldos'[n] = c
    BY <1>4 DEF Subida
  <2>4. RespaldoCompleto'
    BY <2>1, <2>2, <2>3 DEF RespaldoCompleto
  <2>5. RespaldoConocido'
    BY <1>4, <2>1, <2>2, <2>3 DEF Subida, varsReportes, RespaldoConocido
  <2>6. QED
    BY <1>4, <2>4, <2>5
    DEF Almacen, Subida, varsReportes, FilaConArchivo, Descargable, PorGuardar
<1>5. CASE Tirar(t) \/ Cargar(t)
  <2>1. UNCHANGED <<objetos, faltas, paso, informe, respaldos>>
    BY <1>5 DEF Tirar, Cargar, SinTocar, Aparte
  <2>2. filas' \subseteq filas \cup trabajo[t].filas
    BY <1>5 DEF Tirar, Cargar
  <2>3. trabajo[t].filas \subseteq objetos \cup faltas
    BY <1>5 DEF Tirar, Cargar, Conocido, Restaurando
  <2>4. FilaConArchivo'
    BY <2>1, <2>2, <2>3 DEF FilaConArchivo, Descargable
  <2>5. QED
    BY <2>1, <2>4 DEF Almacen, PorGuardar, RespaldoConocido, RespaldoCompleto
<1>6. CASE ~(Tirar(t) \/ Cargar(t) \/ \E s \in Segundos : Subida(t, s))
  <2>1. UNCHANGED <<filas, paso, informe, respaldos>>
    BY <1>6 DEF PasoTrabajo, Vencer, Volcar, Listar, CrearFalla, Copiar, CopiarFalla,
         ReponerArchivo, ReponerFalla, CrearTablas, CargarIgnora, RestaurarFalla,
         Restaurado, CrearBase, Contar, SoltarBase, SoltarFalla, SinTocar, Aparte,
         varsReportes
  <2>2. QED
    BY <1>3, <2>1
<1>7. QED
  BY <1>4, <1>5, <1>6

\* A job begins with nothing, or with a backup that opens.
LEMMA IInvPedir ==
  ASSUME IInv, NEW t \in Trabajos,
         \/ \E c \in Cifrados : PedirRespaldo(t, c)
         \/ \E n \in Nombres, fase \in {"tirar", "probar"} : PedirRestauracion(t, n, fase)
  PROVE  Almacen' /\ RespaldoCompleto' /\ \A u \in Trabajos : Conocido(u)'
<1> USE DEF IInv, TypeOK
<1>1. UNCHANGED <<varsReportes, respaldos>>
  BY DEF PedirRespaldo, PedirRestauracion
<1>2. Almacen' /\ RespaldoCompleto'
  BY <1>1 DEF varsReportes, Almacen, FilaConArchivo, Descargable, PorGuardar,
     RespaldoConocido, RespaldoCompleto
<1>3. ASSUME NEW u \in Trabajos \ {t}
      PROVE  Conocido(u)'
  <2>1. trabajo'[u] = trabajo[u]
    BY DEF PedirRespaldo, PedirRestauracion, Pasar
  <2>2. QED
    BY <1>1, <2>1, ConocidoCrece DEF Crece, varsReportes
<1>4. ASSUME NEW c \in Cifrados, PedirRespaldo(t, c)
      PROVE  Conocido(t)'
  <2>1. trabajo'[t].paso = "volcar"
    BY <1>4 DEF PedirRespaldo, Pasar, Vacio
  <2>2. QED
    BY <2>1 DEF Conocido, Volcados, Restaurando
<1>5. ASSUME NEW n \in Nombres, NEW fase \in {"tirar", "probar"},
             PedirRestauracion(t, n, fase)
      PROVE  Conocido(t)'
  <2>1. /\ trabajo'[t].paso = fase
        /\ trabajo'[t].filas = respaldos[n].filas
        /\ trabajo'[t].pendientes = respaldos[n].objetos
        /\ trabajo'[t].excusas = respaldos[n].excusas
    BY <1>5 DEF PedirRestauracion, Pasar, Vacio
  <2>2. /\ respaldos[n].filas \subseteq objetos \cup faltas
        /\ respaldos[n].filas \subseteq respaldos[n].objetos \cup respaldos[n].excusas
    BY DEF RespaldoConocido, RespaldoCompleto
  <2>3. QED
    BY <1>1, <2>1, <2>2 DEF Conocido, Volcados, Restaurando, varsReportes
<1>6. QED
  BY <1>2, <1>3, <1>4, <1>5

\* Removed and uploaded backups, restarts and the command line: nobody keeps
\* more than the backups did.
LEMMA IInvResto ==
  ASSUME IInv,
         \/ \E n \in Nombres : EliminarRespaldo(n) \/ RestaurarCLI(n)
         \/ \E n \in Nombres, m \in Subidos, entero \in BOOLEAN : RecibirUpload(n, m, entero)
         \/ Reinicio
  PROVE  Almacen' /\ RespaldoCompleto' /\ \A u \in Trabajos : Conocido(u)'
<1> USE DEF IInv, TypeOK
<1>1. CASE (\E n \in Nombres : RestaurarCLI(n)) \/ Reinicio
  <2>1. Interrumpir /\ UNCHANGED <<objetos, faltas, respaldos>>
    BY <1>1 DEF RestaurarCLI, Reinicio
  <2>2. \A r \in filas' : r \in filas \/ \E n \in Nombres : r \in respaldos[n].filas
    BY <1>1 DEF RestaurarCLI, Reinicio
  <2>3. FilaConArchivo'
    BY <2>1, <2>2 DEF FilaConArchivo, Descargable, RespaldoConocido
  <2>4. PorGuardar'
    BY <2>1 DEF Interrumpir, PorGuardar
  <2>5. \A u \in Trabajos : Conocido(u)'
    BY <2>1 DEF Interrumpir, Conocido, Vacio, Volcados, Restaurando
  <2>6. QED
    BY <2>1, <2>3, <2>4, <2>5 DEF Almacen, RespaldoConocido, RespaldoCompleto
<1>2. ASSUME UNCHANGED <<varsReportes, trabajo>>,
             \A n \in Nombres : \/ respaldos'[n].filas = {}
                                \/ \E k \in Nombres :
                                     /\ respaldos'[n].filas = respaldos[k].filas
                                     /\ respaldos'[n].objetos = respaldos[k].objetos
                                     /\ respaldos'[n].excusas = respaldos[k].excusas
      PROVE  Almacen' /\ RespaldoCompleto' /\ \A u \in Trabajos : Conocido(u)'
  <2>1. RespaldoCompleto' /\ RespaldoConocido'
    BY <1>2 DEF RespaldoCompleto, RespaldoConocido, varsReportes
  <2>2. FilaConArchivo' /\ PorGuardar'
    BY <1>2 DEF FilaConArchivo, Descargable, PorGuardar, varsReportes
  <2>3. \A u \in Trabajos : Conocido(u)'
    BY <1>2, ConocidoCrece DEF Crece, varsReportes
  <2>4. QED
    BY <2>1, <2>2, <2>3 DEF Almacen
<1>3. ASSUME NEW n \in Nombres, EliminarRespaldo(n)
      PROVE  Almacen' /\ RespaldoCompleto' /\ \A u \in Trabajos : Conocido(u)'
  BY <1>2, <1>3 DEF EliminarRespaldo, Ninguno
<1>4. ASSUME NEW n \in Nombres, NEW m \in Subidos, NEW entero \in BOOLEAN,
             RecibirUpload(n, m, entero)
      PROVE  Almacen' /\ RespaldoCompleto' /\ \A u \in Trabajos : Conocido(u)'
  <2>1. m \in Nombres
    BY DEF Nombres
  <2> DEFINE c == [respaldos[n] EXCEPT !.legible = respaldos[n].legible /\ entero]
  <2>2. c.filas = respaldos[n].filas /\ c.objetos = respaldos[n].objetos
          /\ c.excusas = respaldos[n].excusas
    BY DEF Contenidos
  <2>3. \A k \in Nombres : respaldos'[k] = respaldos[k] \/ respaldos'[k] = c
    BY <1>4, <2>1 DEF RecibirUpload
  <2>4. UNCHANGED <<varsReportes, trabajo>>
    BY <1>4 DEF RecibirUpload
  <2>5. QED
    BY <1>2, <2>2, <2>3, <2>4
<1>5. QED
  BY <1>1, <1>3, <1>4

\* The invariant is inductive.
LEMMA IInvPaso == IInv /\ [Next]_vars => IInv'
<1> SUFFICES ASSUME IInv, [Next]_vars PROVE IInv'
  OBVIOUS
<1>1. TypeOK'
  BY TypeOKPaso DEF IInv
<1>2. SUFFICES Almacen' /\ RespaldoCompleto' /\ \A u \in Trabajos : Conocido(u)'
  BY <1>1 DEF IInv, Almacen
<1>3. ASSUME NEW q \in Peticiones,
             (PasoReportes(q) /\ UNCHANGED varsRespaldos) \/ QuitarObjetoDurante(q)
      PROVE  Almacen' /\ RespaldoCompleto' /\ \A u \in Trabajos : Conocido(u)'
  <2>1. Almacen'
    BY <1>3, AlmacenReportes DEF IInv, Almacen
  <2>2. respaldos' = respaldos
    BY <1>3 DEF varsRespaldos, QuitarObjetoDurante, Aparte
  <2>3. RespaldoCompleto'
    BY <2>2 DEF IInv, RespaldoCompleto
  <2>4. \A u \in Trabajos : Conocido(u)'
    BY <1>3, ConocidoReportes DEF IInv
  <2>5. QED
    BY <2>1, <2>3, <2>4
<1>4. ASSUME NEW t \in Trabajos, PasoTrabajo(t)
      PROVE  Almacen' /\ RespaldoCompleto' /\ \A u \in Trabajos : Conocido(u)'
  BY <1>4, AlmacenTrabajo, ConocidoTrabajo
<1>5. CASE UNCHANGED vars
  BY <1>5 DEF IInv, vars, varsReportes, varsRespaldos, Almacen, FilaConArchivo, Descargable,
     PorGuardar, RespaldoConocido, RespaldoCompleto, Conocido, Volcados, Restaurando
<1>6. QED
  BY <1>3, <1>4, <1>5, IInvPedir, IInvResto DEF Next

\* Initially there is nothing to miss.
LEMMA IInvInit == Init => IInv
<1> SUFFICES ASSUME Init PROVE IInv
  OBVIOUS
<1>1. \A t \in Trabajos : Conocido(t)
  BY DEF Init, Vacio, Conocido, Volcados, Restaurando
<1>2. RespaldoConocido /\ RespaldoCompleto
  BY DEF Init, Ninguno, RespaldoConocido, RespaldoCompleto
<1>3. FilaConArchivo /\ PorGuardar
  BY DEF Init, InitReportes, FilaConArchivo, PorGuardar
<1>4. QED
  BY <1>1, <1>2, <1>3, TypeOKInit DEF IInv

\* Every report of the table can be downloaded, or its file was removed or
\* lost by a copy that failed, for any number of requests, jobs and backups.
THEOREM FilasDescargables == Spec => []FilaConArchivo
<1>1. IInv => FilaConArchivo
  BY DEF IInv
<1>2. QED
  BY <1>1, IInvInit, IInvPaso, PTL DEF Spec

\* A stored backup has the files of its rows, although reports are generated
\* and removed while it is taken.
THEOREM RespaldosCompletos == Spec => []RespaldoCompleto
<1>1. IInv => RespaldoCompleto
  BY DEF IInv
<1>2. QED
  BY <1>1, IInvInit, IInvPaso, PTL DEF Spec

=============================================================================
