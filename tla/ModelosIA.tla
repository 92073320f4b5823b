----------------------------- MODULE ModelosIA -----------------------------
(***************************************************************************)
(* The AI service: uvicorn's workers, each with its cache of models, over  *)
(* the joblib files they share.  A worker trains what it does not find at  *)
(* its start (ensure_models) and whenever it is asked to (retrain); the    *)
(* file is truncated, written in place, and closed.  The data sets and     *)
(* seeds are fixed: every training of a type writes the same bytes.        *)
(***************************************************************************)
EXTENDS Naturals, Sequences

CONSTANTS
  Trabajadores,  \* workers of uvicorn
  Tipos,         \* the models, in the order ensure_models looks at them
  Reentrenos,    \* TRUE: administrators ask for training
  Caidas         \* TRUE: the container may stop at any moment

Modelos == {Tipos[i] : i \in 1..Len(Tipos)}

ASSUME ModelosAssumption ==
  /\ Tipos \in Seq(Modelos) /\ Len(Tipos) > 0 /\ {Reentrenos, Caidas} \subseteq BOOLEAN
  /\ "nada" \notin Modelos /\ "nadie" \notin Trabajadores

VARIABLES
  archivo,   \* archivo[t]: "falta", "parcial" or "completo"
  ultimo,    \* ultimo[t]: the worker that truncated it last
  obra,      \* obra[w]: where the start of the worker is
  tarea,     \* tarea[w]: "nada", or the model it trains or writes
  escribe,   \* workers that have the file of their task open
  cargados,  \* cargados[w]: the models of its lru_cache
  cortado    \* history: models whose writing was cut

varsIA == <<archivo, ultimo, obra, tarea, escribe, cargados, cortado>>

TypeOKIA ==
  /\ archivo \in [Modelos -> {"falta", "parcial", "completo"}]
  /\ ultimo \in [Modelos -> Trabajadores \cup {"nadie"}]
  /\ obra \in [Trabajadores -> 1..Len(Tipos)+1]
  /\ tarea \in [Trabajadores -> Modelos \cup {"nada"}]
  /\ escribe \subseteq {w \in Trabajadores : tarea[w] # "nada"}
  /\ cargados \in [Trabajadores -> SUBSET Modelos]
  /\ cortado \subseteq Modelos

InitIA ==
  /\ archivo = [t \in Modelos |-> "falta"]
  /\ ultimo = [t \in Modelos |-> "nadie"]
  /\ obra = [w \in Trabajadores |-> 1]
  /\ tarea = [w \in Trabajadores |-> "nada"]
  /\ escribe = {}
  /\ cargados = [w \in Trabajadores |-> {}]
  /\ cortado = {}

Listo(w) == obra[w] > Len(Tipos)

-----------------------------------------------------------------------------
\* Mutated form: the existence of the first model stands for all of them
EnsurePrimero(w) ==
  /\ ~Listo(w) /\ tarea[w] = "nada"
  /\ IF archivo[Tipos[1]] = "falta"
     THEN tarea' = [tarea EXCEPT ![w] = Tipos[obra[w]]] /\ UNCHANGED obra
     ELSE obra' = [obra EXCEPT ![w] = @ + 1] /\ UNCHANGED tarea
  /\ UNCHANGED <<archivo, ultimo, escribe, cargados, cortado>>

\* ensure_models: only the existence of the file is looked at
EnsureModels(w) ==
  /\ ~Listo(w) /\ tarea[w] = "nada"
  /\ IF archivo[Tipos[obra[w]]] = "falta"
     THEN tarea' = [tarea EXCEPT ![w] = Tipos[obra[w]]] /\ UNCHANGED obra
     ELSE obra' = [obra EXCEPT ![w] = @ + 1] /\ UNCHANGED tarea
  /\ UNCHANGED <<archivo, ultimo, escribe, cargados, cortado>>

\* POST /predict/retrain reaches this worker
Retrain(w, t) ==
  /\ Reentrenos /\ Listo(w) /\ tarea[w] = "nada"
  /\ tarea' = [tarea EXCEPT ![w] = t]
  /\ UNCHANGED <<archivo, ultimo, obra, escribe, cargados, cortado>>

\* Trained: open(path, 'wb').  Whatever another worker wrote so far is gone,
\* and the rest of what it writes lands where its own position is
Abrir(w) ==
  /\ tarea[w] # "nada" /\ w \notin escribe
  /\ escribe' = escribe \cup {w}
  /\ archivo' = [archivo EXCEPT ![tarea[w]] = "parcial"]
  /\ ultimo' = [ultimo EXCEPT ![tarea[w]] = w]
  /\ UNCHANGED <<obra, tarea, cargados, cortado>>

Avanza(w) ==
  /\ tarea' = [tarea EXCEPT ![w] = "nada"]
  /\ escribe' = escribe \ {w}
  /\ obra' = [obra EXCEPT ![w] = IF Listo(w) THEN @ ELSE @ + 1]
  /\ cargados' = [cargados EXCEPT ![w] = {}]

\* Mutated form: the bytes stay in the buffer
CerrarSinVaciar(w) ==
  /\ w \in escribe /\ Avanza(w)
  /\ UNCHANGED <<archivo, ultimo, cortado>>

\* The last to truncate leaves the whole file.  retrain clears the cache of
\* its own worker; at the start it is empty
Cerrar(w) ==
  LET t == tarea[w] IN
  /\ w \in escribe /\ Avanza(w)
  /\ IF ultimo[t] = w
     THEN archivo' = [archivo EXCEPT ![t] = "completo"] /\ cortado' = cortado \ {t}
     ELSE UNCHANGED <<archivo, cortado>>
  /\ UNCHANGED ultimo

\* predict: an error of the load is not kept, the next request loads again
Predict(w, t) ==
  /\ Listo(w) /\ (t \in cargados[w] \/ archivo[t] = "completo")
  /\ cargados' = [cargados EXCEPT ![w] = @ \cup {t}]
  /\ UNCHANGED <<archivo, ultimo, obra, tarea, escribe, cortado>>

\* No worker accepts yet, or the one that does cannot load the file
PredictFalla(t) ==
  \/ \A w \in Trabajadores : ~Listo(w)
  \/ \E w \in Trabajadores : Listo(w) /\ t \notin cargados[w] /\ archivo[t] # "completo"

Apagar(archivos) ==
  /\ Caidas
  /\ archivo' = archivos
  /\ cortado' = {t \in Modelos : archivos[t] = "parcial"}
  /\ obra' = [w \in Trabajadores |-> 1]
  /\ tarea' = [w \in Trabajadores |-> "nada"]
  /\ escribe' = {}
  /\ cargados' = [w \in Trabajadores |-> {}]
  /\ ultimo' = [t \in Modelos |-> "nadie"]

\* The container restarts with its files, or is created again without them
Reinicio == Apagar(archivo)
Despliegue == Apagar([t \in Modelos |-> "falta"])

PasoIA ==
  \/ Reinicio \/ Despliegue
  \/ \E w \in Trabajadores : \/ EnsureModels(w) \/ Abrir(w) \/ Cerrar(w)
                             \/ \E t \in Modelos : Retrain(w, t)

-----------------------------------------------------------------------------
(* Properties *)

\* A model file that is not whole is being written by the worker that
\* truncated it last, however many trainings overlap; or its writing was cut,
\* and only a training repairs it.
ParcialSeEscribe ==
  \A t \in Modelos : archivo[t] = "parcial" =>
    t \in cortado \/ \E w \in Trabajadores : ultimo[t] = w /\ tarea[w] = t /\ w \in escribe

\* "Modelos listos": a worker that serves finds every model, whole or about to
\* be, also when it started while another one trained.
ListoConModelos ==
  \A w \in Trabajadores, t \in Modelos : Listo(w) => archivo[t] # "falta"

=============================================================================
