------------------------------ MODULE Entorno ------------------------------
(***************************************************************************)
(* What AlertEngineService.evaluarParque reads before its rules: the       *)
(* context of the park (Clima), then a prediction of each model from the   *)
(* AI service (ModelosIA), each stored by PrediccionesService.             *)
(***************************************************************************)
EXTENDS Clima, ModelosIA

VARIABLES
  respuesta,  \* respuesta[e][t]: what the cycle has of the prediction
  guardadas   \* history: predictions of cycles in progress stored as rows

varsPred == <<respuesta, guardadas>>
vars == <<varsClima, varsIA, varsPred>>

Respuestas == {"espera", "persiste", "vale", "nula"}
SinRespuestas == [t \in Modelos |-> "espera"]

TypeOK ==
  /\ TypeOKClima /\ TypeOKIA
  /\ respuesta \in [Ciclos -> [Modelos -> Respuestas]]
  /\ guardadas \subseteq Ciclos \X Modelos

Init ==
  /\ InitClima /\ InitIA
  /\ respuesta = [e \in Ciclos |-> SinRespuestas]
  /\ guardadas = {}

Responder(e, t, r) == respuesta' = [respuesta EXCEPT ![e][t] = r]

\* The two predictions are asked for together once the context is there
Pendiente(e, t, r) == ciclo[e].fase = "tiene" /\ respuesta[e][t] = r

\* The AI service answers: the row of the prediction comes next
Prediccion(e, t, w) ==
  /\ Pendiente(e, t, "espera")
  /\ Predict(w, t)
  /\ Responder(e, t, "persiste")
  /\ UNCHANGED <<varsClima, guardadas>>

\* An error, or no answer in 10 s: null, and the cycle goes on without it
PrediccionFalla(e, t) ==
  /\ Pendiente(e, t, "espera") /\ (FallaExterna \/ PredictFalla(t))
  /\ Responder(e, t, "nula")
  /\ UNCHANGED <<varsClima, varsIA, guardadas>>

\* Mutated form: the answer is used although its row was not stored
GuardarAparte(e, t) ==
  /\ Pendiente(e, t, "persiste")
  /\ Responder(e, t, "vale")
  /\ guardadas' = guardadas \cup {<<e, t>>} \/ (FallaBD /\ UNCHANGED guardadas)
  /\ UNCHANGED <<varsClima, varsIA>>

\* repo.save inside the same try: if it fails the answer is lost too
Guardar(e, t) ==
  /\ Pendiente(e, t, "persiste")
  /\ \/ Responder(e, t, "vale") /\ guardadas' = guardadas \cup {<<e, t>>}
     \/ FallaBD /\ Responder(e, t, "nula") /\ UNCHANGED guardadas
  /\ UNCHANGED <<varsClima, varsIA>>

\* The rules are evaluated: MotorAlertas
Evaluar(e) ==
  /\ ciclo[e].fase = "tiene"
  /\ \A t \in Modelos : respuesta[e][t] \in {"vale", "nula"}
  /\ ciclo' = [ciclo EXCEPT ![e] = SinCiclo]
  /\ respuesta' = [respuesta EXCEPT ![e] = SinRespuestas]
  /\ guardadas' = {g \in guardadas : g[1] # e}
  /\ UNCHANGED <<simulado, publicada, edad, tabla, reloj, sondeo, cache, borrada, fallos, varsIA>>

Next ==
  \/ PasoClima /\ UNCHANGED <<varsIA, varsPred>>
  \/ PasoIA /\ UNCHANGED <<varsClima, varsPred>>
  \/ \E e \in Ciclos :
       \/ Evaluar(e)
       \/ \E t \in Modelos : \/ PrediccionFalla(e, t) \/ Guardar(e, t)
                             \/ \E w \in Trabajadores : Prediccion(e, t, w)

Spec == Init /\ [][Next]_vars

-----------------------------------------------------------------------------
\* A cycle decides only with predictions that are stored, so that an alert can
\* be traced to the row it came from, whatever failed on the way.
DecideConLoGuardado ==
  \A e \in Ciclos, t \in Modelos : respuesta[e][t] = "vale" => <<e, t>> \in guardadas

=============================================================================
