--------------------------- MODULE MCMotorAlertas ---------------------------
(* Instances of MotorAlertas for TLC: a rule is named after the kind of the *)
(* alerts it raises, as in reglas_alerta.                                  *)
EXTENDS MotorAlertas, TLC

TipoPorRegla == [r \in Reglas |-> r]
NivelPorRegla == [r \in Reglas |-> "rojo"]

\* The detections with enough confidence
TipoPorClase == [k \in {"alta"} |-> "incendio_satelital"]
NivelPorClase == [k \in {"alta"} |-> "rojo"]

\* No satellite feed
SinClases == <<>>

SimetriaMotor == Permutations(Ciclos) \cup Permutations(Operadores)

=============================================================================
