\* Lost answers, reloads, wrong credentials and logging out.
CONSTANTS
  Peticiones = {q1, q2}
  Refrescos = {r1, r2}
  FallaRed = TRUE
  FallaAcceso = TRUE
  Salidas = TRUE
  Recargas = TRUE
  MaxPares = 4
SYMMETRY Simetria
SPECIFICATION Spec
INVARIANTS TypeOK EsperaAcompanada
PROPERTY ParAvanza
CHECK_DEADLOCK FALSE
