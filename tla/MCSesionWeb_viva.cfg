\* Three requests over several rotations, nothing fails.
CONSTANTS
  Peticiones = {q1, q2, q3}
  Refrescos = {r1, r2}
  FallaRed = FALSE
  FallaAcceso = FALSE
  Salidas = FALSE
  Recargas = FALSE
  MaxPares = 6
SPECIFICATION FairSpec
INVARIANT SesionContinua
 
CHECK_DEADLOCK FALSE
