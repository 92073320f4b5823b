SPECIFICATION Spec
CONSTANTS
  Cuentas = {u1}
  Paginas = {p1, p2}
  Peticiones = {q1, q2}
  Desafios = {d1}
  MaxIntentos = 2
  MaxFallos = 2
  MaxCodigos = 2
  MaxContador = 3
  Cortes = TRUE
  Altas = TRUE
  Modos = {TRUE, FALSE}
SYMMETRY Simetria
INVARIANTS
  TypeOK
  
  
  ContadorCaduca
  BloqueoOportuno
  ParDeActivo
CHECK_DEADLOCK FALSE
