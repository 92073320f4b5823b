SPECIFICATION Spec
CONSTANTS
  Cuentas = {u1}
  Paginas = {p1}
  Peticiones = {q1}
  Desafios = {d1}
  MaxIntentos = 2
  MaxFallos = 2
  MaxCodigos = 2
  MaxContador = 3
  Cortes = FALSE
  Altas = FALSE
  Modos = {TRUE}
PROPERTY BajaFirme
CHECK_DEADLOCK FALSE
