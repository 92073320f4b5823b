\* Overlapping jobs next to a request, every failure, both installations.
CONSTANTS
  Informes = {i1, i2}
  Programados = {i2}
  Peticiones = {q1}
  Instalaciones = {TRUE, FALSE}
  FallaMinio = TRUE
  FallaBD = TRUE
  Trabajos = {t1, t2}
  Segundos = {1}
  Cifrados = {TRUE}
  Subidos = {u1}
  MaxPedidos = 2
  Reinicios = TRUE
  ConPnncPass = TRUE
SYMMETRY Simetria
SPECIFICATION Spec
INVARIANTS TypeOK RespaldoCompleto FilaConArchivo PruebaSinRestos
CHECK_DEADLOCK FALSE
