\* One rule, two requests, another administrator.
CONSTANTS
  Reglas = {r1}
  Nueva = nueva
  Contenidos = {c1, c2}
  Blanco = c1
  Peticiones = {q1, q2}
  OtroAdmin = TRUE
  FallaAPI = TRUE
SPECIFICATION SpecEscenas
INVARIANTS ListaFiel
SYMMETRY Simetria
