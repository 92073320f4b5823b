\* Two subscriptions or two alerts; failing queries, disconnections, restarts.
CONSTANTS
  s1 = s1
  q1 = q1
  Subs = {s1, s2}
  Parques = {p1}
  SinParque = sinParque
  Peticiones = {q1, q2}
  HayOperadores = TRUE
  ConVapid = TRUE
  FallaBD = TRUE
  Cortes = TRUE
  MaxMensajes = 2
  Registros <- RegistrosMC
  Cambios <- CambiosMC
  Mensajes <- AvisosMC
SPECIFICATION SpecEscenas
INVARIANTS TypeOK  EntregaCompleta
 
CHECK_DEADLOCK FALSE
