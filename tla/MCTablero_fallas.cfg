\* Three versions of the table, two lists, a map with heat and hotspots.
CONSTANTS
  Listas = {"alertas", "alertas-summary"}
  MaxVersion = 3
  PuedeCerrar = TRUE
  FallaAPI = TRUE
  Parques = {p1, p2}
  Dibujados = {p1}
  SinParque = sinParque
  Capas = {"parques", "heatmap", "hotspots"}
  FallaMapa = TRUE
SPECIFICATION SpecEscenas
INVARIANTS AvisoRefresca CentroPedido
  
CHECK_DEADLOCK FALSE
