\* Two overlapping polls, two cycles, two workers; every failure.
CONSTANTS
  o1 = o1
  o2 = o2
  o3 = o3
  o4 = o4
  o5 = o5
  Obs = {o1, o2, o3, o4, o5}
  Fuentes = {"lluvia", "temperatura", "viirs", "abierta"}
  Inadmisibles = {o5}
  Servicios = {"ideam", "hotspots"}
  Acumulan = {"hotspots"}
  Simulables = {"ideam"}
  Modos = {TRUE, FALSE}
  Tope <- TopeMC
  Trozo = 1
  Retencion = 4
  Vigencia = 1
  Sondeos = {s1, s2}
  Ciclos = {e1, e2}
  FallaExterna = TRUE
  FallaBD = TRUE
  Manuales = TRUE
  MaxFallos = 2
  Trabajadores = {w1, w2}
  Reentrenos = TRUE
  Caidas = TRUE
  FuentesDe <- FuentesMC
  Series <- SeriesMC
  Abiertas <- AbiertasMC
  Periodo <- PeriodoMC
  Ventana <- VentanaMC
  Tipos <- TiposMC
SYMMETRY Simetria
SPECIFICATION SpecEscenas
INVARIANTS TypeOK ContextoReciente  ParcialSeEscribe  
PROPERTY NoResucita
CHECK_DEADLOCK FALSE
