\* Two cycles, a poll and an operator over one slot, every failure.
CONSTANTS
  Parques = {p1}
  SinParque = sinParque
  Tipos = {"incendio_satelital"}
  Niveles = {"rojo"}
  Origenes = {"motor_reglas", "manual"}
  Ids = {a1, a2}
  NoId = noId
  Llamadas = {k1, k2, s1, o1}
  FallaRedis = TRUE
  Reinicia = TRUE
  MaxAvisos = 3
  Reglas = {"incendio_satelital"}
  ReglasIA = {}
  ReglasRotas = {}
  ParquesLentos = {p1}
  Ciclos = {k1, k2}
  Sondeos = {s1}
  Operadores = {o1}
  ClimaCambia = FALSE
  ReglasCambian = TRUE
  MaxDetecciones = 1
  MaxMetrica = 1
  Reserva = 0
  TipoDe <- TipoPorRegla
  NivelDe <- NivelPorRegla
  TipoSatelite <- TipoPorClase
  NivelSatelite <- NivelPorClase
SYMMETRY SimetriaMotor
SPECIFICATION SpecMotor
INVARIANTS TypeOKMotor MetricaFiel UnaActivaPorRanura  AvisoTrasCommit
PROPERTY CumpleCiclo
CHECK_DEADLOCK FALSE
