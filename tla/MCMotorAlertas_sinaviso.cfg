\* Redis fails while a cycle publishes.
CONSTANTS
  Parques = {p1}
  SinParque = sinParque
  Tipos = {"sequia"}
  Niveles = {"rojo"}
  Origenes = {"motor_reglas"}
  Ids = {a1, a2, a3}
  NoId = noId
  Llamadas = {k1}
  FallaRedis = TRUE
  Reinicia = FALSE
  MaxAvisos = 3
  Reglas = {"sequia"}
  ReglasIA = {}
  ReglasRotas = {}
  ParquesLentos = {}
  Ciclos = {k1}
  Sondeos = {}
  Operadores = {}
  ClimaCambia = TRUE
  ReglasCambian = FALSE
  MaxDetecciones = 0
  MaxMetrica = 0
  Reserva = 0
  TipoDe <- TipoPorRegla
  NivelDe <- NivelPorRegla
  TipoSatelite <- SinClases
  NivelSatelite <- SinClases
SPECIFICATION FairSpecMotor
PROPERTY AltaTerminaAnunciada
CHECK_DEADLOCK FALSE
