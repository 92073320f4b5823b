\* A cycle against an operator, changing weather, Redis failing, a broken rule.
CONSTANTS
  Parques = {p1}
  SinParque = sinParque
  Tipos = {"sequia", "rota"}
  Niveles = {"rojo"}
  Origenes = {"motor_reglas"}
  Ids = {a1, a2, a3}
  NoId = noId
  Llamadas = {k1, o1}
  FallaRedis = TRUE
  Reinicia = FALSE
  MaxAvisos = 5
  Reglas = {"sequia", "rota"}
  ReglasIA = {"rota"}
  ReglasRotas = {"rota"}
  ParquesLentos = {p1}
  Ciclos = {k1}
  Sondeos = {}
  Operadores = {o1}
  ClimaCambia = TRUE
  ReglasCambian = FALSE
  MaxDetecciones = 0
  MaxMetrica = 0
  Reserva = 1
  TipoDe <- TipoPorRegla
  NivelDe <- NivelPorRegla
  TipoSatelite <- SinClases
  NivelSatelite <- SinClases
SPECIFICATION FairSpecMotor
PROPERTIES CicloTermina Cobertura 
CHECK_DEADLOCK FALSE
