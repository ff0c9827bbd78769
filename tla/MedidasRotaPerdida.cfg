SPECIFICATION MedidasSpec
CONSTANTS
    Pedidos = {p1}
    Rodadas = {}
CHECK_DEADLOCK FALSE
INVARIANTS
    RotaSempreRegistrada
