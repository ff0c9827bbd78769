SPECIFICATION MCSpec
CONSTANTS
    Requests = {r1, r2}
    Empresas = {e1}
    Capacity = 1
    TTLAtivo = 2
    TTLBloqueado = 1
    Timeout = 1
    Calls = {i1, i2}
    MaxTime = 2
    MaxMudancas = 1
    MaxInvalidacoes = 1
    None = None
    Zero = Zero
SYMMETRY Symmetry
INVARIANTS
    InvalidarForcaNovaConsulta
