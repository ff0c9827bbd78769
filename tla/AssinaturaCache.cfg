SPECIFICATION MCSpec
CONSTANTS
    Requests = {r1, r2}
    Empresas = {e1}
    Capacity = 1
    TTLAtivo = 2
    TTLBloqueado = 1
    Timeout = 1
    Calls = {i1, i2}
    MaxTime = 3
    MaxMudancas = 2
    MaxInvalidacoes = 1
    None = None
    Zero = Zero
SYMMETRY Symmetry
INVARIANTS
    TypeOK
    DiscordanciaLimitada
    LeituraMonotona
