SPECIFICATION MCSpec
CONSTANTS
    r1 = r1
    i1 = i1
    Requests = {r1, r2}
    Suportes = {s1}
    Usuarios = {u1}
    Tokens = {t1, t2}
    Capacity = 2
    TTLPermissoes = 1
    Timeout = 1
    Calls = {i1, i2}
    MaxTime = 3
    MaxMudancas = 2
    None = None
    Zero = Zero
SYMMETRY Symmetry
INVARIANTS
    TypeOK
    PermissoesAtuais
    InvalidarAlcancaTodosOsTokens
