SPECIFICATION Spec
CONSTANTS
    Requests = {r1}
    Suportes = {}
    Usuarios = {u1}
    Tokens = {t1}
    Capacity = 2
    TTLPermissoes = 1
    Timeout = 1
    Calls = {i1}
    MaxTime = 2
    MaxMudancas = 1
    None = None
    Zero = Zero
INVARIANTS
    AlteracaoImediata
