SPECIFICATION MCSpec
CONSTANTS
    MaxTempo = 5
    Nunca = Nunca
    Requisicoes = {r1, r2}
    MaxTentativas = 2
    DuracaoBloqueio = 2
    JanelaTentativas = 2
    MaxFalhas = 4
    Limite = 2
    Janela = 2
    MaxErros = 2
    Empresas = {e1, e2}
    Vazio = Vazio
    Duracao = 2
    Pedidos = {p1, p2}
    Rodadas = {j1, j2, j3}
    Chaves = {k1, k2, k3}
    DoPadrao = {k1, k2}
    Prazos = {0, 1}
    Replicas = {a1, a2}
    Duracoes <- MCDuracoes
    MaxDocumentos = 2
    Atraso = 1
    Dependencias <- MCDependencias
    Modulo = "m"
    Testes = {"a_test.go"}
CHECK_DEADLOCK FALSE
INVARIANTS
    ServicoTypeOK
    LimiteCorreto
    AcessoCorreto
    CredenciaisCorretas
    MedidasFieis
    LimpezaCompleta
    CatracaCorreta
PROPERTIES
    BloqueioCorreto
    ContagemCorreta
