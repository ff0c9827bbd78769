SPECIFICATION MCSpec
CONSTANTS
    MaxTempo = 3
    Nunca = Nunca
    Chamadores = {g1, g2}
    IntervaloAviso = 2
    MaxErros = 4
    s1 = s1
    s2 = s2
    notas = notas
    arquivos = arquivos
    fiscais = fiscais
    cache = cache
    perfis = perfis
    anexos = anexos
    Servicos = {s1, s2}
    Fontes <- MCFontes
    Fase <- MCFase
    Itens <- MCItens
    Retida = {fiscais}
    EmPartes = {arquivos}
    SemApagar = {anexos}
    Chamadas = {c1, c2}
    Ninguem = Ninguem
    MaxFalhas = 2
    MaxAvulsas = 1
    p1 = p1
    p2 = p2
    Processos = {p1, p2}
    Passos <- MCPassos
    MaxQuedas = 3
CHECK_DEADLOCK FALSE
INVARIANTS
    OperacaoTypeOK
    RelatorioVerdadeiro
    PartidaSegura
PROPERTIES
    DesligarCumpre
    SondagemFiel
    ExpurgoEmOrdem
    Termina
    TodosSobem
