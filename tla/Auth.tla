-------------------------------- MODULE Auth --------------------------------
(***************************************************************************)
(* A request on its way through the guards of auth (src/auth), assinatura  *)
(* (src/assinatura/guarda.go) and seguranca.CSRFGuard to its handler, in   *)
(* whatever order the service mounted them, while the clock moves; and the *)
(* token that the handler may derive for the assistant, with which a       *)
(* second request comes back.                                              *)
(***************************************************************************)
EXTENDS Ambiente, FiniteSets, Sequences, SequencesExt

CONSTANTS
    Empresas,
    Vazio,          \* the empty string: a claim, a header or a segment that is not there
    Duracao         \* DuracaoTokenAssistente

\* What a token says, and whether it is signed.
Credencial ==
    [assinado : BOOLEAN, tipo : {"access", "refresh"}, exp : Nat, usuario : BOOLEAN,
     empresa : Empresas \cup {Vazio}, suporte : Empresas \cup {Vazio}, sessao : BOOLEAN,
     escritaAte : Nat, canal : {Vazio, "ia", "outro"}]

\* A company is known by its UUID, which no other segment of a path looks like (pareceUUID).
ASSUME AuthAssumption ==
    /\ Vazio \notin Empresas /\ {"empresas", "empresa", "resumo"} \cap Empresas = {}
    /\ Vazio \notin Credencial \cup [claims : Credencial, quando : Nat]
    /\ Duracao \in Nat \ {0}

VARIABLES
    config,     \* how the service mounted its guards
    pedido,     \* the request
    passo,      \* which guard is next
    par,        \* the pair RequerQualquerPermissaoRemota has come to
    claims,     \* the claims in the request's context, or Vazio
    resposta,   \* 0 while under way, a status that refuses, or 200: the handler runs
    \* history
    quandoLidas,     \* when the claims were put there
    perguntas,  \* what the checkers were asked
    origem      \* the claims from which this request's token was derived, and when, or Vazio

authProprias == <<config, pedido, passo, par, claims, resposta, quandoLidas, perguntas, origem>>
authVars == <<agora, comRedis, authProprias>>

-----------------------------------------------------------------------------
(* Tokens, requests, configurations.                                       *)

\* A JWT: what extrairClaims takes from it, and what only its validation looks at.
Token(assinado, tipo, exp, usuario, empresa, suporte, sessao, escritaAte, canal) ==
    [assinado |-> assinado, tipo |-> tipo, exp |-> exp, usuario |-> usuario, empresa |-> empresa,
     suporte |-> suporte, sessao |-> sessao, escritaAte |-> escritaAte, canal |-> canal]

Comum(exp, empresa) == Token(TRUE, "access", exp, TRUE, empresa, Vazio, FALSE, 0, Vazio)
Suporte(empresa, alvo, sessao, ate) == Token(TRUE, "access", MaxTempo, TRUE, empresa, alvo, sessao, ate, Vazio)
DoCanal(canal, sessao, empresa) == Token(TRUE, "access", MaxTempo, TRUE, empresa, Vazio, sessao, 0, canal)

Tokens ==
    {Comum(exp, e) : exp \in {0, 1, MaxTempo}, e \in Empresas \cup {Vazio}}
        \cup {Suporte(e, alvo, s, ate) : e \in Empresas, alvo \in Empresas, s \in BOOLEAN, ate \in {0, 1}}
        \cup {DoCanal(c, s, e) : c \in {"ia", "outro"}, s \in BOOLEAN, e \in Empresas}
        \cup {[Comum(0, e) EXCEPT !.tipo = "refresh"] : e \in Empresas}
        \cup {[Comum(0, e) EXCEPT !.assinado = FALSE] : e \in Empresas}
        \cup {[Comum(0, e) EXCEPT !.usuario = FALSE] : e \in Empresas}

\* A route: its method, the list its path is on ("canal": consultasPorPostDoCanal; "sufixo":
\* another path with a suffix of sufixosDeLeitura; "exato": caminhosDeLeitura; "relatorio" and
\* "solicitar": below relatorios/), the segments after its name, whether its prefix is among
\* RotasLiberadas, and what it really does.
Rota(metodo, lista, partes, liberada, escreve) ==
    [metodo |-> metodo, lista |-> lista, partes |-> partes, liberada |-> liberada, escreve |-> escreve]

Rotas ==
    {Rota("GET", "outra", <<"empresas", e>>, FALSE, FALSE) : e \in Empresas}
        \cup {Rota("POST", lista, <<>>, FALSE, FALSE) : lista \in {"canal", "sufixo", "exato", "relatorio"}}
        \cup {Rota("POST", "solicitar", <<>>, FALSE, TRUE), Rota("POST", "outra", <<>>, TRUE, TRUE)}
        \cup {Rota("PUT", "canal", <<"empresas", "resumo", "empresa", e>>, FALSE, TRUE) : e \in Empresas}

\* A header without a token, such as the scheme alone.
Esquema == [Comum(0, Vazio) EXCEPT !.assinado = FALSE]

\* How the token travels: in the header, with another session's cookie beside it; in the cookie;
\* in the cookie, behind a header without a token.
Vias == {"cabecalho", "cookie", "esquema"}

PedidosPossiveis == [rota : Rotas, token : Tokens, via : Vias, eco : BOOLEAN]

Guardas == {"Autenticacao", "TenantGuard", "Permissao", "Contrato"}
Ordem == <<"Autenticacao", "TenantGuard", "Permissao", "Contrato">>

\* tipo: RequerPermissao, RequerPermissaoRemota or RequerQualquerPermissaoRemota, which asks for
\* the actions of pares in their order; none stands for a list or a checker that is missing.
\* proprio: the service's own middleware calls ValidarToken.
Config(ordem, tipo, pares, proprio, segredo) ==
    [ordem |-> ordem, tipo |-> tipo, pares |-> pares, proprio |-> proprio, segredo |-> segredo]

Configs ==
    {Config(o, "remota", <<"editar">>, FALSE, TRUE) : o \in SetToSeqs(Guardas)}
        \cup {Config(Ordem, "local", <<a>>, FALSE, TRUE) : a \in {"visualizar", "editar"}}
        \cup {Config(Ordem, "qualquer", ps, FALSE, TRUE) : ps \in {<<>>, <<"editar", "visualizar">>}}
        \cup {Config(Ordem, "remota", <<"visualizar">>, p, s) : p \in BOOLEAN, s \in BOOLEAN}

AuthInit ==
    /\ config \in Configs /\ pedido \in PedidosPossiveis
    /\ passo = 0 /\ par = 1 /\ claims = Vazio /\ resposta = 0
    /\ quandoLidas = 0 /\ perguntas = {} /\ origem = Vazio

-----------------------------------------------------------------------------
(* Decisions about a request.                                              *)

MetodoSeguro(r) == r.metodo = "GET"

\* Mutants: every path below relatorios/ reads; no POST reads.
EhRequisicaoDeLeituraComSolicitar(r) == MetodoSeguro(r) \/ (r.metodo = "POST" /\ r.lista # "outra")
EhRequisicaoDeLeituraSoGet(r) == MetodoSeguro(r)

EhRequisicaoDeLeitura(r) ==
    \/ MetodoSeguro(r)
    \/ r.metodo = "POST" /\ r.lista \in {"canal", "sufixo", "exato", "relatorio"}

CanalPodeChamar(r) ==
    \/ MetodoSeguro(r)
    \/ r.metodo = "POST" /\ r.lista = "canal"

CanalRecusado(c, r) == c.canal # "ia" \/ c.suporte # Vazio \/ c.sessao \/ ~CanalPodeChamar(r)

CanalPermiteAcao(c, acao) ==
    \/ c.canal = Vazio
    \/ c.canal = "ia" /\ acao = "visualizar"

SuportePodeEscrever(c, t) == c.escritaAte > 0 /\ t < c.escritaAte

\* jwt.ParseWithClaims and ehRefreshToken: an HMAC signature, not expired, not for refreshing.
Valido(tk, t) == tk.assinado /\ (tk.exp = 0 \/ t < tk.exp) /\ tk.tipo # "refresh"

\* extrairEmpresaIdDoPath: the first company that follows a known segment.
EmpresaDoPath(partes) ==
    LET achadas == {i \in 1..(Len(partes) - 1) :
                       partes[i] \in {"empresas", "empresa"} /\ partes[i + 1] \in Empresas}
    IN IF achadas = {} THEN Vazio ELSE partes[1 + CHOOSE i \in achadas : \A j \in achadas : i <= j]

Cabecalho(p) == CASE p.via = "cabecalho" -> p.token [] p.via = "cookie" -> Vazio [] p.via = "esquema" -> Esquema

\* The session of the cookie that comes along with a header.
Cookie(p) == IF p.via = "cabecalho" THEN Comum(MaxTempo, Vazio) ELSE p.token

\* Mutant: the cookie comes first.
PrimeiroOCookie(p) == IF Cookie(p) # Vazio THEN Cookie(p) ELSE Cabecalho(p)

\* Autenticacao takes the cookie when nothing is left of the header: net/http has trimmed it, so
\* that a scheme alone is left as it is.
TokenAutenticado(p) == IF Cabecalho(p) # Vazio THEN Cabecalho(p) ELSE Cookie(p)

\* bearerDoRequest takes the header whenever there is one.
BearerDoRequest(p) == IF Cabecalho(p) # Vazio THEN Cabecalho(p) ELSE Cookie(p)

-----------------------------------------------------------------------------
(* The guards.                                                             *)

Vez(guarda) == resposta = 0 /\ passo \in 1..Len(config.ordem) /\ config.ordem[passo] = guarda

Nada == UNCHANGED <<agora, comRedis, config, pedido, origem>>

Recusa(status) ==
    /\ resposta' = status
    /\ UNCHANGED <<passo, par, claims, quandoLidas>>

Segue ==
    /\ passo' = passo + 1 /\ par' = 1
    /\ resposta' = IF passo = Len(config.ordem) THEN 200 ELSE 0

SegueSem == Segue /\ UNCHANGED <<claims, quandoLidas>>

\* CSRFGuard, mounted first, with IgnorarCSRFSeAuthorizationBearer.
CSRFGuard ==
    /\ resposta = 0 /\ passo = 0
    /\ IF MetodoSeguro(pedido.rota) \/ pedido.via = "cabecalho" \/ pedido.eco
       THEN SegueSem
       ELSE Recusa(403)
    /\ Nada /\ UNCHANGED perguntas

\* The status with which Autenticacao refuses, or 200.
Autenticacao(tk) ==
    CASE ~config.segredo -> 500
      [] config.segredo /\ (~Valido(tk, agora) \/ ~tk.usuario) -> 401
      [] config.segredo /\ Valido(tk, agora) /\ tk.usuario ->
            IF \/ /\ tk.suporte # Vazio
                  /\ \/ tk.empresa # tk.suporte \/ ~tk.sessao
                     \/ ~EhRequisicaoDeLeitura(pedido.rota) /\ ~SuportePodeEscrever(tk, agora)
               \/ tk.canal # Vazio /\ CanalRecusado(tk, pedido.rota)
            THEN 403 ELSE 200

\* ValidarToken in a middleware of the service's own: any error is a refusal.
ValidarToken(tk) ==
    IF config.segredo /\ Valido(tk, agora) /\ tk.usuario /\ tk.canal = Vazio THEN 200 ELSE 401

Autentica ==
    /\ Vez("Autenticacao")
    /\ LET tk == TokenAutenticado(pedido)
           status == IF config.proprio THEN ValidarToken(tk) ELSE Autenticacao(tk)
       IN IF status = 200
          THEN Segue /\ claims' = tk /\ quandoLidas' = agora
          ELSE Recusa(status)
    /\ Nada /\ UNCHANGED perguntas

TenantGuard ==
    /\ Vez("TenantGuard")
    /\ LET empresa == EmpresaDoPath(pedido.rota.partes) IN
       CASE empresa = Vazio -> SegueSem
         [] empresa # Vazio /\ claims = Vazio -> Recusa(401)
         [] empresa # Vazio /\ claims # Vazio ->
               IF claims.empresa = empresa THEN SegueSem ELSE Recusa(403)
    /\ Nada /\ UNCHANGED perguntas

Respostas == {"sim", "nao", "erro"}

\* The answers of a checker are the other service's: any of them. The local one is asked about
\* the claims, the remote ones and the contract's with the token.
Pergunta(quem, acao, sabe) ==
    perguntas' = perguntas \cup {[quem |-> quem, acao |-> acao, sabe |-> sabe,
                                  sessao |-> IF config.tipo = "local" THEN claims ELSE BearerDoRequest(pedido), empresa |-> claims.empresa]}

\* RequerPermissao and its remote variants without a question to ask.
PermissaoSemPergunta ==
    /\ Vez("Permissao")
    /\ CASE claims = Vazio -> Recusa(401)
         [] claims # Vazio ->
               /\ claims.empresa = Vazio \/ par > Len(config.pares)
               /\ Recusa(403)
    /\ Nada /\ UNCHANGED perguntas

\* One pair: only RequerQualquerPermissaoRemota has another one to try.
Permissao ==
    /\ Vez("Permissao") /\ claims # Vazio /\ claims.empresa # Vazio /\ par <= Len(config.pares)
    /\ LET acao == config.pares[par]
           Proximo == IF par < Len(config.pares)
                      THEN par' = par + 1 /\ UNCHANGED <<passo, resposta, claims, quandoLidas>>
                      ELSE Recusa(403)
       IN IF CanalPermiteAcao(claims, acao)
          THEN \E sabe \in Respostas :
                  /\ Pergunta("permissao", acao, sabe)
                  /\ IF sabe = "sim" THEN SegueSem ELSE Proximo
          ELSE Proximo /\ UNCHANGED perguntas
    /\ Nada

\* ApenasEscrita(RequerContratoAtivo).
ContratoSemPergunta ==
    \/ EhRequisicaoDeLeitura(pedido.rota) \/ pedido.rota.liberada
    \/ claims = Vazio \/ claims.empresa = Vazio

Contrato ==
    /\ Vez("Contrato")
    /\ IF ContratoSemPergunta
       THEN SegueSem /\ UNCHANGED perguntas
       ELSE \E sabe \in Respostas :
               /\ Pergunta("contrato", Vazio, sabe)
               /\ IF sabe = "nao" THEN Recusa(402) ELSE SegueSem
    /\ Nada

\* Five minutes, or the end of the session it derives from.
Expira(c) == IF c.exp > 0 /\ c.exp < agora + Duracao THEN c.exp ELSE agora + Duracao

PodeDerivar(c) ==
    /\ c.canal = Vazio /\ c.suporte = Vazio /\ ~c.sessao
    /\ c.usuario /\ c.empresa # Vazio
    /\ Expira(c) > agora

\* DerivarTokenAssistente in the handler; the assistant then calls with the token.
DerivarTokenAssistente ==
    /\ resposta = 200 /\ claims # Vazio /\ origem = Vazio /\ PodeDerivar(claims)
    /\ \E r \in Rotas :
          pedido' = [rota |-> r, via |-> "cabecalho", eco |-> FALSE,
                     token |-> Token(TRUE, "access", Expira(claims), TRUE, claims.empresa, Vazio, FALSE, 0, "ia")]
    /\ origem' = [claims |-> claims, quando |-> agora]
    /\ passo' = 0 /\ par' = 1 /\ claims' = Vazio /\ resposta' = 0 /\ quandoLidas' = 0 /\ perguntas' = {}
    /\ UNCHANGED <<agora, comRedis, config>>

AuthPassa == Passa /\ UNCHANGED authProprias

AuthNext ==
    \/ CSRFGuard \/ Autentica \/ TenantGuard
    \/ PermissaoSemPergunta \/ Permissao \/ Contrato
    \/ DerivarTokenAssistente \/ AuthPassa

AuthSpec == AmbienteInit /\ AuthInit /\ [][AuthNext]_authVars

-----------------------------------------------------------------------------
(* Properties.                                                             *)

Atende == resposta = 200

Antes(g, h) == \E i, j \in DOMAIN config.ordem : i < j /\ config.ordem[i] = g /\ config.ordem[j] = h

\* Types, and the claims in the context are those of the request's own token.
AuthTypeOK ==
    /\ ToSet(config.ordem) = Guardas /\ config.tipo \in {"remota", "local", "qualquer"}
    /\ pedido.via \in Vias /\ pedido.eco \in BOOLEAN
    /\ passo \in 0..(Len(config.ordem) + 1) /\ par \in 1..2
    /\ claims \in {Vazio, pedido.token}
    /\ resposta \in {0, 200, 401, 402, 403, 500}
    /\ \A q \in perguntas : q.sabe \in Respostas

\* Whatever order the guards are mounted in, the handler runs only for a token that was valid
\* when it was read, for the company of the path, with a permission the checker granted to that
\* session, and behind a cookie only with the CSRF echo. Wherever Autenticacao comes before the
\* contract's gate, a write of a blocked company does not get there either.
AtendeSoQuemPode ==
    Atende =>
        /\ claims # Vazio /\ claims.assinado /\ claims.usuario
        /\ claims.tipo # "refresh" /\ (claims.exp > 0 => quandoLidas < claims.exp)
        /\ \A i \in DOMAIN pedido.rota.partes : pedido.rota.partes[i] \in Empresas => pedido.rota.partes[i] = claims.empresa
        /\ \E q \in perguntas : q.quem = "permissao" /\ q.sabe = "sim" /\ q.empresa = claims.empresa
        /\ pedido.rota.metodo = "GET" \/ pedido.via = "cabecalho" \/ pedido.eco
        /\ pedido.rota.escreve /\ ~pedido.rota.liberada /\ Antes("Autenticacao", "Contrato") =>
              \E q \in perguntas : q.quem = "contrato" /\ q.sabe # "nao"

\* A support session writes only while its elevation lasts and for its own company, the
\* assistant never writes, and no checker is asked to grant it more than reading: on the paths
\* classified by lists and suffixes as well.
SuporteECanalSoLeem ==
    Atende /\ ~config.proprio =>
        /\ pedido.rota.escreve => claims.canal = Vazio
        /\ pedido.rota.escreve /\ claims.suporte # Vazio => quandoLidas < claims.escritaAte
        /\ claims.suporte # Vazio => claims.suporte = claims.empresa /\ claims.sessao
        /\ claims.canal # Vazio => \A q \in perguntas : q.quem = "permissao" /\ q.acao = "visualizar"

\* The token derived for the assistant never outlives the session it was derived from, nor five
\* minutes, keeps to its company, and is not derived from the assistant's or a support session.
DerivadoNaoExcede ==
    origem # Vazio =>
        /\ Valido(pedido.token, agora) => Valido(origem.claims, agora) /\ agora < origem.quando + Duracao
        /\ pedido.token.empresa = origem.claims.empresa
        /\ origem.claims.canal = Vazio /\ origem.claims.suporte = Vazio

\* The checkers of other services are asked with the token that was authenticated, not with the
\* one of the cookie beside it: three functions choose between the two (middleware.go:176,
\* permissao.go:187, guarda.go:125).
RepassaOMesmoToken == \A q \in perguntas : q.sessao = claims

\* Nobody is refused without a reason: 402 only for a write the contract blocks, 403 only by a
\* checker, another company, the CSRF echo, or a session or channel that may not do this.
RecusaTemMotivo ==
    /\ resposta = 402 => /\ pedido.rota.escreve /\ ~pedido.rota.liberada /\ claims # Vazio
                         /\ \E q \in perguntas : q.quem = "contrato" /\ q.sabe = "nao"
    /\ resposta = 401 => \/ claims = Vazio /\ config.ordem[passo] # "Autenticacao"
                         \/ ~Valido(pedido.token, agora) \/ ~pedido.token.usuario
                         \/ pedido.via = "esquema" \/ config.proprio
    /\ resposta = 403 /\ config = Config(Ordem, "qualquer", <<"editar", "visualizar">>, FALSE, TRUE) =>
          \/ pedido.token.suporte # Vazio \/ pedido.token.canal # Vazio
          \/ pedido.token.empresa = Vazio
          \/ \E i \in DOMAIN pedido.rota.partes : pedido.rota.partes[i] \in Empresas \ {pedido.token.empresa}
          \/ pedido.via # "cabecalho" /\ ~pedido.eco
          \/ \A a \in {"editar", "visualizar"} :
                \E q \in perguntas : q.quem = "permissao" /\ q.acao = a /\ q.sabe # "sim"

\* The chain of guards decides correctly in both directions, in whatever order and composition
\* a service mounts it: who may not does not get through, and who may is not refused.
AcessoCorreto == AtendeSoQuemPode /\ SuporteECanalSoLeem /\ RecusaTemMotivo

\* Tokens stand for the session they came from: the one passed on is the one that was read, the
\* derived one is bounded by its origin.
CredenciaisCorretas == DerivadoNaoExcede /\ RepassaOMesmoToken
=============================================================================
