--------------------------- MODULE ServicoProofs ----------------------------
(***************************************************************************)
(* Theorems about the parts of the service that share its clock, as        *)
(* MCServico puts them together: the guards of auth, the cache in Redis,   *)
(* the measures of observabilidade, the check of cmd/deelp-arquitetura,    *)
(* the months of consumo, and the rate limiter and the IP blocker of       *)
(* seguranca.                                                              *)
(***************************************************************************)
EXTENDS MCServico, FiniteSetTheorems, WellFoundedInduction, TLAPS

-----------------------------------------------------------------------------
(* auth: the guards of a request, and the tokens it carries.               *)

LEMMA FourGuards == Cardinality(Guardas) = 4
<1>1. Cardinality({"Autenticacao"}) = 1 /\ IsFiniteSet({"Autenticacao"})
  BY FS_Singleton
<1>2. Cardinality({"Autenticacao", "TenantGuard"}) = 2 /\ IsFiniteSet({"Autenticacao", "TenantGuard"})
  <2>1. {"Autenticacao", "TenantGuard"} = {"Autenticacao"} \cup {"TenantGuard"} /\ "TenantGuard" \notin {"Autenticacao"}
    OBVIOUS
  <2>2. QED
    BY <1>1, <2>1, FS_AddElement
<1>3. /\ Cardinality({"Autenticacao", "TenantGuard", "Permissao"}) = 3
      /\ IsFiniteSet({"Autenticacao", "TenantGuard", "Permissao"})
  <2>1. /\ {"Autenticacao", "TenantGuard", "Permissao"} = {"Autenticacao", "TenantGuard"} \cup {"Permissao"}
        /\ "Permissao" \notin {"Autenticacao", "TenantGuard"}
    OBVIOUS
  <2>2. QED
    BY <1>2, <2>1, FS_AddElement
<1>4. /\ Guardas = {"Autenticacao", "TenantGuard", "Permissao"} \cup {"Contrato"}
      /\ "Contrato" \notin {"Autenticacao", "TenantGuard", "Permissao"}
  BY DEF Guardas
<1>5. QED
  BY <1>3, <1>4, FS_AddElement

\* Every order has each guard, at one of four places.
EmOrdem(o) ==
    /\ o \in Seq(Guardas) /\ Len(o) = 4 /\ DOMAIN o = 1..4
    /\ \A g \in Guardas : \E i \in 1..4 : o[i] = g

LEMMA Orders == (\A o \in SetToSeqs(Guardas) : EmOrdem(o)) /\ EmOrdem(Ordem)
<1>1. ASSUME NEW o \in SetToSeqs(Guardas) PROVE EmOrdem(o)
  <2>1. o \in [1..4 -> Guardas] /\ \A i, j \in 1..4 : i # j => o[i] # o[j]
    BY FourGuards DEF SetToSeqs
  <2>2. o \in Seq(Guardas) /\ Len(o) = 4 /\ DOMAIN o = 1..4
    <3>1. o[1] \in Guardas /\ o[2] \in Guardas /\ o[3] \in Guardas /\ o[4] \in Guardas
      BY <2>1
    <3> DEFINE t == <<o[1], o[2], o[3], o[4]>>
    <3>2. /\ t \in Seq(Guardas) /\ Len(t) = 4 /\ DOMAIN t = 1..4
          /\ t[1] = o[1] /\ t[2] = o[2] /\ t[3] = o[3] /\ t[4] = o[4]
      BY <3>1
    <3> HIDE DEF t
    <3>3. \A i \in 1..4 : i = 1 \/ i = 2 \/ i = 3 \/ i = 4
      OBVIOUS
    <3>4. \A i \in 1..4 : t[i] = o[i]
      BY <3>2, <3>3
    <3>5. t = o
      BY <2>1, <3>2, <3>4
    <3>6. QED
      BY <3>2, <3>5
  <2>3. ASSUME NEW g \in Guardas PROVE \E i \in 1..4 : o[i] = g
    <3>1. /\ o[1] \in Guardas /\ o[2] \in Guardas /\ o[3] \in Guardas /\ o[4] \in Guardas
          /\ o[1] # o[2] /\ o[1] # o[3] /\ o[1] # o[4] /\ o[2] # o[3] /\ o[2] # o[4] /\ o[3] # o[4]
      BY <2>1
    <3>2. g \in {o[1], o[2], o[3], o[4]}
      BY <2>3, <3>1 DEF Guardas
    <3>3. QED
      BY <3>2
  <2>4. QED
    BY <2>2, <2>3 DEF EmOrdem
<1>2. EmOrdem(Ordem)
  <2>1. Ordem \in Seq(Guardas) /\ Len(Ordem) = 4 /\ DOMAIN Ordem = 1..4
    BY DEF Ordem, Guardas
  <2>2. Ordem[1] = "Autenticacao" /\ Ordem[2] = "TenantGuard" /\ Ordem[3] = "Permissao" /\ Ordem[4] = "Contrato"
    BY DEF Ordem
  <2>3. QED
    BY <2>1, <2>2 DEF EmOrdem, Guardas
<1>3. QED
  BY <1>1, <1>2

LEMMA Configurations ==
    ASSUME NEW c \in Configs
    PROVE  /\ EmOrdem(c.ordem) /\ c.tipo \in {"remota", "local", "qualquer"}
           /\ c.pares \in Seq({"editar", "visualizar"}) /\ Len(c.pares) \in {0, 1, 2}
           /\ c.proprio \in BOOLEAN /\ c.segredo \in BOOLEAN
<1>1. /\ <<"editar">> \in Seq({"editar", "visualizar"}) /\ Len(<<"editar">>) = 1
      /\ <<"visualizar">> \in Seq({"editar", "visualizar"}) /\ Len(<<"visualizar">>) = 1
  OBVIOUS
<1>2. <<>> \in Seq({"editar", "visualizar"}) /\ Len(<<>>) = 0
  OBVIOUS
<1>3. <<"editar", "visualizar">> \in Seq({"editar", "visualizar"}) /\ Len(<<"editar", "visualizar">>) = 2
  OBVIOUS
<1>4. CASE \E o \in SetToSeqs(Guardas) : c = Config(o, "remota", <<"editar">>, FALSE, TRUE)
  <2>1. PICK o \in SetToSeqs(Guardas) : c = Config(o, "remota", <<"editar">>, FALSE, TRUE)
    BY <1>4
  <2>2. c.ordem = o /\ c.tipo = "remota" /\ c.pares = <<"editar">> /\ c.proprio = FALSE /\ c.segredo = TRUE
    BY <2>1 DEF Config
  <2>3. QED
    BY <1>1, <2>2, Orders
<1>5. CASE \E a \in {"visualizar", "editar"} : c = Config(Ordem, "local", <<a>>, FALSE, TRUE)
  <2>1. PICK a \in {"visualizar", "editar"} : c = Config(Ordem, "local", <<a>>, FALSE, TRUE)
    BY <1>5
  <2>2. c.ordem = Ordem /\ c.tipo = "local" /\ c.pares = <<a>> /\ c.proprio = FALSE /\ c.segredo = TRUE
    BY <2>1 DEF Config
  <2>3. QED
    BY <1>1, <2>2, Orders
<1>6. CASE \E ps \in {<<>>, <<"editar", "visualizar">>} : c = Config(Ordem, "qualquer", ps, FALSE, TRUE)
  <2>1. PICK ps \in {<<>>, <<"editar", "visualizar">>} : c = Config(Ordem, "qualquer", ps, FALSE, TRUE)
    BY <1>6
  <2>2. c.ordem = Ordem /\ c.tipo = "qualquer" /\ c.pares = ps /\ c.proprio = FALSE /\ c.segredo = TRUE
    BY <2>1 DEF Config
  <2>3. QED
    BY <1>2, <1>3, <2>2, Orders
<1>7. CASE \E p \in BOOLEAN, s \in BOOLEAN : c = Config(Ordem, "remota", <<"visualizar">>, p, s)
  <2>1. PICK p \in BOOLEAN, s \in BOOLEAN : c = Config(Ordem, "remota", <<"visualizar">>, p, s)
    BY <1>7
  <2>2. c.ordem = Ordem /\ c.tipo = "remota" /\ c.pares = <<"visualizar">> /\ c.proprio \in BOOLEAN /\ c.segredo \in BOOLEAN
    BY <2>1 DEF Config
  <2>3. QED
    BY <1>1, <2>2, Orders
<1> DEFINE A == {Config(o, "remota", <<"editar">>, FALSE, TRUE) : o \in SetToSeqs(Guardas)}
           B == {Config(Ordem, "local", <<a>>, FALSE, TRUE) : a \in {"visualizar", "editar"}}
           C == {Config(Ordem, "qualquer", ps, FALSE, TRUE) : ps \in {<<>>, <<"editar", "visualizar">>}}
           D == {Config(Ordem, "remota", <<"visualizar">>, p, s) : p \in BOOLEAN, s \in BOOLEAN}
<1>8. Configs = A \cup B \cup C \cup D
  BY DEF Configs
<1>9. CASE c \in A
  BY <1>4, <1>9
<1>10. CASE c \in B
  BY <1>5, <1>10
<1>11. CASE c \in C
  BY <1>6, <1>11
<1>12. CASE c \in D
  BY <1>7, <1>12
<1> HIDE DEF A, B, C, D
<1>13. QED
  BY <1>8, <1>9, <1>10, <1>11, <1>12

\* The company of a path is the one company in it, and it writes unless it is classified as reading.
LEMMA Routes ==
    ASSUME NEW r \in Rotas
    PROVE  /\ r.escreve \in BOOLEAN /\ r.liberada \in BOOLEAN
           /\ r.escreve <=> ~EhRequisicaoDeLeitura(r)
           /\ CanalPodeChamar(r) => ~r.escreve
           /\ EmpresaDoPath(r.partes) # Vazio =>
                 \E i \in DOMAIN r.partes : r.partes[i] \in Empresas /\ r.partes[i] = EmpresaDoPath(r.partes)
           /\ \A i \in DOMAIN r.partes : r.partes[i] \in Empresas => r.partes[i] = EmpresaDoPath(r.partes)
<1> USE AuthAssumption
<1>1. CASE \E e \in Empresas : r = Rota("GET", "outra", <<"empresas", e>>, FALSE, FALSE)
  <2>1. PICK e \in Empresas : r = Rota("GET", "outra", <<"empresas", e>>, FALSE, FALSE)
    BY <1>1
  <2>2. /\ r.metodo = "GET" /\ r.lista = "outra" /\ r.partes = <<"empresas", e>> /\ r.liberada = FALSE /\ r.escreve = FALSE
    BY <2>1 DEF Rota
  <2>3. Len(r.partes) = 2 /\ DOMAIN r.partes = {1, 2} /\ r.partes[1] = "empresas" /\ r.partes[2] = e
    BY <2>2
  <2>4. EmpresaDoPath(r.partes) = e
    <3> DEFINE achadas == {i \in 1..(Len(r.partes) - 1) :
                              r.partes[i] \in {"empresas", "empresa"} /\ r.partes[i + 1] \in Empresas}
    <3>1. achadas = {1}
      BY <2>3
    <3>2. (CHOOSE i \in achadas : \A j \in achadas : i <= j) = 1
      BY <3>1
    <3>3. QED
      BY <2>3, <3>1, <3>2 DEF EmpresaDoPath
  <2>5. QED
    BY <2>2, <2>3, <2>4 DEF EhRequisicaoDeLeitura, MetodoSeguro
<1>2. CASE \E l \in {"canal", "sufixo", "exato", "relatorio"} : r = Rota("POST", l, <<>>, FALSE, FALSE)
  <2>1. PICK l \in {"canal", "sufixo", "exato", "relatorio"} : r = Rota("POST", l, <<>>, FALSE, FALSE)
    BY <1>2
  <2>2. r.metodo = "POST" /\ r.lista = l /\ r.partes = <<>> /\ r.liberada = FALSE /\ r.escreve = FALSE
    BY <2>1 DEF Rota
  <2>3. DOMAIN r.partes = {} /\ EmpresaDoPath(r.partes) = Vazio
    BY <2>2 DEF EmpresaDoPath
  <2>4. QED
    BY <2>2, <2>3 DEF EhRequisicaoDeLeitura, MetodoSeguro
<1>3. CASE r = Rota("POST", "solicitar", <<>>, FALSE, TRUE) \/ r = Rota("POST", "outra", <<>>, TRUE, TRUE)
  <2>2. r.metodo = "POST" /\ r.lista \in {"solicitar", "outra"} /\ r.partes = <<>> /\ r.liberada \in BOOLEAN /\ r.escreve = TRUE
    <3>1. CASE r = Rota("POST", "solicitar", <<>>, FALSE, TRUE)
      BY <3>1 DEF Rota
    <3>2. CASE r = Rota("POST", "outra", <<>>, TRUE, TRUE)
      BY <3>2 DEF Rota
    <3>3. QED
      BY <1>3, <3>1, <3>2
  <2>3. DOMAIN r.partes = {} /\ EmpresaDoPath(r.partes) = Vazio
    BY <2>2 DEF EmpresaDoPath
  <2>4. QED
    BY <2>2, <2>3 DEF EhRequisicaoDeLeitura, MetodoSeguro, CanalPodeChamar
<1>4. CASE \E e \in Empresas : r = Rota("PUT", "canal", <<"empresas", "resumo", "empresa", e>>, FALSE, TRUE)
  <2>1. PICK e \in Empresas : r = Rota("PUT", "canal", <<"empresas", "resumo", "empresa", e>>, FALSE, TRUE)
    BY <1>4
  <2>2. /\ r.metodo = "PUT" /\ r.lista = "canal" /\ r.partes = <<"empresas", "resumo", "empresa", e>>
        /\ r.liberada = FALSE /\ r.escreve = TRUE
    BY <2>1 DEF Rota
  <2>3. /\ Len(r.partes) = 4 /\ DOMAIN r.partes = {1, 2, 3, 4} /\ r.partes[1] = "empresas" /\ r.partes[2] = "resumo"
        /\ r.partes[3] = "empresa" /\ r.partes[4] = e
    BY <2>2
  <2>4. EmpresaDoPath(r.partes) = e
    <3> DEFINE achadas == {i \in 1..(Len(r.partes) - 1) :
                              r.partes[i] \in {"empresas", "empresa"} /\ r.partes[i + 1] \in Empresas}
    <3>1. achadas = {3}
      BY <2>3
    <3>2. (CHOOSE i \in achadas : \A j \in achadas : i <= j) = 3
      BY <3>1
    <3>3. QED
      BY <2>3, <3>1, <3>2 DEF EmpresaDoPath
  <2>5. QED
    BY <2>2, <2>3, <2>4 DEF EhRequisicaoDeLeitura, MetodoSeguro, CanalPodeChamar
<1>5. QED
  BY <1>1, <1>2, <1>3, <1>4 DEF Rotas

LEMMA TokensAreCredentials ==
    /\ Tokens \subseteq Credencial /\ Esquema \in Credencial
    /\ \A e \in Empresas \cup {Vazio} : Comum(MaxTempo, e) \in Credencial
<1> USE AmbienteAssumption
<1>1. ASSUME NEW exp \in Nat, NEW e \in Empresas \cup {Vazio} PROVE Comum(exp, e) \in Credencial
  BY DEF Comum, Token, Credencial
<1>2. ASSUME NEW e \in Empresas, NEW alvo \in Empresas, NEW s \in BOOLEAN, NEW ate \in {0, 1}
      PROVE  Suporte(e, alvo, s, ate) \in Credencial
  BY DEF Suporte, Token, Credencial
<1>3. ASSUME NEW c \in {"ia", "outro"}, NEW s \in BOOLEAN, NEW e \in Empresas PROVE DoCanal(c, s, e) \in Credencial
  BY DEF DoCanal, Token, Credencial
<1>4. ASSUME NEW tk \in Credencial
      PROVE  /\ [tk EXCEPT !.tipo = "refresh"] \in Credencial /\ [tk EXCEPT !.assinado = FALSE] \in Credencial
             /\ [tk EXCEPT !.usuario = FALSE] \in Credencial
  BY DEF Credencial
<1>5. {0, 1, MaxTempo} \subseteq Nat
  OBVIOUS
<1>6. Tokens \subseteq Credencial
  <2> DEFINE A == {Comum(exp, e) : exp \in {0, 1, MaxTempo}, e \in Empresas \cup {Vazio}}
             B == {Suporte(e, alvo, s, ate) : e \in Empresas, alvo \in Empresas, s \in BOOLEAN, ate \in {0, 1}}
             C == {DoCanal(c, s, e) : c \in {"ia", "outro"}, s \in BOOLEAN, e \in Empresas}
             D == {[Comum(0, e) EXCEPT !.tipo = "refresh"] : e \in Empresas}
             E == {[Comum(0, e) EXCEPT !.assinado = FALSE] : e \in Empresas}
             F == {[Comum(0, e) EXCEPT !.usuario = FALSE] : e \in Empresas}
  <2>1. Tokens = A \cup B \cup C \cup D \cup E \cup F
    BY DEF Tokens
  <2>2. A \subseteq Credencial
    BY <1>1, <1>5
  <2>3. B \subseteq Credencial
    BY <1>2
  <2>4. C \subseteq Credencial
    BY <1>3
  <2>5. \A e \in Empresas : Comum(0, e) \in Credencial
    BY <1>1
  <2>6. D \subseteq Credencial /\ E \subseteq Credencial /\ F \subseteq Credencial
    BY <1>4, <2>5
  <2> HIDE DEF A, B, C, D, E, F
  <2>7. QED
    BY <2>1, <2>2, <2>3, <2>4, <2>6
<1>7. QED
  BY <1>1, <1>4, <1>6 DEF Esquema

\* What a guard has seen to when the request is past it: the one at place i.
Cumprida(i) ==
    /\ config.ordem[i] = "Autenticacao" => claims # Vazio
    /\ config.ordem[i] = "TenantGuard" =>
          LET empresa == EmpresaDoPath(pedido.rota.partes) IN
          empresa # Vazio => claims # Vazio /\ claims.empresa = empresa
    /\ config.ordem[i] = "Permissao" =>
          /\ claims # Vazio /\ claims.empresa # Vazio
          /\ \E q \in perguntas : q.quem = "permissao" /\ q.sabe = "sim"
    /\ config.ordem[i] = "Contrato" =>
          ((/\ pedido.rota.escreve /\ ~pedido.rota.liberada /\ claims.empresa # Vazio
            /\ \E k \in 1..(i - 1) : config.ordem[k] = "Autenticacao")
           => \E q \in perguntas : q.quem = "contrato" /\ q.sabe # "nao")

GuardasInv ==
    /\ passo # 0 => pedido.rota.metodo = "GET" \/ pedido.via = "cabecalho" \/ pedido.eco
    /\ \A i \in 1..4 : i < passo => Cumprida(i)

\* The claims are those of the request's own token, which was valid when they were read; a support
\* session's and the assistant's were let through for a reason.
ClaimsInv ==
    claims # Vazio =>
        /\ claims = pedido.token /\ claims = TokenAutenticado(pedido)
        /\ claims.usuario /\ Valido(claims, quandoLidas)
        /\ ~config.proprio =>
              /\ claims.suporte # Vazio =>
                    /\ claims.empresa = claims.suporte /\ claims.sessao
                    /\ EhRequisicaoDeLeitura(pedido.rota) \/ SuportePodeEscrever(claims, quandoLidas)
              /\ claims.canal # Vazio => ~CanalRecusado(claims, pedido.rota)

\* Whatever was asked was asked about them.
PerguntasInv ==
    \A q \in perguntas :
        /\ claims # Vazio /\ q.sessao = claims /\ q.empresa = claims.empresa /\ q.sabe \in Respostas
        /\ q.quem = "permissao" => CanalPermiteAcao(claims, q.acao)
        /\ q.quem # "permissao" => pedido.rota.escreve

\* The second pair is tried after the first was refused.
ParInv ==
    par = 2 =>
        /\ passo \in 1..4 /\ config.ordem[passo] = "Permissao" /\ claims # Vazio
        /\ claims.canal = Vazio =>
              \E q \in perguntas : q.quem = "permissao" /\ q.acao = config.pares[1] /\ q.sabe # "sim"

\* A derived token is bounded by the claims it comes from.
DerivadoInv ==
    origem # Vazio =>
        /\ origem \in [claims : Credencial, quando : Nat]
        /\ origem.claims.assinado /\ origem.claims.tipo # "refresh"
        /\ origem.claims.canal = Vazio /\ origem.claims.suporte = Vazio
        /\ pedido.token.empresa = origem.claims.empresa
        /\ pedido.token.exp = IF origem.claims.exp > 0 /\ origem.claims.exp < origem.quando + Duracao
                              THEN origem.claims.exp ELSE origem.quando + Duracao

AuthState ==
    /\ agora \in Nat /\ quandoLidas \in Nat
    /\ config \in Configs
    /\ pedido \in [rota : Rotas, token : Credencial, via : Vias, eco : BOOLEAN]
    /\ passo \in 0..5 /\ par \in {1, 2}
    /\ resposta \in {0, 200, 401, 402, 403, 500} /\ (resposta = 200 <=> passo = 5)

AuthInv ==
    /\ AuthState /\ ClaimsInv /\ PerguntasInv /\ GuardasInv /\ ParInv /\ DerivadoInv
    /\ RecusaTemMotivo

LEMMA AuthInvInit == AmbienteInit /\ AuthInit => AuthInv
<1> SUFFICES ASSUME AmbienteInit, AuthInit PROVE AuthInv
  OBVIOUS
<1>1. AuthState
  BY TokensAreCredentials DEF AmbienteInit, AuthInit, AuthState, PedidosPossiveis
<1>2. ClaimsInv /\ PerguntasInv /\ ParInv /\ DerivadoInv /\ RecusaTemMotivo
  BY DEF AuthInit, ClaimsInv, PerguntasInv, ParInv, DerivadoInv, RecusaTemMotivo
<1>3. GuardasInv
  BY DEF AuthInit, GuardasInv
<1>4. QED
  BY <1>1, <1>2, <1>3 DEF AuthInv

\* The bearer token that a request brings, if it can be authenticated at all.
LEMMA OwnToken ==
    ASSUME AuthState
    PROVE  /\ BearerDoRequest(pedido) = TokenAutenticado(pedido)
           /\ pedido.via # "esquema" => TokenAutenticado(pedido) = pedido.token
           /\ pedido.via = "esquema" => \A t : ~Valido(TokenAutenticado(pedido), t)
           /\ TokenAutenticado(pedido) \in Credencial /\ pedido.token # Vazio
<1>1. BearerDoRequest(pedido) = TokenAutenticado(pedido)
  BY DEF BearerDoRequest, TokenAutenticado
<1>2. pedido.token \in Credencial /\ pedido.via \in {"cabecalho", "cookie", "esquema"}
  BY DEF AuthState, Vias
<1>3. pedido.token # Vazio /\ Esquema # Vazio /\ Esquema \in Credencial
  BY <1>2, AuthAssumption, TokensAreCredentials
<1>4. CASE pedido.via = "cabecalho"
  BY <1>1, <1>2, <1>3, <1>4 DEF TokenAutenticado, Cabecalho
<1>5. CASE pedido.via = "cookie"
  BY <1>1, <1>2, <1>3, <1>5 DEF TokenAutenticado, Cabecalho, Cookie
<1>6. CASE pedido.via = "esquema"
  <2>1. TokenAutenticado(pedido) = Esquema
    BY <1>3, <1>6 DEF TokenAutenticado, Cabecalho
  <2>2. ~Esquema.assinado
    <3>1. Comum(0, Vazio) \in Credencial
      BY DEF Comum, Token, Credencial
    <3>2. QED
      BY <3>1 DEF Esquema, Credencial
  <2>3. QED
    BY <1>1, <1>3, <1>6, <2>1, <2>2 DEF Valido
<1>7. QED
  BY <1>2, <1>4, <1>5, <1>6

\* A guard that lets pass, or one that refuses, without touching the claims.
LEMMA LetsPass ==
    ASSUME AuthInv, SegueSem, Nada, resposta = 0, perguntas \subseteq perguntas', PerguntasInv',
           NEW k \in 0..4, k = passo,
           passo = 0 => pedido.rota.metodo = "GET" \/ pedido.via = "cabecalho" \/ pedido.eco,
           k # 0 => Cumprida(k)'
    PROVE  AuthInv'
<1>1. /\ passo' = passo + 1 /\ par' = 1 /\ resposta' = (IF passo = Len(config.ordem) THEN 200 ELSE 0)
      /\ UNCHANGED <<claims, quandoLidas, agora, config, pedido, origem>>
  BY DEF SegueSem, Segue, Nada
<1>2. Len(config.ordem) = 4
  BY Configurations DEF AuthInv, AuthState, EmOrdem
<1>3. AuthState'
  BY <1>1, <1>2 DEF AuthInv, AuthState
<1>4. ClaimsInv' /\ DerivadoInv' /\ ParInv'
  BY <1>1 DEF AuthInv, ClaimsInv, DerivadoInv, ParInv
<1>5. RecusaTemMotivo'
  BY <1>1 DEF RecusaTemMotivo
<1>6. GuardasInv'
  <2>1. ASSUME NEW i \in 1..4, i < passo PROVE Cumprida(i)'
    <3>1. Cumprida(i)
      BY <2>1 DEF AuthInv, GuardasInv
    <3>2. QED
      BY <1>1, <3>1 DEF Cumprida
  <2>2. ASSUME NEW i \in 1..4, i < passo' PROVE Cumprida(i)'
    <3>1. i < passo \/ (k # 0 /\ i = k)
      BY <1>1, <2>2
    <3>2. QED
      BY <2>1, <3>1
  <2>3. passo' # 0 => (pedido.rota.metodo = "GET" \/ pedido.via = "cabecalho" \/ pedido.eco)'
    BY <1>1 DEF AuthInv, GuardasInv
  <2>4. QED
    BY <2>2, <2>3 DEF GuardasInv
<1>7. QED
  BY <1>3, <1>4, <1>5, <1>6 DEF AuthInv

LEMMA Refuses ==
    ASSUME AuthInv, NEW status \in {401, 402, 403, 500}, Recusa(status), Nada, resposta = 0,
           perguntas \subseteq perguntas', PerguntasInv', RecusaTemMotivo'
    PROVE  AuthInv'
<1>1. resposta' = status /\ UNCHANGED <<passo, par, claims, quandoLidas, agora, config, pedido, origem>>
  BY DEF Recusa, Nada
<1>2. AuthState' /\ ClaimsInv' /\ DerivadoInv'
  BY <1>1 DEF AuthInv, AuthState, ClaimsInv, DerivadoInv
<1>3. ParInv'
  BY <1>1 DEF AuthInv, ParInv
<1>4. GuardasInv'
  <2>1. \A i \in 1..4 : Cumprida(i) => Cumprida(i)'
    BY <1>1 DEF Cumprida
  <2>2. QED
    BY <1>1, <2>1 DEF AuthInv, GuardasInv
<1>5. QED
  BY <1>2, <1>3, <1>4 DEF AuthInv

\* The reasons of a 403.
Recusavel ==
    \/ pedido.token.suporte # Vazio \/ pedido.token.canal # Vazio
    \/ pedido.token.empresa = Vazio
    \/ \E i \in DOMAIN pedido.rota.partes : pedido.rota.partes[i] \in Empresas \ {pedido.token.empresa}
    \/ pedido.via # "cabecalho" /\ ~pedido.eco
    \/ \A a \in {"editar", "visualizar"} :
          \E q \in perguntas : q.quem = "permissao" /\ q.acao = a /\ q.sabe # "sim"

Qualquer == config = Config(Ordem, "qualquer", <<"editar", "visualizar">>, FALSE, TRUE)

LEMMA Motive403 ==
    ASSUME resposta' = 403, Qualquer' => Recusavel'
    PROVE  RecusaTemMotivo'
<1>1. resposta' # 401 /\ resposta' # 402
  OBVIOUS
<1>2. QED
  BY <1>1, Zenon DEF RecusaTemMotivo, Recusavel, Qualquer

LEMMA CSRFKeeps == AuthInv /\ CSRFGuard => AuthInv'
<1> SUFFICES ASSUME AuthInv, CSRFGuard PROVE AuthInv'
  OBVIOUS
<1>1. resposta = 0 /\ passo = 0 /\ Nada /\ perguntas' = perguntas
  BY DEF CSRFGuard
<1>2. CASE MetodoSeguro(pedido.rota) \/ pedido.via = "cabecalho" \/ pedido.eco
  <2>1. SegueSem
    BY <1>2 DEF CSRFGuard
  <2>2. PerguntasInv'
    BY <1>1, <2>1 DEF AuthInv, PerguntasInv, SegueSem, Nada
  <2>3. QED
    BY <1>1, <1>2, <2>1, <2>2, LetsPass DEF MetodoSeguro
<1>3. CASE ~(MetodoSeguro(pedido.rota) \/ pedido.via = "cabecalho" \/ pedido.eco)
  <2>1. Recusa(403)
    BY <1>3 DEF CSRFGuard
  <2>2. PerguntasInv'
    BY <1>1, <2>1 DEF AuthInv, PerguntasInv, Recusa, Nada
  <2>3. RecusaTemMotivo'
    <3>1. resposta' = 403 /\ pedido'.via # "cabecalho" /\ ~pedido'.eco
      BY <1>1, <1>3, <2>1 DEF Recusa, Nada
    <3>2. QED
      BY <3>1, Motive403 DEF Recusavel
  <2>4. QED
    BY <1>1, <2>1, <2>2, <2>3, Refuses
<1>4. QED
  BY <1>2, <1>3

\* What Autenticacao and ValidarToken look at before they let a token pass.
LEMMA Accepted ==
    ASSUME config \in Configs, NEW tk \in Credencial
    PROVE  /\ Autenticacao(tk) \in {200, 401, 403, 500} /\ ValidarToken(tk) \in {200, 401}
           /\ Autenticacao(tk) \in {200, 403} \/ ValidarToken(tk) = 200 => Valido(tk, agora) /\ tk.usuario
           /\ Autenticacao(tk) = 200 =>
                 /\ tk.suporte # Vazio =>
                       /\ tk.empresa = tk.suporte /\ tk.sessao
                       /\ EhRequisicaoDeLeitura(pedido.rota) \/ SuportePodeEscrever(tk, agora)
                 /\ tk.canal # Vazio => ~CanalRecusado(tk, pedido.rota)
           /\ Autenticacao(tk) = 403 => tk.suporte # Vazio \/ tk.canal # Vazio
           /\ Autenticacao(tk) = 401 => ~Valido(tk, agora) \/ ~tk.usuario
<1>1. config.segredo \in BOOLEAN /\ tk.usuario \in BOOLEAN /\ Valido(tk, agora) \in BOOLEAN
  BY Configurations DEF Valido, Credencial
<1>2. CASE ~config.segredo
  <2>1. Autenticacao(tk) = 500
    BY <1>2 DEF Autenticacao
  <2>2. QED
    BY <1>2, <2>1 DEF ValidarToken
<1>3. CASE config.segredo /\ (~Valido(tk, agora) \/ ~tk.usuario)
  <2>1. Autenticacao(tk) = 401
    BY <1>1, <1>3 DEF Autenticacao
  <2>2. QED
    BY <1>3, <2>1 DEF ValidarToken
<1>4. CASE config.segredo /\ Valido(tk, agora) /\ tk.usuario
  <2> DEFINE Nega == \/ /\ tk.suporte # Vazio
                        /\ \/ tk.empresa # tk.suporte \/ ~tk.sessao
                           \/ ~EhRequisicaoDeLeitura(pedido.rota) /\ ~SuportePodeEscrever(tk, agora)
                     \/ tk.canal # Vazio /\ CanalRecusado(tk, pedido.rota)
  <2>1. Autenticacao(tk) = IF Nega THEN 403 ELSE 200
    BY <1>1, <1>4 DEF Autenticacao
  <2>2. ValidarToken(tk) \in {200, 401}
    BY DEF ValidarToken
  <2>3. QED
    BY <1>4, <2>1, <2>2
<1>5. QED
  BY <1>1, <1>2, <1>3, <1>4

LEMMA AutenticaKeeps == AuthInv /\ Autentica => AuthInv'
<1> SUFFICES ASSUME AuthInv, Autentica PROVE AuthInv'
  OBVIOUS
<1> DEFINE tk == TokenAutenticado(pedido)
           status == IF config.proprio THEN ValidarToken(tk) ELSE Autenticacao(tk)
<1>1. /\ resposta = 0 /\ passo \in 1..Len(config.ordem) /\ config.ordem[passo] = "Autenticacao"
      /\ Nada /\ perguntas' = perguntas
  BY DEF Autentica, Vez
<1>2. /\ config \in Configs /\ config.proprio \in BOOLEAN /\ Len(config.ordem) = 4 /\ passo \in 1..4
      /\ tk \in Credencial
  BY <1>1, Configurations, OwnToken DEF AuthInv, AuthState, EmOrdem
<1>3. IF status = 200 THEN Segue /\ claims' = tk /\ quandoLidas' = agora ELSE Recusa(status)
  BY DEF Autentica
<1>4. CASE status = 200
  <2>1. Segue /\ claims' = tk /\ quandoLidas' = agora
    BY <1>3, <1>4
  <2>2. Valido(tk, agora) /\ tk.usuario
    BY <1>2, <1>4, Accepted
  <2>3. tk = pedido.token /\ tk # Vazio
    BY <2>2, OwnToken DEF AuthInv
  <2>4. claims = Vazio \/ claims' = claims
    BY <2>1 DEF AuthInv, ClaimsInv
  <2>5. /\ passo' = passo + 1 /\ par' = 1 /\ resposta' = (IF passo = 4 THEN 200 ELSE 0)
        /\ UNCHANGED <<agora, config, pedido, origem>>
    BY <1>1, <1>2, <2>1 DEF Segue, Nada
  <2>6. AuthState'
    BY <1>2, <2>1, <2>5 DEF AuthInv, AuthState
  <2>7. ClaimsInv'
    <3>1. /\ claims' = pedido'.token /\ claims' = TokenAutenticado(pedido)'
          /\ claims'.usuario /\ Valido(claims, quandoLidas)'
      BY <2>1, <2>2, <2>3, <2>5 DEF TokenAutenticado, Cabecalho, Cookie
    <3>2. ~config.proprio => Autenticacao(tk) = 200
      BY <1>4
    <3>3. QED
      BY <1>2, <2>1, <2>5, <3>1, <3>2, Accepted DEF ClaimsInv
  <2>8. PerguntasInv'
    BY <1>1, <2>4, <2>5 DEF AuthInv, PerguntasInv
  <2>9. GuardasInv'
    <3>1. ASSUME NEW i \in 1..4, i < passo PROVE Cumprida(i)'
      <4>1. Cumprida(i) /\ \A j \in 1..(i - 1) : Cumprida(j)
        BY <1>2, <3>1 DEF AuthInv, GuardasInv
      <4>2. CASE claims' = claims
        BY <1>1, <2>5, <4>1, <4>2 DEF Cumprida
      <4>3. CASE claims = Vazio
        <5>1. ~\E j \in 1..(i - 1) : config.ordem[j] = "Autenticacao"
          BY <4>1, <4>3 DEF Cumprida
        <5>2. QED
          BY <1>1, <2>1, <2>3, <2>5, <4>1, <4>3, <5>1 DEF Cumprida
      <4>4. QED
        BY <2>4, <4>2, <4>3
    <3>2. ASSUME NEW i \in 1..4, i = passo PROVE Cumprida(i)'
      BY <1>1, <2>1, <2>3, <2>5, <3>2 DEF Cumprida
    <3>3. \A i \in 1..4 : i < passo' => i < passo \/ i = passo
      BY <1>2, <2>5
    <3>4. passo # 0
      BY <1>2
    <3>5. QED
      BY <2>5, <3>1, <3>2, <3>3, <3>4 DEF AuthInv, GuardasInv
  <2>10. ParInv' /\ DerivadoInv' /\ RecusaTemMotivo'
    BY <2>5 DEF AuthInv, ParInv, DerivadoInv, RecusaTemMotivo
  <2>11. QED
    BY <2>6, <2>7, <2>8, <2>9, <2>10 DEF AuthInv
<1>5. CASE status # 200
  <2>1. Recusa(status) /\ status \in {401, 403, 500}
    BY <1>2, <1>3, <1>5, Accepted
  <2>2. PerguntasInv'
    BY <1>1, <2>1 DEF AuthInv, PerguntasInv, Recusa, Nada
  <2>3. resposta' = status /\ UNCHANGED <<agora, config, pedido, passo, claims, perguntas>>
    BY <1>1, <2>1 DEF Recusa, Nada
  <2>4. status = 401 => ~Valido(pedido.token, agora) \/ ~pedido.token.usuario \/ pedido.via = "esquema" \/ config.proprio
    BY <1>2, Accepted, OwnToken DEF AuthInv
  <2>5. status = 403 => pedido.token.suporte # Vazio \/ pedido.token.canal # Vazio
    <3>1. SUFFICES ASSUME status = 403 PROVE pedido.token.suporte # Vazio \/ pedido.token.canal # Vazio
      OBVIOUS
    <3>2. Autenticacao(tk) = 403
      BY <1>2, <3>1, Accepted
    <3>3. QED
      BY <1>2, <3>2, Accepted, OwnToken DEF AuthInv
  <2> HIDE DEF status, tk
  <2>6. RecusaTemMotivo'
    <3>1. CASE status = 401
      <4>1. resposta' # 402 /\ resposta' # 403
        BY <2>3, <3>1
      <4>2. ~Valido(pedido.token, agora)' \/ ~pedido'.token.usuario \/ pedido'.via = "esquema" \/ config'.proprio
        BY <2>3, <2>4, <3>1
      <4>3. QED
        BY <4>1, <4>2, Zenon DEF RecusaTemMotivo
    <3>2. CASE status = 403
      BY <2>3, <2>5, <3>2, Motive403 DEF Recusavel
    <3>3. CASE status = 500
      BY <2>3, <3>3 DEF RecusaTemMotivo
    <3>4. QED
      BY <2>1, <3>1, <3>2, <3>3
  <2>7. QED
    BY <1>1, <2>1, <2>2, <2>6, Refuses
<1>6. QED
  BY <1>4, <1>5

LEMMA TenantKeeps == AuthInv /\ TenantGuard => AuthInv'
<1> SUFFICES ASSUME AuthInv, TenantGuard PROVE AuthInv'
  OBVIOUS
<1> DEFINE empresa == EmpresaDoPath(pedido.rota.partes)
<1>1. /\ resposta = 0 /\ passo \in 1..Len(config.ordem) /\ config.ordem[passo] = "TenantGuard"
      /\ Nada /\ perguntas' = perguntas
  BY DEF TenantGuard, Vez
<1>2. Len(config.ordem) = 4 /\ passo \in 1..4 /\ pedido.rota \in Rotas
  BY <1>1, Configurations DEF AuthInv, AuthState, EmOrdem
<1>3. CASE SegueSem /\ (empresa # Vazio => claims # Vazio /\ claims.empresa = empresa)
  <2>1. PerguntasInv'
    BY <1>1, <1>3 DEF AuthInv, PerguntasInv, SegueSem, Nada
  <2>2. ASSUME NEW k \in 0..4, k = passo PROVE Cumprida(k)'
    BY <1>1, <1>3, <2>2 DEF Cumprida, SegueSem, Nada
  <2>3. QED
    BY <1>1, <1>2, <1>3, <2>1, <2>2, LetsPass
<1>4. CASE /\ empresa # Vazio
           /\ \/ claims = Vazio /\ Recusa(401)
              \/ claims # Vazio /\ claims.empresa # empresa /\ Recusa(403)
  <2>1. PerguntasInv'
    BY <1>1, <1>4 DEF AuthInv, PerguntasInv, Recusa, Nada
  <2>2. UNCHANGED <<agora, config, pedido, passo, claims, perguntas>> /\ resposta' \in {401, 403}
    BY <1>1, <1>4 DEF Recusa, Nada
  <2>3. CASE resposta' = 401
    <3>1. claims' = Vazio /\ config'.ordem[passo'] # "Autenticacao"
      BY <1>1, <1>4, <2>2, <2>3 DEF Recusa
    <3>2. RecusaTemMotivo'
      BY <2>3, <3>1 DEF RecusaTemMotivo
    <3>3. QED
      BY <1>1, <1>4, <2>1, <3>2, Refuses
  <2>4. CASE resposta' = 403
    <3>1. claims # Vazio /\ claims.empresa # empresa
      BY <1>4, <2>4 DEF Recusa
    <3>2. claims = pedido.token
      BY <3>1 DEF AuthInv, ClaimsInv
    <3>3. \E i \in DOMAIN pedido.rota.partes : pedido.rota.partes[i] \in Empresas \ {pedido.token.empresa}
      BY <1>2, <1>4, <3>1, <3>2, Routes
    <3>4. RecusaTemMotivo'
      BY <2>2, <2>4, <3>3, Motive403 DEF Recusavel
    <3>5. QED
      BY <1>1, <1>4, <2>1, <3>4, Refuses
  <2>5. QED
    BY <2>2, <2>3, <2>4
<1>5. QED
  BY <1>3, <1>4 DEF TenantGuard

\* A question that is asked while the claims stay as they are.
LEMMA Asked ==
    ASSUME AuthInv, Nada, claims' = claims, claims # Vazio,
           NEW quem, NEW acao, NEW sabe \in Respostas, Pergunta(quem, acao, sabe),
           quem = "permissao" => CanalPermiteAcao(claims, acao),
           quem # "permissao" => pedido.rota.escreve
    PROVE  /\ perguntas \subseteq perguntas' /\ PerguntasInv'
           /\ \E q \in perguntas' : q.quem = quem /\ q.acao = acao /\ q.sabe = sabe
<1> DEFINE q0 == [quem |-> quem, acao |-> acao, sabe |-> sabe,
                  sessao |-> IF config.tipo = "local" THEN claims ELSE BearerDoRequest(pedido), empresa |-> claims.empresa]
<1>1. perguntas' = perguntas \cup {q0}
  BY DEF Pergunta
<1>2. BearerDoRequest(pedido) = claims
  BY OwnToken DEF AuthInv, ClaimsInv
<1>3. q0.quem = quem /\ q0.acao = acao /\ q0.sabe = sabe /\ q0.sessao = claims /\ q0.empresa = claims.empresa
  BY <1>2
<1> HIDE DEF q0
<1>4. pedido' = pedido
  BY DEF Nada
<1>5. PerguntasInv'
  BY <1>1, <1>3, <1>4 DEF AuthInv, PerguntasInv
<1>6. QED
  BY <1>1, <1>3, <1>5

LEMMA SemPerguntaKeeps == AuthInv /\ PermissaoSemPergunta => AuthInv'
<1> SUFFICES ASSUME AuthInv, PermissaoSemPergunta PROVE AuthInv'
  OBVIOUS
<1>1. /\ resposta = 0 /\ passo \in 1..Len(config.ordem) /\ config.ordem[passo] = "Permissao"
      /\ Nada /\ perguntas' = perguntas
  BY DEF PermissaoSemPergunta, Vez
<1>2. CASE claims = Vazio /\ Recusa(401)
  <2>1. PerguntasInv' /\ claims' = Vazio /\ config'.ordem[passo'] # "Autenticacao" /\ resposta' = 401
    BY <1>1, <1>2 DEF AuthInv, PerguntasInv, Recusa, Nada
  <2>2. RecusaTemMotivo'
    BY <2>1 DEF RecusaTemMotivo
  <2>3. QED
    BY <1>1, <1>2, <2>1, <2>2, Refuses
<1>3. CASE claims # Vazio /\ (claims.empresa = Vazio \/ par > Len(config.pares)) /\ Recusa(403)
  <2>1. PerguntasInv' /\ UNCHANGED <<config, pedido>> /\ resposta' = 403
    BY <1>1, <1>3 DEF AuthInv, PerguntasInv, Recusa, Nada
  <2>2. ASSUME Qualquer PROVE pedido.token.empresa = Vazio
    <3>1. config.pares = <<"editar", "visualizar">>
      BY <2>2 DEF Qualquer, Config
    <3>2. Len(config.pares) = 2
      BY <3>1
    <3>3. par \in {1, 2} /\ claims = pedido.token
      BY <1>3 DEF AuthInv, AuthState, ClaimsInv
    <3>4. QED
      BY <1>3, <3>2, <3>3
  <2>3. Qualquer' => Qualquer /\ pedido' = pedido
    BY <2>1 DEF Qualquer
  <2>4. RecusaTemMotivo'
    BY <2>1, <2>2, <2>3, Motive403 DEF Recusavel
  <2>5. QED
    BY <1>1, <1>3, <2>1, <2>4, Refuses
<1>4. QED
  BY <1>2, <1>3 DEF PermissaoSemPergunta

LEMMA PermissaoKeeps == AuthInv /\ Permissao => AuthInv'
<1> SUFFICES ASSUME AuthInv, Permissao PROVE AuthInv'
  OBVIOUS
<1> DEFINE acao == config.pares[par]
           Proximo == IF par < Len(config.pares)
                      THEN par' = par + 1 /\ UNCHANGED <<passo, resposta, claims, quandoLidas>>
                      ELSE Recusa(403)
<1>1. /\ resposta = 0 /\ passo \in 1..Len(config.ordem) /\ config.ordem[passo] = "Permissao" /\ Nada
      /\ claims # Vazio /\ claims.empresa # Vazio /\ par <= Len(config.pares)
  BY DEF Permissao, Vez
<1>2. /\ config \in Configs /\ Len(config.ordem) = 4 /\ passo \in 1..4 /\ par \in {1, 2}
      /\ Len(config.pares) \in {0, 1, 2} /\ claims = pedido.token
  BY <1>1, Configurations DEF AuthInv, AuthState, EmOrdem, ClaimsInv
<1>3. \/ /\ CanalPermiteAcao(claims, acao)
         /\ \E sabe \in Respostas :
               Pergunta("permissao", acao, sabe) /\ IF sabe = "sim" THEN SegueSem ELSE Proximo
      \/ ~CanalPermiteAcao(claims, acao) /\ Proximo /\ perguntas' = perguntas
  BY DEF Permissao
<1>4. CASE /\ CanalPermiteAcao(claims, acao)
           /\ Pergunta("permissao", acao, "sim") /\ SegueSem
  <2>1. claims' = claims /\ config' = config /\ pedido' = pedido
    BY <1>1, <1>4 DEF SegueSem, Nada
  <2>2. /\ perguntas \subseteq perguntas' /\ PerguntasInv'
        /\ \E q \in perguntas' : q.quem = "permissao" /\ q.sabe = "sim"
    BY <1>1, <1>4, <2>1, Asked DEF Respostas
  <2>3. ASSUME NEW k \in 0..4, k = passo PROVE Cumprida(k)'
    BY <1>1, <2>1, <2>2, <2>3 DEF Cumprida
  <2>4. QED
    BY <1>1, <1>2, <1>4, <2>2, <2>3, LetsPass
\* The pair did not grant it: the next one, or a refusal.
<1>5. CASE /\ perguntas \subseteq perguntas' /\ PerguntasInv' /\ Proximo
           /\ claims.canal = Vazio => \E q \in perguntas' : q.quem = "permissao" /\ q.acao = acao /\ q.sabe # "sim"
  <2>1. UNCHANGED <<agora, config, pedido, origem, passo, claims, quandoLidas>>
    BY <1>1, <1>5 DEF Nada, Recusa
  <2>2. CASE par < Len(config.pares)
    <3>1. par = 1 /\ par' = 2 /\ resposta' = 0
      <4>1. \A n \in {0, 1, 2} : par < n => par = 1
        BY <1>2
      <4>2. par = 1
        BY <1>2, <2>2, <4>1
      <4>3. par' = par + 1 /\ resposta' = resposta
        BY <1>5, <2>2
      <4>4. QED
        BY <1>1, <4>2, <4>3
    <3>2. AuthState' /\ ClaimsInv' /\ DerivadoInv'
      BY <1>1, <2>1, <3>1 DEF AuthInv, AuthState, ClaimsInv, DerivadoInv
    <3>3. ParInv'
      BY <1>1, <1>2, <1>5, <2>1, <3>1 DEF ParInv
    <3>4. GuardasInv'
      <4>1. \A i \in 1..4 : Cumprida(i) => Cumprida(i)'
        BY <1>5, <2>1 DEF Cumprida
      <4>2. QED
        BY <2>1, <4>1 DEF AuthInv, GuardasInv
    <3>5. RecusaTemMotivo'
      BY <3>1 DEF RecusaTemMotivo
    <3>6. QED
      BY <1>5, <3>2, <3>3, <3>4, <3>5 DEF AuthInv
  <2>3. CASE ~(par < Len(config.pares))
    <3>1. Recusa(403)
      BY <1>5, <2>3
    <3>2. ASSUME Qualquer, claims.canal = Vazio, NEW a \in {"editar", "visualizar"}
          PROVE  \E q \in perguntas' : q.quem = "permissao" /\ q.acao = a /\ q.sabe # "sim"
      <4>1. config.pares = <<"editar", "visualizar">>
        BY <3>2 DEF Qualquer, Config
      <4>2. Len(config.pares) = 2 /\ config.pares[1] = "editar" /\ config.pares[2] = "visualizar"
        BY <4>1
      <4>3. par = 2
        BY <1>2, <2>3, <4>2
      <4>4. \E q \in perguntas : q.quem = "permissao" /\ q.acao = "editar" /\ q.sabe # "sim"
        BY <3>2, <4>2, <4>3 DEF AuthInv, ParInv
      <4>5. QED
        BY <1>5, <3>2, <4>2, <4>3, <4>4
    <3>3. Qualquer' => Qualquer
      BY <2>1 DEF Qualquer
    <3>4. resposta' = 403
      BY <3>1 DEF Recusa
    <3>5. RecusaTemMotivo'
      BY <1>2, <2>1, <3>2, <3>3, <3>4, Motive403 DEF Recusavel
    <3>6. QED
      BY <1>1, <1>5, <3>1, <3>5, Refuses
  <2>4. QED
    BY <2>2, <2>3
<1>6. CASE \E sabe \in Respostas \ {"sim"} : CanalPermiteAcao(claims, acao) /\ Pergunta("permissao", acao, sabe) /\ Proximo
  <2>1. PICK sabe \in Respostas \ {"sim"} : CanalPermiteAcao(claims, acao) /\ Pergunta("permissao", acao, sabe) /\ Proximo
    BY <1>6
  <2>2. claims' = claims
    BY <2>1 DEF Recusa
  <2>3. /\ perguntas \subseteq perguntas' /\ PerguntasInv'
        /\ \E q \in perguntas' : q.quem = "permissao" /\ q.acao = acao /\ q.sabe = sabe
    BY <1>1, <2>1, <2>2, Asked
  <2>4. QED
    BY <1>5, <2>1, <2>3
<1>7. CASE ~CanalPermiteAcao(claims, acao) /\ Proximo /\ perguntas' = perguntas
  <2>1. claims' = claims /\ pedido' = pedido
    BY <1>1, <1>7 DEF Recusa, Nada
  <2>2. PerguntasInv'
    BY <1>7, <2>1 DEF AuthInv, PerguntasInv
  <2>3. claims.canal # Vazio
    BY <1>7 DEF CanalPermiteAcao
  <2>4. QED
    BY <1>5, <1>7, <2>2, <2>3
<1>8. QED
  BY <1>3, <1>4, <1>6, <1>7

LEMMA ContratoKeeps == AuthInv /\ Contrato => AuthInv'
<1> SUFFICES ASSUME AuthInv, Contrato PROVE AuthInv'
  OBVIOUS
<1>1. resposta = 0 /\ passo \in 1..Len(config.ordem) /\ config.ordem[passo] = "Contrato" /\ Nada
  BY DEF Contrato, Vez
<1>2. /\ config \in Configs /\ Len(config.ordem) = 4 /\ passo \in 1..4 /\ pedido.rota \in Rotas
  BY <1>1, Configurations DEF AuthInv, AuthState, EmOrdem
<1>3. CASE ContratoSemPergunta /\ SegueSem /\ perguntas' = perguntas
  <2>1. PerguntasInv' /\ UNCHANGED <<claims, config, pedido>>
    BY <1>1, <1>3 DEF AuthInv, PerguntasInv, SegueSem, Nada
  <2>2. ASSUME NEW k \in 0..4, k = passo PROVE Cumprida(k)'
    <3>1. CASE EhRequisicaoDeLeitura(pedido.rota) \/ pedido.rota.liberada
      BY <1>1, <1>2, <2>1, <2>2, <3>1, Routes DEF Cumprida
    <3>2. CASE claims # Vazio /\ claims.empresa = Vazio
      BY <1>1, <2>1, <2>2, <3>2 DEF Cumprida
    <3>3. CASE claims = Vazio
      <4>1. ~\E j \in 1..(k - 1) : config.ordem[j] = "Autenticacao"
        BY <1>2, <2>2, <3>3 DEF AuthInv, GuardasInv, Cumprida
      <4>2. QED
        BY <1>1, <2>1, <2>2, <4>1 DEF Cumprida
    <3>4. QED
      BY <1>3, <3>1, <3>2, <3>3 DEF ContratoSemPergunta
  <2>3. QED
    BY <1>1, <1>2, <1>3, <2>1, <2>2, LetsPass
<1>4. CASE /\ ~ContratoSemPergunta
           /\ \E sabe \in Respostas : Pergunta("contrato", Vazio, sabe) /\ IF sabe = "nao" THEN Recusa(402) ELSE SegueSem
  <2>1. PICK sabe \in Respostas : Pergunta("contrato", Vazio, sabe) /\ IF sabe = "nao" THEN Recusa(402) ELSE SegueSem
    BY <1>4
  <2>2. pedido.rota.escreve /\ ~pedido.rota.liberada /\ claims # Vazio
    BY <1>2, <1>4, Routes DEF ContratoSemPergunta
  <2>3. UNCHANGED <<claims, config, pedido>>
    BY <1>1, <2>1 DEF SegueSem, Recusa, Nada
  <2>4. /\ perguntas \subseteq perguntas' /\ PerguntasInv'
        /\ \E q \in perguntas' : q.quem = "contrato" /\ q.sabe = sabe
    BY <1>1, <2>1, <2>2, <2>3, Asked
  <2>5. CASE sabe = "nao"
    <3>1. Recusa(402) /\ resposta' = 402
      BY <2>1, <2>5 DEF Recusa
    <3>2. resposta' # 401 /\ resposta' # 403
      BY <3>1
    <3>3. pedido'.rota.escreve /\ ~pedido'.rota.liberada /\ claims' # Vazio
      BY <2>2, <2>3
    <3>4. \E q \in perguntas' : q.quem = "contrato" /\ q.sabe = "nao"
      BY <2>4, <2>5
    <3>5. RecusaTemMotivo'
      BY <3>2, <3>3, <3>4, Zenon DEF RecusaTemMotivo
    <3>6. QED
      BY <1>1, <2>4, <3>1, <3>5, Refuses
  <2>6. CASE sabe # "nao"
    <3>1. ASSUME NEW k \in 0..4, k = passo PROVE Cumprida(k)'
      BY <1>1, <2>3, <2>4, <2>6, <3>1 DEF Cumprida
    <3>2. QED
      BY <1>1, <1>2, <2>1, <2>4, <2>6, <3>1, LetsPass
  <2>7. QED
    BY <2>5, <2>6
<1>5. QED
  BY <1>3, <1>4 DEF Contrato

LEMMA DerivaKeeps == AuthInv /\ DerivarTokenAssistente => AuthInv'
<1> SUFFICES ASSUME AuthInv, DerivarTokenAssistente PROVE AuthInv'
  OBVIOUS
<1>1. /\ claims # Vazio /\ PodeDerivar(claims) /\ origem' = [claims |-> claims, quando |-> agora]
      /\ passo' = 0 /\ par' = 1 /\ claims' = Vazio /\ resposta' = 0 /\ quandoLidas' = 0 /\ perguntas' = {}
      /\ UNCHANGED <<agora, config>>
  BY DEF DerivarTokenAssistente
<1>2. PICK r \in Rotas :
         pedido' = [rota |-> r, via |-> "cabecalho", eco |-> FALSE,
                    token |-> Token(TRUE, "access", Expira(claims), TRUE, claims.empresa, Vazio, FALSE, 0, "ia")]
  BY DEF DerivarTokenAssistente
<1>3. claims \in Credencial /\ Valido(claims, quandoLidas) /\ agora \in Nat
  BY <1>1 DEF AuthInv, AuthState, ClaimsInv
<1>4. Expira(claims) \in Nat
  BY <1>3, AuthAssumption DEF Expira, Credencial
<1> DEFINE tk == Token(TRUE, "access", Expira(claims), TRUE, claims.empresa, Vazio, FALSE, 0, "ia")
<1>5. tk \in Credencial /\ tk.empresa = claims.empresa /\ tk.exp = Expira(claims)
  BY <1>3, <1>4 DEF Token, Credencial
<1> HIDE DEF tk
<1>6. pedido' \in [rota : Rotas, token : Credencial, via : Vias, eco : BOOLEAN] /\ pedido'.token = tk
  BY <1>2, <1>5 DEF Vias, tk
<1>7. AuthState'
  BY <1>1, <1>6 DEF AuthInv, AuthState
<1>8. ClaimsInv' /\ PerguntasInv' /\ ParInv' /\ RecusaTemMotivo'
  BY <1>1 DEF ClaimsInv, PerguntasInv, ParInv, RecusaTemMotivo
<1>9. GuardasInv'
  BY <1>1 DEF GuardasInv
<1>10. DerivadoInv'
  <2>1. /\ claims.assinado /\ claims.tipo # "refresh" /\ claims.canal = Vazio /\ claims.suporte = Vazio
    BY <1>1, <1>3 DEF Valido, PodeDerivar
  <2>2. origem'.claims = claims /\ origem'.quando = agora /\ origem' \in [claims : Credencial, quando : Nat]
    BY <1>1, <1>3
  <2>3. QED
    BY <1>1, <1>5, <1>6, <2>1, <2>2 DEF DerivadoInv, Expira
<1>11. QED
  BY <1>7, <1>8, <1>9, <1>10 DEF AuthInv

\* Only time goes by.
LEMMA AuthStays == AuthInv /\ UNCHANGED authProprias /\ agora' \in Nat /\ agora' >= agora => AuthInv'
<1> SUFFICES ASSUME AuthInv, UNCHANGED authProprias, agora' \in Nat, agora' >= agora PROVE AuthInv'
  OBVIOUS
<1>1. UNCHANGED <<config, pedido, passo, par, claims, resposta, quandoLidas, perguntas, origem>>
  BY DEF authProprias
<1>2. AuthState' /\ PerguntasInv' /\ ParInv' /\ DerivadoInv'
  <2>1. AuthState'
    BY <1>1 DEF AuthInv, AuthState
  <2>2. PerguntasInv' /\ ParInv'
    BY <1>1 DEF AuthInv, PerguntasInv, ParInv
  <2>3. DerivadoInv'
    BY <1>1 DEF AuthInv, DerivadoInv
  <2>4. QED
    BY <2>1, <2>2, <2>3
<1>3. GuardasInv'
  BY <1>1 DEF AuthInv, GuardasInv, Cumprida
<1>4. ~Valido(pedido.token, agora) => ~Valido(pedido.token, agora')
  BY DEF AuthInv, AuthState, Valido, Credencial
<1>5. RecusaTemMotivo'
  <2>1. Valido(pedido.token, agora)' = Valido(pedido.token, agora')
    BY <1>1 DEF Valido
  <2>2. QED
    BY <1>1, <1>4, <2>1, ZenonT(40) DEF AuthInv, RecusaTemMotivo
<1>6. ClaimsInv'
  BY <1>1 DEF AuthInv, ClaimsInv
<1>7. QED
  BY <1>2, <1>3, <1>5, <1>6 DEF AuthInv

LEMMA AuthInvNext == AuthInv /\ [AuthNext]_authVars => AuthInv'
<1> SUFFICES ASSUME AuthInv, [AuthNext]_authVars PROVE AuthInv'
  OBVIOUS
<1>1. CASE AuthPassa
  <2>1. UNCHANGED authProprias /\ agora' \in Nat /\ agora' >= agora
    BY <1>1 DEF AuthPassa, Passa, AuthInv, AuthState
  <2>2. QED
    BY <2>1, AuthStays
<1>2. CASE UNCHANGED authVars
  <2>1. UNCHANGED authProprias /\ agora' \in Nat /\ agora' >= agora
    BY <1>2 DEF authVars, AuthInv, AuthState
  <2>2. QED
    BY <2>1, AuthStays
<1>3. QED
  BY <1>1, <1>2, CSRFKeeps, AutenticaKeeps, TenantKeeps, SemPerguntaKeeps, PermissaoKeeps, ContratoKeeps, DerivaKeeps
  DEF AuthNext

LEMMA GetsThrough == AuthInv => AtendeSoQuemPode
<1> SUFFICES ASSUME AuthInv, resposta = 200 PROVE AtendeSoQuemPode
  BY DEF AtendeSoQuemPode, Atende
<1>1. /\ config \in Configs /\ pedido.rota \in Rotas /\ passo = 5
      /\ EmOrdem(config.ordem)
  BY Configurations DEF AuthInv, AuthState
<1>2. \A i \in 1..4 : Cumprida(i)
  BY <1>1 DEF AuthInv, GuardasInv
<1>3. \A g \in Guardas : \E i \in 1..4 : config.ordem[i] = g
  BY <1>1 DEF EmOrdem
<1>4. /\ claims # Vazio /\ claims.empresa # Vazio /\ \E q \in perguntas : q.quem = "permissao" /\ q.sabe = "sim"
  BY <1>2, <1>3 DEF Cumprida, Guardas
<1>5. /\ claims = pedido.token /\ claims \in Credencial /\ claims.usuario
      /\ claims.assinado /\ claims.tipo # "refresh" /\ (claims.exp > 0 => quandoLidas < claims.exp)
  BY <1>4 DEF AuthInv, AuthState, ClaimsInv, Valido, Credencial
<1>6. \A i \in DOMAIN pedido.rota.partes : pedido.rota.partes[i] \in Empresas => pedido.rota.partes[i] = claims.empresa
  <2>1. EmpresaDoPath(pedido.rota.partes) # Vazio => claims.empresa = EmpresaDoPath(pedido.rota.partes)
    BY <1>2, <1>3 DEF Cumprida, Guardas
  <2>2. QED
    BY <1>1, <2>1, Routes, AuthAssumption
<1>7. \E q \in perguntas : q.quem = "permissao" /\ q.sabe = "sim" /\ q.empresa = claims.empresa
  BY <1>4 DEF AuthInv, PerguntasInv
<1>8. pedido.rota.metodo = "GET" \/ pedido.via = "cabecalho" \/ pedido.eco
  BY <1>1 DEF AuthInv, GuardasInv
<1>9. pedido.rota.escreve /\ ~pedido.rota.liberada /\ Antes("Autenticacao", "Contrato")
         => \E q \in perguntas : q.quem = "contrato" /\ q.sabe # "nao"
  <2>1. SUFFICES ASSUME pedido.rota.escreve /\ ~pedido.rota.liberada, Antes("Autenticacao", "Contrato")
                 PROVE  \E q \in perguntas : q.quem = "contrato" /\ q.sabe # "nao"
    OBVIOUS
  <2>2. PICK i \in 1..4, j \in 1..4 : i < j /\ config.ordem[i] = "Autenticacao" /\ config.ordem[j] = "Contrato"
    BY <1>1, <2>1 DEF Antes, EmOrdem
  <2>3. i \in 1..(j - 1)
    BY <2>2
  <2>4. QED
    BY <1>2, <1>4, <2>1, <2>2, <2>3 DEF Cumprida
<1>10. QED
  BY <1>4, <1>5, <1>6, <1>7, <1>8, <1>9 DEF AtendeSoQuemPode

LEMMA OnlyReads == AuthInv => SuporteECanalSoLeem
<1> SUFFICES ASSUME AuthInv, resposta = 200, ~config.proprio PROVE SuporteECanalSoLeem
  BY DEF SuporteECanalSoLeem, Atende
<1>1. claims # Vazio /\ pedido.rota \in Rotas
  BY GetsThrough DEF AtendeSoQuemPode, Atende, AuthInv, AuthState
<1>2. /\ claims.suporte # Vazio =>
            /\ claims.empresa = claims.suporte /\ claims.sessao
            /\ EhRequisicaoDeLeitura(pedido.rota) \/ SuportePodeEscrever(claims, quandoLidas)
      /\ claims.canal # Vazio => ~CanalRecusado(claims, pedido.rota)
  BY <1>1 DEF AuthInv, ClaimsInv
<1>3. claims.canal # Vazio => ~pedido.rota.escreve
  BY <1>1, <1>2, Routes DEF CanalRecusado
<1>4. pedido.rota.escreve /\ claims.suporte # Vazio => quandoLidas < claims.escritaAte
  BY <1>1, <1>2, Routes DEF SuportePodeEscrever
<1>5. claims.canal # Vazio => \A q \in perguntas : q.quem = "permissao" /\ q.acao = "visualizar"
  BY <1>3 DEF AuthInv, PerguntasInv, CanalPermiteAcao
<1>6. QED
  BY <1>2, <1>3, <1>4, <1>5 DEF SuporteECanalSoLeem

\* The chain of guards decides correctly in both directions, in whatever order a service mounts
\* it: the handler runs only for a token that was valid when it was read, for the path's company,
\* with a permission that was granted, and nobody is refused without a reason.
THEOREM GuardsDecideCorrectly == AuthSpec => []AcessoCorreto
<1>1. AmbienteInit /\ AuthInit => AuthInv
  BY AuthInvInit
<1>2. AuthInv /\ [AuthNext]_authVars => AuthInv'
  BY AuthInvNext
<1>3. AuthInv => AcessoCorreto
  BY GetsThrough, OnlyReads DEF AcessoCorreto, AuthInv
<1>4. QED
  BY <1>1, <1>2, <1>3, PTL DEF AuthSpec

\* The token that is passed on is the one that was read, and a derived one is bounded by the
\* session it comes from, for every clock and every duration.
THEOREM TokensStandForTheirSession == AuthSpec => []CredenciaisCorretas
<1>1. AmbienteInit /\ AuthInit => AuthInv
  BY AuthInvInit
<1>2. AuthInv /\ [AuthNext]_authVars => AuthInv'
  BY AuthInvNext
<1>3. ASSUME AuthInv PROVE CredenciaisCorretas
  <2>1. RepassaOMesmoToken
    BY <1>3 DEF AuthInv, PerguntasInv, RepassaOMesmoToken
  <2>2. DerivadoNaoExcede
    <3>1. SUFFICES ASSUME origem # Vazio PROVE DerivadoNaoExcede
      BY DEF DerivadoNaoExcede
    <3>2. /\ origem.claims \in Credencial /\ origem.quando \in Nat /\ pedido.token \in Credencial /\ agora \in Nat
          /\ origem.claims.assinado /\ origem.claims.tipo # "refresh"
          /\ origem.claims.canal = Vazio /\ origem.claims.suporte = Vazio
          /\ pedido.token.empresa = origem.claims.empresa
          /\ pedido.token.exp = IF origem.claims.exp > 0 /\ origem.claims.exp < origem.quando + Duracao
                                THEN origem.claims.exp ELSE origem.quando + Duracao
      BY <1>3, <3>1 DEF AuthInv, AuthState, DerivadoInv
    <3>3. origem.claims.exp \in Nat /\ pedido.token.exp \in Nat
      BY <3>2 DEF Credencial
    <3>4. Valido(pedido.token, agora) => Valido(origem.claims, agora) /\ agora < origem.quando + Duracao
      BY <3>2, <3>3, AuthAssumption DEF Valido
    <3>5. QED
      BY <3>2, <3>4 DEF DerivadoNaoExcede
  <2>3. QED
    BY <2>1, <2>2 DEF CredenciaisCorretas
<1>4. QED
  BY <1>1, <1>2, <1>3, PTL DEF AuthSpec

-----------------------------------------------------------------------------
(* cache: DeletePattern on several replicas.                               *)

\* What a replica still has to clear of what was there when it sent KEYS: nothing but what KEYS
\* listed while DEL is ahead, nothing at all after it.
ClearInv ==
    /\ limpeza \in [Replicas -> {"fora", "listou", "limpou", "erro"}]
    /\ listadas \in [Replicas -> SUBSET DoPadrao]
    /\ DOMAIN antigas = Replicas
    /\ \A r \in Replicas :
        /\ limpeza[r] = "listou" => antigas[r] \subseteq listadas[r]
        /\ limpeza[r] = "limpou" => antigas[r] = {}

\* Writing, deleting and expiry of keys only shrink what any replica has to clear.
LEMMA RenewalKeeps ==
    ASSUME ClearInv, NEW chaves, Renova(chaves), UNCHANGED <<limpeza, listadas>>
    PROVE  ClearInv'
BY DEF ClearInv, Renova

LEMMA ClearInvInit == CacheInit => ClearInv
BY DEF CacheInit, ClearInv

LEMMA KeysStep ==
    ASSUME ClearInv, NEW r \in Replicas, Keys(r)
    PROVE  ClearInv'
<1>1. CASE limpeza' = [limpeza EXCEPT ![r] = "erro"] /\ UNCHANGED <<listadas, antigas>>
  BY <1>1 DEF ClearInv
<1>2. CASE /\ limpeza' = [limpeza EXCEPT ![r] = IF Listadas = {} THEN "limpou" ELSE "listou"]
           /\ listadas' = [listadas EXCEPT ![r] = Listadas]
           /\ antigas' = [antigas EXCEPT ![r] = Guardadas]
  <2>1. Listadas = Guardadas /\ Guardadas \subseteq DoPadrao
    BY DEF Listadas, Guardadas
  <2>2. QED
    BY <1>2, <2>1 DEF ClearInv
<1>3. QED
  BY <1>1, <1>2 DEF Keys

LEMMA DelStep ==
    ASSUME ClearInv, NEW r \in Replicas, Del(r)
    PROVE  ClearInv'
<1> limpeza[r] = "listou" /\ UNCHANGED listadas
  BY DEF Del
<1>1. CASE DelListadas(r)
  <2>1. antigas' = [q \in Replicas |-> antigas[q] \ listadas[r]]
    BY <1>1 DEF DelListadas, DelChaves, Renova
  <2>2. \E fim \in {"limpou", "erro"} : limpeza' = [limpeza EXCEPT ![r] = fim]
    BY DEF Del
  <2>3. antigas'[r] = {}
    BY <2>1 DEF ClearInv
  <2>4. QED
    BY <2>1, <2>2, <2>3 DEF ClearInv
<1>2. CASE UNCHANGED antigas /\ limpeza' = [limpeza EXCEPT ![r] = "erro"]
  BY <1>2 DEF ClearInv
<1>3. QED
  BY <1>1, <1>2 DEF Del

LEMMA ClearInvNext == ClearInv /\ [CacheNext]_<<agora, comRedis, cacheProprias>> => ClearInv'
<1> SUFFICES ASSUME ClearInv, [CacheNext]_<<agora, comRedis, cacheProprias>> PROVE ClearInv'
  OBVIOUS
<1>1. CASE \E k \in Chaves, ttl \in Prazos : SetWithTTL(k, ttl)
  BY <1>1, RenewalKeeps DEF SetWithTTL
<1>2. CASE \E k \in Chaves : Delete(k)
  BY <1>2, RenewalKeeps DEF Delete, DelChaves
<1>3. CASE \E r \in Replicas : Keys(r) \/ Del(r)
  BY <1>3, KeysStep, DelStep
<1>4. CASE CachePassa
  BY <1>4, RenewalKeeps DEF CachePassa
<1>5. CASE UNCHANGED <<agora, comRedis, cacheProprias>>
  BY <1>5 DEF ClearInv, cacheProprias
<1>6. QED
  BY <1>1, <1>2, <1>3, <1>4, <1>5 DEF CacheNext

\* Once DeletePattern has returned nil, no key of the pattern holds a value that was there when it
\* listed the keys, whatever other replicas wrote, deleted or cleared between its two commands.
THEOREM ClearingIsComplete == CacheSpec => []LimpezaCompleta
<1>1. ClearInv => LimpezaCompleta
  BY DEF ClearInv, LimpezaCompleta
<1>2. QED
  BY ClearInvInit, ClearInvNext, <1>1, PTL DEF CacheSpec

-----------------------------------------------------------------------------
(* observabilidade: requests and rounds.                                   *)

\* Who is in the gauge, and the rounds that have ended, and badly.
Contados == {p \in Pedidos : fase[p] \notin {"fora", "fim"} /\ ~tipo[p].ignorada}
Terminadas == {j \in Rodadas : rodada[j] \in Resultados}
Falhadas == {j \in Rodadas : rodada[j] \in {"erro", "panico"}}

\* What is recorded of p, if it is.
Registro(p) == [rota |-> RotaDe(p), classe |-> Classe(codigo[p])]
Registrada(p) == fase[p] \in {"medida", "fim"} /\ ~tipo[p].ignorada /\ ~tipo[p].upgrade

\* A request on its way: how it ended is known once it leaves, its route once the mux gave it one.
PedidoEm(p) ==
    /\ fase[p] \in {"saindo", "medida", "fim"} => codigo[p] \in Status \cup Panicos
    /\ fase[p] \in {"fora", "cadeia", "handler"} => codigo[p] = "" /\ referencia[p] = ""
    /\ fase[p] \in {"fora", "cadeia"} => padrao[p] = ""
    /\ fase[p] = "handler" => padrao[p] = "rota"
    /\ fase[p] \in {"saindo", "medida", "fim"} =>
          (referencia[p] = "rota" <=> padrao[p] = "rota" /\ tipo[p].rotas /\ codigo[p] \notin Panicos)

PedidoInv == \A p \in Pedidos : PedidoEm(p)

\* The record is there once the request is measured, and is of how it ended.
RegistroInv ==
    \A p \in Pedidos : registros[p] = IF Registrada(p) THEN <<Registro(p)>> ELSE <<>>

PedidoState ==
    /\ tipo \in [Pedidos -> Tipos]
    /\ fase \in [Pedidos -> {"fora", "cadeia", "handler", "saindo", "medida", "fim"}]
    /\ codigo \in [Pedidos -> {""} \cup Status \cup Panicos]
    /\ referencia \in [Pedidos -> {"", "rota"}] /\ padrao \in [Pedidos -> {"", "rota"}]
    /\ DOMAIN registros = Pedidos

GaugeInv == emAndamento = Cardinality(Contados)

RodadaInv ==
    /\ rodada \in [Rodadas -> {"fora", "rodando"} \cup Resultados]
    /\ medidas \in Seq({"ok", "erro"}) /\ Len(medidas) = Cardinality(Terminadas)
    /\ falhasTicker = Cardinality(Falhadas)

MedidaInv == PedidoState /\ PedidoInv /\ RegistroInv /\ GaugeInv /\ RodadaInv

LEMMA MedidaInvInit == MedidasInit => MedidaInv
<1> SUFFICES ASSUME MedidasInit PROVE MedidaInv
  OBVIOUS
<1>1. Contados = {} /\ Terminadas = {} /\ Falhadas = {}
  BY DEF MedidasInit, Contados, Terminadas, Falhadas, Resultados
<1>2. GaugeInv
  BY <1>1, FS_EmptySet DEF MedidasInit, GaugeInv
<1>3. RodadaInv
  <2>1. Cardinality(Terminadas) = 0 /\ Cardinality(Falhadas) = 0
    BY <1>1, FS_EmptySet
  <2>2. <<>> \in Seq({"ok", "erro"}) /\ Len(<<>>) = 0
    OBVIOUS
  <2>3. rodada \in [Rodadas -> {"fora", "rodando"} \cup Resultados]
    BY DEF MedidasInit
  <2>4. QED
    BY <2>1, <2>2, <2>3 DEF MedidasInit, RodadaInv
<1>4. PedidoState /\ PedidoInv
  BY DEF MedidasInit, PedidoState, PedidoInv, PedidoEm, Status, Panicos
<1>5. RegistroInv
  BY DEF MedidasInit, RegistroInv, Registrada
<1>6. QED
  BY <1>2, <1>3, <1>4, <1>5 DEF MedidaInv

LEMMA Singletons ==
    \A x : Append(<<>>, x) = <<x>> /\ Len(<<x>>) = 1 /\ DOMAIN <<x>> = {1} /\ <<x>>[1] = x /\ DOMAIN <<>> = {}
OBVIOUS

LEMMA Zero == \A n \in Nat : n + 0 = n /\ n - 0 = n
OBVIOUS

LEMMA Classes ==
    \A c \in Status \cup Panicos : Classe(c) = "5xx" <=> c \in {"500", "panico"}
BY DEF Status, Panicos, Classe

\* What a step of p does not change of another request's record.
LEMMA RecordStays ==
    ASSUME NEW q, tipo' = tipo, codigo'[q] = codigo[q], referencia'[q] = referencia[q], padrao'[q] = padrao[q]
    PROVE  Registro(q)' = Registro(q)
BY DEF Registro, RotaDe

\* Steps of a request that neither enters, leaves nor is measured: it counts as before, and has no
\* record yet.
LEMMA OnTheWay ==
    ASSUME PedidoState, GaugeInv, RegistroInv, NEW p \in Pedidos,
           \E f \in {"handler", "saindo"} : fase' = [fase EXCEPT ![p] = f],
           fase[p] \in {"cadeia", "handler"}, UNCHANGED <<tipo, emAndamento, registros>>,
           \A q \in Pedidos \ {p} : /\ codigo'[q] = codigo[q] /\ referencia'[q] = referencia[q]
                                    /\ padrao'[q] = padrao[q]
    PROVE  GaugeInv' /\ RegistroInv'
<1>1. Contados' = Contados
  BY DEF Contados, PedidoState
<1>2. GaugeInv'
  BY <1>1 DEF GaugeInv
<1>3. ASSUME NEW q \in Pedidos PROVE registros'[q] = IF Registrada(q)' THEN <<Registro(q)'>> ELSE <<>>
  <2>1. CASE q = p
    BY <2>1 DEF RegistroInv, Registrada, PedidoState
  <2>2. CASE q # p
    <3>1. Registrada(q)' = Registrada(q)
      BY <2>2 DEF Registrada, PedidoState
    <3>2. Registro(q)' = Registro(q)
      BY <2>2, RecordStays
    <3>3. QED
      BY <3>1, <3>2 DEF RegistroInv
  <2>3. QED
    BY <2>1, <2>2
<1>4. QED
  BY <1>2, <1>3 DEF RegistroInv

\* A step of p leaves the other requests where they are.
LEMMA OthersStay ==
    ASSUME PedidoState, PedidoInv, NEW p \in Pedidos, tipo' = tipo, PedidoEm(p)',
           \A q \in Pedidos \ {p} : /\ fase'[q] = fase[q] /\ codigo'[q] = codigo[q]
                                    /\ referencia'[q] = referencia[q] /\ padrao'[q] = padrao[q]
    PROVE  PedidoInv'
<1>1. ASSUME NEW q \in Pedidos, q # p PROVE PedidoEm(q)'
  <2>1. PedidoEm(q)
    BY DEF PedidoInv
  <2>2. /\ fase'[q] = fase[q] /\ codigo'[q] = codigo[q] /\ referencia'[q] = referencia[q]
        /\ padrao'[q] = padrao[q] /\ tipo'[q] = tipo[q]
    BY <1>1
  <2>3. QED
    BY <2>1, <2>2 DEF PedidoEm
<1>2. QED
  BY <1>1 DEF PedidoInv

LEMMA PedidoStep ==
    ASSUME PedidoState, PedidoInv, RegistroInv, GaugeInv, NEW p \in Pedidos,
           Chega(p) \/ NaoRoteia(p) \/ Roteia(p) \/ Retorna(p) \/ Panica(p) \/ Finaliza(p) \/ Sai(p)
    PROVE  PedidoState' /\ PedidoInv' /\ RegistroInv' /\ GaugeInv'
<1> USE DEF PedidoState, Vai
<1>0. IsFiniteSet(Contados)
  BY FS_Subset, MedidasAssumption DEF Contados
<1>1. CASE Chega(p)
  <2>1. PedidoState' /\ PedidoInv'
    <3>1. PedidoState'
      BY <1>1 DEF Chega, PedidoState, Vai
    <3>2. PedidoEm(p)'
      BY <1>1 DEF Chega, PedidoInv, PedidoEm, PedidoState, Vai
    <3>3. QED
      BY <1>1, <3>1, <3>2, OthersStay DEF Chega, PedidoState, Vai
  <2>2. RegistroInv'
    <3>1. \A q \in Pedidos : Registro(q)' = Registro(q)
      BY <1>1, RecordStays DEF Chega
    <3>2. \A q \in Pedidos : Registrada(q)' = Registrada(q)
      BY <1>1 DEF Chega, Registrada
    <3>3. QED
      BY <1>1, <3>1, <3>2 DEF Chega, RegistroInv
  <2>3. GaugeInv'
    <3>1. Contados' = IF tipo[p].ignorada THEN Contados ELSE Contados \cup {p}
      BY <1>1 DEF Chega, Contados
    <3>2. p \notin Contados
      BY <1>1 DEF Chega, Contados
    <3>3. Cardinality(Contados \cup {p}) = Cardinality(Contados) + 1 /\ Cardinality(Contados) \in Nat
      BY <1>0, <3>2, FS_AddElement, FS_CardinalityType
    <3>4. emAndamento' = emAndamento + (IF tipo[p].ignorada THEN 0 ELSE 1) /\ emAndamento = Cardinality(Contados)
      BY <1>1 DEF Chega, GaugeInv
    <3>5. CASE tipo[p].ignorada
      <4>1. emAndamento' = emAndamento
        <5>1. emAndamento' = emAndamento + 0
          BY <3>4, <3>5
        <5>2. emAndamento \in Nat
          BY <3>3, <3>4
        <5>3. QED
          BY <5>1, <5>2, Zero
      <4>2. QED
        BY <3>1, <3>4, <3>5, <4>1 DEF GaugeInv
    <3>6. CASE ~tipo[p].ignorada
      BY <3>1, <3>3, <3>4, <3>6 DEF GaugeInv
    <3>7. QED
      BY <3>5, <3>6
  <2>4. QED
    BY <2>1, <2>2, <2>3
<1>2. CASE NaoRoteia(p)
  <2>1. GaugeInv' /\ RegistroInv'
    BY <1>2, OnTheWay DEF NaoRoteia
  <2>2. PedidoState'
    BY <1>2 DEF NaoRoteia, Status
  <2>3. PedidoInv'
    <3>1. PICK s \in {"401", "404"} : codigo' = [codigo EXCEPT ![p] = s]
      BY <1>2 DEF NaoRoteia
    <3>2. fase' = [fase EXCEPT ![p] = "saindo"] /\ UNCHANGED <<tipo, referencia, padrao>>
      BY <1>2 DEF NaoRoteia, Vai
    <3>3. s \in Status
      BY <3>1 DEF Status
    <3>4. padrao[p] = "" /\ referencia[p] = ""
      BY <1>2 DEF NaoRoteia, PedidoInv, PedidoEm
    <3>5. PedidoEm(p)'
      BY <3>1, <3>2, <3>3, <3>4 DEF PedidoEm
    <3>6. QED
      BY <3>1, <3>2, <3>5, OthersStay
  <2>4. QED
    BY <2>1, <2>2, <2>3
<1>3. CASE Roteia(p)
  <2>1. GaugeInv' /\ RegistroInv'
    BY <1>3, OnTheWay DEF Roteia
  <2>2. PedidoState' /\ PedidoInv'
    <3>1. PedidoState'
      BY <1>3 DEF Roteia, PedidoState, Vai
    <3>2. PedidoEm(p)'
      BY <1>3 DEF Roteia, PedidoInv, PedidoEm, PedidoState, Vai
    <3>3. QED
      BY <1>3, <3>1, <3>2, OthersStay DEF Roteia, PedidoState, Vai
  <2>3. QED
    BY <2>1, <2>2
<1>4. CASE Retorna(p)
  <2>1. GaugeInv' /\ RegistroInv'
    BY <1>4, OnTheWay DEF Retorna
  <2>2. PedidoState' /\ PedidoInv'
    <3>1. PICK s \in Status : codigo' = [codigo EXCEPT ![p] = s]
      BY <1>4 DEF Retorna
    <3>2. referencia' = [referencia EXCEPT ![p] = IF tipo[p].rotas THEN "rota" ELSE ""]
      BY <1>4 DEF Retorna
    <3>3. fase[p] = "handler" /\ fase' = [fase EXCEPT ![p] = "saindo"] /\ UNCHANGED <<tipo, padrao, registros>>
      BY <1>4 DEF Retorna
    <3>4. padrao[p] = "rota" /\ s \notin Panicos
      BY <3>3 DEF PedidoInv, PedidoEm, Status, Panicos
    <3>5. PedidoState'
      BY <3>1, <3>2, <3>3
    <3>6. PedidoEm(p)'
      BY <3>1, <3>2, <3>3, <3>4 DEF PedidoEm
    <3>7. QED
      BY <3>1, <3>2, <3>3, <3>5, <3>6, OthersStay
  <2>3. QED
    BY <2>1, <2>2
<1>5. CASE Panica(p)
  <2>1. GaugeInv' /\ RegistroInv'
    BY <1>5, OnTheWay DEF Panica
  <2>2. PedidoState' /\ PedidoInv'
    <3>1. PICK s \in Panicos : codigo' = [codigo EXCEPT ![p] = s]
      BY <1>5 DEF Panica
    <3>2. fase[p] = "handler" /\ fase' = [fase EXCEPT ![p] = "saindo"] /\ UNCHANGED <<tipo, referencia, padrao, registros>>
      BY <1>5 DEF Panica
    <3>3. PedidoState'
      BY <3>1, <3>2
    <3>4. PedidoEm(p)
      BY DEF PedidoInv
    <3>5. referencia[p] = ""
      BY <3>2, <3>4 DEF PedidoEm
    <3>6. PedidoEm(p)'
      BY <3>1, <3>2, <3>5 DEF PedidoEm
    <3>7. QED
      BY <3>1, <3>2, <3>3, <3>6, OthersStay
  <2>3. QED
    BY <2>1, <2>2
<1>6. CASE Finaliza(p)
  <2>1. PedidoState' /\ PedidoInv'
    <3>1. PedidoState'
      BY <1>6 DEF Finaliza, PedidoState, Vai
    <3>2. PedidoEm(p)'
      BY <1>6 DEF Finaliza, PedidoInv, PedidoEm, PedidoState, Vai
    <3>3. QED
      BY <1>6, <3>1, <3>2, OthersStay DEF Finaliza, PedidoState, Vai
  <2>2. Contados' = Contados
    BY <1>6 DEF Finaliza, Contados
  <2>3. \A q \in Pedidos : Registro(q)' = Registro(q)
    BY <1>6, RecordStays DEF Finaliza
  <2>4. ASSUME NEW q \in Pedidos PROVE registros'[q] = IF Registrada(q)' THEN <<Registro(q)>> ELSE <<>>
    <3>1. CASE q = p
      <4>1. registros'[p] = IF tipo[p].ignorada \/ tipo[p].upgrade THEN registros[p] ELSE Append(registros[p], Registro(p))
        BY <1>6 DEF Finaliza, Registro
      <4>2. registros[p] = <<>>
        BY <1>6 DEF Finaliza, RegistroInv, Registrada
      <4>3. Append(<<>>, Registro(p)) = <<Registro(p)>>
        BY Singletons
      <4>4. Registrada(p)' <=> ~(tipo[p].ignorada \/ tipo[p].upgrade)
        BY <1>6 DEF Finaliza, Registrada
      <4>5. QED
        BY <3>1, <4>1, <4>2, <4>3, <4>4
    <3>2. CASE q # p
      BY <1>6, <3>2 DEF Finaliza, RegistroInv, Registrada
    <3>3. QED
      BY <3>1, <3>2
  <2>5. QED
    BY <1>6, <2>1, <2>2, <2>3, <2>4 DEF GaugeInv, RegistroInv, Finaliza
<1>7. CASE Sai(p)
  <2>1. PedidoState' /\ PedidoInv'
    <3>1. PedidoState'
      BY <1>7 DEF Sai, PedidoState, Vai
    <3>2. PedidoEm(p)'
      BY <1>7 DEF Sai, PedidoInv, PedidoEm, PedidoState, Vai
    <3>3. QED
      BY <1>7, <3>1, <3>2, OthersStay DEF Sai, PedidoState, Vai
  <2>2. RegistroInv'
    <3>1. \A q \in Pedidos : Registro(q)' = Registro(q)
      BY <1>7, RecordStays DEF Sai
    <3>2. \A q \in Pedidos : Registrada(q)' = Registrada(q)
      BY <1>7 DEF Sai, Registrada
    <3>3. QED
      BY <1>7, <3>1, <3>2 DEF Sai, RegistroInv
  <2>3. GaugeInv'
    <3>1. Contados' = IF tipo[p].ignorada THEN Contados ELSE Contados \ {p}
      BY <1>7 DEF Sai, Contados
    <3>2. ~tipo[p].ignorada => p \in Contados
      BY <1>7 DEF Sai, Contados
    <3>3. ~tipo[p].ignorada => Cardinality(Contados \ {p}) = Cardinality(Contados) - 1
      BY <1>0, <3>2, FS_RemoveElement
    <3>4. /\ emAndamento' = emAndamento - (IF tipo[p].ignorada THEN 0 ELSE 1)
          /\ emAndamento = Cardinality(Contados) /\ Cardinality(Contados) \in Nat
      BY <1>0, <1>7, FS_CardinalityType DEF Sai, GaugeInv
    <3>5. CASE tipo[p].ignorada
      <4>1. emAndamento' = emAndamento
        <5>1. emAndamento' = emAndamento - 0
          BY <3>4, <3>5
        <5>2. emAndamento \in Nat
          BY <3>3, <3>4
        <5>3. QED
          BY <5>1, <5>2, Zero
      <4>2. QED
        BY <3>1, <3>4, <3>5, <4>1 DEF GaugeInv
    <3>6. CASE ~tipo[p].ignorada
      BY <3>1, <3>3, <3>4, <3>6 DEF GaugeInv
    <3>7. QED
      BY <3>5, <3>6
  <2>4. QED
    BY <2>1, <2>2, <2>3
<1>8. QED
  BY <1>1, <1>2, <1>3, <1>4, <1>5, <1>6, <1>7

LEMMA RodadaStep ==
    ASSUME RodadaInv, NEW j \in Rodadas, Comeca(j) \/ RodadaTermina(j)
    PROVE  RodadaInv'
<1>0. /\ IsFiniteSet(Terminadas) /\ IsFiniteSet(Falhadas)
      /\ Cardinality(Terminadas) \in Nat /\ Cardinality(Falhadas) \in Nat
  BY FS_Subset, FS_CardinalityType, MedidasAssumption DEF Terminadas, Falhadas
<1>1. CASE Comeca(j)
  <2>1. Terminadas' = Terminadas /\ Falhadas' = Falhadas
    BY <1>1 DEF Comeca, RodadaInv, Terminadas, Falhadas, Resultados
  <2>2. rodada' \in [Rodadas -> {"fora", "rodando"} \cup Resultados]
    BY <1>1 DEF Comeca, RodadaInv
  <2>3. QED
    BY <1>1, <2>1, <2>2 DEF Comeca, RodadaInv
<1>2. CASE RodadaTermina(j)
  <2>1. PICK r \in Resultados : rodada[j] = "rodando" /\ rodada' = [rodada EXCEPT ![j] = r] /\ Registrar(r)
    BY <1>2 DEF RodadaTermina
  <2>2. /\ Terminadas' = Terminadas \cup {j} /\ j \notin Terminadas
        /\ j \notin Falhadas /\ Falhadas' = IF r = "ok" THEN Falhadas ELSE Falhadas \cup {j}
    BY <2>1 DEF RodadaInv, Terminadas, Falhadas, Resultados
  <2>3. /\ Cardinality(Terminadas \cup {j}) = Cardinality(Terminadas) + 1
        /\ Cardinality(Falhadas \cup {j}) = Cardinality(Falhadas) + 1
    BY <1>0, <2>2, FS_AddElement
  <2>4. \A m \in Seq({"ok", "erro"}), x \in {"ok", "erro"} :
            Append(m, x) \in Seq({"ok", "erro"}) /\ Len(Append(m, x)) = Len(m) + 1
    OBVIOUS
  <2>5. medidas' \in Seq({"ok", "erro"}) /\ Len(medidas') = Len(medidas) + 1
    BY <2>1, <2>4 DEF Registrar, RodadaInv
  <2>6. rodada' \in [Rodadas -> {"fora", "rodando"} \cup Resultados]
    BY <2>1 DEF RodadaInv
  <2>7. falhasTicker' = Cardinality(Falhadas')
    BY <1>0, <2>1, <2>2, <2>3 DEF Registrar, RodadaInv
  <2>8. QED
    BY <2>2, <2>3, <2>5, <2>6, <2>7 DEF RodadaInv
<1>3. QED
  BY <1>1, <1>2

LEMMA MedidaInvNext == MedidaInv /\ [PedidoNext \/ RodadaNext]_medidasProprias => MedidaInv'
<1> SUFFICES ASSUME MedidaInv, [PedidoNext \/ RodadaNext]_medidasProprias PROVE MedidaInv'
  OBVIOUS
<1>1. ASSUME UNCHANGED pedidosVars PROVE (PedidoState /\ PedidoInv /\ RegistroInv /\ GaugeInv)'
  <2>1. \A q \in Pedidos : Registro(q)' = Registro(q)
    BY <1>1, RecordStays DEF pedidosVars
  <2>2. PedidoState'
    BY <1>1 DEF pedidosVars, MedidaInv, PedidoState
  <2>3. PedidoInv'
    BY <1>1 DEF pedidosVars, MedidaInv, PedidoInv, PedidoEm
  <2>4. RegistroInv'
    BY <1>1, <2>1 DEF pedidosVars, MedidaInv, RegistroInv, Registrada
  <2>5. GaugeInv'
    BY <1>1 DEF pedidosVars, MedidaInv, GaugeInv, Contados
  <2>6. QED
    BY <2>2, <2>3, <2>4, <2>5
<1>2. ASSUME UNCHANGED rodadasVars PROVE RodadaInv'
  BY <1>2 DEF rodadasVars, MedidaInv, RodadaInv, Terminadas, Falhadas
<1>3. CASE PedidoNext
  <2>1. UNCHANGED rodadasVars
    BY <1>3 DEF PedidoNext, Chega, NaoRoteia, Roteia, Retorna, Panica, Finaliza, Sai
  <2>2. (PedidoState /\ PedidoInv /\ RegistroInv /\ GaugeInv)'
    BY <1>3, PedidoStep DEF PedidoNext, MedidaInv
  <2>3. QED
    BY <1>2, <2>1, <2>2 DEF MedidaInv
<1>4. CASE RodadaNext
  <2>1. UNCHANGED pedidosVars
    BY <1>4 DEF RodadaNext, Comeca, RodadaTermina
  <2>2. RodadaInv'
    BY <1>4, RodadaStep DEF RodadaNext, MedidaInv
  <2>3. QED
    BY <1>1, <2>1, <2>2 DEF MedidaInv
<1>5. CASE UNCHANGED medidasProprias
  BY <1>1, <1>2, <1>5 DEF MedidaInv, medidasProprias
<1>6. QED
  BY <1>3, <1>4, <1>5

LEMMA MeasuringInvariant == MedidasSpec => []MedidaInv
BY MedidaInvInit, MedidaInvNext, PTL DEF MedidasSpec

\* Every request is recorded once when it has ended, with the class of its end, panics included,
\* and under the route it went to unless the request was copied and Rotas is missing or was passed
\* by a panic; every round and message once: for any number of them at a time (MiddlewareHTTP, Rotas,
\* RodadaTicker, ProcessarMensagem).
THEOREM MeasuredFaithfully == MedidasSpec => []MedidasFieis
<1> SUFFICES MedidaInv => MedidasFieis
  BY MeasuringInvariant, PTL
<1> SUFFICES ASSUME MedidaInv PROVE MedidasFieis
  OBVIOUS
<1> USE DEF MedidaInv, PedidoState
<1>1. ASSUME NEW p \in Pedidos, Registrada(p)
      PROVE  /\ registros[p] = <<Registro(p)>> /\ Len(registros[p]) = 1 /\ DOMAIN registros[p] = {1}
             /\ registros[p][1] = Registro(p)
  BY <1>1, Singletons DEF RegistroInv
<1>2. RegistradaUmaVez
  <2>1. SUFFICES ASSUME NEW p \in Pedidos, fase[p] = "fim"
                 PROVE  IF tipo[p].ignorada \/ tipo[p].upgrade THEN registros[p] = <<>>
                        ELSE /\ Len(registros[p]) = 1
                             /\ registros[p][1].classe = "5xx" <=> codigo[p] \in {"500", "panico"}
    BY DEF RegistradaUmaVez
  <2>2. CASE tipo[p].ignorada \/ tipo[p].upgrade
    BY <2>2 DEF RegistroInv, Registrada
  <2>3. CASE ~(tipo[p].ignorada \/ tipo[p].upgrade)
    <3>1. Registrada(p)
      BY <2>1, <2>3 DEF Registrada
    <3>2. codigo[p] \in Status \cup Panicos
      BY <2>1 DEF PedidoInv, PedidoEm
    <3>3. Registro(p).classe = Classe(codigo[p])
      BY DEF Registro
    <3>4. QED
      BY <1>1, <2>3, <3>1, <3>2, <3>3, Classes
  <2>4. QED
    BY <2>2, <2>3
<1>3. RotaRegistrada
  <2>1. SUFFICES ASSUME NEW p \in Pedidos, NEW i \in DOMAIN registros[p]
                 PROVE  registros[p][i].rota = "rota" <=>
                            /\ padrao[p] # ""
                            /\ tipo[p].copia => tipo[p].rotas /\ codigo[p] \notin Panicos
    BY DEF RotaRegistrada
  <2>2. Registrada(p)
    <3>1. registros[p] # <<>>
      BY Singletons
    <3>2. QED
      BY <3>1 DEF RegistroInv
  <2>3. registros[p][i].rota = RotaDe(p)
    <3>1. registros[p][i] = Registro(p)
      BY <1>1, <2>2
    <3>2. Registro(p).rota = RotaDe(p)
      BY DEF Registro
    <3>3. QED
      BY <3>1, <3>2
  <2>4. RotaDe(p) = "rota" <=> referencia[p] = "rota" \/ (padrao[p] = "rota" /\ ~tipo[p].copia)
    BY DEF RotaDe
  <2>5. referencia[p] = "rota" <=> padrao[p] = "rota" /\ tipo[p].rotas /\ codigo[p] \notin Panicos
    BY <2>2 DEF PedidoInv, PedidoEm, Registrada
  <2>6. padrao[p] # "" <=> padrao[p] = "rota"
    OBVIOUS
  <2>7. QED
    BY <2>3, <2>4, <2>5, <2>6
<1>4. RodadasContadas
  BY DEF RodadasContadas, RodadaInv, Tem, Terminadas, Falhadas
<1>5. GaugeConfere
  BY DEF GaugeConfere, GaugeInv, Contados, Tem
<1>6. QED
  BY <1>2, <1>3, <1>4, <1>5 DEF MedidasFieis

LEMMA MedidaInvTypes == MedidaInv => MedidasTypeOK
<1> SUFFICES ASSUME MedidaInv PROVE MedidasTypeOK
  OBVIOUS
<1>1. Cardinality(Contados) \in Nat
  BY FS_Subset, FS_CardinalityType, MedidasAssumption DEF Contados
<1>2. QED
  BY <1>1 DEF MedidaInv, PedidoState, GaugeInv, MedidasTypeOK

-----------------------------------------------------------------------------
(* cmd/deelp-arquitetura: the ratchet.                                     *)

\* What lies in a layer, and below its directory.

LEMMA InLayer ==
    ASSUME NEW c \in Seq(STRING), NEW l
    PROVE  /\ IsPrefix(Interno(l), c) <=> Len(c) > 1 /\ c[1] = "internal" /\ c[2] = l
           /\ IsStrictPrefix(Interno(l), c) <=> Len(c) > 2 /\ c[1] = "internal" /\ c[2] = l
<1> DEFINE q == Interno(l)
<1>1. /\ q \in Seq({"internal", l}) /\ Len(q) = 2 /\ q[1] = "internal" /\ q[2] = l
  BY DEF Interno
<1>2. SubSeq(q, 1, 2) = q
  BY <1>1
<1>3. ASSUME Len(c) > 1 PROVE SubSeq(c, 1, 2) = q <=> c[1] = q[1] /\ c[2] = q[2]
  <2>1. /\ SubSeq(c, 1, 2) \in Seq(STRING) /\ Len(SubSeq(c, 1, 2)) = 2
        /\ SubSeq(c, 1, 2)[1] = c[1] /\ SubSeq(c, 1, 2)[2] = c[2]
    BY <1>3
  <2>2. QED
    BY <2>1, <1>1
<1>4. IsPrefix(q, c) <=> Len(c) > 1 /\ c[1] = "internal" /\ c[2] = l
  <2>1. Len(c) \in Nat
    OBVIOUS
  <2>2. QED
    BY <1>1, <1>2, <1>3, <2>1 DEF IsPrefix
<1>5. IsPrefix(q, c) => (q # c <=> Len(c) > 2)
  <2>1. Len(c) = 2 /\ c[1] = q[1] /\ c[2] = q[2] => c = q
    BY <1>1
  <2>2. q = c => Len(c) = 2
    BY <1>1
  <2>3. IsPrefix(q, c) /\ q # c => Len(c) # 2 /\ Len(c) > 1
    BY <1>1, <1>4, <2>1
  <2>4. PICK n \in Nat : n = Len(c)
    OBVIOUS
  <2>5. n # 2 /\ n > 1 <=> n > 2
    OBVIOUS
  <2>6. CASE q = c
    BY <2>2, <2>4, <2>5, <2>6
  <2>7. CASE q # c
    BY <2>3, <2>4, <2>5, <2>7
  <2>8. QED
    BY <2>6, <2>7
<1>6. QED
  BY <1>4, <1>5 DEF IsStrictPrefix

\* The first rule a file falls under is that of its layer, if the layer has one.
LEMMA RuleOfLayer ==
    ASSUME NEW a \in Seq(STRING)
    PROVE  RegrasDe(a) = {i \in {1, 2} : /\ Len(a) > 2 /\ a[1] = "internal"
                                         /\ a[2] = IF i = 1 THEN "domain" ELSE "application"}
<1>1. DOMAIN regras = {1, 2}
  BY DEF regras
<1>2. regras[1].origem = Interno("domain") /\ regras[2].origem = Interno("application")
  BY DEF regras
<1>3. QED
  BY <1>1, <1>2, InLayer DEF RegrasDe

LEMMA Heights ==
    /\ DOMAIN Altura = {"domain", "application", "adapters", "infra"}
    /\ Altura["domain"] = 0 /\ Altura["application"] = 1 /\ Altura["adapters"] = 2 /\ Altura["infra"] = 2
<1>1. DOMAIN Altura = {"domain", "application", "adapters", "infra"}
  BY DEF Altura
<1>2. Altura.domain = 0 /\ Altura.application = 1 /\ Altura.adapters = 2 /\ Altura.infra = 2
  BY DEF Altura
<1>3. QED
  BY <1>1, <1>2

\* A path is forbidden where its layer is further out than that of the file.
LEMMA ForbiddenIsOutward ==
    ASSUME NEW a \in Seq(STRING), NEW c \in Seq(STRING)
    PROVE  RegrasDe(a) # {} /\ Proibida(a, c) <=>
              /\ Camada(a) \in {"domain", "application"} /\ Len(a) > 2
              /\ Camada(c) \in DOMAIN Altura
              /\ Altura[Camada(a)] < Altura[Camada(c)]
<1>1. /\ regras[1].proibidas = {Interno("application"), Interno("adapters"), Interno("infra")}
      /\ regras[2].proibidas = {Interno("adapters"), Interno("infra")}
  BY DEF regras
<1>2. \A l \in {"application", "adapters", "infra"} : IsPrefix(Interno(l), c) <=> Camada(c) = l
  BY InLayer DEF Camada
<1>3. /\ (\E p \in regras[1].proibidas : IsPrefix(p, c)) <=> Camada(c) \in {"application", "adapters", "infra"}
      /\ (\E p \in regras[2].proibidas : IsPrefix(p, c)) <=> Camada(c) \in {"adapters", "infra"}
  BY <1>1, <1>2
<1>4. /\ DOMAIN Altura = {"domain", "application", "adapters", "infra"}
      /\ Altura["domain"] = 0 /\ Altura["application"] = 1 /\ Altura["adapters"] = 2 /\ Altura["infra"] = 2
  BY Heights
<1>5. CASE Len(a) > 2 /\ a[1] = "internal" /\ a[2] = "domain"
  <2>1. RegrasDe(a) = {1} /\ Camada(a) = "domain"
    BY <1>5, RuleOfLayer DEF Camada
  <2>2. Proibida(a, c) <=> \E p \in regras[1].proibidas : IsPrefix(p, c)
    BY <2>1 DEF Proibida
  <2>3. QED
    BY <1>5, <2>1, <2>2, <1>3, <1>4
<1>6. CASE Len(a) > 2 /\ a[1] = "internal" /\ a[2] = "application"
  <2>1. RegrasDe(a) = {2} /\ Camada(a) = "application"
    BY <1>6, RuleOfLayer DEF Camada
  <2>2. Proibida(a, c) <=> \E p \in regras[2].proibidas : IsPrefix(p, c)
    BY <2>1 DEF Proibida
  <2>3. QED
    BY <1>6, <2>1, <2>2, <1>3, <1>4
<1>7. CASE ~(Len(a) > 2 /\ a[1] = "internal" /\ a[2] \in {"domain", "application"})
  <2>1. RegrasDe(a) = {}
    BY <1>7, RuleOfLayer
  <2>2. Len(a) \in Nat /\ (Len(a) > 2 => Len(a) > 1)
    OBVIOUS
  <2>3. QED
    BY <1>7, <2>1, <2>2 DEF Camada
<1>8. QED
  BY <1>5, <1>6, <1>7

Violacoes == {<<d[1], Tail(d[2])>> : d \in {e \in importacoes : ParaFora(e)}}

LEMMA FindsAllOutward ==
    ASSUME importacoes \subseteq Dependencias
    PROVE  Verificar = Violacoes
<1>1. SUFFICES ASSUME NEW d \in importacoes
               PROVE  ParaFora(d) <=> /\ Conferido(d[1])
                                      /\ Len(d[2]) > 1 /\ Head(d[2]) = Modulo
                                      /\ Proibida(d[1], Tail(d[2]))
  BY DEF Verificar, Violacoes
<1>2. d[1] \in Seq(STRING) /\ d[2] \in Seq(STRING) /\ d[2] # <<>>
  BY ArquiteturaAssumption
<1>3. Tail(d[2]) \in Seq(STRING) /\ Len(Tail(d[2])) = Len(d[2]) - 1 /\ Len(d[2]) \in Nat
  <2>1. \A q \in Seq(STRING) : q # <<>> => Tail(q) \in Seq(STRING) /\ Len(Tail(q)) = Len(q) - 1 /\ Len(q) \in Nat
    OBVIOUS
  <2>2. QED
    BY <1>2, <2>1
<1>4. "nenhuma" \notin DOMAIN Altura
  BY Heights
<1>5. ParaFora(d) => Len(d[2]) > 1
  <2>1. Len(d[2]) <= 1 => Camada(Tail(d[2])) = "nenhuma"
    BY <1>3 DEF Camada
  <2>2. QED
    BY <1>3, <1>4, <2>1 DEF ParaFora
<1>6. QED
  BY <1>2, <1>3, <1>5, ForbiddenIsOutward DEF ParaFora, Conferido

\* The baseline holds nothing that was not there when it was generated; a run's answer is true of
\* what it read, for any edit takes it back.
CatracaInv ==
    /\ importacoes \subseteq Dependencias
    /\ baseline \subseteq acordadas
    /\ saida.codigo = "0" => Verificar \subseteq baseline /\ (saida.estrito => baseline \subseteq Verificar)
    /\ saida.codigo \in {"0", "1", "gerou"} => ~NaoLe
    /\ saida.codigo = "gerou" => baseline = Verificar

LEMMA CatracaInvInit == ArquiteturaInit => CatracaInv
BY DEF ArquiteturaInit, CatracaInv

LEMMA CatracaInvNext == CatracaInv /\ [ArquiteturaNext]_arquiteturaProprias => CatracaInv'
<1> SUFFICES ASSUME CatracaInv, [ArquiteturaNext]_arquiteturaProprias PROVE CatracaInv'
  OBVIOUS
<1> USE DEF CatracaInv
<1>1. CASE GerarBaseline
  <2>1. UNCHANGED importacoes /\ Verificar' = Verificar /\ NaoLe' = NaoLe
    BY <1>1 DEF GerarBaseline, Verificar, NaoLe
  <2>2. QED
    BY <1>1, <2>1 DEF GerarBaseline
<1>2. ASSUME NEW estrito \in BOOLEAN, Confere(estrito) PROVE CatracaInv'
  <2>1. UNCHANGED <<importacoes, baseline, acordadas>> /\ Verificar' = Verificar /\ NaoLe' = NaoLe
    BY <1>2 DEF Confere, Verificar, NaoLe
  <2>2. QED
    BY <1>2, <2>1 DEF Confere, Codigo
<1>3. ASSUME NEW d \in Dependencias, Edita(d) PROVE CatracaInv'
  BY <1>3 DEF Edita, SemSaida
<1>4. ASSUME NEW a \in Arquivos, QuebraOuConserta(a) PROVE CatracaInv'
  BY <1>4 DEF QuebraOuConserta, SemSaida
<1>5. ASSUME NEW v \in baseline, RemoveLinha(v) PROVE CatracaInv'
  BY <1>5 DEF RemoveLinha, SemSaida
<1>6. CASE UNCHANGED arquiteturaProprias
  BY <1>6 DEF arquiteturaProprias, Verificar, NaoLe
<1>7. QED
  BY <1>1, <1>2, <1>3, <1>4, <1>5, <1>6 DEF ArquiteturaNext

\* The baseline is a ratchet: whatever was edited between runs, a check that passes has found no
\* dependency pointing outwards but those that were there when it was generated, a strict one finds
\* exactly the lines listed, and nothing passes that could not be read (Verificar and executar).
THEOREM RatchetHolds == ArquiteturaSpec => []CatracaCorreta
<1>1. CatracaInv => CatracaSoAperta
  <2> SUFFICES ASSUME CatracaInv, saida.codigo = "0"
               PROVE  /\ \A d \in importacoes : ParaFora(d) => <<d[1], Tail(d[2])>> \in acordadas
                      /\ saida.estrito => baseline = Violacoes
    BY DEF CatracaSoAperta, Violacoes
  <2>1. Verificar = Violacoes
    BY FindsAllOutward DEF CatracaInv
  <2>2. \A d \in importacoes : ParaFora(d) => <<d[1], Tail(d[2])>> \in Violacoes
    BY DEF Violacoes
  <2>3. QED
    BY <2>1, <2>2 DEF CatracaInv
<1>2. CatracaInv => GeradoPassa
  BY DEF CatracaInv, GeradoPassa, Codigo
<1>3. QED
  BY CatracaInvInit, CatracaInvNext, <1>1, <1>2, PTL DEF ArquiteturaSpec, CatracaCorreta

-----------------------------------------------------------------------------
(* consumo: the months.                                                    *)

\* Every set of natural numbers has a least one: induction, as the search for a least exception.
LEMMA Least ==
    ASSUME NEW S \in SUBSET Nat, S # {}
    PROVE  \E n \in S : \A m \in S : n <= m
<1>1. \E n \in S : \A m \in S : ~(<<m, n>> \in OpToRel(<, Nat))
  BY NatLessThanWellFounded, WFMin
<1>2. PICK n \in S : \A m \in S : ~(<<m, n>> \in OpToRel(<, Nat))
  BY <1>1
<1>3. ASSUME NEW m \in S PROVE n <= m
  <2>1. <<m, n>> \in Nat \X Nat /\ ~(m < n)
    BY <1>2 DEF OpToRel
  <2>2. QED
    BY <2>1
<1>4. QED
  BY <1>3

\* What the first n places of a function must be for it to be Inicio.
MesesAte(g, n) ==
    \A c \in 1..n : g[c] = IF c = 1 THEN 0 ELSE g[c - 1] + Duracoes[c - 1]

\* Months begin one after the other: Inicio is defined by recursion, and so is what it starts with.
LEMMA MonthsCanBegin == \A n \in 1..(Len(Duracoes) + 1) : \E g \in [1..n -> Nat] : MesesAte(g, n)
<1> DEFINE N == Len(Duracoes) + 1
           Falta == {n \in 1..N : ~\E g \in [1..n -> Nat] : MesesAte(g, n)}
<1>1. N \in Nat /\ \A c \in 1..(N - 1) : Duracoes[c] \in Nat \ {0}
  BY ConsumoAssumption
<1> HIDE DEF N
<1>2. ASSUME Falta # {} PROVE FALSE
  <2>1. PICK n \in Falta : \A m \in Falta : n <= m
    <3>1. Falta \in SUBSET Nat
      BY <1>1
    <3>2. QED
      BY <1>2, <3>1, Least
  <2>2. n \in 1..N /\ n \in Nat
    BY <1>1, <2>1
  <2>3. CASE n = 1
    <3>1. [c \in 1..n |-> 0] \in [1..n -> Nat] /\ MesesAte([c \in 1..n |-> 0], n)
      BY <2>3 DEF MesesAte
    <3>2. QED
      BY <2>1, <3>1
  <2>4. CASE n # 1
    <3>1. n - 1 \in 1..N /\ ~(n <= n - 1)
      BY <1>1, <2>2, <2>4
    <3>2. PICK g \in [1..(n - 1) -> Nat] : MesesAte(g, n - 1)
      BY <2>1, <3>1
    <3> DEFINE h == [c \in 1..n |-> IF c = n THEN g[n - 1] + Duracoes[n - 1] ELSE g[c]]
    <3>3. h \in [1..n -> Nat]
      BY <1>1, <2>2, <2>4
    <3>4. MesesAte(h, n)
      <4>1. SUFFICES ASSUME NEW c \in 1..n PROVE h[c] = IF c = 1 THEN 0 ELSE h[c - 1] + Duracoes[c - 1]
        BY DEF MesesAte
      <4>2. CASE c = n
        BY <2>2, <2>4, <4>2
      <4>3. CASE c # n
        BY <2>2, <2>4, <3>2, <4>3 DEF MesesAte
      <4>4. QED
        BY <4>2, <4>3
    <3>5. QED
      BY <2>1, <3>3, <3>4
  <2>5. QED
    BY <2>3, <2>4
<1>3. QED
  BY <1>2 DEF N

LEMMA MonthsBegin ==
    \A c \in 1..(Len(Duracoes) + 1) : Inicio[c] = IF c = 1 THEN 0 ELSE Inicio[c - 1] + Duracoes[c - 1]
<1> DEFINE N == Len(Duracoes) + 1
           EhInicio(f) == f = [c \in 1..N |-> IF c = 1 THEN 0 ELSE f[c - 1] + Duracoes[c - 1]]
<1>1. PICK g \in [1..N -> Nat] : MesesAte(g, N)
  <2>1. Len(Duracoes) \in Nat
    BY ConsumoAssumption
  <2>2. N \in 1..(Len(Duracoes) + 1)
    BY <2>1
  <2>3. QED
    BY <2>2, MonthsCanBegin
<1>2. EhInicio(g)
  BY <1>1 DEF MesesAte
<1>3. EhInicio(Inicio)
  BY <1>2 DEF Inicio
<1>4. QED
  BY <1>3

LEMMA MonthsAreNatural == \A c \in 1..(Len(Duracoes) + 1) : Inicio[c] \in Nat
<1> DEFINE N == Len(Duracoes) + 1
           Falta == {c \in 1..N : Inicio[c] \notin Nat}
<1>1. N \in Nat /\ \A c \in 1..(N - 1) : Duracoes[c] \in Nat \ {0}
  BY ConsumoAssumption
<1>2. \A c \in 1..N : Inicio[c] = IF c = 1 THEN 0 ELSE Inicio[c - 1] + Duracoes[c - 1]
  BY MonthsBegin
<1> HIDE DEF N
<1>3. ASSUME Falta # {} PROVE FALSE
  <2>1. PICK n \in Falta : \A m \in Falta : n <= m
    <3>1. Falta \in SUBSET Nat
      BY <1>1
    <3>2. QED
      BY <1>3, <3>1, Least
  <2>2. n # 1 /\ n \in 1..N
    BY <1>2, <2>1
  <2>3. n - 1 \in 1..N /\ n - 1 \in 1..(N - 1) /\ ~(n <= n - 1)
    BY <1>1, <2>2
  <2>4. Inicio[n - 1] \in Nat /\ Duracoes[n - 1] \in Nat
    BY <1>1, <2>1, <2>3
  <2>5. QED
    BY <1>2, <2>1, <2>2, <2>4
<1>4. QED
  BY <1>3 DEF N

\* A month lasts from its beginning to that of the next one.
LEMMA Months ==
    ASSUME NEW c \in Competencias
    PROVE  /\ Inicio[c] \in Nat /\ Inicio[c + 1] \in Nat /\ FimDoMes(c) = Inicio[c + 1]
           /\ Inicio[c + 1] = Inicio[c] + Duracoes[c] /\ Duracoes[c] \in Nat \ {0}
<1>1. c \in 1..Len(Duracoes) /\ Len(Duracoes) \in Nat /\ Duracoes[c] \in Nat \ {0}
  BY ConsumoAssumption DEF Competencias
<1>2. c \in 1..(Len(Duracoes) + 1) /\ c + 1 \in 1..(Len(Duracoes) + 1) /\ c + 1 # 1 /\ (c + 1) - 1 = c
  BY <1>1
<1>3. Inicio[c + 1] = Inicio[(c + 1) - 1] + Duracoes[(c + 1) - 1]
  BY <1>2, MonthsBegin
<1>4. QED
  BY <1>1, <1>2, <1>3, MonthsAreNatural DEF FimDoMes

Documentos == [instante : Nat, forma : Formas]

\* The filter selects all the documents of the month, and beyond them only texts that are within
\* Atraso of one of its ends.
LEMMA TextsAndDates ==
    ASSUME NEW d \in Documentos, NEW c \in Competencias
    PROVE  /\ c \in MesDe(d) => Casa(d, c)
           /\ Casa(d, c) /\ c \notin MesDe(d) =>
                 /\ d.forma # "data"
                 /\ \E b \in {Inicio[c], Inicio[c + 1]} :
                       -Atraso <= Local(d.instante) - b /\ Local(d.instante) - b <= Atraso
           /\ Casa(d, c) => d.instante <= Instante(Inicio[c + 1]) + Atraso
<1> DEFINE a == Atraso
           i == Inicio[c]
           j == Inicio[c + 1]
           t == d.instante
<1>1. a \in Nat /\ i \in Nat /\ j \in Nat /\ t \in Nat /\ i < j /\ d.forma \in {"data", "local", "utc"}
  BY ConsumoAssumption, Months DEF Documentos, Formas
<1>2. c \in MesDe(d) <=> i <= t - a /\ t - a < j
  BY Months DEF MesDe, Local
<1>3. Local(t) = t - a /\ Instante(j) = j + a /\ Instante(i) = i + a /\ Instante(FimDoMes(c)) = j + a
  BY Months DEF Local, Instante
<1>4. CASE d.forma = "data"
  <2>1. Casa(d, c) <=> i + a <= t /\ t < j + a
    BY <1>3, <1>4 DEF Casa
  <2>2. QED
    BY <1>1, <1>2, <1>3, <1>4, <2>1
\* The texts of either range, and of the document.
<1>5. CASE d.forma # "data"
  <2>1. Casa(d, c) <=> \E f \in {"local", "utc"} :
                          /\ ~AntesDe(Texto(t, d.forma), Texto(i + a, f))
                          /\ AntesDe(Texto(t, d.forma), Texto(j + a, f))
    BY <1>3, <1>5 DEF Casa, Faixas
  <2>2. CASE a = 0
    <3>1. \A x \in Nat, f \in {"local", "utc"} : Texto(x, f).hora = x /\ Texto(x, f).fuso = 1
      BY <2>2 DEF Texto
    <3>2. Casa(d, c) <=> i + a <= t /\ t < j + a
      BY <1>1, <1>5, <2>1, <2>2, <3>1 DEF AntesDe
    <3>3. QED
      BY <1>1, <1>2, <1>3, <1>5, <2>2, <3>2
  <2>3. CASE a # 0
    <3>1. \A x \in Nat : /\ Texto(x, "local").hora = x - a /\ Texto(x, "local").fuso = 0
                         /\ Texto(x, "utc").hora = x /\ Texto(x, "utc").fuso = 1
      BY <2>3 DEF Texto, Local
    <3>2. CASE d.forma = "local"
      <4>1. Casa(d, c) <=> (i <= t - a /\ t - a < j) \/ (i + a < t - a /\ t - a <= j + a)
        BY <1>1, <2>1, <2>3, <3>1, <3>2 DEF AntesDe
      <4>2. QED
        BY <1>1, <1>2, <1>3, <1>5, <2>3, <4>1
    <3>3. CASE d.forma = "utc"
      <4>1. Casa(d, c) <=> (i <= t /\ t < j) \/ (i + a <= t /\ t < j + a)
        BY <1>1, <2>1, <2>3, <3>1, <3>3 DEF AntesDe
      <4>2. QED
        BY <1>1, <1>2, <1>3, <1>5, <2>3, <4>1
    <3>4. QED
      BY <1>1, <1>5, <3>2, <3>3
  <2>4. QED
    BY <2>2, <2>3
<1>6. QED
  BY <1>4, <1>5

\* Documents are not from the future, and the count of a month that was settled when it was taken
\* is still the number of its documents.
ConsumoInv ==
    /\ relogio \in Nat /\ documentos \subseteq Documentos
    /\ \A d \in documentos : d.instante <= relogio
    /\ DOMAIN contagens = Competencias
    /\ \A c \in Competencias :
          /\ contagens[c].quando \in Nat /\ contagens[c].quando <= relogio
          /\ Assentada(c, contagens[c].quando) => contagens[c].quantas = Contagem(c)

LEMMA ConsumoInvInit == ConsumoInit => ConsumoInv
<1> SUFFICES ASSUME ConsumoInit PROVE ConsumoInv
  OBVIOUS
<1>1. \A c \in Competencias : contagens[c].quando = 0 /\ ~Assentada(c, 0)
  BY ConsumoAssumption, Months DEF ConsumoInit, Assentada, Instante
<1>2. QED
  BY <1>1 DEF ConsumoInit, ConsumoInv

\* A document that arrives later belongs to no month that was settled when it was counted.
LEMMA ConsumoInvNext == ConsumoInv /\ [ConsumoNext]_consumoProprias => ConsumoInv'
<1> SUFFICES ASSUME ConsumoInv, [ConsumoNext]_consumoProprias PROVE ConsumoInv'
  OBVIOUS
<1> USE DEF ConsumoInv
<1>1. ASSUME NEW forma \in Formas, Autoriza(forma) PROVE ConsumoInv'
  <2> DEFINE novo == [instante |-> relogio, forma |-> forma]
  <2>1. documentos' = documentos \cup {novo} /\ relogio' = relogio /\ contagens' = contagens
    BY <1>1 DEF Autoriza
  <2>2. novo \in Documentos /\ novo.instante = relogio
    BY DEF Documentos
  <2> HIDE DEF novo
  <2>3. ASSUME NEW c \in Competencias, Assentada(c, contagens[c].quando) PROVE Contagem(c)' = Contagem(c)
    <3>1. ~(relogio <= Instante(Inicio[c + 1]) + Atraso)
      BY <2>3, ConsumoAssumption, Months DEF Assentada, Instante
    <3>2. ~Casa(novo, c)
      BY <2>2, <3>1, TextsAndDates
    <3>3. {d \in documentos' : Casa(d, c)} = {d \in documentos : Casa(d, c)}
      BY <2>1, <3>2
    <3>4. QED
      BY <3>3 DEF Contagem
  <2>4. \A d \in documentos' : d.instante <= relogio'
    BY <2>1, <2>2
  <2>5. QED
    BY <2>1, <2>2, <2>3, <2>4
<1>2. ASSUME NEW q \in Competencias, Apura(q) PROVE ConsumoInv'
  <2>1. /\ contagens' = [contagens EXCEPT ![q] = [quantas |-> Contagem(q), quando |-> relogio]]
        /\ relogio' = relogio /\ documentos' = documentos
    BY <1>2 DEF Apura
  <2>2. \A c \in Competencias : Contagem(c)' = Contagem(c)
    BY <2>1 DEF Contagem
  <2>3. QED
    BY <2>1, <2>2
<1>3. CASE Hora
  <2>1. relogio' = relogio + 1 /\ documentos' = documentos /\ contagens' = contagens
    BY <1>3 DEF Hora
  <2>2. \A c \in Competencias : Contagem(c)' = Contagem(c)
    BY <2>1 DEF Contagem
  <2>3. \A d \in documentos : d.instante <= relogio + 1
    BY DEF Documentos
  <2>4. QED
    BY <2>1, <2>2, <2>3
<1>4. CASE UNCHANGED consumoProprias
  <2>1. UNCHANGED <<relogio, documentos, contagens>>
    BY <1>4 DEF consumoProprias
  <2>2. \A c \in Competencias : Contagem(c)' = Contagem(c)
    BY <2>1 DEF Contagem
  <2>3. QED
    BY <2>1, <2>2
<1>5. QED
  BY <1>1, <1>2, <1>3, <1>4 DEF ConsumoNext

\* A document counts for its own month in whatever form it was written, and the count of a month
\* that is over does not change any more: for months of any lengths, any offset and any number
\* of documents (Intervalo, FaixasRFC3339 and the filter that uses them).
THEOREM CountsSettle == ConsumoSpec => ContagemCorreta
<1>1. ConsumoInv /\ ConsumoInv' /\ [ConsumoNext]_consumoProprias => [ContagemAssenta /\ ContadoNoSeuMes']_consumoProprias
  <2> SUFFICES ASSUME ConsumoInv, ConsumoInv', ConsumoNext PROVE ContagemAssenta /\ ContadoNoSeuMes'
    OBVIOUS
  <2>1. ContadoNoSeuMes'
    BY TextsAndDates DEF ConsumoInv, ContadoNoSeuMes
  <2>2. ASSUME NEW c \in Competencias, Assentada(c, contagens[c].quando) PROVE contagens'[c].quantas = contagens[c].quantas
    <3>1. contagens[c].quantas = Contagem(c) /\ DOMAIN contagens = Competencias
      BY <2>2 DEF ConsumoInv
    <3>2. CASE \E q \in Competencias : Apura(q)
      BY <3>1, <3>2 DEF Apura
    <3>3. CASE contagens' = contagens
      BY <3>3
    <3>4. QED
      BY <3>2, <3>3 DEF ConsumoNext, Autoriza, Hora
  <2>3. QED
    BY <2>1, <2>2 DEF ContagemAssenta
<1>2. QED
  BY ConsumoInvInit, ConsumoInvNext, <1>1, PTL DEF ConsumoSpec, ContagemCorreta

-----------------------------------------------------------------------------
(* seguranca: histories of calls, and the rate limiter.                    *)

\* The calls of a history are numbered in their order, and of the past.
Numerada(h) ==
    /\ IsFiniteSet(h) /\ h \subseteq [quando : Tempos, numero : Nat]
    /\ \A c \in h : c.quando <= agora /\ c.numero < Cardinality(h)

Quantas(h, w) == Cardinality({c \in h : w < c.quando})

\* Quantas is a number, and looking further back never counts less.
LEMMA Counting ==
    ASSUME NEW h, IsFiniteSet(h), NEW w \in Int, h \subseteq [quando : Tempos, numero : Nat]
    PROVE  /\ Quantas(h, w) \in Nat
           /\ \A v \in Int : w <= v => Quantas(h, v) <= Quantas(h, w)
           /\ (\A c \in h : c.quando <= w) => Quantas(h, w) = 0
<1> DEFINE A(v) == {c \in h : v < c.quando}
<1>1. \A v : IsFiniteSet(A(v)) /\ Cardinality(A(v)) \in Nat
  BY FS_Subset, FS_CardinalityType
<1>2. ASSUME NEW v \in Int, w <= v PROVE Cardinality(A(v)) <= Cardinality(A(w))
  <2>1. A(v) \subseteq A(w)
    BY <1>2, AmbienteAssumption DEF Tempos
  <2>2. QED
    BY <1>1, <2>1, FS_Subset
<1>3. ASSUME \A c \in h : c.quando <= w PROVE Cardinality(A(w)) = 0
  <2>1. A(w) = {}
    BY <1>3, AmbienteAssumption DEF Tempos
  <2>2. QED
    BY <2>1, FS_EmptySet
<1>4. QED
  BY <1>1, <1>2, <1>3 DEF Quantas

\* One call more counts once in every window that reaches now.
LEMMA OneMore ==
    ASSUME NEW h, Numerada(h), agora \in Tempos
    PROVE  /\ Numerada(MaisUma(h)) /\ Cardinality(MaisUma(h)) = Cardinality(h) + 1
           /\ \A c \in MaisUma(h) : c \in h \/ c.quando = agora
           /\ \A w \in Int : Quantas(MaisUma(h), w) = IF w < agora THEN Quantas(h, w) + 1 ELSE Quantas(h, w)
<1> DEFINE n == [quando |-> agora, numero |-> Cardinality(h)]
<1>1. Cardinality(h) \in Nat /\ IsFiniteSet(h)
  BY FS_CardinalityType DEF Numerada
<1>2. n.quando = agora /\ n.numero = Cardinality(h) /\ n \in [quando : Tempos, numero : Nat]
  BY <1>1
<1>3. n \notin h
  BY <1>1, <1>2 DEF Numerada
<1> HIDE DEF n
<1>4. MaisUma(h) = h \cup {n}
  BY DEF MaisUma, n
<1>5. IsFiniteSet(MaisUma(h)) /\ Cardinality(MaisUma(h)) = Cardinality(h) + 1
  BY <1>1, <1>3, <1>4, FS_AddElement
<1>6. agora \in Nat
  BY AmbienteAssumption DEF Tempos
<1>7. Numerada(MaisUma(h))
  <2>1. \A c \in h : c.numero \in Nat /\ c.numero < Cardinality(h) /\ c.quando <= agora
    BY DEF Numerada
  <2>2. \A c \in h \cup {n} : c.quando <= agora /\ c.numero < Cardinality(h) + 1
    BY <1>1, <1>2, <1>6, <2>1
  <2>3. QED
    BY <1>2, <1>4, <1>5, <2>2 DEF Numerada
<1>8. ASSUME NEW w \in Int
      PROVE  Quantas(MaisUma(h), w) = IF w < agora THEN Quantas(h, w) + 1 ELSE Quantas(h, w)
  <2> DEFINE A == {c \in h : w < c.quando}
             B == {c \in MaisUma(h) : w < c.quando}
  <2>1. IsFiniteSet(A) /\ Cardinality(A) \in Nat
    BY <1>1, FS_Subset, FS_CardinalityType
  <2>2. CASE w < agora
    <3>1. B = A \cup {n} /\ n \notin A
      BY <1>2, <1>3, <1>4, <2>2
    <3>2. Cardinality(B) = Cardinality(A) + 1
      BY <2>1, <3>1, FS_AddElement
    <3>3. QED
      BY <2>2, <3>2 DEF Quantas
  <2>3. CASE ~(w < agora)
    <3>1. B = A
      BY <1>2, <1>4, <2>3
    <3>2. QED
      BY <2>3, <3>1 DEF Quantas
  <2>4. QED
    BY <2>2, <2>3
<1>9. QED
  BY <1>2, <1>4, <1>5, <1>7, <1>8

(* The sliding window. *)

\* How many of the first n visits are later than w.
Acima(s, n, w) == Cardinality({j \in 1..n : w < s[j]})

Crescente(s) == \A i, j \in 1..Len(s) : i <= j => s[i] <= s[j]

\* What the loop has made of the first i visits of s.
Filtrada(r, s, i) ==
    /\ r \in Seq(Tempos) /\ Len(r) <= i
    /\ \A j \in 1..Len(r) : NaJanela(r[j])
    /\ Crescente(s) => Crescente(r) /\ \A j \in 1..Len(r) : i > 0 /\ r[j] <= s[i]
    /\ \A w \in Int : agora - Janela <= w => Acima(r, Len(r), w) = Acima(s, i, w)

LEMMA OneAbove ==
    ASSUME NEW s, NEW n \in Nat, NEW w
    PROVE  /\ Acima(s, n, w) \in Nat /\ Acima(s, n, w) <= n
           /\ Acima(s, n + 1, w) = IF w < s[n + 1] THEN Acima(s, n, w) + 1 ELSE Acima(s, n, w)
<1> DEFINE A == {j \in 1..n : w < s[j]}
           B == {j \in 1..(n + 1) : w < s[j]}
<1>1. IsFiniteSet(1..n) /\ Cardinality(1..n) = n
  <2>1. IsFiniteSet(1..n) /\ Cardinality(1..n) = IF 1 > n THEN 0 ELSE n - 1 + 1
    BY FS_Interval
  <2>2. QED
    BY <2>1
<1>2. IsFiniteSet(A) /\ Cardinality(A) \in Nat /\ Cardinality(A) <= n
  BY <1>1, FS_Subset, FS_CardinalityType
<1>3. CASE w < s[n + 1]
  <2>1. B = A \cup {n + 1} /\ (n + 1) \notin A
    BY <1>3
  <2>2. Cardinality(B) = Cardinality(A) + 1
    BY <1>2, <2>1, FS_AddElement
  <2>3. QED
    BY <1>2, <1>3, <2>2 DEF Acima
<1>4. CASE ~(w < s[n + 1])
  <2>1. B = A
    BY <1>4
  <2>2. QED
    BY <1>2, <1>4, <2>1 DEF Acima
<1>5. QED
  BY <1>3, <1>4

LEMMA SameAbove ==
    ASSUME NEW s, NEW r, NEW n \in Nat, NEW w, \A j \in 1..n : r[j] = s[j]
    PROVE  Acima(r, n, w) = Acima(s, n, w)
<1>1. {j \in 1..n : w < r[j]} = {j \in 1..n : w < s[j]}
  OBVIOUS
<1>2. QED
  BY <1>1 DEF Acima

LEMMA FilterStep ==
    ASSUME agora \in Tempos, NEW s \in Seq(Tempos), NEW i \in 1..Len(s), NEW r, Filtrada(r, s, i - 1)
    PROVE  Filtrada(IF NaJanela(s[i]) THEN Append(r, s[i]) ELSE r, s, i)
<1>1. /\ r \in Seq(Tempos) /\ Len(r) \in Nat /\ Len(r) <= i - 1 /\ s[i] \in Tempos
      /\ i - 1 \in Nat /\ (i - 1) + 1 = i /\ agora - Janela \in Int /\ Len(s) \in Nat /\ \A j \in 1..Len(r) : r[j] \in Int
      /\ \A j \in 1..Len(s) : s[j] \in Int
  <2>1. r \in Seq(Tempos) /\ Len(r) <= i - 1
    BY DEF Filtrada
  <2>2. Tempos \subseteq Int /\ agora \in Int /\ Janela \in Int
    BY AmbienteAssumption, LimiterAssumption DEF Tempos
  <2>3. Len(s) \in Nat /\ Len(r) \in Nat /\ i \in Nat \ {0}
    BY <2>1
  <2>4. s[i] \in Tempos /\ (\A j \in 1..Len(r) : r[j] \in Tempos) /\ \A j \in 1..Len(s) : s[j] \in Tempos
    BY <2>1
  <2>5. i - 1 \in Nat /\ (i - 1) + 1 = i /\ agora - Janela \in Int
    BY <2>2, <2>3
  <2>6. (\A j \in 1..Len(r) : r[j] \in Int) /\ \A j \in 1..Len(s) : s[j] \in Int
    BY <2>2, <2>4
  <2>7. QED
    BY <2>1, <2>3, <2>4, <2>5, <2>6
<1>2. ASSUME NEW w \in Int PROVE Acima(s, i, w) = IF w < s[i] THEN Acima(s, i - 1, w) + 1 ELSE Acima(s, i - 1, w)
  BY <1>1, OneAbove
<1>3. ASSUME Crescente(s), NEW j \in 1..Len(r) PROVE r[j] <= s[i]
  <2>1. r[j] <= s[i - 1] /\ i - 1 \in 1..Len(s) /\ i - 1 <= i
    BY <1>1, <1>3 DEF Filtrada
  <2>2. s[i - 1] <= s[i]
    BY <1>3, <2>1 DEF Crescente
  <2>3. s[i - 1] \in Int /\ r[j] \in Int /\ s[i] \in Int
    BY <1>1, <1>3, <2>1
  <2>4. QED
    BY <2>1, <2>2, <2>3
<1>4. CASE NaJanela(s[i])
  <2> DEFINE q == Append(r, s[i])
  <2>1. /\ q \in Seq(Tempos) /\ Len(q) = Len(r) + 1 /\ q[Len(r) + 1] = s[i]
        /\ \A j \in 1..Len(r) : q[j] = r[j]
    BY <1>1
  <2> HIDE DEF q
  <2>2. \A j \in 1..Len(q) : j \in 1..Len(r) \/ j = Len(r) + 1
    BY <1>1, <2>1
  <2>3. \A j \in 1..Len(q) : NaJanela(q[j])
    BY <1>4, <2>1, <2>2 DEF Filtrada
  <2>4. ASSUME Crescente(s) PROVE Crescente(q) /\ \A j \in 1..Len(q) : i > 0 /\ q[j] <= s[i]
    <3>1. Crescente(r) /\ \A j \in 1..Len(r) : r[j] <= s[i]
      BY <1>3, <2>4 DEF Filtrada
    <3>2. s[i] <= s[i]
      BY <1>1
    <3>3. ASSUME NEW j \in 1..Len(q), NEW k \in 1..Len(q), j <= k PROVE q[j] <= q[k]
      <4>1. CASE k = Len(r) + 1
        BY <2>1, <2>2, <3>1, <3>2, <4>1
      <4>2. CASE k \in 1..Len(r)
        <5>1. j \in 1..Len(r)
          BY <3>3, <4>2
        <5>2. QED
          BY <2>1, <3>1, <3>3, <4>2, <5>1 DEF Crescente
      <4>3. QED
        BY <2>2, <4>1, <4>2
    <3>4. QED
      BY <1>1, <2>1, <2>2, <3>1, <3>2, <3>3 DEF Crescente
  <2>5. ASSUME NEW w \in Int, agora - Janela <= w PROVE Acima(q, Len(q), w) = Acima(s, i, w)
    <3>1. Acima(q, Len(r), w) = Acima(r, Len(r), w)
      <4>1. Len(r) \in Nat /\ \A j \in 1..Len(r) : q[j] = r[j]
        BY <1>1, <2>1
      <4>2. QED
        BY <4>1, SameAbove
    <3>2. Acima(r, Len(r), w) = Acima(s, i - 1, w)
      BY <2>5 DEF Filtrada
    <3>3. Acima(q, Len(r) + 1, w) = IF w < q[Len(r) + 1] THEN Acima(q, Len(r), w) + 1 ELSE Acima(q, Len(r), w)
      BY <1>1, OneAbove
    <3>4. QED
      BY <1>2, <2>1, <3>1, <3>2, <3>3
  <2>6. Len(q) <= i
    BY <1>1, <2>1
  <2>7. Filtrada(q, s, i)
    BY <2>1, <2>3, <2>4, <2>5, <2>6 DEF Filtrada
  <2>8. QED
    BY <1>4, <2>7 DEF q
<1>5. CASE ~NaJanela(s[i])
  <2>1. ASSUME NEW w \in Int, agora - Janela <= w PROVE Acima(r, Len(r), w) = Acima(s, i, w)
    <3>1. ~(w < s[i])
      BY <1>1, <1>5, <2>1 DEF NaJanela
    <3>2. QED
      BY <1>2, <2>1, <3>1 DEF Filtrada
  <2>2. i > 0 /\ Len(r) <= i
    BY <1>1
  <2>3. Filtrada(r, s, i)
    BY <1>1, <1>3, <2>1, <2>2 DEF Filtrada
  <2>4. QED
    BY <1>5, <2>3
<1>6. QED
  BY <1>4, <1>5

Percorre(g, s, n) ==
    \A i \in 0..n :
        /\ g[i] = IF i = 0 THEN <<>> ELSE IF NaJanela(s[i]) THEN Append(g[i - 1], s[i]) ELSE g[i - 1]
        /\ Filtrada(g[i], s, i)

\* The loop of allow, run to the end: its recursive definition has a value, the filtered slice.
LEMMA FilterRuns ==
    ASSUME agora \in Tempos, NEW s \in Seq(Tempos)
    PROVE  \A n \in 0..Len(s) : \E g : g = [i \in 0..n |-> g[i]] /\ Percorre(g, s, n)
<1> DEFINE N == Len(s)
           Falta == {n \in 0..N : ~\E g : g = [i \in 0..n |-> g[i]] /\ Percorre(g, s, n)}
<1>1. N \in Nat
  OBVIOUS
<1>2. Filtrada(<<>>, s, 0)
  <2>1. <<>> \in Seq(Tempos) /\ Len(<<>>) = 0
    OBVIOUS
  <2>2. QED
    BY <2>1 DEF Filtrada, Crescente, Acima
<1>3. ASSUME NEW i \in 1..N, NEW r, Filtrada(r, s, i - 1)
      PROVE  Filtrada(IF NaJanela(s[i]) THEN Append(r, s[i]) ELSE r, s, i)
  BY <1>3, FilterStep
<1> HIDE DEF N
<1>4. ASSUME Falta # {} PROVE FALSE
  <2>1. PICK n \in Falta : \A m \in Falta : n <= m
    <3>1. Falta \in SUBSET Nat
      BY <1>1
    <3>2. QED
      BY <1>4, <3>1, Least
  <2>2. n \in 0..N
    OBVIOUS
  <2>3. CASE n = 0
    <3> DEFINE g == [i \in 0..0 |-> <<>>]
    <3>1. g = [i \in 0..n |-> g[i]] /\ \A i \in 0..n : i = 0 /\ g[i] = <<>>
      BY <2>3
    <3> HIDE DEF g
    <3>2. Percorre(g, s, n)
      BY <1>2, <3>1 DEF Percorre
    <3>3. QED
      BY <2>1, <3>1, <3>2
  <2>4. CASE n # 0
    <3>1. n - 1 \in 0..N /\ ~(n <= n - 1) /\ n \in 1..N
      BY <1>1, <2>2, <2>4
    <3>2. PICK g : Percorre(g, s, n - 1)
      BY <2>1, <3>1
    <3> DEFINE x == IF NaJanela(s[n]) THEN Append(g[n - 1], s[n]) ELSE g[n - 1]
               h == [i \in 0..n |-> IF i = n THEN x ELSE g[i]]
    <3>3. Filtrada(x, s, n)
      <4>1. n - 1 \in 0..(n - 1)
        BY <3>1
      <4>2. Filtrada(g[n - 1], s, n - 1)
        BY <3>2, <4>1 DEF Percorre
      <4>3. QED
        BY <1>3, <3>1, <4>2
    <3>4. /\ h = [i \in 0..n |-> h[i]] /\ h[n] = x
          /\ \A i \in 0..(n - 1) : i \in 0..n /\ i # n /\ h[i] = g[i]
      BY <3>1
    <3> HIDE DEF h
    <3>5. ASSUME NEW i \in 0..n
          PROVE  /\ h[i] = IF i = 0 THEN <<>> ELSE IF NaJanela(s[i]) THEN Append(h[i - 1], s[i]) ELSE h[i - 1]
                 /\ Filtrada(h[i], s, i)
      <4>1. CASE i = n
        <5>1. n - 1 \in 0..(n - 1)
          BY <3>1
        <5>2. h[n - 1] = g[n - 1]
          BY <3>4, <5>1
        <5>3. QED
          BY <2>4, <3>3, <3>4, <4>1, <5>2
      <4>2. CASE i # n
        <5>1. i \in 0..(n - 1) /\ (i # 0 => i - 1 \in 0..(n - 1))
          BY <3>1, <4>2
        <5>2. h[i] = g[i] /\ (i # 0 => h[i - 1] = g[i - 1])
          BY <3>4, <5>1
        <5>3. QED
          BY <3>2, <5>1, <5>2 DEF Percorre
      <4>3. QED
        BY <4>1, <4>2
    <3>6. QED
      BY <2>1, <3>4, <3>5 DEF Percorre
  <2>5. QED
    BY <2>3, <2>4
<1>5. QED
  BY <1>4 DEF N

\* The visits in the window are kept, in their order.
LEMMA Kept ==
    ASSUME agora \in Tempos, NEW s \in Seq(Tempos)
    PROVE  Filtrada(NaJanelaDe(s), s, Len(s))
<1> DEFINE N == Len(s)
           Ate(f) == f = [i \in 0..N |-> IF i = 0 THEN <<>>
                                          ELSE IF NaJanela(s[i]) THEN Append(f[i - 1], s[i]) ELSE f[i - 1]]
           ate == CHOOSE f : Ate(f)
<1>1. N \in Nat /\ N \in 0..N
  OBVIOUS
<1>2. PICK g : g = [i \in 0..N |-> g[i]] /\ Percorre(g, s, N)
  BY <1>1, FilterRuns
<1>3. Ate(ate)
  <2>1. Ate(g)
    BY <1>2 DEF Percorre
  <2>2. QED
    BY <2>1
<1>4. NaJanelaDe(s) = ate[N]
  BY DEF NaJanelaDe
<1> HIDE DEF ate
<1>5. \A i \in 0..N : ate[i] = IF i = 0 THEN <<>>
                               ELSE IF NaJanela(s[i]) THEN Append(ate[i - 1], s[i]) ELSE ate[i - 1]
  BY <1>3
<1> DEFINE Falta == {i \in 0..N : ~Filtrada(ate[i], s, i)}
<1>6. Filtrada(<<>>, s, 0)
  <2>1. <<>> \in Seq(Tempos) /\ Len(<<>>) = 0
    OBVIOUS
  <2>2. QED
    BY <2>1 DEF Filtrada, Crescente, Acima
<1>7. ASSUME Falta # {} PROVE FALSE
  <2>1. PICK n \in Falta : \A m \in Falta : n <= m
    <3>1. Falta \in SUBSET Nat
      BY <1>1
    <3>2. QED
      BY <1>7, <3>1, Least
  <2>2. n # 0 /\ n \in 0..N
    BY <1>5, <1>6, <2>1
  <2>3. n \in 1..N /\ n - 1 \in 0..N /\ ~(n <= n - 1)
    BY <1>1, <2>2
  <2>4. Filtrada(ate[n - 1], s, n - 1)
    BY <2>1, <2>3
  <2>5. Filtrada(ate[n], s, n)
    BY <1>5, <2>2, <2>3, <2>4, FilterStep
  <2>6. QED
    BY <2>1, <2>5
<1>8. QED
  BY <1>1, <1>4, <1>7

(* The inductive invariant. *)

LimiterState ==
    /\ agora \in Tempos /\ comRedis \in BOOLEAN
    /\ Numerada(passaram) /\ Numerada(semResposta)
    /\ visitas \in Seq(Tempos) /\ Len(visitas) <= Limite
    /\ quantidade \in 0..(Limite + 1)
    /\ janelaAte \in 0..(MaxTempo + Janela) \cup {Nunca}
    /\ recusas \in 0..1

\* The slice holds the calls that passed in the window, and possibly older ones.
MemoriaInv ==
    /\ Crescente(visitas)
    /\ \A j \in 1..Len(visitas) : visitas[j] <= agora
    /\ \A w \in Int : agora - Janela <= w => Quantas(passaram, w) = Acima(visitas, Len(visitas), w)
    /\ recusas > 0 => Limite <= Quantas(passaram, agora - Janela)

\* The key's window and the one before it: since when the key counts, what it counted, and what
\* a window that ends in it may hold.
Desde0 == janelaAte - Janela

RedisInv ==
    IF janelaAte = Nunca
    THEN quantidade = 0 /\ passaram = {} /\ recusas = 0
    ELSE /\ quantidade > 0 /\ Desde0 \in 0..agora
         /\ \A c \in passaram : c.quando < janelaAte
         /\ Quantas(passaram, Desde0 - 1) <= quantidade /\ Quantas(passaram, Desde0 - 1) <= Limite
         /\ Quantas(passaram, Desde0 - Janela) <= Quantas(passaram, Desde0 - 1) + Limite
         /\ quantidade <= Limite + 1
         /\ (IF quantidade <= Limite THEN quantidade ELSE Limite)
               <= Quantas(passaram, Desde0 - 1) + Quantas(semResposta, Desde0 - 1)
         /\ recusas > 0 => agora < janelaAte /\ quantidade = Limite + 1

LimiterInv == LimiterState /\ IF comRedis THEN RedisInv ELSE MemoriaInv

LEMMA LimiterInvInit == AmbienteInit /\ LimiterInit => LimiterInv
<1> SUFFICES ASSUME AmbienteInit, LimiterInit PROVE LimiterInv
  OBVIOUS
<1>1. Numerada({}) /\ \A w \in Int : Quantas({}, w) = 0
  <2>1. {} \subseteq [quando : Tempos, numero : Nat] /\ IsFiniteSet({}) /\ Cardinality({}) = 0
    BY FS_EmptySet
  <2>2. \A w \in Int : {c \in {} : w < c.quando} = {}
    OBVIOUS
  <2>3. QED
    BY <2>1, <2>2 DEF Numerada, Quantas
<1>2. <<>> \in Seq(Tempos) /\ Len(<<>>) = 0
  OBVIOUS
<1>3. \A w \in Int : Acima(<<>>, 0, w) = 0
  <2>1. \A w \in Int : {j \in 1..0 : w < <<>>[j]} = {}
    OBVIOUS
  <2>2. QED
    BY <2>1, FS_EmptySet DEF Acima
<1>4. LimiterState
  BY <1>1, <1>2, AmbienteAssumption, LimiterAssumption DEF LimiterState, AmbienteInit, LimiterInit, Tempos
<1>5. MemoriaInv
  BY <1>1, <1>2, <1>3, LimiterAssumption DEF MemoriaInv, LimiterInit, Crescente
<1>6. RedisInv
  BY DEF RedisInv, LimiterInit
<1>7. QED
  BY <1>4, <1>5, <1>6 DEF LimiterInv

\* What the counts of the histories are when the invariant holds.
LEMMA LimiterCounts ==
    ASSUME LimiterState
    PROVE  /\ agora \in Nat /\ Janela \in Nat \ {0} /\ Limite \in Nat \ {0} /\ agora <= MaxTempo /\ MaxTempo \in Nat
           /\ \A w \in Int : Quantas(passaram, w) \in Nat /\ Quantas(semResposta, w) \in Nat
           /\ \A v, w \in Int : w <= v => /\ Quantas(passaram, v) <= Quantas(passaram, w)
                                          /\ Quantas(semResposta, v) <= Quantas(semResposta, w)
           /\ \A w \in Int : (\A c \in passaram : c.quando <= w) => Quantas(passaram, w) = 0
<1>1. /\ IsFiniteSet(passaram) /\ passaram \subseteq [quando : Tempos, numero : Nat]
      /\ IsFiniteSet(semResposta) /\ semResposta \subseteq [quando : Tempos, numero : Nat]
  BY DEF LimiterState, Numerada
<1>2. ASSUME NEW h \in {passaram, semResposta}, NEW w \in Int
      PROVE  /\ Quantas(h, w) \in Nat /\ \A v \in Int : w <= v => Quantas(h, v) <= Quantas(h, w)
             /\ (\A c \in h : c.quando <= w) => Quantas(h, w) = 0
  BY <1>1, Counting
<1>3. agora \in Nat /\ Janela \in Nat \ {0} /\ Limite \in Nat \ {0} /\ agora <= MaxTempo /\ MaxTempo \in Nat
  BY AmbienteAssumption, LimiterAssumption DEF LimiterState, Tempos
<1>4. QED
  BY <1>2, <1>3

\* allow in memory: the slice and the history of the calls that passed agree on every window.
LEMMA AllowKeeps == ASSUME LimiterState, MemoriaInv, Allow PROVE LimiterState' /\ MemoriaInv'
<1> DEFINE novo == NaJanelaDe(visitas)
<1>1. agora' = agora /\ comRedis' = comRedis /\ quantidade' = quantidade /\ janelaAte' = janelaAte /\ semResposta' = semResposta
  BY DEF Allow
<1>2. /\ agora \in Tempos /\ visitas \in Seq(Tempos) /\ Crescente(visitas)
      /\ agora \in Nat /\ Janela \in Nat \ {0} /\ Limite \in Nat \ {0}
  BY LimiterCounts DEF LimiterState, MemoriaInv
<1>3. Filtrada(novo, visitas, Len(visitas))
  BY <1>2, Kept
<1> HIDE DEF novo
<1>4. /\ novo \in Seq(Tempos) /\ Len(novo) \in Nat /\ Len(novo) <= Limite /\ Crescente(novo)
      /\ \A j \in 1..Len(novo) : novo[j] \in Tempos /\ novo[j] > agora - Janela /\ novo[j] <= agora
      /\ \A w \in Int : agora - Janela <= w => Quantas(passaram, w) = Acima(novo, Len(novo), w)
  <2>1. novo \in Seq(Tempos) /\ Len(novo) \in Nat /\ Len(novo) <= Len(visitas) /\ Crescente(novo)
    BY <1>2, <1>3 DEF Filtrada
  <2>2. ASSUME NEW j \in 1..Len(novo) PROVE novo[j] \in Tempos /\ novo[j] > agora - Janela /\ novo[j] <= agora
    <3>1. novo[j] \in Tempos /\ NaJanela(novo[j]) /\ Len(visitas) > 0 /\ novo[j] <= visitas[Len(visitas)]
      BY <1>2, <1>3, <2>1, <2>2 DEF Filtrada
    <3>2. Len(visitas) \in 1..Len(visitas) /\ visitas[Len(visitas)] \in Tempos
      BY <1>2, <3>1
    <3>3. visitas[Len(visitas)] <= agora
      BY <3>2 DEF MemoriaInv
    <3>4. novo[j] \in Int /\ visitas[Len(visitas)] \in Int
      BY <3>1, <3>2, AmbienteAssumption DEF Tempos
    <3>5. QED
      BY <1>2, <3>1, <3>3, <3>4 DEF NaJanela
  <2>3. \A w \in Int : agora - Janela <= w => Quantas(passaram, w) = Acima(novo, Len(novo), w)
    BY <1>3 DEF Filtrada, MemoriaInv
  <2>4. Len(novo) <= Limite
    <3>1. Len(visitas) \in Nat /\ Len(visitas) <= Limite
      BY <1>2 DEF LimiterState
    <3>2. QED
      BY <1>2, <2>1, <3>1
  <2>5. QED
    BY <2>1, <2>2, <2>3, <2>4
<1>5. CASE Len(novo) >= Limite
  <2>1. visitas' = novo /\ recusas' = 1 /\ passaram' = passaram
    BY <1>5 DEF Allow, Cheia, novo
  <2>2. Limite <= Quantas(passaram, agora - Janela)
    <3>1. {j \in 1..Len(novo) : agora - Janela < novo[j]} = 1..Len(novo)
      BY <1>2, <1>4, AmbienteAssumption DEF Tempos
    <3>2. Cardinality(1..Len(novo)) = Len(novo)
      <4>1. Cardinality(1..Len(novo)) = IF 1 > Len(novo) THEN 0 ELSE Len(novo) - 1 + 1
        BY <1>4, FS_Interval
      <4>2. QED
        BY <1>4, <4>1
    <3>3. agora - Janela \in Int
      BY <1>2
    <3>4. QED
      BY <1>2, <1>4, <1>5, <3>1, <3>2, <3>3 DEF Acima
  <2>3. LimiterState'
    BY <1>1, <1>4, <2>1 DEF LimiterState, Numerada
  <2>4. MemoriaInv'
    BY <1>1, <1>4, <2>1, <2>2 DEF MemoriaInv
  <2>5. QED
    BY <2>3, <2>4
<1>6. CASE ~(Len(novo) >= Limite)
  <2>1. visitas' = Append(novo, agora) /\ recusas' = recusas /\ passaram' = MaisUma(passaram)
    BY <1>6 DEF Allow, Cheia, novo
  <2> DEFINE q == Append(novo, agora)
  <2>2. /\ q \in Seq(Tempos) /\ Len(q) = Len(novo) + 1 /\ Len(q) <= Limite /\ q[Len(novo) + 1] = agora
        /\ \A j \in 1..Len(novo) : q[j] = novo[j]
    BY <1>2, <1>4, <1>6
  <2>3. visitas' = q
    BY <2>1
  <2> HIDE DEF q
  <2>4. \A j \in 1..Len(q) : j \in 1..Len(novo) \/ j = Len(novo) + 1
    BY <1>4, <2>2
  <2>5. \A j \in 1..Len(q) : q[j] <= agora
    BY <1>2, <1>4, <2>2, <2>4
  <2>6. Crescente(q)
    <3>1. ASSUME NEW j \in 1..Len(q), NEW k \in 1..Len(q), j <= k PROVE q[j] <= q[k]
      <4>1. CASE k = Len(novo) + 1
        BY <2>2, <2>5, <4>1
      <4>2. CASE k \in 1..Len(novo)
        <5>1. j \in 1..Len(novo)
          BY <3>1, <4>2
        <5>2. QED
          BY <1>4, <2>2, <3>1, <4>2, <5>1 DEF Crescente
      <4>3. QED
        BY <2>4, <4>1, <4>2
    <3>2. QED
      BY <3>1 DEF Crescente
  <2>7. /\ Numerada(MaisUma(passaram))
        /\ \A w \in Int : Quantas(MaisUma(passaram), w)
                             = IF w < agora THEN Quantas(passaram, w) + 1 ELSE Quantas(passaram, w)
    BY OneMore DEF LimiterState
  <2>8. ASSUME NEW w \in Int, agora - Janela <= w PROVE Quantas(MaisUma(passaram), w) = Acima(q, Len(q), w)
    <3>1. Acima(q, Len(novo), w) = Acima(novo, Len(novo), w)
      <4>1. Len(novo) \in Nat /\ \A j \in 1..Len(novo) : q[j] = novo[j]
        BY <1>4, <2>2
      <4>2. QED
        BY <4>1, SameAbove
    <3>2. Acima(q, Len(novo) + 1, w) = IF w < q[Len(novo) + 1] THEN Acima(q, Len(novo), w) + 1 ELSE Acima(q, Len(novo), w)
      BY <1>4, OneAbove
    <3>3. Quantas(passaram, w) = Acima(novo, Len(novo), w)
      BY <1>4, <2>8
    <3>4. QED
      BY <2>2, <2>7, <3>1, <3>2, <3>3
  <2>9. recusas > 0 => Limite <= Quantas(MaisUma(passaram), agora - Janela)
    <3>1. agora - Janela \in Int /\ agora - Janela < agora
      BY <1>2
    <3>2. Quantas(passaram, agora - Janela) \in Nat
      BY <3>1, LimiterCounts
    <3>3. Quantas(MaisUma(passaram), agora - Janela) = Quantas(passaram, agora - Janela) + 1
      BY <2>7, <3>1
    <3>4. QED
      BY <1>2, <3>2, <3>3 DEF MemoriaInv
  <2>10. LimiterState'
    BY <1>1, <2>1, <2>2, <2>3, <2>7 DEF LimiterState, Numerada
  <2>11. MemoriaInv'
    BY <1>1, <2>1, <2>2, <2>3, <2>5, <2>6, <2>8, <2>9 DEF MemoriaInv
  <2>12. QED
    BY <2>10, <2>11
<1>7. QED
  BY <1>5, <1>6

\* The ticker forgets only what no window reaches any more.
LEMMA CleanupKeeps == ASSUME LimiterState, MemoriaInv, LimiterCleanup PROVE LimiterState' /\ MemoriaInv'
<1>1. /\ visitas' = <<>> /\ Velhas
      /\ UNCHANGED <<agora, comRedis, quantidade, janelaAte, passaram, semResposta, recusas>>
  BY DEF LimiterCleanup
<1>2. <<>> \in Seq(Tempos) /\ Len(<<>>) = 0
  OBVIOUS
<1>3. visitas \in Seq(Tempos) /\ agora \in Nat /\ Janela \in Nat \ {0} /\ Limite \in Nat \ {0}
  BY LimiterCounts DEF LimiterState
<1>4. ASSUME NEW w \in Int, agora - Janela <= w PROVE Quantas(passaram, w) = Acima(<<>>, 0, w)
  <2>1. Len(visitas) \in 1..Len(visitas) /\ visitas[Len(visitas)] < agora - 2 * Janela
    BY <1>1, <1>3 DEF Velhas, Last
  <2>2. ASSUME NEW j \in 1..Len(visitas) PROVE ~(w < visitas[j])
    <3>1. visitas[j] <= visitas[Len(visitas)]
      BY <1>3, <2>1 DEF MemoriaInv, Crescente
    <3>2. visitas[j] \in Int /\ visitas[Len(visitas)] \in Int
      BY <1>3, <2>1, AmbienteAssumption DEF Tempos
    <3>3. QED
      BY <1>3, <1>4, <2>1, <3>1, <3>2
  <2>3. {j \in 1..Len(visitas) : w < visitas[j]} = {} /\ {j \in 1..0 : w < <<>>[j]} = {}
    BY <2>2
  <2>4. Acima(visitas, Len(visitas), w) = Acima(<<>>, 0, w)
    BY <2>3 DEF Acima
  <2>5. QED
    BY <1>4, <2>4 DEF MemoriaInv
<1>5. LimiterState'
  BY <1>1, <1>2, <1>3 DEF LimiterState, Numerada
<1>6. MemoriaInv'
  BY <1>1, <1>2, <1>3, <1>4 DEF MemoriaInv, Crescente
<1>7. QED
  BY <1>5, <1>6

\* Min of two numbers, which SetWithTTL and the window's end need.
LEMMA SmallerOfTwo ==
    ASSUME NEW a \in Int, NEW b \in Int
    PROVE  Min({a, b}) = IF a <= b THEN a ELSE b
<1> DEFINE E(x) == x \in {a, b} /\ \A y \in {a, b} : x <= y
<1>1. E(IF a <= b THEN a ELSE b)
  OBVIOUS
<1>2. E(CHOOSE x : E(x))
  BY <1>1
<1>3. (CHOOSE x : E(x)) = Min({a, b})
  BY DEF Min
<1>4. QED
  BY <1>2, <1>3

\* One call more is counted, and it passes, is refused, or passes because no answer comes.
LEMMA IncrementKeeps ==
    ASSUME LimiterState, RedisInv, Incrementar, agora' = agora,
           \/ /\ quantidade' <= Limite /\ passaram' = MaisUma(passaram)
              /\ semResposta' = semResposta /\ recusas' = recusas
           \/ ~(quantidade' <= Limite) /\ recusas' = 1 /\ passaram' = passaram /\ semResposta' = semResposta
           \/ passaram' = passaram /\ semResposta' = MaisUma(semResposta) /\ recusas' = recusas
    PROVE  /\ RedisInv' /\ Numerada(passaram)' /\ Numerada(semResposta)'
           /\ quantidade' \in 0..(Limite + 1) /\ janelaAte' \in 0..(MaxTempo + Janela)
<1> DEFINE P(w) == Quantas(passaram, w)
           R(w) == Quantas(semResposta, w)
           p(w) == Quantas(passaram', w)
           r(w) == Quantas(semResposta', w)
<1>1. /\ agora \in Nat /\ Janela \in Nat \ {0} /\ Limite \in Nat \ {0} /\ agora <= MaxTempo /\ MaxTempo \in Nat
      /\ quantidade \in 0..(Limite + 1) /\ recusas \in 0..1 /\ Nunca \notin Int
      /\ (janelaAte \in Int \/ janelaAte = Nunca)
  BY LimiterCounts, AmbienteAssumption DEF LimiterState
<1>2. \A w \in Int : P(w) \in Nat /\ R(w) \in Nat /\ \A v \in Int : w <= v => P(v) <= P(w)
  BY LimiterCounts
<1>3. /\ \A w \in Int : Quantas(MaisUma(passaram), w) = IF w < agora THEN P(w) + 1 ELSE P(w)
      /\ \A w \in Int : Quantas(MaisUma(semResposta), w) = IF w < agora THEN R(w) + 1 ELSE R(w)
      /\ Numerada(MaisUma(passaram)) /\ Numerada(MaisUma(semResposta))
      /\ \A c \in MaisUma(passaram) : c \in passaram \/ c.quando = agora
  BY OneMore DEF LimiterState
\* Which of the histories has grown.
<1>4. /\ \/ quantidade' <= Limite /\ recusas' = recusas /\ \A w \in Int : w < agora => p(w) = P(w) + 1 /\ r(w) = R(w)
         \/ ~(quantidade' <= Limite) /\ recusas' = 1 /\ \A w \in Int : p(w) = P(w) /\ r(w) = R(w)
         \/ recusas' = recusas /\ \A w \in Int : w < agora => p(w) = P(w) /\ r(w) = R(w) + 1
      /\ \A c \in passaram' : c \in passaram \/ c.quando = agora
  BY <1>3
<1>5. Numerada(passaram)' /\ Numerada(semResposta)'
  <2>1. (passaram' = passaram \/ passaram' = MaisUma(passaram)) /\ (semResposta' = semResposta \/ semResposta' = MaisUma(semResposta))
    OBVIOUS
  <2>2. Numerada(passaram) /\ Numerada(semResposta)
    BY DEF LimiterState
  <2>3. QED
    BY <1>3, <2>1, <2>2 DEF Numerada
<1>6. \A c \in passaram : c.quando \in Int /\ c.quando <= agora
  BY AmbienteAssumption DEF LimiterState, Numerada, Tempos
<1> HIDE DEF P, R, p, r
<1>7. CASE janelaAte = Nunca \/ janelaAte <= agora
  <2>1. Contada = 0
    BY <1>7 DEF Contada, RedisInv
  <2>2. quantidade' = 1 /\ janelaAte' = agora + Janela
    <3>1. Min({1, Limite + 1}) = 1
      BY <1>1, SmallerOfTwo
    <3>2. QED
      BY <2>1, <3>1 DEF Incrementar
  <2>3. P(agora - 1) = 0 /\ P(agora - Janela) <= Limite /\ recusas = 0
    <3>1. CASE janelaAte = Nunca
      <4>1. passaram = {} /\ recusas = 0
        BY <3>1 DEF RedisInv
      <4>2. \A w \in Int : P(w) = 0
        BY <4>1, LimiterCounts DEF P
      <4>3. QED
        BY <1>1, <4>1, <4>2
    <3>2. CASE janelaAte # Nunca
      <4>1. \A c \in passaram : c.quando <= agora - 1
        BY <1>1, <1>6, <1>7, <3>2 DEF RedisInv
      <4>2. P(agora - 1) = 0
        <5>1. agora - 1 \in Int
          BY <1>1
        <5>2. QED
          BY <4>1, <5>1, LimiterCounts DEF P
      <4>3. Desde0 - 1 \in Int /\ Desde0 - 1 <= agora - Janela /\ agora - Janela \in Int
        BY <1>1, <1>7, <3>2 DEF Desde0
      <4>4. P(agora - Janela) <= P(Desde0 - 1) /\ P(Desde0 - 1) \in Nat /\ P(agora - Janela) \in Nat
        BY <1>2, <4>3
      <4>5. P(Desde0 - 1) <= Limite /\ ~(recusas > 0)
        BY <1>1, <1>7, <3>2 DEF RedisInv, P
      <4>6. QED
        BY <1>1, <4>2, <4>4, <4>5
    <3>3. QED
      BY <3>1, <3>2
  <2>4. /\ p(agora - 1) <= 1 /\ p(agora - Janela) <= p(agora - 1) + Limite
        /\ 1 <= p(agora - 1) + r(agora - 1) /\ recusas' = 0
    <3>1. agora - 1 \in Int /\ agora - 1 < agora /\ agora - Janela \in Int /\ agora - Janela < agora
      BY <1>1
    <3>2. P(agora - 1) \in Nat /\ R(agora - 1) \in Nat /\ P(agora - Janela) \in Nat
      BY <1>2, <3>1
    <3>3. quantidade' <= Limite
      BY <1>1, <2>2
    <3>4. \/ p(agora - 1) = P(agora - 1) + 1 /\ r(agora - 1) = R(agora - 1) /\ p(agora - Janela) = P(agora - Janela) + 1
          \/ p(agora - 1) = P(agora - 1) /\ r(agora - 1) = R(agora - 1) + 1 /\ p(agora - Janela) = P(agora - Janela)
      BY <1>4, <3>1, <3>3
    <3>5. recusas' = recusas
      BY <1>4, <3>3
    <3>6. QED
      BY <1>1, <2>3, <3>2, <3>4, <3>5
  <2>5. \A c \in passaram' : c.quando < agora + Janela
    BY <1>1, <1>4, <1>6
  <2>6. janelaAte' # Nunca /\ Desde0' = agora
    BY <1>1, <2>2 DEF Desde0
  <2>7. RedisInv'
    <3>1. /\ Quantas(passaram', Desde0' - 1) <= 1 /\ Quantas(passaram', Desde0' - 1) <= Limite
          /\ Quantas(passaram', Desde0' - Janela) <= Quantas(passaram', Desde0' - 1) + Limite
          /\ 1 <= Quantas(passaram', Desde0' - 1) + Quantas(semResposta', Desde0' - 1)
      <4>1. agora - 1 \in Int
        BY <1>1
      <4>2. p(agora - 1) <= Limite
        <5>1. p(agora - 1) \in Nat
          BY <1>2, <1>3, <4>1 DEF p, P
        <5>2. QED
          BY <1>1, <2>4, <5>1
      <4>3. QED
        BY <2>4, <2>6, <4>2 DEF p, r
    <3>2. /\ quantidade' > 0 /\ Desde0' \in 0..agora' /\ quantidade' <= Limite + 1 /\ quantidade' <= Limite
          /\ ~(recusas' > 0)
      BY <1>1, <2>2, <2>4, <2>6
    <3>3. QED
      BY <2>2, <2>5, <2>6, <3>1, <3>2 DEF RedisInv
  <2>8. QED
    BY <1>1, <1>5, <2>2, <2>7
<1>8. CASE janelaAte # Nunca /\ agora < janelaAte
  <2>1. Contada = quantidade /\ quantidade > 0
    BY <1>1, <1>8 DEF Contada, RedisInv
  <2>2. janelaAte' = janelaAte /\ quantidade' = IF quantidade <= Limite THEN quantidade + 1 ELSE Limite + 1
    <3>1. Min({quantidade + 1, Limite + 1}) = IF quantidade + 1 <= Limite + 1 THEN quantidade + 1 ELSE Limite + 1
      BY <1>1, SmallerOfTwo
    <3>2. QED
      BY <1>1, <2>1, <3>1 DEF Incrementar
  <2> DEFINE d == Desde0
  <2>3. /\ d \in 0..agora /\ d' = d
        /\ \A c \in passaram : c.quando < janelaAte
        /\ P(d - 1) <= quantidade /\ P(d - 1) <= Limite /\ P(d - Janela) <= P(d - 1) + Limite
        /\ (IF quantidade <= Limite THEN quantidade ELSE Limite) <= P(d - 1) + R(d - 1)
        /\ recusas > 0 => agora < janelaAte /\ quantidade = Limite + 1
    BY <1>8, <2>2 DEF RedisInv, Desde0, P, R
  <2> HIDE DEF d
  <2>4. d - 1 \in Int /\ d - 1 < agora /\ d - Janela \in Int /\ d - Janela < agora
    BY <1>1, <2>3
  <2>5. P(d - 1) \in Nat /\ R(d - 1) \in Nat /\ P(d - Janela) \in Nat
    BY <1>2, <2>4
  <2>6. \/ /\ quantidade' <= Limite /\ recusas' = recusas
           /\ p(d - 1) = P(d - 1) + 1 /\ r(d - 1) = R(d - 1) /\ p(d - Janela) = P(d - Janela) + 1
        \/ /\ ~(quantidade' <= Limite) /\ recusas' = 1
           /\ p(d - 1) = P(d - 1) /\ r(d - 1) = R(d - 1) /\ p(d - Janela) = P(d - Janela)
        \/ recusas' = recusas /\ p(d - 1) = P(d - 1) /\ r(d - 1) = R(d - 1) + 1 /\ p(d - Janela) = P(d - Janela)
    BY <1>4, <2>4
  <2>7. /\ p(d - 1) <= quantidade' /\ p(d - 1) <= Limite /\ p(d - Janela) <= p(d - 1) + Limite
        /\ (IF quantidade' <= Limite THEN quantidade' ELSE Limite) <= p(d - 1) + r(d - 1)
        /\ recusas' > 0 => quantidade' = Limite + 1
        /\ quantidade' \in 1..(Limite + 1)
    BY <1>1, <2>1, <2>2, <2>3, <2>5, <2>6
  <2>8. \A c \in passaram' : c.quando < janelaAte
    BY <1>4, <1>8, <2>3
  <2>9. RedisInv'
    BY <1>1, <1>8, <2>2, <2>3, <2>7, <2>8 DEF RedisInv, p, r, d
  <2>10. janelaAte \in 0..(MaxTempo + Janela)
    BY <1>8 DEF LimiterState
  <2>11. QED
    BY <1>5, <2>2, <2>7, <2>9, <2>10
<1>9. QED
  BY <1>1, <1>7, <1>8

LEMMA LimiterInvNext == LimiterInv /\ [LimiterNext]_limiterVars => LimiterInv'
<1> SUFFICES ASSUME LimiterInv, [LimiterNext]_limiterVars PROVE LimiterInv'
  OBVIOUS
<1>1. LimiterState /\ (comRedis => RedisInv) /\ (~comRedis => MemoriaInv)
  BY DEF LimiterInv
<1>2. CASE Allow
  <2>1. ~comRedis /\ comRedis' = comRedis
    BY <1>2 DEF Allow
  <2>2. QED
    BY <1>1, <1>2, <2>1, AllowKeeps DEF LimiterInv
<1>3. CASE LimiterCleanup
  <2>1. ~comRedis /\ comRedis' = comRedis
    BY <1>3 DEF LimiterCleanup
  <2>2. QED
    BY <1>1, <1>3, <2>1, CleanupKeeps DEF LimiterInv
<1>4. CASE AllowRedis
  <2>1. comRedis /\ comRedis' = comRedis /\ Incrementar /\ agora' = agora /\ visitas' = visitas
    BY <1>4 DEF AllowRedis
  <2>2. \/ quantidade' <= Limite /\ passaram' = MaisUma(passaram) /\ semResposta' = semResposta /\ recusas' = recusas
        \/ ~(quantidade' <= Limite) /\ recusas' = 1 /\ passaram' = passaram /\ semResposta' = semResposta
    BY <1>4 DEF AllowRedis
  <2>3. /\ RedisInv' /\ Numerada(passaram)' /\ Numerada(semResposta)'
        /\ quantidade' \in 0..(Limite + 1) /\ janelaAte' \in 0..(MaxTempo + Janela)
    BY <1>1, <2>1, <2>2, IncrementKeeps
  <2>4. recusas' \in 0..1
    BY <2>2 DEF LimiterInv, LimiterState
  <2>5. QED
    BY <1>1, <2>1, <2>3, <2>4 DEF LimiterInv, LimiterState
<1>5. CASE AllowSemResposta
  <2>1. /\ comRedis /\ comRedis' = comRedis /\ agora' = agora /\ visitas' = visitas
        /\ passaram' = passaram /\ semResposta' = MaisUma(semResposta) /\ recusas' = recusas
    BY <1>5 DEF AllowSemResposta
  <2>2. CASE Incrementar
    <3>1. /\ RedisInv' /\ Numerada(passaram)' /\ Numerada(semResposta)'
          /\ quantidade' \in 0..(Limite + 1) /\ janelaAte' \in 0..(MaxTempo + Janela)
      BY <1>1, <2>1, <2>2, IncrementKeeps
    <3>2. QED
      BY <1>1, <2>1, <3>1 DEF LimiterInv, LimiterState
  <2>3. CASE quantidade' = quantidade /\ janelaAte' = janelaAte
    <3>1. /\ Numerada(MaisUma(semResposta))
          /\ \A w \in Int : Quantas(MaisUma(semResposta), w) = IF w < agora THEN Quantas(semResposta, w) + 1
                                                               ELSE Quantas(semResposta, w)
      BY <1>1, OneMore DEF LimiterState
    <3>2. LimiterState'
      BY <1>1, <2>1, <2>3, <3>1 DEF LimiterState, Numerada
    <3>3. CASE janelaAte = Nunca
      <4>1. RedisInv'
        BY <1>1, <2>1, <2>3, <3>3 DEF RedisInv
      <4>2. QED
        BY <2>1, <3>2, <4>1 DEF LimiterInv
    <3>4. CASE janelaAte # Nunca
      <4> DEFINE d == Desde0 - 1
      <4>1. d \in Int /\ d < agora /\ agora \in Nat /\ Desde0' = Desde0
        <5>1. agora \in Nat /\ Desde0 \in 0..agora /\ Desde0' = Desde0
          BY <1>1, <2>1, <2>3, <3>4, LimiterCounts DEF RedisInv, Desde0
        <5>2. QED
          BY <5>1
      <4>2. /\ Quantas(semResposta, d) \in Nat /\ Quantas(passaram, d) \in Nat
            /\ Quantas(MaisUma(semResposta), d) = Quantas(semResposta, d) + 1
        BY <1>1, <3>1, <4>1, LimiterCounts
      <4>3. (IF quantidade <= Limite THEN quantidade ELSE Limite) <= Quantas(passaram, d) + Quantas(semResposta, d)
        BY <1>1, <2>1, <3>4 DEF RedisInv
      <4>4. (IF quantidade <= Limite THEN quantidade ELSE Limite)
               <= Quantas(passaram, d) + Quantas(MaisUma(semResposta), d)
        <5>1. quantidade \in Int /\ Limite \in Int
          BY <1>1, LimiterCounts DEF LimiterState
        <5>2. QED
          BY <4>2, <4>3, <5>1
      <4>5. RedisInv'
        BY <1>1, <2>1, <2>3, <3>4, <4>1, <4>4 DEF RedisInv
      <4>6. QED
        BY <2>1, <3>2, <4>5 DEF LimiterInv
    <3>5. QED
      BY <3>3, <3>4
  <2>4. QED
    BY <1>5, <2>2, <2>3 DEF AllowSemResposta
<1>6. CASE LimiterPassa
  <2>1. /\ agora' = agora + 1 /\ agora' \in Tempos /\ agora \in Nat /\ recusas' = 0
        /\ UNCHANGED <<comRedis, visitas, quantidade, janelaAte, passaram, semResposta>>
    BY <1>1, <1>6, LimiterCounts DEF LimiterPassa, Passa, Tempos
  <2>2. ASSUME NEW h, Numerada(h)
        PROVE  /\ IsFiniteSet(h) /\ h \subseteq [quando : Tempos, numero : Nat]
               /\ \A c \in h : c.quando <= agora + 1 /\ c.numero < Cardinality(h)
    <3>1. \A c \in h : c.quando \in Int /\ c.quando <= agora
      BY <2>2, AmbienteAssumption DEF Numerada, Tempos
    <3>2. QED
      BY <2>1, <2>2, <3>1 DEF Numerada
  <2>3. LimiterState'
    <3>1. Numerada(passaram)' /\ Numerada(semResposta)'
      BY <1>1, <2>1, <2>2 DEF LimiterState, Numerada
    <3>2. QED
      BY <1>1, <2>1, <3>1 DEF LimiterState
  <2>4. CASE comRedis
    <3>1. RedisInv'
      <4>1. Desde0' = Desde0 /\ (Desde0 \in 0..agora => Desde0 \in 0..(agora + 1)) /\ ~(recusas' > 0)
        BY <2>1 DEF Desde0
      <4>2. QED
        BY <1>1, <2>1, <2>4, <4>1 DEF RedisInv
    <3>2. QED
      BY <2>1, <2>3, <2>4, <3>1 DEF LimiterInv
  <2>5. CASE ~comRedis
    <3>1. \A j \in 1..Len(visitas) : visitas[j] <= agora + 1
      <4>1. \A j \in 1..Len(visitas) : visitas[j] \in Int
        BY <1>1, AmbienteAssumption DEF LimiterState, Tempos
      <4>2. QED
        BY <1>1, <2>1, <2>5, <4>1 DEF MemoriaInv
    <3>2. ASSUME NEW w \in Int, agora + 1 - Janela <= w PROVE Quantas(passaram, w) = Acima(visitas, Len(visitas), w)
      <4>1. agora - Janela <= w
        BY <1>1, <2>1, <3>2, LimiterCounts
      <4>2. QED
        BY <1>1, <2>5, <4>1 DEF MemoriaInv
    <3>3. MemoriaInv'
      <4>1. Crescente(visitas) /\ ~(recusas' > 0)
        BY <1>1, <2>1, <2>5 DEF MemoriaInv
      <4>2. ASSUME NEW w \in Int, agora' - Janela <= w
            PROVE  Quantas(passaram', w) = Acima(visitas', Len(visitas'), w)
        <5>1. agora + 1 - Janela <= w
          BY <2>1, <4>2, LimiterAssumption
        <5>2. Quantas(passaram, w) = Acima(visitas, Len(visitas), w)
          BY <3>2, <5>1
        <5>3. passaram' = passaram /\ visitas' = visitas
          BY <2>1
        <5>4. QED
          BY <5>2, <5>3
      <4>3. Crescente(visitas') /\ \A j \in 1..Len(visitas') : visitas'[j] <= agora'
        BY <2>1, <3>1, <4>1
      <4>4. QED
        BY <4>1, <4>2, <4>3 DEF MemoriaInv
    <3>4. QED
      BY <2>1, <2>3, <2>5, <3>3 DEF LimiterInv
  <2>6. QED
    BY <2>4, <2>5
<1>7. CASE UNCHANGED limiterVars
  <2>1. UNCHANGED <<agora, comRedis, visitas, quantidade, janelaAte, passaram, semResposta, recusas>>
    BY <1>7 DEF limiterVars, limiterProprias
  <2>2. LimiterState' /\ (comRedis => RedisInv') /\ (~comRedis => MemoriaInv')
    BY <1>1, <2>1 DEF LimiterState, Numerada, RedisInv, Desde0, MemoriaInv
  <2>3. QED
    BY <2>1, <2>2 DEF LimiterInv
<1>8. QED
  BY <1>2, <1>3, <1>4, <1>5, <1>6, <1>7 DEF LimiterNext

LEMMA LimiterInvTypes == LimiterInv => LimiterTypeOK
<1> SUFFICES ASSUME LimiterInv PROVE LimiterTypeOK
  OBVIOUS
<1>1. passaram \subseteq Historia /\ semResposta \subseteq Historia
  BY DEF LimiterInv, LimiterState, Numerada, Historia
<1>2. visitas \in BoundedSeq(Tempos, Limite)
  <2>1. visitas \in Seq(Tempos) /\ Len(visitas) \in 0..Limite
    BY LimiterAssumption DEF LimiterInv, LimiterState
  <2>2. visitas \in [1..Len(visitas) -> Tempos]
    BY <2>1
  <2>3. QED
    BY <2>1, <2>2 DEF BoundedSeq, SeqOf
<1>3. QED
  BY <1>1, <1>2 DEF LimiterInv, LimiterState, LimiterTypeOK

LEMMA LimiterInitTypes == LimiterInit /\ agora \in Tempos /\ comRedis \in BOOLEAN => LimiterTypeOK
<1> SUFFICES ASSUME LimiterInit, agora \in Tempos, comRedis \in BOOLEAN PROVE LimiterTypeOK
  OBVIOUS
<1>1. <<>> \in [1..0 -> Tempos] /\ 0 \in 0..Limite
  BY LimiterAssumption
<1>2. <<>> \in BoundedSeq(Tempos, Limite)
  BY <1>1 DEF BoundedSeq, SeqOf
<1>3. QED
  BY <1>2, LimiterAssumption DEF LimiterInit, LimiterTypeOK

\* In memory no window sees more than Limite calls pass, in Redis no more than twice as many, and
\* nobody is refused who kept to the limit: for every limit and window, however the calls, the
\* clean-up, the failures of Redis and the clock interleave (allow, cleanup, allowRedis).
THEOREM WindowsAreLimited == LimiterSpec => []LimiteCorreto
<1>1. LimiterInv => LimiteCorreto
  <2> SUFFICES ASSUME LimiterInv PROVE LimiteCorreto
    OBVIOUS
  <2> DEFINE w == agora - Janela
  <2>1. Passaram(passaram) = Quantas(passaram, w) /\ Passaram(semResposta) = Quantas(semResposta, w)
    BY DEF Passaram, Desde, Quantas
  <2>2. /\ agora \in Nat /\ Janela \in Nat \ {0} /\ Limite \in Nat \ {0} /\ w \in Int
        /\ Quantas(passaram, w) \in Nat /\ Quantas(semResposta, w) \in Nat
    BY LimiterCounts DEF LimiterInv
  <2>3. CASE ~comRedis
    <3>1. Quantas(passaram, w) <= Limite
      <4>1. Quantas(passaram, w) = Acima(visitas, Len(visitas), w)
        BY <2>2, <2>3 DEF LimiterInv, MemoriaInv
      <4>2. Len(visitas) \in Nat /\ Len(visitas) <= Limite
        BY DEF LimiterInv, LimiterState
      <4>3. Acima(visitas, Len(visitas), w) <= Len(visitas)
        BY <4>2, OneAbove
      <4>4. QED
        BY <2>2, <4>1, <4>2, <4>3
    <3>2. recusas > 0 => Limite <= Quantas(passaram, w)
      BY <2>3 DEF LimiterInv, MemoriaInv
    <3>3. QED
      BY <2>1, <2>2, <2>3, <3>1, <3>2 DEF LimiteCorreto, LimiteNaJanela, RecusaJustificada
  <2>4. CASE comRedis /\ janelaAte = Nunca
    <3>1. Quantas(passaram, w) = 0 /\ recusas = 0
      <4>1. passaram = {} /\ recusas = 0
        BY <2>4 DEF LimiterInv, RedisInv
      <4>2. QED
        BY <2>2, <4>1, LimiterCounts DEF LimiterInv
    <3>2. QED
      BY <2>1, <2>2, <2>4, <3>1 DEF LimiteCorreto, LimiteNaJanela, RecusaJustificada
  <2>5. CASE comRedis /\ janelaAte # Nunca
    <3> DEFINE d == Desde0
    <3>1. /\ d \in 0..agora /\ janelaAte = d + Janela
          /\ Quantas(passaram, d - 1) <= Limite
          /\ Quantas(passaram, d - Janela) <= Quantas(passaram, d - 1) + Limite
      <4>1. janelaAte \in Int
        BY <2>5 DEF LimiterInv, LimiterState
      <4>2. QED
        BY <2>2, <2>5, <4>1 DEF LimiterInv, RedisInv, Desde0
    <3>2. /\ recusas > 0 => agora < janelaAte /\ quantidade = Limite + 1
          /\ (IF quantidade <= Limite THEN quantidade ELSE Limite)
                <= Quantas(passaram, d - 1) + Quantas(semResposta, d - 1)
      BY <2>5 DEF LimiterInv, RedisInv
    <3> HIDE DEF d
    <3>3. d - 1 \in Int /\ d - Janela \in Int /\ d - Janela <= w
      BY <2>2, <3>1
    <3>4. /\ Quantas(passaram, d - 1) \in Nat /\ Quantas(semResposta, d - 1) \in Nat
          /\ Quantas(passaram, d - Janela) \in Nat /\ Quantas(passaram, w) <= Quantas(passaram, d - Janela)
          /\ w <= d - 1 => /\ Quantas(passaram, d - 1) <= Quantas(passaram, w)
                           /\ Quantas(semResposta, d - 1) <= Quantas(semResposta, w)
      BY <2>2, <3>3, LimiterCounts DEF LimiterInv
    <3>5. Quantas(passaram, w) <= 2 * Limite
      BY <2>2, <3>1, <3>4
    <3>6. recusas > 0 => Limite <= Quantas(passaram, w) + Quantas(semResposta, w)
      BY <2>2, <3>1, <3>2, <3>4
    <3>7. QED
      BY <2>1, <2>2, <2>5, <3>5, <3>6 DEF LimiteCorreto, LimiteNaJanela, RecusaJustificada
  <2>6. QED
    BY <2>3, <2>4, <2>5
<1>2. QED
  BY <1>1, LimiterInvInit, LimiterInvNext, PTL DEF LimiterSpec

-----------------------------------------------------------------------------
(* seguranca: the IP blocker.                                              *)

BlockerState ==
    /\ agora \in Tempos /\ comRedis \in BOOLEAN
    /\ Numerada(falharam) /\ Cardinality(falharam) <= MaxFalhas
    /\ {falhas, seguidas, somadas} \subseteq 0..Cardinality(falharam)
    /\ falhasAte \in 0..(MaxTempo + JanelaTentativas) \cup {Nunca}
    /\ {bloqueio, ultimo} \subseteq Tempos \cup {Nunca}
    /\ etapa \in [Requisicoes -> Etapas]
    /\ semPrazo \in BOOLEAN /\ recusado \in BOOLEAN

NoMeio(e) == \E r \in Requisicoes : etapa[r] = e

\* In memory there are no commands to be in the midst of, and the counter counts what it should.
ProcessoInv == ~comRedis => falhas = somadas /\ falhas < MaxTentativas /\ ~\E r \in Requisicoes : etapa[r] \in {"expire", "set", "del"}

\* What the counter counts: failures of this moment while an EXPIRE is due, and otherwise of the
\* time since its window began, unless an EXPIRE was lost.
ContadorInv ==
    /\ NoMeio("expire") => Quantas(falharam, agora - 1) > 0 /\ Contador <= Quantas(falharam, agora - 1)
    /\ ~comRedis \/ semPrazo \/ Contador = 0 \/ NoMeio("expire")
         \/ /\ falhasAte # Nunca /\ falhasAte - JanelaTentativas <= agora
            /\ Contador <= Quantas(falharam, falhasAte - JanelaTentativas - 1)
    /\ NoMeio("set") => semPrazo \/ MaxTentativas <= Quantas(falharam, agora - JanelaTentativas)

\* Whoever is to delete the counter has set the block, and the last block set is the one in force
\* until it ends.
BloqueioInv ==
    /\ NoMeio("del") => Bloqueado \/ recusado
    /\ ultimo # Nunca /\ agora < ultimo + DuracaoBloqueio => bloqueio = ultimo

NoHandler == {r \in Requisicoes : etapa[r] = "handler"}
SemDecisao == {r \in Requisicoes : ~Decidida(r)}

Permitidas == MaxTentativas + Cardinality(Requisicoes) - 1

\* The failures are counted; or the IP is blocked, and only requests already admitted may fail; or
\* some replica is about to block it, and so is any other that counts now.
TentativasInv ==
    \/ recusado
    \/ seguidas <= Contador /\ seguidas < MaxTentativas
    \/ Bloqueado /\ seguidas + Cardinality(NoHandler) <= Permitidas
    \/ /\ \E r \in Requisicoes : Decidida(r)
       /\ MaxTentativas <= Contador /\ seguidas + Cardinality(SemDecisao) <= Permitidas

BlockerInv == BlockerState /\ ProcessoInv /\ ContadorInv /\ BloqueioInv /\ TentativasInv

LEMMA BlockerTypes ==
    ASSUME BlockerState
    PROVE  /\ agora \in Nat /\ Nunca \notin Int
           /\ MaxTentativas \in Nat \ {0} /\ DuracaoBloqueio \in Nat \ {0} /\ JanelaTentativas \in Nat \ {0}
           /\ falhas \in Nat /\ seguidas \in Nat /\ somadas \in Nat /\ Cardinality(falharam) \in Nat
           /\ Contador \in Nat /\ Contador <= falhas
           /\ (falhasAte \in Nat \/ falhasAte = Nunca) /\ (bloqueio \in Nat \/ bloqueio = Nunca)
           /\ \A r \in Requisicoes : etapa[r] \in Etapas
<1>1. Cardinality(falharam) \in Nat
  BY FS_CardinalityType DEF BlockerState, Numerada
<1>2. falhas \in 0..Cardinality(falharam) /\ seguidas \in 0..Cardinality(falharam) /\ somadas \in 0..Cardinality(falharam)
  BY DEF BlockerState
<1>3. falhas \in Nat /\ seguidas \in Nat /\ somadas \in Nat
  BY <1>1, <1>2
<1>4. Contador \in Nat /\ Contador <= falhas
  BY <1>3 DEF Contador
<1>5. /\ agora \in Nat /\ Nunca \notin Int
      /\ MaxTentativas \in Nat \ {0} /\ DuracaoBloqueio \in Nat \ {0} /\ JanelaTentativas \in Nat \ {0}
      /\ (falhasAte \in Nat \/ falhasAte = Nunca) /\ (bloqueio \in Nat \/ bloqueio = Nunca)
  BY AmbienteAssumption, BlockerAssumption DEF BlockerState, Tempos
<1>6. \A r \in Requisicoes : etapa[r] \in Etapas
  BY DEF BlockerState
<1>7. QED
  BY <1>1, <1>3, <1>4, <1>5, <1>6

\* Where the requests are after one of them has moved.
LEMMA OneMoves ==
    ASSUME BlockerState, NEW r \in Requisicoes, NEW e, VaiPara(r, e)
    PROVE  etapa'[r] = e /\ \A q \in Requisicoes : q # r => etapa'[q] = etapa[q]
BY DEF VaiPara, BlockerState

LEMMA OneFails ==
    ASSUME BlockerState, NEW r \in Requisicoes, Falhou(r)
    PROVE  /\ etapa[r] = "handler" /\ falharam' = MaisUma(falharam) /\ seguidas' = seguidas + 1
           /\ Numerada(MaisUma(falharam))
           /\ Cardinality(MaisUma(falharam)) = Cardinality(falharam) + 1 /\ Cardinality(falharam) + 1 <= MaxFalhas
           /\ \A w \in Int : Quantas(falharam, w) \in Nat
           /\ \A w \in Int : Quantas(MaisUma(falharam), w)
                                = IF w < agora THEN Quantas(falharam, w) + 1 ELSE Quantas(falharam, w)
<1>1. Numerada(falharam) /\ agora \in Tempos /\ IsFiniteSet(falharam) /\ falharam \subseteq [quando : Tempos, numero : Nat]
  BY DEF BlockerState, Numerada
<1>2. \A w \in Int : Quantas(falharam, w) \in Nat
  BY <1>1, Counting
<1>3. etapa[r] = "handler" /\ falharam' = MaisUma(falharam) /\ seguidas' = seguidas + 1 /\ Cardinality(falharam) < MaxFalhas
  BY DEF Falhou
<1>4. Cardinality(falharam) + 1 <= MaxFalhas
  BY <1>3, BlockerTypes, BlockerAssumption
<1>5. QED
  BY <1>1, <1>2, <1>3, <1>4, OneMore

(* What becomes of the counter. *)

\* What each use of the counter does to it, as TentativasInv and ContadorInv need it.
LEMMA CounterStays ==
    ASSUME UNCHANGED <<agora, comRedis, falhas, falhasAte>>
    PROVE  Contador' = Contador
BY DEF Contador, Expirada

LEMMA CounterIsDeleted ==
    ASSUME ApagaContador
    PROVE  Contador' = 0 /\ falhas' = 0 /\ falhasAte' = Nunca
BY DEF ApagaContador, Contador

LEMMA CounterGrows ==
    ASSUME BlockerState, Incr, UNCHANGED <<agora, comRedis>>
    PROVE  /\ Contador' = Contador + 1 /\ falhas' = Contador + 1
           /\ (Contador # 0 => falhasAte' = falhasAte) /\ (Contador = 0 => falhasAte' = Nunca)
<1>1. Contador \in Nat
  BY BlockerTypes
<1>2. CASE Contador = 0
  BY <1>1, <1>2 DEF Incr, Contador, Expirada
<1>3. CASE Contador # 0
  <2>1. ~Expirada(falhasAte) /\ falhasAte' = falhasAte /\ falhas' = Contador + 1
    BY <1>3 DEF Incr, Contador
  <2>2. ~Expirada(falhasAte)'
    BY <2>1 DEF Expirada
  <2>3. QED
    BY <1>3, <2>1, <2>2 DEF Contador
<1>4. QED
  BY <1>2, <1>3

LEMMA CounterGetsWindow ==
    ASSUME BlockerState, UNCHANGED <<agora, comRedis, falhas>>,
           falhasAte' = IF Contador = 0 THEN falhasAte ELSE agora + JanelaTentativas
    PROVE  Contador' = Contador
<1>1. CASE Contador = 0
  BY <1>1, CounterStays
<1>2. CASE Contador # 0
  <2>1. Contador = falhas /\ falhasAte' = agora + JanelaTentativas
    BY <1>2 DEF Contador
  <2>2. ~Expirada(falhasAte)'
    BY <2>1, BlockerTypes DEF Expirada
  <2>3. QED
    BY <2>1, <2>2 DEF Contador
<1>3. QED
  BY <1>1, <1>2

LEMMA CounterAges ==
    ASSUME BlockerState, agora' = agora + 1, UNCHANGED <<comRedis, falhas, falhasAte>>
    PROVE  /\ Contador' = Contador \/ Contador' = 0
           /\ Contador' = Contador \/ (comRedis /\ falhas > 0 /\ falhasAte = agora + 1)
<1>1. CASE ~comRedis \/ falhasAte = Nunca
  BY <1>1 DEF Contador, Expirada
<1>2. CASE comRedis /\ falhasAte # Nunca
  <2>1. falhasAte \in Nat /\ agora \in Nat /\ falhas \in Nat
    BY <1>2, BlockerTypes
  <2>2. Contador = (IF falhasAte <= agora THEN 0 ELSE falhas) /\ Contador' = (IF falhasAte <= agora + 1 THEN 0 ELSE falhas)
    BY <1>2 DEF Contador, Expirada
  <2>3. QED
    BY <1>2, <2>1, <2>2
<1>3. QED
  BY <1>1, <1>2

(* The invariant, part by part. *)

LEMMA BlockerInvInit == AmbienteInit /\ BlockerInit => BlockerInv
<1> SUFFICES ASSUME AmbienteInit, BlockerInit PROVE BlockerInv
  OBVIOUS
<1>1. /\ agora = 0 /\ comRedis \in BOOLEAN /\ falharam = {} /\ falhas = 0 /\ seguidas = 0 /\ somadas = 0
      /\ falhasAte = Nunca /\ bloqueio = Nunca /\ ultimo = Nunca /\ semPrazo = FALSE /\ recusado = FALSE
      /\ etapa = [r \in Requisicoes |-> "fora"]
  BY DEF AmbienteInit, BlockerInit
<1>2. Numerada({}) /\ Cardinality({}) = 0
  <2>1. {} \subseteq [quando : Tempos, numero : Nat] /\ IsFiniteSet({}) /\ Cardinality({}) = 0
    BY FS_EmptySet
  <2>2. QED
    BY <2>1 DEF Numerada
<1>3. BlockerState
  <2>1. agora \in Tempos /\ MaxFalhas \in Nat
    BY <1>1, AmbienteAssumption, BlockerAssumption DEF Tempos
  <2>2. Numerada(falharam) /\ Cardinality(falharam) = 0
    BY <1>1, <1>2
  <2>3. {falhas, seguidas, somadas} \subseteq 0..Cardinality(falharam)
    BY <1>1, <2>2
  <2>4. etapa \in [Requisicoes -> Etapas]
    BY <1>1 DEF Etapas
  <2>5. Cardinality(falharam) <= MaxFalhas
    BY <2>1, <2>2
  <2>6. {bloqueio, ultimo} \subseteq Tempos \cup {Nunca} /\ semPrazo \in BOOLEAN /\ recusado \in BOOLEAN
    BY <1>1
  <2>7. QED
    BY <1>1, <2>1, <2>2, <2>3, <2>4, <2>5, <2>6 DEF BlockerState
<1>4. ~NoMeio("expire") /\ ~NoMeio("set") /\ ~NoMeio("del") /\ Contador = 0
  BY <1>1 DEF NoMeio, Contador
<1>5. ProcessoInv
  BY <1>1, BlockerAssumption DEF ProcessoInv
<1>6. ContadorInv /\ BloqueioInv
  BY <1>1, <1>4 DEF ContadorInv, BloqueioInv
<1>7. TentativasInv
  BY <1>1, <1>4, BlockerAssumption DEF TentativasInv
<1>8. QED
  BY <1>3, <1>5, <1>6, <1>7 DEF BlockerInv

\* The types, and where each request is.
LEMMA StateNext == BlockerState /\ [BlockerNext]_blockerVars => BlockerState'
<1> SUFFICES ASSUME BlockerState, [BlockerNext]_blockerVars PROVE BlockerState'
  OBVIOUS
<1> DEFINE C == Cardinality(falharam)
<1>1. /\ agora \in Tempos /\ comRedis \in BOOLEAN /\ Numerada(falharam) /\ C <= MaxFalhas
      /\ falhas \in 0..C /\ seguidas \in 0..C /\ somadas \in 0..C
      /\ falhasAte \in 0..(MaxTempo + JanelaTentativas) \cup {Nunca}
      /\ bloqueio \in Tempos \cup {Nunca} /\ ultimo \in Tempos \cup {Nunca}
      /\ semPrazo \in BOOLEAN /\ recusado \in BOOLEAN /\ C \in Nat
  BY BlockerTypes DEF BlockerState
<1>2. etapa \in [Requisicoes -> Etapas]
  BY DEF BlockerState
<1>3. Contador \in 0..C /\ agora + JanelaTentativas \in 0..(MaxTempo + JanelaTentativas)
  BY <1>1, BlockerTypes, AmbienteAssumption DEF Tempos
<1>4. ASSUME NEW r \in Requisicoes, NEW e \in Etapas, VaiPara(r, e) PROVE etapa' \in [Requisicoes -> Etapas]
  BY <1>2, <1>4 DEF VaiPara
<1>5. {"fora", "handler", "expire", "set", "del"} = Etapas /\ \A n : DepoisDeContar(n) \in Etapas
  BY DEF Etapas, DepoisDeContar
\* The steps of the handler's report that count: everything may grow by one.
<1>6. ASSUME NEW r \in Requisicoes, Falhou(r), agora' = agora, comRedis' = comRedis,
             falhas' \in 0..(C + 1), somadas' \in 0..(C + 1),
             falhasAte' \in {falhasAte, Nunca}, bloqueio' \in {bloqueio, agora}, ultimo' \in {ultimo, agora},
             semPrazo' \in BOOLEAN, recusado' \in BOOLEAN, etapa' \in [Requisicoes -> Etapas]
      PROVE  BlockerState'
  <2>1. /\ falharam' = MaisUma(falharam) /\ seguidas' = seguidas + 1 /\ Numerada(MaisUma(falharam))
        /\ Cardinality(falharam') = C + 1 /\ C + 1 <= MaxFalhas
    BY <1>6, OneFails
  <2>2. seguidas' \in 0..(C + 1)
    BY <1>1, <2>1
  <2>3. Numerada(falharam)'
    BY <1>6, <2>1 DEF Numerada
  <2>4. {falhas, seguidas, somadas}' \subseteq 0..Cardinality(falharam)'
    BY <1>6, <2>1, <2>2
  <2>5. {bloqueio, ultimo}' \subseteq Tempos \cup {Nunca}
    BY <1>1, <1>6
  <2>6. QED
    BY <1>1, <1>6, <2>1, <2>3, <2>4, <2>5 DEF BlockerState
\* The steps that do not.
<1>7. ASSUME agora' \in Tempos, agora <= agora', comRedis' = comRedis, falharam' = falharam,
             falhas' \in {falhas, 0}, seguidas' \in {seguidas, 0}, somadas' \in {somadas, 0},
             falhasAte' \in {falhasAte, Nunca, agora + JanelaTentativas},
             bloqueio' \in {bloqueio, Nunca, agora}, ultimo' \in {ultimo, agora},
             semPrazo' \in BOOLEAN, recusado' \in BOOLEAN, etapa' \in [Requisicoes -> Etapas]
      PROVE  BlockerState'
  <2>1. Numerada(falharam)'
    <3>1. \A c \in falharam : c.quando \in Int /\ agora \in Int /\ agora' \in Int
      BY <1>1, <1>7, AmbienteAssumption DEF Numerada, Tempos
    <3>2. \A c \in falharam : c.quando <= agora'
      BY <1>1, <1>7, <3>1 DEF Numerada
    <3>3. QED
      BY <1>1, <1>7, <3>2 DEF Numerada
  <2>2. {falhas, seguidas, somadas}' \subseteq 0..Cardinality(falharam)'
    <3>1. 0 \in 0..C
      BY <1>1
    <3>2. QED
      BY <1>1, <1>7, <3>1
  <2>3. {bloqueio, ultimo}' \subseteq Tempos \cup {Nunca}
    BY <1>1, <1>7
  <2>4. falhasAte' \in 0..(MaxTempo + JanelaTentativas) \cup {Nunca}
    BY <1>1, <1>3, <1>7
  <2>5. QED
    BY <1>1, <1>7, <2>1, <2>2, <2>3, <2>4 DEF BlockerState
<1>8. agora <= agora /\ 0 \in 0..(C + 1) /\ falhas + 1 \in 0..(C + 1) /\ somadas + 1 \in 0..(C + 1)
      /\ falhas \in 0..(C + 1) /\ somadas \in 0..(C + 1) /\ Contador + 1 \in 0..(C + 1)
  BY <1>1, <1>3, BlockerTypes
<1>9. ASSUME NEW r \in Requisicoes, Admite(r) PROVE BlockerState'
  BY <1>1, <1>4, <1>5, <1>7, <1>8, <1>9 DEF Admite
<1>10. ASSUME NEW r \in Requisicoes, AdmiteSemResposta(r) PROVE BlockerState'
  BY <1>1, <1>4, <1>5, <1>7, <1>8, <1>10 DEF AdmiteSemResposta
<1>11. ASSUME NEW r \in Requisicoes, RegistrarFalha(r) PROVE BlockerState'
  BY <1>1, <1>4, <1>5, <1>6, <1>8, <1>11 DEF RegistrarFalha, ApagaContador, Bloqueia
<1>12. ASSUME NEW r \in Requisicoes, Conta(r) PROVE BlockerState'
  BY <1>1, <1>4, <1>5, <1>6, <1>8, <1>12 DEF Conta, Incr
<1>13. ASSUME NEW r \in Requisicoes, ContaFalha(r) PROVE BlockerState'
  BY <1>1, <1>4, <1>5, <1>6, <1>8, <1>13 DEF ContaFalha, Incr
<1>14. ASSUME NEW r \in Requisicoes, Expire(r) PROVE BlockerState'
  BY <1>1, <1>4, <1>5, <1>7, <1>8, <1>14 DEF Expire
<1>15. ASSUME NEW r \in Requisicoes, SetBloqueio(r) PROVE BlockerState'
  BY <1>1, <1>4, <1>5, <1>7, <1>8, <1>15 DEF SetBloqueio, Bloqueia
<1>16. ASSUME NEW r \in Requisicoes, DelContador(r) PROVE BlockerState'
  BY <1>1, <1>4, <1>5, <1>7, <1>8, <1>16 DEF DelContador, ApagaContador
<1>17. ASSUME NEW r \in Requisicoes, RegistrarSucesso(r) PROVE BlockerState'
  BY <1>1, <1>4, <1>5, <1>7, <1>8, <1>17 DEF RegistrarSucesso, ApagaContador
<1>18. ASSUME NEW r \in Requisicoes, Morre(r) PROVE BlockerState'
  BY <1>1, <1>4, <1>5, <1>7, <1>8, <1>18 DEF Morre
<1>19. CASE Cleanup
  BY <1>1, <1>2, <1>7, <1>8, <1>19 DEF Cleanup
<1>20. CASE BlockerPassa
  <2>1. agora' \in Tempos /\ agora <= agora'
    BY <1>1, <1>20, AmbienteAssumption DEF BlockerPassa, Passa, Tempos
  <2>2. QED
    BY <1>1, <1>2, <1>7, <1>20, <2>1 DEF BlockerPassa, Passa
<1>21. CASE UNCHANGED blockerVars
  BY <1>1, <1>2, <1>7, <1>8, <1>21 DEF blockerVars, blockerProprias
<1>22. QED
  BY <1>9, <1>10, <1>11, <1>12, <1>13, <1>14, <1>15, <1>16, <1>17, <1>18, <1>19, <1>20, <1>21 DEF BlockerNext

\* In memory a failure is counted and the block set under one lock.
LEMMA ProcessoNext == ASSUME BlockerState, ProcessoInv, [BlockerNext]_blockerVars PROVE ProcessoInv'
<1>1. /\ falhas \in Nat /\ MaxTentativas \in Nat \ {0}
      /\ ~comRedis => falhas = somadas /\ falhas < MaxTentativas
      /\ ~comRedis => \A r \in Requisicoes : etapa[r] \notin {"expire", "set", "del"}
  BY BlockerTypes DEF ProcessoInv
<1>2. ASSUME NEW r \in Requisicoes, NEW e \in {"fora", "handler"}, VaiPara(r, e), ~comRedis
      PROVE  \A q \in Requisicoes : etapa'[q] \notin {"expire", "set", "del"}
  BY <1>1, <1>2, OneMoves
<1>3. ASSUME comRedis' = comRedis, falhas' = falhas, somadas' = somadas,
             etapa' = etapa \/ \E r \in Requisicoes, e \in {"fora", "handler"} : VaiPara(r, e)
      PROVE  ProcessoInv'
  BY <1>1, <1>2, <1>3 DEF ProcessoInv
<1>4. ASSUME NEW r \in Requisicoes, RegistrarFalha(r) PROVE ProcessoInv'
  <2>1. ~comRedis /\ comRedis' = comRedis /\ VaiPara(r, "fora")
    BY <1>4 DEF RegistrarFalha
  <2>2. falhas' = somadas' /\ falhas' < MaxTentativas
    BY <1>1, <1>4, <2>1 DEF RegistrarFalha, ApagaContador, Bloqueia
  <2>3. QED
    BY <1>2, <2>1, <2>2 DEF ProcessoInv
<1>5. ASSUME NEW r \in Requisicoes, RegistrarSucesso(r) PROVE ProcessoInv'
  <2>1. /\ comRedis' = comRedis /\ VaiPara(r, "fora")
        /\ (falhas' = 0 /\ somadas' = 0) \/ (comRedis /\ falhas' = falhas /\ somadas' = somadas)
    BY <1>5 DEF RegistrarSucesso, ApagaContador
  <2>2. QED
    BY <1>1, <1>2, <2>1 DEF ProcessoInv
\* The commands of Redis.
<1>6. ASSUME NEW r \in Requisicoes,
             Conta(r) \/ ContaFalha(r) \/ Expire(r) \/ SetBloqueio(r) \/ DelContador(r) \/ Morre(r)
      PROVE  ProcessoInv'
  <2>1. comRedis' = comRedis /\ (comRedis \/ etapa[r] \in {"expire", "set", "del"})
    BY <1>6 DEF Conta, ContaFalha, Expire, SetBloqueio, DelContador, Morre
  <2>2. QED
    BY <1>1, <2>1 DEF ProcessoInv
<1>7. ASSUME NEW r \in Requisicoes, Admite(r) \/ AdmiteSemResposta(r) PROVE ProcessoInv'
  BY <1>3, <1>7 DEF Admite, AdmiteSemResposta
<1>8. CASE Cleanup
  BY <1>3, <1>8 DEF Cleanup
<1>9. CASE BlockerPassa
  BY <1>3, <1>9 DEF BlockerPassa, Passa
<1>10. CASE UNCHANGED blockerVars
  BY <1>3, <1>10 DEF blockerVars, blockerProprias
<1>11. QED
  BY <1>4, <1>5, <1>6, <1>7, <1>8, <1>9, <1>10 DEF BlockerNext

\* Nothing but time lifts a block (EstaBloqueado).
LEMMA BloqueioNext == ASSUME BlockerState, ProcessoInv, BloqueioInv, [BlockerNext]_blockerVars PROVE BloqueioInv'
<1>1. /\ agora \in Nat /\ DuracaoBloqueio \in Nat \ {0} /\ Nunca \notin Int
      /\ (bloqueio \in Nat \/ bloqueio = Nunca) /\ (ultimo \in Nat \/ ultimo = Nunca)
  BY BlockerTypes, AmbienteAssumption DEF BlockerState, Tempos
<1>2. /\ NoMeio("del") => Bloqueado \/ recusado
      /\ ultimo # Nunca /\ agora < ultimo + DuracaoBloqueio => bloqueio = ultimo
  BY DEF BloqueioInv
<1>3. ASSUME NEW r \in Requisicoes, NEW e, VaiPara(r, e), e # "del" PROVE NoMeio("del")' => NoMeio("del")
  BY <1>3, OneMoves DEF NoMeio
\* The block stays.
<1>4. ASSUME UNCHANGED <<agora, comRedis, bloqueio, ultimo>>, recusado => recusado', NoMeio("del")' => NoMeio("del")
      PROVE  BloqueioInv'
  <2>1. Bloqueado' = Bloqueado
    BY <1>4 DEF Bloqueado, Passou
  <2>2. QED
    BY <1>2, <1>4, <2>1 DEF BloqueioInv
\* It is set.
<1>5. ASSUME UNCHANGED <<agora, comRedis>>, bloqueio' = agora, ultimo' = agora PROVE BloqueioInv' /\ Bloqueado'
  <2>1. Bloqueado'
    BY <1>1, <1>5 DEF Bloqueado, Passou
  <2>2. QED
    BY <1>5, <2>1 DEF BloqueioInv
\* It is over: it is deleted, and nobody deletes the counter meanwhile.
<1>6. ASSUME UNCHANGED <<agora, comRedis, ultimo>>, bloqueio' = Nunca, ~Bloqueado, recusado => recusado',
             NoMeio("del")' => NoMeio("del")
      PROVE  BloqueioInv'
  <2>1. ultimo = Nunca \/ ~(agora < ultimo + DuracaoBloqueio)
    BY <1>1, <1>2, <1>6 DEF Bloqueado, Passou
  <2>2. QED
    BY <1>2, <1>6, <2>1 DEF BloqueioInv
<1>7. ASSUME NEW r \in Requisicoes, Admite(r) PROVE BloqueioInv'
  BY <1>3, <1>6, <1>7 DEF Admite
<1>8. ASSUME NEW r \in Requisicoes, AdmiteSemResposta(r) PROVE BloqueioInv'
  BY <1>3, <1>4, <1>8 DEF AdmiteSemResposta
<1>9. ASSUME NEW r \in Requisicoes, RegistrarFalha(r) PROVE BloqueioInv'
  BY <1>3, <1>4, <1>5, <1>9 DEF RegistrarFalha, Bloqueia
<1>10. ASSUME NEW r \in Requisicoes, Conta(r) PROVE BloqueioInv'
  <2>1. PICK e : VaiPara(r, e) /\ e # "del"
    BY <1>10 DEF Conta, DepoisDeContar
  <2>2. QED
    BY <1>3, <1>4, <1>10, <2>1 DEF Conta
<1>11. ASSUME NEW r \in Requisicoes, ContaFalha(r) PROVE BloqueioInv'
  BY <1>3, <1>4, <1>11 DEF ContaFalha
<1>12. ASSUME NEW r \in Requisicoes, Expire(r) PROVE BloqueioInv'
  <2>1. PICK e : VaiPara(r, e) /\ e # "del"
    BY <1>12 DEF Expire, DepoisDeContar
  <2>2. QED
    BY <1>3, <1>4, <1>12, <2>1 DEF Expire
<1>13. ASSUME NEW r \in Requisicoes, SetBloqueio(r) PROVE BloqueioInv'
  <2>1. CASE Bloqueia
    BY <1>5, <1>13, <2>1 DEF SetBloqueio, Bloqueia
  <2>2. CASE recusado' /\ UNCHANGED <<agora, comRedis, bloqueio, ultimo>>
    BY <1>2, <2>2 DEF BloqueioInv
  <2>3. QED
    BY <1>13, <2>1, <2>2 DEF SetBloqueio
<1>14. ASSUME NEW r \in Requisicoes, DelContador(r) \/ RegistrarSucesso(r) \/ Morre(r) PROVE BloqueioInv'
  BY <1>3, <1>4, <1>14 DEF DelContador, RegistrarSucesso, Morre
<1>15. CASE Cleanup
  <2>1. UNCHANGED <<agora, comRedis, ultimo, recusado, etapa>> /\ bloqueio' = Nunca /\ ~Bloqueado
    BY <1>15 DEF Cleanup, Bloqueado
  <2>2. QED
    BY <1>6, <2>1 DEF NoMeio
<1>16. CASE BlockerPassa
  <2>1. agora' = agora + 1 /\ UNCHANGED <<comRedis, bloqueio, ultimo, recusado, etapa>> /\ ~NoMeio("del")
    BY <1>16 DEF BlockerPassa, Passa, EntreOperacoes, NoMeio
  <2>2. QED
    BY <1>1, <1>2, <2>1 DEF BloqueioInv, NoMeio
<1>17. CASE UNCHANGED blockerVars
  BY <1>4, <1>17 DEF blockerVars, blockerProprias, NoMeio
<1>18. QED
  BY <1>7, <1>8, <1>9, <1>10, <1>11, <1>12, <1>13, <1>14, <1>15, <1>16, <1>17 DEF BlockerNext

\* The counter that Redis holds is that of the failures since it began, and expires.
LEMMA ContadorNext ==
    ASSUME BlockerState, ProcessoInv, ProcessoInv', ContadorInv, [BlockerNext]_blockerVars
    PROVE  ContadorInv'
<1> DEFINE Q(w) == Quantas(falharam, w)
           J == JanelaTentativas
<1>1. /\ agora \in Nat /\ Nunca \notin Int /\ MaxTentativas \in Nat \ {0} /\ J \in Nat \ {0}
      /\ (falhasAte \in Nat \/ falhasAte = Nunca) /\ Contador \in Nat
  BY BlockerTypes
<1>2. \A w \in Int : Q(w) \in Nat /\ \A v \in Int : w <= v => Q(v) <= Q(w)
  BY Counting DEF BlockerState, Numerada
<1>3. /\ NoMeio("expire") => Q(agora - 1) > 0 /\ Contador <= Q(agora - 1)
      /\ ~comRedis \/ semPrazo \/ Contador = 0 \/ NoMeio("expire")
           \/ (falhasAte # Nunca /\ falhasAte - J <= agora /\ Contador <= Q(falhasAte - J - 1))
      /\ NoMeio("set") => semPrazo \/ MaxTentativas <= Q(agora - J)
  BY DEF ContadorInv
<1>4. agora - 1 \in Int /\ agora - J \in Int /\ agora - J <= agora - 1 /\ agora - J - 1 \in Int
  BY <1>1
\* No request counts, and the counter stays or goes.
<1>5. ASSUME UNCHANGED <<agora, comRedis, falharam>>, semPrazo => semPrazo',
             (Contador' = Contador /\ falhasAte' = falhasAte) \/ Contador' = 0,
             NoMeio("expire")' <=> NoMeio("expire"), NoMeio("set")' => NoMeio("set")
      PROVE  ContadorInv'
  <2>1. /\ NoMeio("expire")' => Q(agora - 1) > 0 /\ Contador' <= Q(agora - 1)
        /\ NoMeio("set")' => semPrazo' \/ MaxTentativas <= Q(agora - J)
        /\ ~comRedis \/ semPrazo' \/ Contador' = 0 \/ NoMeio("expire")'
             \/ (falhasAte' # Nunca /\ falhasAte' - J <= agora /\ Contador' <= Q(falhasAte' - J - 1))
    BY <1>1, <1>2, <1>3, <1>4, <1>5
  <2>2. QED
    BY <1>5, <2>1 DEF ContadorInv
\* Where the request is that moves, and where the others stay.
<1>6. ASSUME NEW r \in Requisicoes, NEW e, VaiPara(r, e), NEW f \in {"expire", "set", "del"}
      PROVE  /\ NoMeio(f)' => NoMeio(f) \/ e = f
             /\ e = f => NoMeio(f)'
             /\ etapa[r] # f /\ NoMeio(f) => NoMeio(f)'
             /\ etapa[r] = f => NoMeio(f)
  BY <1>6, OneMoves DEF NoMeio
<1>7. ASSUME NEW r \in Requisicoes, Admite(r) \/ AdmiteSemResposta(r) PROVE ContadorInv'
  <2>1. /\ etapa[r] = "fora" /\ VaiPara(r, "handler")
        /\ UNCHANGED <<agora, comRedis, falharam, semPrazo, falhas, falhasAte>>
    BY <1>7 DEF Admite, AdmiteSemResposta
  <2>2. Contador' = Contador
    BY <2>1, CounterStays
  <2>3. QED
    BY <1>5, <1>6, <2>1, <2>2
<1>8. ASSUME NEW r \in Requisicoes, RegistrarFalha(r) PROVE ContadorInv'
  <2>1. ~comRedis'
    BY <1>8 DEF RegistrarFalha
  <2>2. ~NoMeio("expire")' /\ ~NoMeio("set")'
    BY <2>1 DEF ProcessoInv, NoMeio
  <2>3. QED
    BY <2>1, <2>2 DEF ContadorInv
\* One more failure of this moment is in every window.
<1>9. ASSUME NEW r \in Requisicoes, Falhou(r)
      PROVE  /\ etapa[r] = "handler"
             /\ \A w \in Int : Q(w) <= Quantas(falharam', w) /\ (w < agora => Quantas(falharam', w) = Q(w) + 1)
             /\ \A w \in Int : Quantas(falharam', w) \in Nat
  BY <1>1, <1>9, OneFails
<1>10. ASSUME NEW r \in Requisicoes, Conta(r) PROVE ContadorInv'
  <2> DEFINE e == IF falhas' = 1 THEN "expire" ELSE DepoisDeContar(falhas')
             q(w) == Quantas(falharam', w)
  <2>1. comRedis /\ UNCHANGED <<agora, comRedis, semPrazo>> /\ Falhou(r) /\ Incr /\ VaiPara(r, e)
    BY <1>10 DEF Conta
  <2>2. /\ Contador' = Contador + 1 /\ falhas' = Contador + 1
        /\ Contador # 0 => falhasAte' = falhasAte
    BY <2>1, CounterGrows
  <2>3. /\ etapa[r] = "handler" /\ \A w \in Int : q(w) \in Nat /\ Q(w) <= q(w)
        /\ \A w \in Int : w < agora => q(w) = Q(w) + 1
    BY <1>9, <2>1
  <2>4. /\ NoMeio("expire") => NoMeio("expire")'
        /\ NoMeio("expire")' => NoMeio("expire") \/ e = "expire"
        /\ e = "expire" => NoMeio("expire")'
        /\ NoMeio("set")' => NoMeio("set") \/ e = "set"
    BY <1>6, <2>1, <2>3
  <2>5. (e = "expire" <=> Contador = 0) /\ (e = "set" => MaxTentativas <= Contador + 1)
    BY <1>1, <2>2 DEF DepoisDeContar
  <2> HIDE DEF e, q, Q
  <2>6. q(agora - 1) = Q(agora - 1) + 1 /\ Q(agora - 1) \in Nat /\ q(agora - J) = Q(agora - J) + 1 /\ Q(agora - J) \in Nat
        /\ Q(agora - 1) <= Q(agora - J)
    BY <1>1, <1>2, <1>4, <2>3
  <2>7. NoMeio("expire")' => q(agora - 1) > 0 /\ Contador' <= q(agora - 1)
    BY <1>1, <1>3, <2>2, <2>4, <2>5, <2>6
  <2>8. \/ semPrazo \/ NoMeio("expire")'
        \/ falhasAte' # Nunca /\ falhasAte' - J <= agora /\ Contador' <= q(falhasAte' - J - 1)
    <3>1. CASE falhasAte' = falhasAte /\ falhasAte # Nunca /\ falhasAte - J <= agora /\ Contador <= Q(falhasAte - J - 1)
      <4>1. falhasAte - J - 1 \in Int /\ falhasAte - J - 1 < agora
        BY <1>1, <3>1
      <4>2. q(falhasAte - J - 1) = Q(falhasAte - J - 1) + 1 /\ Q(falhasAte - J - 1) \in Nat
        BY <1>2, <2>3, <4>1
      <4>3. Contador' <= q(falhasAte - J - 1)
        BY <1>1, <2>2, <3>1, <4>2
      <4>4. QED
        BY <3>1, <4>3
    <3>2. QED
      BY <1>3, <2>1, <2>2, <2>4, <2>5, <3>1
  <2>9. NoMeio("set")' => semPrazo \/ MaxTentativas <= q(agora - J)
    <3>1. CASE NoMeio("set")
      BY <1>1, <1>3, <2>6, <3>1
    <3>2. CASE e = "set"
      <4>1. Contador # 0 /\ MaxTentativas <= Contador + 1
        BY <2>5, <3>2
      <4>2. CASE NoMeio("expire")
        BY <1>1, <1>3, <2>6, <4>1, <4>2
      <4>3. CASE falhasAte # Nunca /\ falhasAte - J <= agora /\ Contador <= Q(falhasAte - J - 1)
        <5>1. falhasAte \in Nat /\ agora < falhasAte
          BY <1>1, <2>1, <4>1, <4>3 DEF Contador, Expirada
        <5>2. falhasAte - J - 1 \in Int /\ agora - J <= falhasAte - J - 1
          BY <1>1, <5>1
        <5>3. Q(falhasAte - J - 1) <= Q(agora - J) /\ Q(falhasAte - J - 1) \in Nat
          BY <1>2, <1>4, <5>2
        <5>4. QED
          BY <1>1, <2>6, <4>1, <4>3, <5>3
      <4>4. QED
        BY <1>3, <2>1, <4>1, <4>2, <4>3
    <3>3. QED
      BY <2>4, <3>1, <3>2
  <2>10. QED
    BY <2>1, <2>7, <2>8, <2>9 DEF ContadorInv, q
<1>11. ASSUME NEW r \in Requisicoes, ContaFalha(r) PROVE ContadorInv'
  <2> DEFINE q(w) == Quantas(falharam', w)
  <2>1. /\ comRedis /\ UNCHANGED <<agora, comRedis>> /\ Falhou(r) /\ VaiPara(r, "fora")
        /\ \/ Incr /\ semPrazo' = (semPrazo \/ falhas' = 1)
           \/ UNCHANGED <<falhas, falhasAte, semPrazo>>
    BY <1>11 DEF ContaFalha
  <2>2. \/ Contador' = Contador /\ falhasAte' = falhasAte
        \/ /\ Contador' = Contador + 1 /\ (Contador # 0 => falhasAte' = falhasAte)
           /\ Contador = 0 => semPrazo'
    <3>1. CASE Incr /\ semPrazo' = (semPrazo \/ falhas' = 1)
      <4>1. Contador' = Contador + 1 /\ falhas' = Contador + 1 /\ (Contador # 0 => falhasAte' = falhasAte)
        BY <2>1, <3>1, CounterGrows
      <4>2. Contador = 0 => falhas' = 1
        BY <4>1
      <4>3. falhas' = 1 => semPrazo'
        BY <3>1
      <4>4. QED
        BY <4>1, <4>2, <4>3
    <3>2. CASE UNCHANGED <<falhas, falhasAte, semPrazo>>
      BY <2>1, <3>2, CounterStays
    <3>3. QED
      BY <2>1, <3>1, <3>2
  <2>3. /\ etapa[r] = "handler" /\ \A w \in Int : q(w) \in Nat /\ Q(w) <= q(w)
        /\ \A w \in Int : w < agora => q(w) = Q(w) + 1
    BY <1>9, <2>1
  <2>4. (NoMeio("expire")' <=> NoMeio("expire")) /\ (NoMeio("set")' => NoMeio("set"))
    BY <1>6, <2>1, <2>3
  <2> HIDE DEF q, Q
  <2>5. q(agora - 1) = Q(agora - 1) + 1 /\ Q(agora - 1) \in Nat /\ q(agora - J) = Q(agora - J) + 1 /\ Q(agora - J) \in Nat
    BY <1>1, <1>2, <1>4, <2>3
  <2>6. NoMeio("expire")' => q(agora - 1) > 0 /\ Contador' <= q(agora - 1)
    BY <1>1, <1>3, <2>2, <2>4, <2>5
  <2>7. \/ semPrazo' \/ Contador' = 0 \/ NoMeio("expire")'
        \/ falhasAte' # Nunca /\ falhasAte' - J <= agora /\ Contador' <= q(falhasAte' - J - 1)
    <3>1. CASE falhasAte' = falhasAte /\ falhasAte # Nunca /\ falhasAte - J <= agora /\ Contador <= Q(falhasAte - J - 1)
      <4>1. falhasAte - J - 1 \in Int /\ falhasAte - J - 1 < agora
        BY <1>1, <3>1
      <4>2. q(falhasAte - J - 1) = Q(falhasAte - J - 1) + 1 /\ Q(falhasAte - J - 1) \in Nat
        BY <1>2, <2>3, <4>1
      <4>3. Contador' <= q(falhasAte - J - 1)
        BY <1>1, <2>2, <3>1, <4>2
      <4>4. QED
        BY <3>1, <4>3
    <3>2. comRedis
      BY <2>1
    <3>3. semPrazo => semPrazo'
      BY <2>1
    <3>4. QED
      BY <1>3, <2>2, <2>4, <3>1, <3>2, <3>3
  <2>8. NoMeio("set")' => semPrazo' \/ MaxTentativas <= q(agora - J)
    <3>1. semPrazo => semPrazo'
      BY <2>1
    <3>2. QED
      BY <1>1, <1>3, <2>4, <2>5, <3>1
  <2>9. QED
    BY <2>1, <2>6, <2>7, <2>8 DEF ContadorInv, q
<1>12. ASSUME NEW r \in Requisicoes, Expire(r) PROVE ContadorInv'
  <2> DEFINE e == DepoisDeContar(1)
  <2>1. /\ etapa[r] = "expire" /\ VaiPara(r, e) /\ UNCHANGED <<agora, comRedis, falhas, falharam>>
        /\ \/ /\ falhasAte' = IF Contador = 0 THEN falhasAte ELSE agora + J
              /\ semPrazo' = semPrazo
           \/ semPrazo' = TRUE /\ falhasAte' = falhasAte
    BY <1>12 DEF Expire
  <2>2. NoMeio("expire") /\ e # "expire" /\ (e = "set" => MaxTentativas <= 1)
    BY <1>6, <2>1 DEF DepoisDeContar
  <2>3. (NoMeio("expire")' => NoMeio("expire")) /\ (NoMeio("set")' => NoMeio("set") \/ e = "set")
    BY <1>6, <2>1, <2>2
  <2>4. Contador' = Contador
    BY <2>1, CounterGetsWindow, CounterStays
  <2> HIDE DEF e, Q
  <2>5. Q(agora - 1) > 0 /\ Contador <= Q(agora - 1) /\ Q(agora - 1) \in Nat /\ Q(agora - J) \in Nat /\ Q(agora - 1) <= Q(agora - J)
    BY <1>2, <1>3, <1>4, <2>2
  <2>6. NoMeio("set")' => semPrazo' \/ MaxTentativas <= Q(agora - J)
    BY <1>1, <1>3, <2>1, <2>2, <2>3, <2>5
  <2>7. \/ semPrazo' \/ Contador' = 0
        \/ falhasAte' # Nunca /\ falhasAte' - J <= agora /\ Contador' <= Q(falhasAte' - J - 1)
    <3>1. CASE Contador # 0 /\ falhasAte' = agora + J
      <4>1. falhasAte' # Nunca /\ falhasAte' - J = agora /\ falhasAte' - J - 1 = agora - 1 /\ agora <= agora
        BY <1>1, <3>1
      <4>2. QED
        BY <2>4, <2>5, <4>1
    <3>2. QED
      BY <2>1, <2>4, <3>1
  <2>8. QED
    BY <2>1, <2>4, <2>5, <2>6, <2>7 DEF ContadorInv, Q
<1>13. ASSUME NEW r \in Requisicoes, SetBloqueio(r) PROVE ContadorInv'
  <2>1. /\ etapa[r] = "set" /\ VaiPara(r, "del")
        /\ UNCHANGED <<agora, comRedis, falharam, semPrazo, falhas, falhasAte>>
    BY <1>13 DEF SetBloqueio
  <2>2. Contador' = Contador
    BY <2>1, CounterStays
  <2>3. (NoMeio("expire")' <=> NoMeio("expire")) /\ (NoMeio("set")' => NoMeio("set"))
    BY <1>6, <2>1
  <2>4. QED
    BY <1>5, <2>1, <2>2, <2>3
<1>14. ASSUME NEW r \in Requisicoes, DelContador(r) \/ RegistrarSucesso(r) PROVE ContadorInv'
  <2>1. /\ etapa[r] \in {"del", "handler"} /\ VaiPara(r, "fora") /\ UNCHANGED <<agora, comRedis, falharam, semPrazo>>
        /\ ApagaContador \/ UNCHANGED <<falhas, falhasAte>>
    BY <1>14 DEF DelContador, RegistrarSucesso
  <2>2. (Contador' = Contador /\ falhasAte' = falhasAte) \/ Contador' = 0
    BY <2>1, CounterStays, CounterIsDeleted
  <2>3. (NoMeio("expire")' <=> NoMeio("expire")) /\ (NoMeio("set")' => NoMeio("set"))
    BY <1>6, <2>1
  <2>4. QED
    BY <1>5, <2>1, <2>2, <2>3
<1>15. ASSUME NEW r \in Requisicoes, Morre(r) PROVE ContadorInv'
  <2>1. /\ VaiPara(r, "fora") /\ UNCHANGED <<agora, comRedis, falharam, falhas, falhasAte>>
        /\ semPrazo' = (semPrazo \/ etapa[r] = "expire")
    BY <1>15 DEF Morre
  <2>2. Contador' = Contador
    BY <2>1, CounterStays
  <2>3. /\ NoMeio("expire")' => NoMeio("expire") /\ (NoMeio("set")' => NoMeio("set"))
        /\ etapa[r] # "expire" /\ NoMeio("expire") => NoMeio("expire")'
        /\ NoMeio("set")' => NoMeio("set")
    BY <1>6, <2>1
  <2>4. CASE etapa[r] # "expire"
    <3>1. semPrazo => semPrazo'
      BY <2>1
    <3>2. QED
      BY <1>5, <2>1, <2>2, <2>3, <2>4, <3>1
  <2>5. CASE etapa[r] = "expire"
    <3>1. semPrazo' = TRUE
      BY <2>1, <2>5
    <3>2. NoMeio("expire")' => Q(agora - 1) > 0 /\ Contador' <= Q(agora - 1)
      BY <1>3, <2>2, <2>3
    <3>3. QED
      BY <2>1, <3>1, <3>2 DEF ContadorInv
  <2>6. QED
    BY <2>4, <2>5
<1>16. CASE Cleanup
  <2>1. UNCHANGED <<agora, comRedis, falharam, semPrazo, falhas, falhasAte, etapa>>
    BY <1>16 DEF Cleanup
  <2>2. Contador' = Contador /\ (NoMeio("expire")' <=> NoMeio("expire")) /\ (NoMeio("set")' => NoMeio("set"))
    BY <2>1, CounterStays DEF NoMeio
  <2>3. QED
    BY <1>5, <2>1, <2>2
<1>17. CASE BlockerPassa
  <2>1. /\ agora' = agora + 1 /\ UNCHANGED <<comRedis, falharam, semPrazo, falhas, falhasAte, etapa>>
        /\ ~NoMeio("expire") /\ ~NoMeio("set") /\ ~NoMeio("expire")' /\ ~NoMeio("set")'
    BY <1>17 DEF BlockerPassa, Passa, EntreOperacoes, NoMeio
  <2>2. Contador' = Contador \/ Contador' = 0
    BY <2>1, CounterAges
  <2>3. falhasAte # Nunca /\ falhasAte - J <= agora => falhasAte - J <= agora + 1
    BY <1>1
  <2>4. QED
    BY <1>3, <2>1, <2>2, <2>3 DEF ContadorInv
<1>18. CASE UNCHANGED blockerVars
  <2>1. UNCHANGED <<agora, comRedis, falharam, semPrazo, falhas, falhasAte, etapa>>
    BY <1>18 DEF blockerVars, blockerProprias
  <2>2. Contador' = Contador /\ (NoMeio("expire")' <=> NoMeio("expire")) /\ (NoMeio("set")' => NoMeio("set"))
    BY <2>1, CounterStays DEF NoMeio
  <2>3. QED
    BY <1>5, <2>1, <2>2
<1>19. QED
  BY <1>7, <1>8, <1>10, <1>11, <1>12, <1>13, <1>14, <1>15, <1>16, <1>17, <1>18 DEF BlockerNext

\* The attempts that reach the handler: those let in before the block, and those under way.
LEMMA TentativasNext ==
    ASSUME BlockerState, ProcessoInv, BloqueioInv, TentativasInv, [BlockerNext]_blockerVars
    PROVE  TentativasInv'
<1> DEFINE N == Cardinality(Requisicoes)
           M == MaxTentativas
\* The four cases of the invariant.
           Contam == seguidas <= Contador /\ seguidas < MaxTentativas
           Barrado == Bloqueado /\ seguidas + Cardinality(NoHandler) <= Permitidas
           Decidido == /\ \E r \in Requisicoes : Decidida(r)
                       /\ MaxTentativas <= Contador /\ seguidas + Cardinality(SemDecisao) <= Permitidas
<1>1. /\ agora \in Nat /\ Nunca \notin Int /\ M \in Nat \ {0} /\ DuracaoBloqueio \in Nat \ {0}
      /\ (bloqueio \in Nat \/ bloqueio = Nunca) /\ falhas \in Nat /\ seguidas \in Nat /\ Contador \in Nat
  BY BlockerTypes
<1>2. N \in Nat /\ Permitidas = M + N - 1
  BY BlockerAssumption, FS_CardinalityType DEF Permitidas
<1>3. recusado \/ Contam \/ Barrado \/ Decidido
  BY DEF TentativasInv
<1>4. recusado' \/ Contam' \/ Barrado' \/ Decidido' => TentativasInv'
  BY DEF TentativasInv
<1> DEFINE H == Cardinality(NoHandler)
           D == Cardinality(SemDecisao)
<1>5. ASSUME NEW S \in SUBSET Requisicoes
      PROVE  /\ Cardinality(S) \in Nat
             /\ \A T \in SUBSET S : Cardinality(T) <= Cardinality(S)
             /\ \A r \in S : \A T \in SUBSET (S \ {r}) : Cardinality(T) <= Cardinality(S) - 1
             /\ \A r \in Requisicoes \ S : Cardinality(S) <= N - 1
  <2>1. IsFiniteSet(Requisicoes) /\ IsFiniteSet(S)
    BY BlockerAssumption, FS_Subset
  <2>2. Cardinality(S) \in Nat
    BY <2>1, FS_CardinalityType
  <2>3. \A T \in SUBSET S : Cardinality(T) <= Cardinality(S)
    BY <2>1, FS_Subset
  <2>4. ASSUME NEW r \in S, NEW T \in SUBSET (S \ {r}) PROVE Cardinality(T) <= Cardinality(S) - 1
    <3>1. IsFiniteSet(S \ {r}) /\ Cardinality(S \ {r}) = Cardinality(S) - 1
      BY <2>1, FS_RemoveElement
    <3>2. QED
      BY <3>1, FS_Subset
  <2>5. ASSUME NEW r \in Requisicoes \ S PROVE Cardinality(S) <= N - 1
    <3>1. IsFiniteSet(Requisicoes \ {r}) /\ Cardinality(Requisicoes \ {r}) = N - 1
      BY <2>1, FS_RemoveElement
    <3>2. S \subseteq Requisicoes \ {r}
      OBVIOUS
    <3>3. QED
      BY <3>1, <3>2, FS_Subset
  <2>6. QED
    BY <2>2, <2>3, <2>4, <2>5
<1>6. /\ NoHandler \in SUBSET Requisicoes /\ SemDecisao \in SUBSET Requisicoes /\ NoHandler \subseteq SemDecisao
      /\ NoHandler' \in SUBSET Requisicoes /\ SemDecisao' \in SUBSET Requisicoes
  BY DEF NoHandler, SemDecisao, Decidida
<1>7. H \in Nat /\ D \in Nat /\ H <= D /\ H' \in Nat /\ D' \in Nat
  BY <1>5, <1>6
\* A request moves: what becomes of the two counts.
<1>8. ASSUME NEW r \in Requisicoes, NEW e, VaiPara(r, e)
      PROVE  /\ e # "handler" => H' <= H /\ H' <= N - 1
             /\ e # "handler" /\ etapa[r] = "handler" => H' <= H - 1
             /\ (Decidida(r)' <=> Decidida(r)) => D' = D
             /\ Decidida(r)' => D' <= N - 1
             /\ Decidida(r)' /\ ~Decidida(r) => D' <= D - 1
             /\ \A q \in Requisicoes : q # r => (Decidida(q)' <=> Decidida(q))
  <2>1. etapa'[r] = e /\ \A q \in Requisicoes : q # r => etapa'[q] = etapa[q]
    BY <1>8, OneMoves
  <2>2. \A q \in Requisicoes : q # r => (Decidida(q)' <=> Decidida(q))
    BY <2>1 DEF Decidida
  <2>3. /\ e # "handler" => NoHandler' \subseteq NoHandler /\ r \notin NoHandler'
        /\ etapa[r] = "handler" => r \in NoHandler
        /\ e # "handler" /\ etapa[r] = "handler" => NoHandler' \in SUBSET (NoHandler \ {r})
    BY <2>1 DEF NoHandler
  <2>4. /\ (Decidida(r)' <=> Decidida(r)) => SemDecisao' = SemDecisao
        /\ Decidida(r)' => r \notin SemDecisao'
        /\ Decidida(r)' /\ ~Decidida(r) => r \in SemDecisao /\ SemDecisao' \in SUBSET (SemDecisao \ {r})
    BY <2>2 DEF SemDecisao
  <2>5. e # "handler" => H' <= H /\ H' <= N - 1
    BY <1>5, <1>6, <2>3
  <2>6. e # "handler" /\ etapa[r] = "handler" => H' <= H - 1
    BY <1>5, <1>6, <2>3
  <2>7. (Decidida(r)' <=> Decidida(r)) => D' = D
    BY <2>4
  <2>8. Decidida(r)' => D' <= N - 1
    BY <1>5, <1>6, <2>4
  <2>9. Decidida(r)' /\ ~Decidida(r) => D' <= D - 1
    BY <1>5, <1>6, <2>4
  <2>10. QED
    BY <2>2, <2>5, <2>6, <2>7, <2>8, <2>9
\* The request that moves neither counts nor decides, and the block stays.
<1>9. ASSUME NEW r \in Requisicoes, NEW e, VaiPara(r, e), e # "handler" \/ ~Bloqueado,
             Contador' = Contador, seguidas' = seguidas, Bloqueado' <=> Bloqueado, Decidida(r)' <=> Decidida(r),
             Contam \/ Barrado \/ Decidido
      PROVE  Contam' \/ Barrado' \/ Decidido'
  <2>1. CASE Contam
    BY <1>9, <2>1
  <2>2. CASE Barrado
    <3>1. H' <= H /\ Bloqueado'
      BY <1>8, <1>9, <2>2
    <3>2. seguidas' + H' <= Permitidas
      BY <1>1, <1>2, <1>7, <1>9, <2>2, <3>1
    <3>3. QED
      BY <3>1, <3>2 DEF Permitidas
  <2>3. CASE Decidido
    <3>1. D' = D
      BY <1>8, <1>9
    <3>2. \E q \in Requisicoes : Decidida(q)'
      BY <1>8, <1>9, <2>3
    <3>3. seguidas' + D' <= Permitidas /\ MaxTentativas <= Contador'
      BY <1>9, <2>3, <3>1
    <3>4. QED
      BY <3>2, <3>3 DEF Permitidas
  <2>4. QED
    BY <1>9, <2>1, <2>2, <2>3
\* The IP is blocked, and no request is on its way to the handler.
<1>10. ASSUME NEW r \in Requisicoes, NEW e, VaiPara(r, e), e # "handler", Bloqueado',
              seguidas' = seguidas, Barrado \/ Decidido \/ (Contam /\ etapa[r] # "handler")
       PROVE  Barrado'
  <2>1. H' <= H /\ H' <= N - 1
    BY <1>8, <1>10
  <2>2. seguidas' + H' <= Permitidas
    BY <1>1, <1>2, <1>7, <1>10, <2>1
  <2>3. QED
    BY <1>10, <2>2 DEF Permitidas
<1>11. ASSUME agora' = agora, comRedis' = comRedis, bloqueio' = bloqueio PROVE Bloqueado' <=> Bloqueado
  BY <1>11 DEF Bloqueado, Passou
<1>12. ASSUME agora' = agora, comRedis' = comRedis, Bloqueia PROVE Bloqueado'
  BY <1>1, <1>12 DEF Bloqueia, Bloqueado, Passou
<1>13. ASSUME NEW r \in Requisicoes, Admite(r) PROVE TentativasInv'
  <2>1. /\ etapa[r] = "fora" /\ ~Bloqueado /\ VaiPara(r, "handler") /\ bloqueio' = Nunca
        /\ UNCHANGED <<agora, comRedis, falhas, falhasAte, seguidas, recusado>>
    BY <1>13 DEF Admite
  <2>2. Contador' = Contador /\ (Bloqueado' <=> Bloqueado)
    BY <2>1, CounterStays DEF Bloqueado
  <2>3. Decidida(r)' <=> Decidida(r)
    BY <2>1, OneMoves DEF Decidida
  <2>4. recusado' = recusado
    BY <2>1
  <2>5. QED
    BY <1>3, <1>4, <1>9, <2>1, <2>2, <2>3, <2>4
<1>14. ASSUME NEW r \in Requisicoes, AdmiteSemResposta(r) \/ ContaFalha(r) PROVE TentativasInv'
  <2>1. recusado'
    BY <1>14 DEF AdmiteSemResposta, ContaFalha
  <2>2. QED
    BY <1>4, <2>1
<1>15. ASSUME NEW r \in Requisicoes, RegistrarFalha(r) PROVE TentativasInv'
  <2>1. /\ ~comRedis /\ Falhou(r) /\ VaiPara(r, "fora") /\ UNCHANGED <<agora, comRedis, recusado>>
        /\ etapa[r] = "handler" /\ seguidas' = seguidas + 1
    BY <1>15 DEF RegistrarFalha, Falhou
  <2>2. /\ Contador = falhas /\ falhas < M /\ ~Decidido
        /\ Contador' = falhas'
    BY <2>1 DEF ProcessoInv, Contador, Expirada, Decidida
  <2>3. H' <= H - 1 /\ H' <= N - 1
    BY <1>8, <2>1
  <2>4. \/ falhas + 1 >= M /\ Bloqueado'
        \/ falhas + 1 < M /\ falhas' = falhas + 1 /\ (Bloqueado' <=> Bloqueado)
    <3>1. CASE falhas + 1 >= M
      BY <1>12, <1>15, <2>1, <3>1 DEF RegistrarFalha
    <3>2. CASE ~(falhas + 1 >= M)
      BY <1>1, <1>11, <1>15, <2>1, <3>2 DEF RegistrarFalha
    <3>3. QED
      BY <3>1, <3>2
  <2>5. CASE Barrado
    <3>1. Bloqueado'
      BY <2>4, <2>5
    <3>2. seguidas' + H' <= Permitidas
      BY <1>1, <1>2, <1>7, <2>1, <2>3, <2>5
    <3>3. QED
      BY <1>4, <3>1, <3>2 DEF Permitidas
  <2>6. CASE Contam
    <3>1. CASE falhas + 1 >= M /\ Bloqueado'
      <4>1. seguidas' + H' <= Permitidas
        BY <1>1, <1>2, <1>7, <2>1, <2>3, <2>6
      <4>2. QED
        BY <1>4, <3>1, <4>1 DEF Permitidas
    <3>2. CASE falhas + 1 < M /\ falhas' = falhas + 1
      <4>1. seguidas' <= Contador' /\ seguidas' < M
        BY <1>1, <2>1, <2>2, <2>6, <3>2
      <4>2. QED
        BY <1>4, <4>1
    <3>3. QED
      BY <2>4, <3>1, <3>2
  <2>7. CASE recusado
    BY <1>4, <2>1, <2>7
  <2>8. QED
    BY <1>3, <2>2, <2>5, <2>6, <2>7
<1>16. ASSUME NEW r \in Requisicoes, Conta(r) PROVE TentativasInv'
  <2> DEFINE e == IF falhas' = 1 THEN "expire" ELSE DepoisDeContar(falhas')
  <2>1. /\ Falhou(r) /\ Incr /\ VaiPara(r, e) /\ UNCHANGED <<agora, comRedis, bloqueio, recusado>>
        /\ etapa[r] = "handler" /\ seguidas' = seguidas + 1
    BY <1>16 DEF Conta, Falhou
  <2>2. Contador' = Contador + 1 /\ falhas' = Contador + 1
    BY <2>1, CounterGrows
  <2>3. e # "handler" /\ ~Decidida(r) /\ (Bloqueado' <=> Bloqueado) /\ etapa'[r] = e
    BY <1>11, <2>1, OneMoves DEF DepoisDeContar, Decidida
  <2>4. Contador + 1 >= M => Decidida(r)'
    <3>1. Contador + 1 >= M => e = "set" \/ (e = "expire" /\ DepoisDeContar(1) = "set")
      BY <2>2 DEF DepoisDeContar
    <3>2. QED
      BY <2>3, <3>1 DEF Decidida
  <2> HIDE DEF e
  <2>5. H' <= H - 1 /\ (Decidida(r)' => D' <= N - 1 /\ D' <= D - 1)
    BY <1>8, <2>1, <2>3
  <2>6. CASE Barrado
    <3>1. seguidas' + H' <= Permitidas
      BY <1>1, <1>2, <1>7, <2>1, <2>5, <2>6
    <3>2. QED
      BY <1>4, <2>3, <2>6, <3>1 DEF Permitidas
  <2>7. CASE Contam
    <3>1. CASE Contador + 1 >= M
      <4>1. seguidas' + D' <= Permitidas /\ M <= Contador'
        BY <1>1, <1>2, <1>7, <2>1, <2>2, <2>4, <2>5, <2>7, <3>1
      <4>2. QED
        BY <1>4, <2>4, <3>1, <4>1 DEF Permitidas
    <3>2. CASE ~(Contador + 1 >= M)
      <4>1. seguidas' <= Contador' /\ seguidas' < M
        BY <1>1, <2>1, <2>2, <2>7, <3>2
      <4>2. QED
        BY <1>4, <4>1
    <3>3. QED
      BY <3>1, <3>2
  <2>8. CASE Decidido
    <3>1. Contador + 1 >= M /\ M <= Contador'
      BY <1>1, <2>2, <2>8
    <3>2. seguidas' + D' <= Permitidas
      BY <1>1, <1>2, <1>7, <2>1, <2>4, <2>5, <2>8, <3>1
    <3>3. QED
      BY <1>4, <2>4, <3>1, <3>2 DEF Permitidas
  <2>9. CASE recusado
    BY <1>4, <2>1, <2>9
  <2>10. QED
    BY <1>3, <2>6, <2>7, <2>8, <2>9
<1>17. ASSUME NEW r \in Requisicoes, Expire(r) PROVE TentativasInv'
  <2> DEFINE e == DepoisDeContar(1)
  <2>1. /\ etapa[r] = "expire" /\ VaiPara(r, e) /\ UNCHANGED <<agora, comRedis, falhas, bloqueio, seguidas, recusado>>
        /\ falhasAte' = falhasAte \/ falhasAte' = IF Contador = 0 THEN falhasAte ELSE agora + JanelaTentativas
    BY <1>17 DEF Expire
  <2>2. Contador' = Contador /\ (Bloqueado' <=> Bloqueado)
    BY <1>11, <2>1, CounterGetsWindow, CounterStays
  <2>3. e # "handler" /\ (Decidida(r)' <=> Decidida(r)) /\ recusado' = recusado /\ seguidas' = seguidas
    BY <2>1, OneMoves DEF Decidida, DepoisDeContar
  <2>4. QED
    BY <1>3, <1>4, <1>9, <2>1, <2>2, <2>3
<1>18. ASSUME NEW r \in Requisicoes, SetBloqueio(r) PROVE TentativasInv'
  <2>1. /\ etapa[r] = "set" /\ VaiPara(r, "del") /\ UNCHANGED <<agora, comRedis, falhas, falhasAte, seguidas>>
        /\ (Bloqueia /\ recusado' = recusado) \/ recusado'
    BY <1>18 DEF SetBloqueio
  <2>2. CASE Bloqueia /\ recusado' = recusado
    <3>1. Bloqueado' /\ seguidas' = seguidas /\ etapa[r] # "handler"
      BY <1>12, <2>1, <2>2
    <3>2. QED
      BY <1>3, <1>4, <1>10, <2>1, <2>2, <3>1
  <2>3. QED
    BY <1>4, <2>1, <2>2
<1>19. ASSUME NEW r \in Requisicoes, DelContador(r) PROVE TentativasInv'
  <2>1. etapa[r] = "del" /\ VaiPara(r, "fora") /\ UNCHANGED <<agora, comRedis, bloqueio, seguidas, recusado>>
    BY <1>19 DEF DelContador
  <2>2. recusado \/ Bloqueado
    BY <2>1 DEF BloqueioInv, NoMeio
  <2>3. (Bloqueado' <=> Bloqueado) /\ recusado' = recusado /\ seguidas' = seguidas /\ etapa[r] # "handler"
    BY <1>11, <2>1
  <2>4. QED
    BY <1>3, <1>4, <1>10, <2>1, <2>2, <2>3
<1>20. ASSUME NEW r \in Requisicoes, RegistrarSucesso(r) PROVE TentativasInv'
  <2>1. /\ etapa[r] = "handler" /\ VaiPara(r, "fora") /\ UNCHANGED <<agora, comRedis, bloqueio, recusado>>
        /\ (ApagaContador /\ seguidas' = 0) \/ UNCHANGED <<falhas, falhasAte, seguidas>>
    BY <1>20 DEF RegistrarSucesso
  <2>2. CASE ApagaContador /\ seguidas' = 0
    <3>1. Contador' = 0
      BY <2>2, CounterIsDeleted
    <3>2. seguidas' <= Contador' /\ seguidas' < MaxTentativas
      BY <1>1, <2>2, <3>1
    <3>3. QED
      BY <1>4, <3>2
  <2>3. CASE UNCHANGED <<falhas, falhasAte, seguidas>>
    <3>1. Contador' = Contador /\ seguidas' = seguidas /\ (Bloqueado' <=> Bloqueado) /\ recusado' = recusado
      BY <1>11, <2>1, <2>3, CounterStays
    <3>2. Decidida(r)' <=> Decidida(r)
      BY <2>1, OneMoves DEF Decidida
    <3>3. QED
      BY <1>3, <1>4, <1>9, <2>1, <3>1, <3>2
  <2>4. QED
    BY <2>1, <2>2, <2>3
<1>21. ASSUME NEW r \in Requisicoes, Morre(r) PROVE TentativasInv'
  <2>1. /\ VaiPara(r, "fora") /\ UNCHANGED <<agora, comRedis, falhas, falhasAte, bloqueio, seguidas>>
        /\ recusado' = (recusado \/ Decidida(r))
    BY <1>21 DEF Morre
  <2>2. CASE recusado \/ Decidida(r)
    BY <1>4, <2>1, <2>2
  <2>3. CASE ~recusado /\ ~Decidida(r)
    <3>1. Contador' = Contador /\ seguidas' = seguidas /\ (Bloqueado' <=> Bloqueado)
      BY <1>11, <2>1, CounterStays
    <3>2. Decidida(r)' <=> Decidida(r)
      BY <2>1, <2>3, OneMoves DEF Decidida
    <3>3. QED
      BY <1>3, <1>4, <1>9, <2>1, <2>3, <3>1, <3>2
  <2>4. QED
    BY <2>2, <2>3
\* Nobody moves.
<1>22. ASSUME etapa' = etapa PROVE H' = H /\ D' = D /\ \A q \in Requisicoes : Decidida(q)' <=> Decidida(q)
  BY <1>22 DEF NoHandler, SemDecisao, Decidida
<1>23. ASSUME etapa' = etapa, Contador' = Contador, seguidas' = seguidas, recusado' = recusado, Bloqueado' <=> Bloqueado
       PROVE  TentativasInv'
  <2>1. H' = H /\ D' = D /\ \A q \in Requisicoes : Decidida(q)' <=> Decidida(q)
    BY <1>22, <1>23
  <2>2. CASE recusado
    BY <1>4, <1>23, <2>2
  <2>3. CASE Contam
    BY <1>4, <1>23, <2>3
  <2>4. CASE Barrado
    <3>1. seguidas' + H' <= Permitidas
      BY <1>23, <2>1, <2>4
    <3>2. QED
      BY <1>4, <1>23, <2>4, <3>1 DEF Permitidas
  <2>5. CASE Decidido
    <3>1. seguidas' + D' <= Permitidas /\ MaxTentativas <= Contador'
      BY <1>23, <2>1, <2>5
    <3>2. QED
      BY <1>4, <2>1, <2>5, <3>1 DEF Permitidas
  <2>6. QED
    BY <1>3, <2>2, <2>3, <2>4, <2>5
<1>24. CASE Cleanup
  <2>1. /\ UNCHANGED <<agora, comRedis, falhas, falhasAte, etapa, seguidas, recusado>>
        /\ bloqueio' = Nunca /\ Passou(bloqueio)
    BY <1>24 DEF Cleanup
  <2>2. Contador' = Contador /\ (Bloqueado' <=> Bloqueado)
    BY <2>1, CounterStays DEF Bloqueado
  <2>3. QED
    BY <1>23, <2>1, <2>2
<1>25. CASE BlockerPassa
  <2>1. /\ EntreOperacoes /\ agora' = agora + 1 /\ UNCHANGED <<comRedis, falhas, falhasAte, bloqueio, etapa, recusado>>
        /\ seguidas' = IF Perdoa(agora + 1) THEN 0 ELSE seguidas
    BY <1>25 DEF BlockerPassa, Passa
  <2>2. ~Decidido
    BY <2>1 DEF EntreOperacoes, Decidida
  <2>3. /\ Contador' = Contador \/ Contador' = 0
        /\ Contador' = Contador \/ (comRedis /\ falhas > 0 /\ falhasAte = agora + 1)
    BY <2>1, CounterAges
  <2>4. CASE Perdoa(agora + 1)
    <3>1. seguidas' = 0
      BY <2>1, <2>4
    <3>2. seguidas' <= Contador' /\ seguidas' < MaxTentativas
      BY <1>1, <2>3, <3>1
    <3>3. QED
      BY <1>4, <3>2
  <2>5. CASE ~Perdoa(agora + 1)
    <3>1. seguidas' = seguidas /\ Contador' = Contador
      BY <2>1, <2>3, <2>5 DEF Perdoa
    <3>2. Bloqueado' <=> Bloqueado
      BY <1>1, <2>1, <2>5 DEF Perdoa, Bloqueado, Passou
    <3>3. QED
      BY <1>23, <2>1, <3>1, <3>2
  <2>6. QED
    BY <2>4, <2>5
<1>26. CASE UNCHANGED blockerVars
  <2>1. UNCHANGED <<agora, comRedis, falhas, falhasAte, bloqueio, etapa, seguidas, recusado>>
    BY <1>26 DEF blockerVars, blockerProprias
  <2>2. QED
    BY <1>11, <1>23, <2>1, CounterStays
<1>27. QED
  BY <1>13, <1>14, <1>15, <1>16, <1>17, <1>18, <1>19, <1>20, <1>21, <1>24, <1>25, <1>26 DEF BlockerNext

LEMMA BlockerInvNext == BlockerInv /\ [BlockerNext]_blockerVars => BlockerInv'
<1> SUFFICES ASSUME BlockerInv, [BlockerNext]_blockerVars PROVE BlockerInv'
  OBVIOUS
<1>1. BlockerState /\ ProcessoInv /\ ContadorInv /\ BloqueioInv /\ TentativasInv
  BY DEF BlockerInv
<1>2. BlockerState' /\ ProcessoInv'
  BY <1>1, StateNext, ProcessoNext
<1>3. ContadorInv' /\ BloqueioInv' /\ TentativasInv'
  BY <1>1, <1>2, ContadorNext, BloqueioNext, TentativasNext
<1>4. QED
  BY <1>2, <1>3 DEF BlockerInv

LEMMA BlockerInvTypes == BlockerInv => BlockerTypeOK
<1> SUFFICES ASSUME BlockerInv PROVE BlockerTypeOK
  OBVIOUS
<1>1. BlockerState /\ (~comRedis => falhas < MaxTentativas)
  BY DEF BlockerInv, ProcessoInv
<1> DEFINE C == Cardinality(falharam)
<1>2. C \in Nat /\ C <= MaxFalhas /\ MaxFalhas \in Nat /\ falhas \in 0..C /\ seguidas \in 0..C /\ somadas \in 0..C
  BY <1>1, BlockerTypes, BlockerAssumption DEF BlockerState
<1>3. falhas \in 0..MaxFalhas /\ {seguidas, somadas} \subseteq 0..MaxFalhas
  BY <1>2
<1>4. falharam \subseteq [quando : Tempos, numero : 0..MaxFalhas]
  <2>1. \A c \in falharam : c \in [quando : Tempos, numero : Nat] /\ c.numero \in 0..MaxFalhas
    BY <1>1, <1>2 DEF BlockerState, Numerada
  <2>2. QED
    BY <2>1
<1>5. QED
  BY <1>1, <1>3, <1>4 DEF BlockerState, BlockerTypeOK

LEMMA BlockerInitTypes == BlockerInit /\ agora \in Tempos /\ comRedis \in BOOLEAN => BlockerTypeOK
<1> SUFFICES ASSUME BlockerInit, agora \in Tempos, comRedis \in BOOLEAN PROVE BlockerTypeOK
  OBVIOUS
<1>1. falhas \in 0..MaxFalhas /\ {seguidas, somadas} \subseteq 0..MaxFalhas /\ falhas < MaxTentativas
  BY BlockerAssumption DEF BlockerInit
<1>2. etapa \in [Requisicoes -> Etapas] /\ {bloqueio, ultimo} \subseteq Tempos \cup {Nunca}
  BY DEF BlockerInit, Etapas
<1>3. QED
  BY <1>1, <1>2 DEF BlockerInit, BlockerTypeOK

\* Blocked when, and only when, there were failures enough, and until the block ends: for any
\* number of requests and replicas and any limits, however their commands, the failures of Redis,
\* the deaths of replicas and the clock interleave (RegistrarFalha, registrarFalhaRedis,
\* RegistrarSucesso, EstaBloqueado).
THEOREM BlocksAreRight == BlockerSpec => BloqueioCorreto
<1>1. BlockerInv /\ [BlockerNext]_blockerVars => [BloqueioJustificado]_blockerVars
  <2> SUFFICES ASSUME BlockerInv, BlockerNext, ultimo' # ultimo
               PROVE  IF comRedis THEN semPrazo \/ FalhasNaJanela >= MaxTentativas ELSE somadas + 1 >= MaxTentativas
    BY DEF BloqueioJustificado
  <2>1. BlockerState /\ ProcessoInv /\ ContadorInv
    BY DEF BlockerInv
  <2>2. \E r \in Requisicoes : RegistrarFalha(r) \/ SetBloqueio(r)
    BY DEF BlockerNext, Admite, AdmiteSemResposta, Conta, ContaFalha, Expire, DelContador, RegistrarSucesso, Morre,
           Cleanup, BlockerPassa
  <2>3. PICK r \in Requisicoes : RegistrarFalha(r) \/ SetBloqueio(r)
    BY <2>2
  <2>4. CASE RegistrarFalha(r)
    <3>1. ~comRedis /\ falhas + 1 >= MaxTentativas
      BY <2>4 DEF RegistrarFalha
    <3>2. QED
      BY <2>1, <3>1 DEF ProcessoInv
  <2>5. CASE SetBloqueio(r)
    <3>1. NoMeio("set") /\ comRedis
      BY <2>1, <2>5 DEF SetBloqueio, NoMeio, ProcessoInv
    <3>2. FalhasNaJanela = Quantas(falharam, agora - JanelaTentativas)
      BY DEF FalhasNaJanela, Desde, Quantas
    <3>3. semPrazo \/ FalhasNaJanela >= MaxTentativas
      <4>1. agora - JanelaTentativas \in Int /\ MaxTentativas \in Int
        BY <2>1, BlockerTypes
      <4>2. FalhasNaJanela \in Nat
        BY <2>1, <3>2, <4>1, Counting DEF BlockerState, Numerada
      <4>3. semPrazo \/ MaxTentativas <= FalhasNaJanela
        BY <2>1, <3>1, <3>2 DEF ContadorInv
      <4>4. QED
        BY <4>1, <4>2, <4>3
    <3>4. QED
      BY <3>1, <3>3
  <2>6. QED
    BY <2>3, <2>4, <2>5
<1>2. BlockerInv => TentativasLimitadas /\ SoOTempoLevantaBloqueio
  <2> SUFFICES ASSUME BlockerInv PROVE TentativasLimitadas /\ SoOTempoLevantaBloqueio
    OBVIOUS
  <2>1. BlockerState /\ BloqueioInv /\ TentativasInv
    BY DEF BlockerInv
  <2>2. /\ seguidas \in Nat /\ Contador \in Nat /\ MaxTentativas \in Nat \ {0}
        /\ agora \in Nat /\ DuracaoBloqueio \in Nat \ {0} /\ (ultimo \in Nat \/ ultimo = Nunca)
    BY <2>1, BlockerTypes, AmbienteAssumption DEF BlockerState, Tempos
  <2>3. TentativasLimitadas
    <3>1. IsFiniteSet(Requisicoes) /\ NoHandler \subseteq Requisicoes /\ SemDecisao \subseteq Requisicoes
      BY BlockerAssumption DEF NoHandler, SemDecisao
    <3>2. /\ Cardinality(Requisicoes) \in Nat
          /\ Cardinality(NoHandler) \in Nat /\ Cardinality(SemDecisao) \in Nat
      BY <3>1, FS_Subset, FS_CardinalityType
    <3>3. CASE seguidas < MaxTentativas
      BY <2>2, <3>2, <3>3 DEF TentativasLimitadas
    <3>4. CASE seguidas + Cardinality(NoHandler) <= Permitidas \/ seguidas + Cardinality(SemDecisao) <= Permitidas
      BY <2>2, <3>2, <3>4 DEF TentativasLimitadas, Permitidas
    <3>5. QED
      BY <2>1, <3>3, <3>4 DEF TentativasInv, TentativasLimitadas
  <2>4. SoOTempoLevantaBloqueio
    BY <2>1, <2>2 DEF BloqueioInv, SoOTempoLevantaBloqueio, Bloqueado, Passou
  <2>5. QED
    BY <2>3, <2>4
<1>3. BlockerInv' => (TentativasLimitadas /\ SoOTempoLevantaBloqueio)'
  BY <1>2, PTL
<1>4. BlockerInv /\ BlockerInv' /\ [BlockerNext]_blockerVars
        => [BloqueioJustificado /\ (TentativasLimitadas /\ SoOTempoLevantaBloqueio)']_blockerVars
  BY <1>1, <1>3
<1>5. QED
  BY <1>4, BlockerInvInit, BlockerInvNext, PTL DEF BlockerSpec, BloqueioCorreto

-----------------------------------------------------------------------------
(* The parts together.                                                     *)

\* A key of the pattern that somebody has still to clear holds a value: it is not deleted, nor
\* expired.
CacheInv == ClearInv /\ agora \in Tempos /\ CacheTypeOK

LEMMA CacheInvInit == CacheInit /\ agora \in Tempos => CacheInv
<1> SUFFICES ASSUME CacheInit, agora \in Tempos PROVE CacheInv
  OBVIOUS
<1>1. CacheTypeOK
  BY DEF CacheInit, CacheTypeOK
<1>2. QED
  BY <1>1, ClearInvInit DEF CacheInv

LEMMA CacheInvNext == CacheInv /\ [CacheNext]_<<agora, comRedis, cacheProprias>> => CacheInv'
<1> SUFFICES ASSUME CacheInv, [CacheNext]_<<agora, comRedis, cacheProprias>> PROVE CacheInv'
  OBVIOUS
<1>1. ClearInv'
  BY ClearInvNext DEF CacheInv
<1>2. /\ agora \in Nat /\ agora <= MaxTempo /\ MaxTempo \in Nat /\ Nunca \notin Int /\ Sempre = MaxTempo + 1
      /\ vence \in [Chaves -> {Nunca} \cup 0..Sempre] /\ DOMAIN antigas = Replicas
      /\ \A r \in Replicas : antigas[r] \subseteq Guardadas
  BY AmbienteAssumption DEF CacheInv, CacheTypeOK, ClearInv, Tempos, Sempre
<1>3. /\ limpeza' \in [Replicas -> {"fora", "listou", "limpou", "erro"}]
      /\ listadas' \in [Replicas -> SUBSET DoPadrao]
  BY <1>1 DEF ClearInv
\* The values that are left under other keys are as they were.
<1>4. ASSUME NEW chaves, Renova(chaves), agora' = agora, vence' \in [Chaves -> {Nunca} \cup 0..Sempre],
             \A k \in Chaves \ chaves : vence'[k] = vence[k]
      PROVE  CacheInv'
  <2>1. \A r \in Replicas : antigas'[r] \subseteq Guardadas'
    BY <1>2, <1>4, CacheAssumption DEF Renova, Guardadas, Guardada
  <2>2. QED
    BY <1>1, <1>3, <1>4, <2>1 DEF CacheInv, CacheTypeOK
<1>5. ASSUME NEW chaves, DelChaves(chaves), agora' = agora PROVE CacheInv'
  <2>1. /\ vence' \in [Chaves -> {Nunca} \cup 0..Sempre] /\ Renova(chaves)
        /\ \A k \in Chaves \ chaves : vence'[k] = vence[k]
    BY <1>2, <1>5 DEF DelChaves
  <2>2. QED
    BY <1>4, <1>5, <2>1
<1>6. ASSUME NEW k \in Chaves, NEW ttl \in Prazos, SetWithTTL(k, ttl), agora' = agora PROVE CacheInv'
  <2> DEFINE ate == IF ttl = 0 THEN Sempre ELSE Min({agora + ttl, Sempre})
  <2>1. ate \in 0..Sempre
    <3>1. ttl \in Nat
      BY CacheAssumption
    <3>2. Min({agora + ttl, Sempre}) = IF agora + ttl <= Sempre THEN agora + ttl ELSE Sempre
      BY <1>2, <3>1, SmallerOfTwo
    <3>3. QED
      BY <1>2, <3>1, <3>2
  <2>2. vence' = [vence EXCEPT ![k] = ate] /\ Renova({k})
    BY <1>6 DEF SetWithTTL
  <2> HIDE DEF ate
  <2>3. vence' \in [Chaves -> {Nunca} \cup 0..Sempre] /\ \A q \in Chaves \ {k} : vence'[q] = vence[q]
    BY <1>2, <2>1, <2>2
  <2>4. QED
    BY <1>4, <1>6, <2>2, <2>3
<1>7. ASSUME NEW r \in Replicas, Keys(r), agora' = agora PROVE CacheInv'
  <2>1. vence' = vence /\ (antigas' = antigas \/ antigas' = [antigas EXCEPT ![r] = Guardadas])
    BY <1>7 DEF Keys
  <2>2. Guardadas' = Guardadas
    BY <1>7, <2>1 DEF Guardadas, Guardada
  <2>3. \A q \in Replicas : antigas'[q] \subseteq Guardadas'
    BY <1>2, <2>1, <2>2
  <2>4. QED
    BY <1>1, <1>2, <1>3, <1>7, <2>1, <2>3 DEF CacheInv, CacheTypeOK
<1>8. ASSUME NEW r \in Replicas, Del(r), agora' = agora PROVE CacheInv'
  <2>1. CASE DelListadas(r)
    BY <1>5, <1>8, <2>1 DEF DelListadas
  <2>2. CASE UNCHANGED <<vence, antigas>>
    <3>1. Guardadas' = Guardadas
      BY <1>8, <2>2 DEF Guardadas, Guardada
    <3>2. QED
      BY <1>1, <1>2, <1>3, <1>8, <2>2, <3>1 DEF CacheInv, CacheTypeOK
  <2>3. QED
    BY <1>8, <2>1, <2>2 DEF Del
<1>9. CASE CachePassa
  <2>1. /\ agora' = agora + 1 /\ agora' \in Tempos /\ vence' = vence
        /\ antigas' = [r \in Replicas |-> antigas[r] \ {k \in Chaves : vence[k] = agora + 1}]
    BY <1>2, <1>9 DEF CachePassa, Passa, Renova, Tempos
  <2>2. ASSUME NEW r \in Replicas, NEW k \in antigas'[r] PROVE k \in Guardadas'
    <3>1. k \in Guardadas /\ k \in Chaves /\ vence[k] # agora + 1
      BY <1>2, <2>1, <2>2, CacheAssumption DEF Guardadas
    <3>2. vence[k] \in Nat /\ agora < vence[k] /\ vence[k] # Nunca
      BY <1>2, <3>1 DEF Guardadas, Guardada
    <3>3. agora + 1 < vence[k]
      BY <1>2, <3>1, <3>2
    <3>4. QED
      BY <2>1, <3>1, <3>2, <3>3 DEF Guardadas, Guardada
  <2>3. QED
    BY <1>1, <1>2, <1>3, <2>1, <2>2 DEF CacheInv, CacheTypeOK
<1>10. CASE UNCHANGED <<agora, comRedis, cacheProprias>>
  BY <1>1, <1>10 DEF CacheInv, CacheTypeOK, cacheProprias, Guardadas, Guardada
<1>11. QED
  BY <1>5, <1>6, <1>7, <1>8, <1>9, <1>10 DEF CacheNext, Delete, CacheInv

LEMMA AuthInvTypes == AuthInv => AuthTypeOK
<1> SUFFICES ASSUME AuthInv PROVE AuthTypeOK
  OBVIOUS
<1>1. EmOrdem(config.ordem) /\ config.tipo \in {"remota", "local", "qualquer"}
  BY Configurations DEF AuthInv, AuthState
<1>2. ToSet(config.ordem) = Guardas
  BY <1>1 DEF EmOrdem, ToSet
<1>3. QED
  BY <1>1, <1>2 DEF AuthInv, AuthState, ClaimsInv, PerguntasInv, AuthTypeOK, EmOrdem

\* The parts that do not run stay as they began.
PartesInv ==
    /\ agora \in Tempos /\ comRedis \in BOOLEAN
    /\ parte \in {"blocker", "limiter", "auth", "pedidos", "rodadas", "cache", "consumo", "arquitetura"}
    /\ IF parte = "blocker" THEN BlockerInv ELSE BlockerInit
    /\ IF parte = "limiter" THEN LimiterInv ELSE LimiterInit
    /\ IF parte = "auth" THEN AuthInv ELSE AuthTypeOK
    /\ MedidaInv
    /\ IF parte = "cache" THEN CacheInv ELSE CacheInit

LEMMA PartesInvInit == MCInit => PartesInv
<1> SUFFICES ASSUME MCInit PROVE PartesInv
  OBVIOUS
<1>1. agora \in Tempos /\ comRedis \in BOOLEAN /\ AmbienteInit
  BY AmbienteAssumption DEF MCInit, AmbienteInit, Tempos
<1>2. SemAuth => AuthTypeOK
  <2>1. ToSet(Ordem) = Guardas /\ Len(Ordem) = 4
    BY Orders DEF EmOrdem, ToSet
  <2>2. QED
    BY <2>1 DEF SemAuth, AuthTypeOK, Config, Vias
<1>3. QED
  BY <1>1, <1>2, BlockerInvInit, LimiterInvInit, AuthInvInit, MedidaInvInit, CacheInvInit DEF MCInit, PartesInv

\* Only the clock moves, and only by steps that mean to move it.
LEMMA Surroundings ==
    ASSUME agora \in Tempos, comRedis \in BOOLEAN, [MCNext]_mcVars,
           parte \in {"blocker", "limiter", "auth", "pedidos", "rodadas", "cache", "consumo", "arquitetura"}
    PROVE  agora' \in Tempos /\ comRedis' \in BOOLEAN /\ agora <= agora' /\ parte' = parte
<1>1. UNCHANGED <<agora, comRedis>> \/ Passa
  <2>1. CASE parte = "blocker" /\ BlockerNext
    BY <2>1 DEF BlockerNext, Admite, AdmiteSemResposta, RegistrarFalha, Conta, ContaFalha, Expire, SetBloqueio,
           DelContador, RegistrarSucesso, Morre, Cleanup, BlockerPassa
  <2>2. CASE parte = "limiter" /\ LimiterNext
    BY <2>2 DEF LimiterNext, Allow, LimiterCleanup, AllowRedis, AllowSemResposta, LimiterPassa
  <2>3. CASE parte = "auth" /\ AuthNext
    BY <2>3 DEF AuthNext, CSRFGuard, Autentica, TenantGuard, PermissaoSemPergunta, Permissao, Contrato, Nada,
           DerivarTokenAssistente, AuthPassa
  <2>4. CASE parte = "cache" /\ CacheNext
    BY <2>4 DEF CacheNext, CachePassa
  <2>5. CASE SemTempo \/ UNCHANGED mcVars
    BY <2>5 DEF SemTempo, mcVars
  <2>6. CASE ~(parte = "blocker" \/ parte = "limiter" \/ parte = "auth" \/ parte = "cache") /\ MCNext
    BY <2>6 DEF MCNext, SemTempo
  <2>7. QED
    BY <2>1, <2>2, <2>3, <2>4, <2>5, <2>6 DEF MCNext
<1>2. parte' = parte
  BY DEF MCNext, mcVars
<1>3. QED
  BY <1>1, <1>2, AmbienteAssumption DEF Passa, Tempos

LEMMA PartesInvNext == PartesInv /\ [MCNext]_mcVars => PartesInv'
<1> SUFFICES ASSUME PartesInv, [MCNext]_mcVars PROVE PartesInv'
  OBVIOUS
<1>1. agora' \in Tempos /\ comRedis' \in BOOLEAN /\ agora <= agora' /\ parte' = parte
  BY Surroundings DEF PartesInv
<1>2. IF parte = "blocker" THEN BlockerInv' ELSE BlockerInit'
  <2>1. CASE parte = "blocker"
    <3>1. [BlockerNext]_blockerVars
      BY <2>1 DEF MCNext, mcVars, blockerVars
    <3>2. QED
      BY <2>1, <3>1, BlockerInvNext DEF PartesInv
  <2>2. CASE parte # "blocker"
    <3>1. UNCHANGED blockerProprias
      BY <2>2 DEF MCNext, mcVars
    <3>2. QED
      BY <2>2, <3>1 DEF PartesInv, BlockerInit, blockerProprias
  <2>3. QED
    BY <2>1, <2>2
<1>3. IF parte = "limiter" THEN LimiterInv' ELSE LimiterInit'
  <2>1. CASE parte = "limiter"
    <3>1. [LimiterNext]_limiterVars
      BY <2>1 DEF MCNext, mcVars, limiterVars
    <3>2. QED
      BY <2>1, <3>1, LimiterInvNext DEF PartesInv
  <2>2. CASE parte # "limiter"
    <3>1. UNCHANGED limiterProprias
      BY <2>2 DEF MCNext, mcVars
    <3>2. QED
      BY <2>2, <3>1 DEF PartesInv, LimiterInit, limiterProprias
  <2>3. QED
    BY <2>1, <2>2
<1>4. IF parte = "auth" THEN AuthInv' ELSE AuthTypeOK'
  <2>1. CASE parte = "auth"
    <3>1. [AuthNext]_authVars
      BY <2>1 DEF MCNext, mcVars, authVars
    <3>2. QED
      BY <2>1, <3>1, AuthInvNext DEF PartesInv
  <2>2. CASE parte # "auth"
    <3>1. UNCHANGED authProprias
      BY <2>2 DEF MCNext, mcVars
    <3>2. QED
      BY <2>2, <3>1 DEF PartesInv, AuthTypeOK, authProprias
  <2>3. QED
    BY <2>1, <2>2
<1>5. MedidaInv'
  <2>1. [PedidoNext \/ RodadaNext]_medidasProprias
    BY DEF MCNext, mcVars
  <2>2. QED
    BY <2>1, MedidaInvNext DEF PartesInv
<1>6. IF parte = "cache" THEN CacheInv' ELSE CacheInit'
  <2>1. CASE parte = "cache"
    <3>1. [CacheNext]_<<agora, comRedis, cacheProprias>>
      BY <2>1 DEF MCNext, mcVars
    <3>2. QED
      BY <2>1, <3>1, CacheInvNext DEF PartesInv
  <2>2. CASE parte # "cache"
    <3>1. UNCHANGED cacheProprias
      BY <2>2 DEF MCNext, mcVars
    <3>2. QED
      BY <2>2, <3>1 DEF PartesInv, CacheInit, cacheProprias
  <2>3. QED
    BY <2>1, <2>2
<1>7. QED
  BY <1>1, <1>2, <1>3, <1>4, <1>5, <1>6 DEF PartesInv

\* The types of all the parts, in the specification that the runs check: the slice of the limiter
\* and the counter of the blocker cannot run away, the claims in a context are those of the
\* request's token, and no replica clears a key that does not match its pattern.
THEOREM TypesOfTheService == MCSpec => []ServicoTypeOK
<1>1. PartesInv => ServicoTypeOK
  <2> SUFFICES ASSUME PartesInv PROVE ServicoTypeOK
    OBVIOUS
  <2>1. BlockerTypeOK
    BY BlockerInvTypes, BlockerInitTypes DEF PartesInv
  <2>2. LimiterTypeOK
    BY LimiterInvTypes, LimiterInitTypes DEF PartesInv
  <2>3. AuthTypeOK
    BY AuthInvTypes DEF PartesInv
  <2>4. MedidasTypeOK
    BY MedidaInvTypes DEF PartesInv
  <2>5. CacheTypeOK
    BY CacheInvInit DEF PartesInv, CacheInv
  <2>6. QED
    BY <2>1, <2>2, <2>3, <2>4, <2>5 DEF ServicoTypeOK
<1>2. QED
  BY <1>1, PartesInvInit, PartesInvNext, PTL DEF MCSpec
=============================================================================
