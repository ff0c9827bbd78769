---------------------------- MODULE TenantDados -----------------------------
(***************************************************************************)
(* The purge of a tenant's data (src/tenantdados): each service goes       *)
(* through its sources, an orchestrator calls the services through         *)
(* transporte.Cliente, first for the export, then for the movement, then   *)
(* for the master data. A source may fail with part of its data deleted, a *)
(* reply may get lost, and the client may give up on a handler that is     *)
(* still at work and call again.                                           *)
(***************************************************************************)
EXTENDS Integers, FiniteSetsExt, SequencesExt

CONSTANTS
    Servicos,
    Fontes,     \* the sources of each service, in the order they are declared
    Fase,       \* of each source; 0 for ColecaoMongo.SomenteExportar
    Retida,     \* the sources that are kept
    EmPartes,   \* the sources that are deleted item by item (PrefixoS3)
    SemApagar,  \* the sources without a function to delete them (FonteFunc)
    Itens,      \* the rows, documents or keys that each source holds at first
    Chamadas,   \* requests that may be at work at once
    Ninguem,    \* no request
    MaxFalhas, MaxAvulsas   \* bounds: failures, and calls that are not the orchestrator's

Todas == UNION {ToSet(Fontes[s]) : s \in Servicos}

ASSUME TenantDadosAssumption ==
    /\ Fontes \in [Servicos -> Seq(Todas)] /\ Fase \in [Todas -> 0..2]
    /\ Retida \subseteq Todas /\ EmPartes \subseteq Todas /\ SemApagar \subseteq Todas
    /\ Itens \in [Todas -> SUBSET Nat]       \* numbered in the order they are listed
    /\ Ninguem \notin Chamadas

VARIABLES
    dados,      \* what each source still holds
    ch,         \* the handlers at work
    etapa,      \* the orchestrator: "parado", "exportar", 1, 2 or 3 (done), as 0..4
    faltam,     \* the services that have not answered this step with success
    atual,      \* the call it waits for
    falhas, avulsas     \* history: how many there were

tenantVars == <<dados, ch, etapa, faltam, atual, falhas, avulsas>>

\* The orchestrator's steps: 1 exports, 2 and 3 purge the phases 1 and 2.
Parado == 0
Exportacao == 1
Fim == 4

Livre == [estado |-> "livre"]

\* A request on its way to the handler. simular is the query parameter: "false", or any other text.
Pedido(s, fase, simular, aceita) ==
    [estado |-> "chegou", servico |-> s, fase |-> fase, simular |-> simular, aceita |-> aceita,
     i |-> 1, lista |-> {}, itens |-> <<>>, tocou |-> {}]

TenantInit ==
    /\ dados = Itens
    /\ ch = [c \in Chamadas |-> Livre]
    /\ etapa = Parado /\ faltam = Servicos /\ atual = Ninguem
    /\ falhas = 0 /\ avulsas = 0

Muda(c, r) == ch' = [ch EXCEPT ![c] = r]

-----------------------------------------------------------------------------
(* The service.                                                            *)

\* Only simular=false deletes; an export has phase 0 and reads.
Simula(r) == r.simular # "false"

\* Mutant: from this phase on.
DaFaseEmDiante(r, f) == r.fase = 0 \/ Fase[f] >= r.fase

DaFase(r, f) == r.fase = 0 \/ Fase[f] = r.fase

\* empresaDaChamada, and ErrFaseInvalida.
Recebe(c) ==
    /\ ch[c].estado = "chegou"
    /\ Muda(c, [ch[c] EXCEPT !.estado = IF ch[c].aceita /\ ch[c].fase \in 0..2 THEN "fontes" ELSE "erro"])
    /\ UNCHANGED <<dados, etapa, faltam, atual, falhas, avulsas>>

Fonte(r) == Fontes[r.servico][r.i]

NaFonte(c) == ch[c].estado = "fontes" /\ ch[c].i <= Len(Fontes[ch[c].servico])

\* The source's count goes into the report.
Proxima(r, f) ==
    [r EXCEPT !.estado = "fontes", !.i = @ + 1, !.lista = {},
              !.itens = Append(@, f)]

Pula(c) ==
    /\ NaFonte(c) /\ ~DaFase(ch[c], Fonte(ch[c]))
    /\ Muda(c, [ch[c] EXCEPT !.i = @ + 1])
    /\ UNCHANGED <<dados, etapa, faltam, atual, falhas, avulsas>>

\* Exportar and Contar; Apagar of a source that is kept, or that has no function for it.
SoConta(r, f) == r.fase = 0 \/ Simula(r) \/ f \in Retida \cup SemApagar

Conta(c) ==
    /\ NaFonte(c)
    /\ LET f == Fonte(ch[c]) IN
       /\ DaFase(ch[c], f) /\ SoConta(ch[c], f)
       /\ Muda(c, Proxima(ch[c], f))
    /\ UNCHANGED <<dados, etapa, faltam, atual, falhas, avulsas>>

Apaga(f, itens) == dados' = [dados EXCEPT ![f] = @ \ itens]

\* One DELETE, UPDATE or DeleteMany for the whole source.
ApagaTudo(c) ==
    /\ NaFonte(c)
    /\ LET f == Fonte(ch[c]) IN
       /\ DaFase(ch[c], f) /\ ~SoConta(ch[c], f) /\ f \notin EmPartes
       /\ Apaga(f, dados[f])
       /\ Muda(c, [Proxima(ch[c], f) EXCEPT !.tocou = @ \cup {f}])
    /\ UNCHANGED <<etapa, faltam, atual, falhas, avulsas>>

\* ListarPrefixo: what is there now.
Lista(c) ==
    /\ NaFonte(c)
    /\ LET f == Fonte(ch[c]) IN
       /\ DaFase(ch[c], f) /\ ~SoConta(ch[c], f) /\ f \in EmPartes
       /\ Muda(c, [ch[c] EXCEPT !.estado = "apagando", !.lista = dados[f]])
    /\ UNCHANGED <<dados, etapa, faltam, atual, falhas, avulsas>>

\* Mutant: the loop keeps at the first key.
ExcluiSemAvancar(c) ==
    /\ ch[c].estado = "apagando"
    /\ LET f == Fonte(ch[c])
           r == ch[c] IN
       IF r.lista = {}
       THEN Muda(c, Proxima(r, f)) /\ UNCHANGED dados
       ELSE /\ Muda(c, [r EXCEPT !.tocou = @ \cup {f}])
            /\ Apaga(f, {Min(r.lista)})
    /\ UNCHANGED <<etapa, faltam, atual, falhas, avulsas>>

\* Excluir of the next key, or the end of the list. A key that another call deleted is no error.
Exclui(c) ==
    /\ ch[c].estado = "apagando"
    /\ LET f == Fonte(ch[c])
           r == ch[c] IN
       IF r.lista = {}
       THEN Muda(c, Proxima(r, f)) /\ UNCHANGED dados
       ELSE /\ Muda(c, [r EXCEPT !.lista = @ \ {Min(r.lista)}, !.tocou = @ \cup {f}])
            /\ Apaga(f, {Min(r.lista)})
    /\ UNCHANGED <<etapa, faltam, atual, falhas, avulsas>>

\* The first error ends it, with the report so far.
Para(r) == [r EXCEPT !.estado = "erro"]

\* A source fails, having deleted nothing, all, or (DeleteMany, a prefix) a part of what it was to delete.
Falha(c) ==
    /\ falhas < MaxFalhas
    /\ NaFonte(c) \/ ch[c].estado = "apagando"
    /\ LET f == Fonte(ch[c])
           pedidos == CASE SoConta(ch[c], f) -> {}
                        [] ~SoConta(ch[c], f) /\ f \notin EmPartes -> dados[f]
                        [] ~SoConta(ch[c], f) /\ f \in EmPartes ->
                              IF ch[c].lista = {} THEN {} ELSE {Min(ch[c].lista)}
       IN /\ DaFase(ch[c], f)
          /\ \E itens \in SUBSET pedidos :
                /\ Apaga(f, itens)
                /\ Muda(c, Para([ch[c] EXCEPT !.tocou = @ \cup (IF itens = {} THEN {} ELSE {f})]))
    /\ falhas' = falhas + 1
    /\ UNCHANGED <<etapa, faltam, atual, avulsas>>

Conclui(c) ==
    /\ ch[c].estado = "fontes" /\ ch[c].i > Len(Fontes[ch[c].servico])
    /\ Muda(c, [ch[c] EXCEPT !.estado = "ok"])
    /\ UNCHANGED <<dados, etapa, faltam, atual, falhas, avulsas>>

Servico(c) == Recebe(c) \/ Pula(c) \/ Conta(c) \/ ApagaTudo(c) \/ Lista(c) \/ Exclui(c) \/ Conclui(c)

-----------------------------------------------------------------------------
(* The orchestrator and its client.                                        *)

Comeca ==
    /\ etapa = Parado
    /\ etapa' = Exportacao
    /\ UNCHANGED <<dados, ch, faltam, atual, falhas, avulsas>>

\* Cliente.Exportar or Cliente.Expurgar, again after an error.
Chama ==
    /\ etapa \in Exportacao..(Fim - 1) /\ atual = Ninguem
    /\ \E s \in faltam, c \in {x \in Chamadas : ch[x] = Livre} :
          /\ Muda(c, Pedido(s, etapa - 1, "false", TRUE))
          /\ atual' = c
    /\ UNCHANGED <<dados, etapa, faltam, falhas, avulsas>>

\* Mutant: the client looks at the report only.
SucessoComRelatorio(r) == r.estado = "ok" \/ r.itens # <<>>

Sucesso(r) == r.estado = "ok"

\* The reply comes: sucesso and 200, or an error.
Responde ==
    /\ atual # Ninguem /\ ch[atual].estado \in {"ok", "erro"}
    /\ LET resta == IF Sucesso(ch[atual]) THEN faltam \ {ch[atual].servico} ELSE faltam IN
       IF resta = {}
       THEN etapa' = etapa + 1 /\ faltam' = Servicos
       ELSE faltam' = resta /\ UNCHANGED etapa
    /\ Muda(atual, Livre)
    /\ atual' = Ninguem
    /\ UNCHANGED <<dados, falhas, avulsas>>

\* The client's timeout, or a reply that is lost: to the caller an error like any other.
Desiste ==
    /\ atual # Ninguem /\ falhas < MaxFalhas
    /\ atual' = Ninguem
    /\ falhas' = falhas + 1
    /\ UNCHANGED <<dados, ch, etapa, faltam, avulsas>>

\* The reply of a call nobody waits for.
Descarta(c) ==
    /\ c # atual /\ ch[c].estado \in {"ok", "erro"}
    /\ Muda(c, Livre)
    /\ UNCHANGED <<dados, etapa, faltam, atual, falhas, avulsas>>

\* Somebody else calls: without a valid key or company, or to simulate, or for no such phase.
Avulsa ==
    /\ etapa # Parado /\ avulsas < MaxAvulsas
    /\ \E c \in {x \in Chamadas : ch[x] = Livre}, s \in Servicos, fase \in 1..3, simular \in {"false", "true"}, aceita \in BOOLEAN :
          /\ ~aceita \/ simular # "false" \/ fase = 3
          /\ Muda(c, Pedido(s, fase, simular, aceita))
    /\ avulsas' = avulsas + 1
    /\ UNCHANGED <<dados, etapa, faltam, atual, falhas>>

TenantNext ==
    \/ \E c \in Chamadas : Servico(c) \/ Falha(c) \/ Descarta(c)
    \/ Comeca \/ Chama \/ Responde \/ Desiste \/ Avulsa

TenantFairness ==
    /\ \A c \in Chamadas : WF_tenantVars(Servico(c)) /\ WF_tenantVars(Descarta(c))
    /\ WF_tenantVars(Chama) /\ WF_tenantVars(Responde)

TenantSpec == TenantInit /\ [][TenantNext]_tenantVars /\ TenantFairness

-----------------------------------------------------------------------------
(* Properties.                                                             *)

Expurgaveis(s, fase) == {f \in ToSet(Fontes[s]) : Fase[f] = fase /\ f \notin Retida \cup SemApagar}

\* Types; the call that is waited for is at work, for a service that still has to answer.
TenantTypeOK ==
    /\ DOMAIN dados = Todas /\ \A f \in Todas : dados[f] \subseteq Itens[f]
    /\ etapa \in Parado..Fim /\ faltam \in SUBSET Servicos
    /\ atual \in Chamadas \cup {Ninguem}
    /\ \A c \in Chamadas : ch[c].estado \in {"livre", "chegou", "fontes", "apagando", "ok", "erro"}
    /\ atual # Ninguem => ch[atual] # Livre /\ ch[atual].servico \in faltam

\* Data goes only on a call with a valid key and company that says simular=false, and only of
\* sources of the phase it names that are not kept: what must be retained always stays.
SoApagaOPedido ==
    \A f \in Todas : dados'[f] # dados[f] =>
        /\ f \notin Retida
        /\ \E c \in Chamadas : /\ ch[c].estado # "livre" /\ ch'[c].tocou # {} /\ f \in ch'[c].tocou
                               /\ ch[c].aceita /\ ch[c].simular = "false" /\ ch[c].fase = Fase[f]

\* Master data goes only when no service holds movement that points to it any more, although
\* calls are repeated and overlap.
CadastroPorUltimo ==
    (\E f \in Todas : Fase[f] = 2 /\ dados[f] # Itens[f]) =>
        \A s \in Servicos : \A f \in Expurgaveis(s, 1) : dados[f] = {}

\* The purge takes what it was asked to and nothing else, master data last.
ExpurgoEmOrdem == [][SoApagaOPedido /\ CadastroPorUltimo']_tenantVars

\* "apagar pela metade sem saber onde parou é pior que não apagar": of the sources a failed call
\* touched, the report names all but the one it failed at, and they are empty; those after it are
\* untouched.
SabeOndeParou ==
    \A c \in Chamadas : ch[c].estado = "erro" =>
        LET nomeadas == ToSet(ch[c].itens)
        IN /\ \A f \in ch[c].tocou : f \in nomeadas => dados[f] = {}
           /\ \A f \in ch[c].tocou \ nomeadas : ch[c].i \in DOMAIN Fontes[ch[c].servico] /\ f = Fonte(ch[c])

\* A call that succeeds has emptied every source of its phase that may go.
SucessoQuerDizerApagado ==
    \A s \in Servicos, fase \in 1..2 :
        (etapa > fase + 1 \/ (etapa = fase + 1 /\ s \notin faltam)) => \A f \in Expurgaveis(s, fase) : dados[f] = {}

\* The answer of a call is true of the data: after a failure it tells where the purge stopped,
\* after a success everything is gone.
RelatorioVerdadeiro == SabeOndeParou /\ SucessoQuerDizerApagado

\* With failures that end, repeating the calls ends with everything purged.
Termina == etapa = Exportacao ~> etapa = Fim
=============================================================================
