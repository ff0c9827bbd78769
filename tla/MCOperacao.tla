------------------------------ MODULE MCOperacao ----------------------------
(***************************************************************************)
(* Small instances of Coletor, TenantDados and Inicializacao for TLC.      *)
(* They share nothing, so a behaviour runs one of them, and the others     *)
(* stay in their initial state, where nothing they owe is enabled.         *)
(***************************************************************************)
EXTENDS Coletor, TenantDados, Inicializacao

CONSTANTS
    s1, s2, notas, arquivos, fiscais, cache, perfis, anexos,
    p1, p2

VARIABLE parte

mcVars == <<agora, comRedis, coletorProprias, tenantVars, inicializacaoProprias, parte>>

-----------------------------------------------------------------------------
(* Constants.                                                              *)

\* Two services: files item by item and movement; and a retained source, a collection that is
\* exported only, master data, and one that cannot be deleted.
MCFontes == [s \in Servicos |-> IF s = s1 THEN <<arquivos, notas>>
                                          ELSE <<fiscais, cache, perfis, anexos>>]
MCFase == [f \in {notas, arquivos, fiscais, cache, perfis, anexos} |->
              CASE f \in {notas, arquivos, fiscais, anexos} -> 1
                [] f = perfis -> 2
                [] f = cache -> 0]
MCItens == [f \in DOMAIN MCFase |-> IF f \in {arquivos, notas} THEN 1..2 ELSE {1}]

\* Two services whose queues read from each other's exchanges.
Passo(t, exchange, fila) == [tipo |-> t, exchange |-> exchange, fila |-> fila]
MCPassos == [p \in Processos |->
    IF p = p1
    THEN <<Passo("banco", "", ""), Passo("broker", "", ""), Passo("exchange", "xa", ""),
           Passo("fila", "xb", "fa")>>
    ELSE <<Passo("broker", "", ""), Passo("exchange", "xb", ""), Passo("fila", "xa", "fb"),
           Passo("fila", "", "fc"), Passo("banco", "", "")>>]

\* Bound on the failures and the calls of others in one purge, together.
MaxDesvios == 2

-----------------------------------------------------------------------------
MCInit ==
    /\ parte \in {"iniciar", "avisos", "tenant", "inicializacao"}
    /\ AmbienteInit /\ ~comRedis
    /\ ColetorInit /\ (parte # "iniciar" => ~coletor)
    /\ TenantInit /\ InicializacaoInit

SemTempo == UNCHANGED <<agora, comRedis>>

MCNext ==
    /\ \/ parte = "iniciar" /\ IniciarNext /\ SemTempo
       \/ parte = "avisos" /\ (HandleNext \/ (Passa /\ UNCHANGED coletorProprias))
       \/ parte \notin {"iniciar", "avisos"} /\ UNCHANGED coletorProprias
    /\ \/ parte = "tenant" /\ TenantNext /\ falhas' + avulsas' <= MaxDesvios /\ SemTempo
       \/ parte # "tenant" /\ UNCHANGED tenantVars
    /\ \/ parte = "inicializacao" /\ InicializacaoNext /\ SemTempo
       \/ parte # "inicializacao" /\ UNCHANGED inicializacaoProprias
    /\ UNCHANGED parte

MCSpec ==
    /\ MCInit /\ [][MCNext]_mcVars
    /\ ColetorFairness /\ TenantFairness /\ InicializacaoFairness

\* The components' type invariants together.
OperacaoTypeOK == ColetorTypeOK /\ TenantTypeOK /\ InicializacaoTypeOK
=============================================================================
