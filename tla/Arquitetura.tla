----------------------------- MODULE Arquitetura ----------------------------
(***************************************************************************)
(* cmd/deelp-arquitetura (main.go): the check of the dependencies between  *)
(* the layers of a service, with the baseline of violations that are       *)
(* accepted, while the code and the baseline are edited. A path is the     *)
(* sequence of its segments, and an import path begins with its module.    *)
(***************************************************************************)
EXTENDS FiniteSets, Sequences, SequencesExt

CONSTANTS
    Dependencias,   \* the dependencies code may have: <<file, import path>>
    Modulo,         \* the module directive of go.mod
    Testes          \* the names that end in _test.go

\* A path has at least one segment.
ASSUME ArquiteturaAssumption ==
    /\ IsFiniteSet(Dependencias)
    /\ \A d \in Dependencias : \A i \in 1..2 : d[i] \in Seq(STRING) /\ d[i] # <<>>

VARIABLES
    importacoes, \* the dependencies there are
    ilegiveis,  \* files that do not parse
    baseline,   \* the lines of the baseline; {} also if there is no such file
    saida,      \* how the last run ended: "nenhuma", "gerou", or its exit code with what it was about
    \* history
    acordadas   \* the violations there were when the baseline was generated

arquiteturaProprias == <<importacoes, ilegiveis, baseline, saida, acordadas>>

Interno(camada) == <<"internal", camada>>

regras ==
    << [origem |-> Interno("domain"),
        proibidas |-> {Interno("application"), Interno("adapters"), Interno("infra")}],
       [origem |-> Interno("application"),
        proibidas |-> {Interno("adapters"), Interno("infra")}] >>

ArquiteturaInit ==
    /\ importacoes = {} /\ ilegiveis = {} /\ baseline = {}
    /\ saida = [codigo |-> "nenhuma", estrito |-> FALSE] /\ acordadas = {}

-----------------------------------------------------------------------------
(* Verificar and executar.                                                 *)

Arquivos == {d[1] : d \in Dependencias}

\* WalkDir skips vendor, testdata and hidden directories; tests are left out.
Visitado(arquivo) ==
    /\ \A i \in 1..(Len(arquivo) - 1) : arquivo[i] \notin {"vendor", "testdata", ".git"}
    /\ Last(arquivo) \notin Testes

\* regraDe: the rules a file falls under, of which the first counts.
RegrasDe(arquivo) == {i \in DOMAIN regras : IsStrictPrefix(regras[i].origem, arquivo)}

Conferido(arquivo) == Visitado(arquivo) /\ RegrasDe(arquivo) # {}

\* Mutant: the last element of the forbidden path is not looked below.
ProibidaExata(arquivo, interno) ==
    \E i \in RegrasDe(arquivo) : interno \in regras[i].proibidas

\* The import is a forbidden path of the first rule, or below one.
Proibida(arquivo, interno) ==
    \E i \in RegrasDe(arquivo) :
        /\ \A j \in RegrasDe(arquivo) : i <= j
        /\ \E p \in regras[i].proibidas : IsPrefix(p, interno)

Verificar ==
    {<<d[1], Tail(d[2])>> : d \in {e \in importacoes :
        /\ Conferido(e[1])
        /\ Len(e[2]) > 1 /\ Head(e[2]) = Modulo
        /\ Proibida(e[1], Tail(e[2]))}}

\* Any checked file that does not parse ends Verificar with an error.
NaoLe == \E a \in ilegiveis : Conferido(a)

Codigo(estrito) ==
    IF Verificar \subseteq baseline /\ (estrito => baseline \subseteq Verificar) THEN "0" ELSE "1"

\* -gerar-baseline, redirected into the file that later runs are given; a shell may have emptied
\* the file before the error.
GerarBaseline ==
    /\ IF NaoLe
       THEN /\ saida' = [codigo |-> "2", estrito |-> FALSE]
            /\ baseline' \in {baseline, {}} /\ UNCHANGED acordadas
       ELSE /\ saida' = [codigo |-> "gerou", estrito |-> FALSE]
            /\ baseline' = Verificar /\ acordadas' = Verificar
    /\ UNCHANGED <<importacoes, ilegiveis>>

Confere(estrito) ==
    /\ saida' = [codigo |-> IF NaoLe THEN "2" ELSE Codigo(estrito), estrito |-> estrito]
    /\ UNCHANGED <<importacoes, ilegiveis, baseline, acordadas>>

-----------------------------------------------------------------------------
(* The team.                                                               *)

SemSaida == saida' = [codigo |-> "nenhuma", estrito |-> FALSE]

Edita(d) ==
    /\ importacoes' = IF d \in importacoes THEN importacoes \ {d} ELSE importacoes \cup {d}
    /\ SemSaida
    /\ UNCHANGED <<ilegiveis, baseline, acordadas>>

QuebraOuConserta(a) ==
    /\ ilegiveis' = IF a \in ilegiveis THEN {} ELSE {a}
    /\ SemSaida
    /\ UNCHANGED <<importacoes, baseline, acordadas>>

\* "remova a linha": lines are only ever taken out by hand.
RemoveLinha(v) ==
    /\ v \in baseline
    /\ baseline' = baseline \ {v}
    /\ SemSaida
    /\ UNCHANGED <<importacoes, ilegiveis, acordadas>>

ArquiteturaNext ==
    \/ GerarBaseline \/ \E estrito \in BOOLEAN : Confere(estrito)
    \/ \E d \in Dependencias : Edita(d)
    \/ \E a \in Arquivos : QuebraOuConserta(a)
    \/ \E v \in baseline : RemoveLinha(v)

ArquiteturaSpec == ArquiteturaInit /\ [][ArquiteturaNext]_arquiteturaProprias

-----------------------------------------------------------------------------
(* Properties.                                                             *)

\* How far out a layer is; a dependency may only point inwards.
Altura == [domain |-> 0, application |-> 1, adapters |-> 2, infra |-> 2]

Camada(caminho) ==
    IF Len(caminho) > 1 /\ caminho[1] = "internal" THEN caminho[2] ELSE "nenhuma"

ParaFora(d) ==
    /\ Camada(d[1]) \in {"domain", "application"} /\ Len(d[1]) > 2 /\ Visitado(d[1])
    /\ Head(d[2]) = Modulo
    /\ Camada(Tail(d[2])) \in DOMAIN Altura
    /\ Altura[Camada(d[1])] < Altura[Camada(Tail(d[2]))]

\* A check that passes means that every dependency of production code that points outwards was
\* there when the baseline was generated: whatever was edited since, lines may only go. A strict
\* one means the baseline lists exactly those that are left.
CatracaSoAperta ==
    saida.codigo = "0" =>
        /\ \A d \in importacoes : ParaFora(d) => <<d[1], Tail(d[2])>> \in acordadas
        /\ saida.estrito => baseline = {<<d[1], Tail(d[2])>> : d \in {e \in importacoes : ParaFora(e)}}

\* Nothing passes that could not be read, and generating accepts the code as it is: the next
\* check passes in either mode.
GeradoPassa ==
    /\ saida.codigo \in {"0", "1", "gerou"} => ~NaoLe
    /\ saida.codigo = "gerou" => Codigo(TRUE) = "0" /\ Codigo(FALSE) = "0"

\* The ratchet only turns one way: nothing new passes a check, and what was generated does.
CatracaCorreta == CatracaSoAperta /\ GeradoPassa
=============================================================================
