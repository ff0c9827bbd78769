------------------------------- MODULE Consumo ------------------------------
(***************************************************************************)
(* The months by which consumption is counted (src/consumo/consumo.go):    *)
(* documents are authorised as time passes, and cliente-service asks for   *)
(* the count of a month, again and again. A service keeps the moment as a  *)
(* Date, or as RFC3339 text with its own offset or in UTC, and counts with *)
(* both ranges of FaixasRFC3339.                                           *)
(***************************************************************************)
EXTENDS Integers, FiniteSets, Sequences

CONSTANTS
    Duracoes,       \* how long each month is, in hours of the model
    MaxDocumentos,  \* bound on the documents
    Atraso          \* how many hours time.Local is behind UTC

ASSUME ConsumoAssumption == Duracoes \in Seq(Nat \ {0}) /\ Atraso \in Nat /\ MaxDocumentos \in Nat

VARIABLES
    relogio,        \* now, in UTC
    documentos,     \* [instante, forma] of each
    contagens       \* history: the last count of each month, and when

consumoProprias == <<relogio, documentos, contagens>>

Formas == {"data", "local", "utc"}
Competencias == DOMAIN Duracoes

\* Local wall-clock time at which month c begins.
Inicio[c \in 1..(Len(Duracoes) + 1)] == IF c = 1 THEN 0 ELSE Inicio[c - 1] + Duracoes[c - 1]

\* Time begins Atraso before the first month and ends Atraso after the last one.
UltimoInstante == Inicio[Len(Duracoes) + 1] + 2 * Atraso

ConsumoInit ==
    /\ relogio = 0
    /\ documentos = {}
    /\ contagens = [c \in Competencias |-> [quantas |-> 0, quando |-> 0]]

-----------------------------------------------------------------------------
(* Intervalo and FaixasRFC3339.                                            *)

\* Mutant: the interval ends with the last day.
FimNoUltimoDia(c) == Inicio[c + 1] - 1

\* AddDate(0, 1, 0) of the first of the month.
FimDoMes(c) == Inicio[c + 1]

\* The wall clock at instant t in an offset.
Local(t) == t - Atraso
Instante(local) == local + Atraso

\* RFC3339 text compares by the wall clock, and then "-03:00" comes before "Z".
Texto(t, forma) ==
    IF forma = "local" /\ Atraso # 0
    THEN [hora |-> Local(t), fuso |-> 0]
    ELSE [hora |-> t, fuso |-> 1]

AntesDe(a, b) == a.hora < b.hora \/ (a.hora = b.hora /\ a.fuso < b.fuso)

Faixas == {"local", "utc"}

\* The filter for month c: by instant for a Date, by either range for a text.
Casa(d, c) ==
    LET ini == Instante(Inicio[c])
        fim == Instante(FimDoMes(c)) IN
    IF d.forma = "data"
    THEN ini <= d.instante /\ d.instante < fim
    ELSE LET texto == Texto(d.instante, d.forma) IN
         \E f \in Faixas : ~AntesDe(texto, Texto(ini, f)) /\ AntesDe(texto, Texto(fim, f))

Contagem(c) == Cardinality({d \in documentos : Casa(d, c)})

-----------------------------------------------------------------------------
Autoriza(forma) ==
    /\ Cardinality(documentos) < MaxDocumentos
    /\ documentos' = documentos \cup {[instante |-> relogio, forma |-> forma]}
    /\ UNCHANGED <<relogio, contagens>>

\* cliente-service asks for month c.
Apura(c) ==
    /\ contagens' = [contagens EXCEPT ![c] = [quantas |-> Contagem(c), quando |-> relogio]]
    /\ UNCHANGED <<relogio, documentos>>

Hora ==
    /\ relogio < UltimoInstante
    /\ relogio' = relogio + 1
    /\ UNCHANGED <<documentos, contagens>>

ConsumoNext ==
    \/ \E forma \in Formas : Autoriza(forma)
    \/ \E c \in Competencias : Apura(c)
    \/ Hora

ConsumoSpec == ConsumoInit /\ [][ConsumoNext]_consumoProprias

-----------------------------------------------------------------------------
(* Properties.                                                             *)

Assentada(c, t) == t > Instante(Inicio[c + 1]) + Atraso

\* The month a document belongs to, by the wall clock of the server.
MesDe(d) == {c \in Competencias : Inicio[c] <= Local(d.instante) /\ Local(d.instante) < Inicio[c] + Duracoes[c]}

\* A document counts for its own month, at whatever hour and in whatever form it was written; a
\* Date for no other, and a text for another one only within the offset of its end.
ContadoNoSeuMes ==
    \A d \in documentos, c \in Competencias :
        /\ c \in MesDe(d) => Casa(d, c)
        /\ Casa(d, c) /\ c \notin MesDe(d) =>
              /\ d.forma # "data"
              /\ \E b \in {Inicio[c], Inicio[c + 1]} :
                    -Atraso <= Local(d.instante) - b /\ Local(d.instante) - b <= Atraso

\* "Recontar sempre dá o mesmo número", once the offset has passed since the end of the month:
\* before that, texts of the first hours of the next month still join the count.
ContagemAssenta ==
    \A c \in Competencias :
        Assentada(c, contagens[c].quando) /\ Assentada(c, contagens'[c].quando)
            => contagens'[c].quantas = contagens[c].quantas

\* The count of a month is the number of its documents, and stays so once the month is over.
ContagemCorreta == [][ContagemAssenta /\ ContadoNoSeuMes']_consumoProprias
=============================================================================
