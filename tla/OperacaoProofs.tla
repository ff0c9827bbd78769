--------------------------- MODULE OperacaoProofs ---------------------------
(***************************************************************************)
(* Theorems about Inicializacao, for any number of processes, whatever     *)
(* each of them opens and declares, and any number of failures; about      *)
(* Coletor, for any number of callers of Desligar; and, with those about   *)
(* TenantDados, about the three together.                                  *)
(***************************************************************************)
EXTENDS MCOperacao, TenantDadosProofs, TLAPS

(* ---------------------------- The start-up ---------------------------- *)

\* A process is at one of its steps or past the last one.
StateInv ==
    /\ passo \in [Processos -> Nat \ {0}]
    /\ dentro \in [Processos -> Onde]
    /\ abertos \in [Processos -> SUBSET Nat]
    /\ canal \in [Processos -> BOOLEAN]
    /\ noBroker \in [exchanges : SUBSET STRING, filas : SUBSET STRING, vinculos : SUBSET (STRING \X STRING)]

\* What step i of p declares is at the broker.
Declared(p, i) ==
    LET s == Passos[p][i] IN
    /\ s.tipo = "fila" => s.fila \in noBroker.filas
    /\ s.tipo = "fila" /\ s.exchange # "" => <<s.fila, s.exchange>> \in noBroker.vinculos
    /\ s.tipo = "exchange" => s.exchange \in noBroker.exchanges

\* What a process holds open: the connections of the steps behind it, that of its own step only
\* while it pings, and a channel only on the way to the deferred Close.
HeldInv ==
    \A p \in Processos :
        /\ canal[p] => dentro[p] \in {"declara", "vincula", "fecha", "fechaComErro"}
        /\ dentro[p] = "parado" => abertos[p] = {}
        /\ \A i \in abertos[p] : i < passo[p] \/ (i = passo[p] /\ dentro[p] = "ping")

\* What has been declared: everything of the steps behind a process and, once it is about to close
\* the channel without an error, of its own; a queue before its binding.
DeclaredInv ==
    \A p \in Processos : \A i \in DOMAIN Passos[p] :
        /\ i < passo[p] => Declared(p, i)
        /\ i = passo[p] /\ dentro[p] = "fecha" => Declared(p, i)
        /\ i = passo[p] /\ dentro[p] = "vincula" => Passos[p][i].fila \in noBroker.filas

StartInv == StateInv /\ HeldInv /\ DeclaredInv

-----------------------------------------------------------------------------
LEMMA StepsAreNumbered ==
    \A p \in Processos : Len(Passos[p]) \in Nat /\ DOMAIN Passos[p] = 1..Len(Passos[p])
BY InicializacaoAssumption

LEMMA StepsAreRecords ==
    ASSUME StateInv, NEW p \in Processos, ~Pronto(p)
    PROVE  /\ passo[p] \in DOMAIN Passos[p]
           /\ Atual(p).exchange \in STRING /\ Atual(p).fila \in STRING
<1>1. passo[p] \in DOMAIN Passos[p]
  <2>1. Len(Passos[p]) \in Nat /\ DOMAIN Passos[p] = 1..Len(Passos[p])
    BY StepsAreNumbered
  <2>2. passo[p] \in Nat \ {0} /\ ~(passo[p] > Len(Passos[p]))
    BY DEF StateInv, Pronto
  <2>3. QED
    BY <2>1, <2>2
<1>2. Passos[p][passo[p]] \in [tipo : {"banco", "broker", "exchange", "fila"}, exchange : STRING, fila : STRING]
  BY <1>1, ElementType, InicializacaoAssumption
<1>3. QED
  BY <1>1, <1>2 DEF Atual

LEMMA StartInvInit == InicializacaoInit => StartInv
<1> SUFFICES ASSUME InicializacaoInit PROVE StartInv
  OBVIOUS
<1> USE DEF InicializacaoInit
<1>1. StateInv
  BY DEF StateInv, Onde, SemNada
<1>2. HeldInv
  BY DEF HeldInv
<1>3. DeclaredInv
  BY StepsAreNumbered DEF DeclaredInv
<1>4. QED
  BY <1>1, <1>2, <1>3 DEF StartInv

\* The steps of one process; only BrokerReinicia is nobody's.
Acts(p) ==
    \/ Anda(p) \/ NaoAbre(p) \/ PingFalha(p) \/ DeclaraFalha(p) \/ Inicia(p) \/ Mata(p)

LEMMA StateInvStep ==
    ASSUME StateInv, NEW p \in Processos, Acts(p)
    PROVE  StateInv'
<1> USE DEF StateInv, Onde, Va, Avanca, Abre, Fecha
<1>1. CASE NaoAbre(p) \/ DeclaraFalha(p)
  BY <1>1 DEF NaoAbre, DeclaraFalha
<1>2. CASE AbreBanco(p) \/ PingFalha(p)
  BY <1>2 DEF AbreBanco, PingFalha
<1>3. CASE PingResponde(p)
  BY <1>3 DEF PingResponde
<1>4. CASE ConectaBroker(p)
  BY <1>4 DEF ConectaBroker
<1>5. CASE AbreCanal(p)
  BY <1>5 DEF AbreCanal
<1>6. CASE FechaCanal(p)
  BY <1>6 DEF FechaCanal
<1>7. CASE DeclaraExchange(p)
  <2>1. Atual(p).exchange \in STRING
    BY <1>7, StepsAreRecords DEF DeclaraExchange, No
  <2>2. QED
    BY <1>7, <2>1 DEF DeclaraExchange
<1>8. CASE DeclaraFila(p)
  <2>1. Atual(p).fila \in STRING
    BY <1>8, StepsAreRecords DEF DeclaraFila, No
  <2>2. QED
    BY <1>8, <2>1 DEF DeclaraFila
<1>9. CASE Vincula(p)
  <2>1. Atual(p).fila \in STRING /\ Atual(p).exchange \in STRING
    BY <1>9, StepsAreRecords DEF Vincula, No
  <2>2. QED
    BY <1>9, <2>1 DEF Vincula
<1>10. CASE Encerra(p)
  BY <1>10 DEF Encerra
<1>11. CASE Inicia(p)
  BY <1>11 DEF Inicia
<1>12. CASE Mata(p)
  BY <1>12 DEF Mata
<1>13. QED
  BY <1>1, <1>2, <1>3, <1>4, <1>5, <1>6, <1>7, <1>8, <1>9, <1>10, <1>11, <1>12 DEF Acts, Anda

LEMMA HeldInvStep ==
    ASSUME StateInv, HeldInv, NEW p \in Processos, Acts(p)
    PROVE  HeldInv'
<1> SUFFICES ASSUME NEW q \in Processos
             PROVE  /\ canal'[q] => dentro'[q] \in {"declara", "vincula", "fecha", "fechaComErro"}
                    /\ dentro'[q] = "parado" => abertos'[q] = {}
                    /\ \A i \in abertos'[q] : i < passo'[q] \/ (i = passo'[q] /\ dentro'[q] = "ping")
  BY DEF HeldInv
<1> USE DEF StateInv, HeldInv, No, Va, Avanca, Abre, Fecha
<1>1. CASE NaoAbre(p) \/ DeclaraFalha(p)
  BY <1>1 DEF NaoAbre, DeclaraFalha
<1>2. CASE AbreBanco(p)
  BY <1>2 DEF AbreBanco
<1>3. CASE PingResponde(p)
  BY <1>3 DEF PingResponde
<1>4. CASE PingFalha(p)
  BY <1>4 DEF PingFalha
<1>5. CASE ConectaBroker(p)
  BY <1>5 DEF ConectaBroker
<1>6. CASE AbreCanal(p) \/ FechaCanal(p)
  BY <1>6 DEF AbreCanal, FechaCanal
<1>7. CASE DeclaraExchange(p) \/ DeclaraFila(p) \/ Vincula(p)
  BY <1>7 DEF DeclaraExchange, DeclaraFila, Vincula
<1>8. CASE Encerra(p)
  BY <1>8 DEF Encerra
<1>9. CASE Inicia(p) \/ Mata(p)
  BY <1>9 DEF Inicia, Mata
<1>10. QED
  BY <1>1, <1>2, <1>3, <1>4, <1>5, <1>6, <1>7, <1>8, <1>9 DEF Acts, Anda

\* Nobody takes back what is declared, not even a restart of the broker.
LEMMA DeclaredStays ==
    ASSUME StateInv, (\E p \in Processos : Acts(p)) \/ BrokerReinicia \/ UNCHANGED inicializacaoProprias
    PROVE  \A q \in Processos, i \in Nat :
              /\ Declared(q, i) => Declared(q, i)'
              /\ Passos[q][i].fila \in noBroker.filas => Passos[q][i].fila \in noBroker'.filas
<1>1. /\ noBroker.filas \subseteq noBroker'.filas
      /\ noBroker.exchanges \subseteq noBroker'.exchanges
      /\ noBroker.vinculos \subseteq noBroker'.vinculos
  <2>1. CASE UNCHANGED noBroker
    BY <2>1
  <2>2. ASSUME NEW p \in Processos, DeclaraExchange(p) \/ DeclaraFila(p) \/ Vincula(p), noBroker' # noBroker
        PROVE  \/ \E x : noBroker' = [noBroker EXCEPT !.exchanges = @ \cup {x}]
               \/ \E x : noBroker' = [noBroker EXCEPT !.filas = @ \cup {x}]
               \/ \E x : noBroker' = [noBroker EXCEPT !.vinculos = @ \cup {x}]
    BY <2>2 DEF DeclaraExchange, DeclaraFila, Vincula
  <2>3. ASSUME NEW p \in Processos, DeclaraExchange(p) \/ DeclaraFila(p) \/ Vincula(p), noBroker' # noBroker
        PROVE  /\ noBroker.filas \subseteq noBroker'.filas
               /\ noBroker.exchanges \subseteq noBroker'.exchanges
               /\ noBroker.vinculos \subseteq noBroker'.vinculos
    BY <2>2, <2>3 DEF StateInv
  <2>4. QED
    BY <2>1, <2>3
    DEF Acts, Anda, NaoAbre, AbreBanco, PingResponde, PingFalha, ConectaBroker, AbreCanal,
     DeclaraFalha, FechaCanal, Encerra, Inicia, Mata, BrokerReinicia, Sobra, inicializacaoProprias
<1>2. QED
  BY <1>1 DEF Declared

LEMMA DeclaredInvStep ==
    ASSUME StateInv, DeclaredInv, NEW p \in Processos, Acts(p)
    PROVE  DeclaredInv'
<1> SUFFICES ASSUME NEW q \in Processos, NEW i \in DOMAIN Passos[q]
             PROVE  /\ i < passo'[q] => Declared(q, i)'
                    /\ i = passo'[q] /\ dentro'[q] = "fecha" => Declared(q, i)'
                    /\ i = passo'[q] /\ dentro'[q] = "vincula" => Passos[q][i].fila \in noBroker'.filas
  BY DEF DeclaredInv
<1> i \in Nat \ {0}
  BY StepsAreNumbered
<1>stay. /\ Declared(q, i) => Declared(q, i)'
         /\ Passos[q][i].fila \in noBroker.filas => Passos[q][i].fila \in noBroker'.filas
  BY DeclaredStays
<1> USE DEF StateInv, DeclaredInv, No, Atual, Va, Avanca
<1>1. CASE NaoAbre(p) \/ DeclaraFalha(p) \/ PingFalha(p)
  BY <1>1, <1>stay DEF NaoAbre, DeclaraFalha, PingFalha
<1>2. CASE AbreBanco(p) \/ AbreCanal(p) \/ Encerra(p)
  BY <1>2, <1>stay DEF AbreBanco, AbreCanal, Encerra
<1>3. CASE PingResponde(p) \/ ConectaBroker(p)
  <2>1. passo[p] = i /\ p = q => Declared(q, i)'
    BY <1>3 DEF PingResponde, ConectaBroker, Declared
  <2>2. QED
    BY <1>3, <1>stay, <2>1 DEF PingResponde, ConectaBroker
<1>4. CASE DeclaraExchange(p)
  <2>1. passo[p] = i /\ p = q => Declared(q, i)'
    BY <1>4 DEF DeclaraExchange, Declared
  <2>2. QED
    BY <1>4, <1>stay, <2>1 DEF DeclaraExchange
<1>5. CASE DeclaraFila(p)
  <2>1. passo[p] = i /\ p = q =>
            /\ Passos[q][i].fila \in noBroker'.filas
            /\ dentro'[q] = "fecha" => Declared(q, i)'
    BY <1>5 DEF DeclaraFila, Declared, Onde
  <2>2. QED
    BY <1>5, <1>stay, <2>1 DEF DeclaraFila
<1>6. CASE Vincula(p)
  <2>1. passo[p] = i /\ p = q /\ dentro'[q] = "fecha" => Declared(q, i)'
    <3> SUFFICES ASSUME passo[p] = i, p = q, dentro'[q] = "fecha" PROVE Declared(q, i)'
      OBVIOUS
    <3>1. Atual(p).exchange \in noBroker.exchanges
      BY <1>6 DEF Vincula
    <3>2. noBroker' = [noBroker EXCEPT !.vinculos = @ \cup {<<Atual(p).fila, Atual(p).exchange>>}]
      BY <1>6, <3>1 DEF Vincula
    <3>3. Passos[q][i].tipo = "fila" /\ Passos[q][i].fila \in noBroker.filas
      BY <1>6 DEF Vincula
    <3>4. /\ noBroker'.vinculos = noBroker.vinculos \cup {<<Passos[q][i].fila, Passos[q][i].exchange>>}
          /\ noBroker'.filas = noBroker.filas
      BY <3>2
    <3>5. QED
      BY <3>3, <3>4 DEF Declared
  <2>2. CASE Atual(p).exchange \in noBroker.exchanges
    BY <1>6, <1>stay, <2>1, <2>2 DEF Vincula
  <2>3. CASE Atual(p).exchange \notin noBroker.exchanges
    BY <1>6, <1>stay, <2>1, <2>3 DEF Vincula
  <2>4. QED
    BY <2>2, <2>3
<1>7. CASE FechaCanal(p)
  BY <1>7, <1>stay DEF FechaCanal
<1>8. CASE Inicia(p) \/ Mata(p)
  BY <1>8, <1>stay DEF Inicia, Mata
<1>9. QED
  BY <1>1, <1>2, <1>3, <1>4, <1>5, <1>6, <1>7, <1>8 DEF Acts, Anda

LEMMA StartInvNext == StartInv /\ [InicializacaoNext]_inicializacaoProprias => StartInv'
<1> SUFFICES ASSUME StartInv, [InicializacaoNext]_inicializacaoProprias PROVE StartInv'
  OBVIOUS
<1>1. CASE \E p \in Processos : Acts(p)
  BY <1>1, StateInvStep, HeldInvStep, DeclaredInvStep DEF StartInv
<1>2. CASE BrokerReinicia \/ UNCHANGED inicializacaoProprias
  <2>1. UNCHANGED <<passo, dentro, abertos, canal, noBroker>>
    BY <1>2 DEF BrokerReinicia, Sobra, inicializacaoProprias
  <2>2. StateInv'
    BY <2>1 DEF StartInv, StateInv
  <2>3. HeldInv'
    BY <2>1 DEF StartInv, HeldInv
  <2>4. ASSUME NEW p \in Processos, NEW i \in DOMAIN Passos[p], Declared(p, i) PROVE Declared(p, i)'
    BY <2>1, <2>4 DEF Declared
  <2>5. DeclaredInv'
    BY <2>1, <2>4 DEF StartInv, DeclaredInv
  <2>6. QED
    BY <2>2, <2>3, <2>5 DEF StartInv
<1>3. QED
  BY <1>1, <1>2 DEF InicializacaoNext, Acts

\* A start-up that fails leaves nothing open that main could not close, and a service that is up
\* finds its queues, their bindings and its exchanges, whatever failed on the way.
THEOREM SafeStart == InicializacaoSpec => []PartidaSegura
<1>1. StartInv => ErroNaoDeixaAberto
  BY DEF StartInv, HeldInv, ErroNaoDeixaAberto
<1>2. StartInv => ProntoTemFila
  <2> SUFFICES ASSUME StartInv, NEW p \in Processos, Pronto(p), NEW i \in DOMAIN Passos[p]
               PROVE  Declared(p, i)
    BY DEF ProntoTemFila, Declared
  <2>1. i < passo[p]
    BY StepsAreNumbered DEF Pronto, StartInv, StateInv
  <2>2. QED
    BY <2>1 DEF StartInv, DeclaredInv
<1>3. StartInv => PartidaSegura
  BY <1>1, <1>2 DEF PartidaSegura
<1>4. QED
  BY StartInvInit, StartInvNext, <1>3, PTL DEF InicializacaoSpec

-----------------------------------------------------------------------------
\* What the types need besides: a process is at most one step past its last, pings at a step that it
\* has, and has a channel from its opening to the deferred Close.
OpenInv ==
    /\ \A p \in Processos :
          /\ passo[p] <= Len(Passos[p]) + 1
          /\ dentro[p] = "ping" => passo[p] <= Len(Passos[p])
          /\ canal[p] <=> dentro[p] \in {"declara", "vincula", "fecha", "fechaComErro"}
          /\ 0 \notin abertos[p]
    /\ quedas \in 0..MaxQuedas

LEMMA OpenInvInit == InicializacaoInit => OpenInv
BY StepsAreNumbered, InicializacaoAssumption DEF InicializacaoInit, OpenInv

LEMMA OpenInvStep ==
    ASSUME StateInv, OpenInv, NEW p \in Processos, Acts(p)
    PROVE  OpenInv'
<1>1. \A q \in Processos : Len(Passos[q]) \in Nat /\ passo[q] \in Nat \ {0}
  BY StepsAreNumbered DEF StateInv
<1> USE <1>1, InicializacaoAssumption DEF StateInv, OpenInv, No, Pronto, Va, Avanca, Cai
<1>2. CASE NaoAbre(p)
  BY <1>2 DEF NaoAbre
<1>3. CASE DeclaraFalha(p)
  <2>1. /\ \/ dentro[p] = "inicio" /\ dentro' = [dentro EXCEPT ![p] = "erro"]
           \/ dentro[p] \in {"declara", "vincula"} /\ dentro' = [dentro EXCEPT ![p] = "fechaComErro"]
        /\ UNCHANGED <<passo, abertos, canal>> /\ quedas < MaxQuedas /\ quedas' = quedas + 1
    BY <1>3 DEF DeclaraFalha
  <2>2. quedas' \in 0..MaxQuedas
    BY <2>1
  <2>3. ASSUME NEW q \in Processos
        PROVE  /\ dentro'[q] = "ping" => dentro[q] = "ping"
               /\ dentro'[q] \in {"declara", "vincula", "fecha", "fechaComErro"}
                     <=> dentro[q] \in {"declara", "vincula", "fecha", "fechaComErro"}
    BY <2>1, <2>3
  <2>4. QED
    BY <2>1, <2>2, <2>3
<1>4. CASE AbreBanco(p)
  BY <1>4 DEF AbreBanco, Abre
<1>5. CASE PingResponde(p)
  BY <1>5 DEF PingResponde
<1>6. CASE PingFalha(p)
  BY <1>6 DEF PingFalha, Fecha
<1>7. CASE ConectaBroker(p)
  BY <1>7 DEF ConectaBroker, Abre
<1>8. CASE AbreCanal(p)
  BY <1>8 DEF AbreCanal
<1>9. CASE FechaCanal(p)
  BY <1>9 DEF FechaCanal
<1>10. CASE DeclaraExchange(p) \/ DeclaraFila(p) \/ Vincula(p)
  <2>1. CASE DeclaraExchange(p)
    BY <2>1 DEF DeclaraExchange
  <2>2. CASE DeclaraFila(p)
    BY <2>2 DEF DeclaraFila
  <2>3. CASE Vincula(p)
    BY <2>3 DEF Vincula
  <2>4. QED
    BY <1>10, <2>1, <2>2, <2>3
<1>11. CASE Encerra(p)
  BY <1>11 DEF Encerra
<1>12. CASE Inicia(p)
  BY <1>12 DEF Inicia
<1>13. CASE Mata(p)
  BY <1>13 DEF Mata
<1>14. QED
  BY <1>2, <1>4, <1>5, <1>6, <1>7, <1>8, <1>10, <1>11, <1>12, <1>13, <1>3, <1>9 DEF Acts, Anda

ProcessInv == StartInv /\ OpenInv

LEMMA ProcessInvInit == InicializacaoInit => ProcessInv
BY StartInvInit, OpenInvInit DEF ProcessInv

LEMMA ProcessInvNext == ProcessInv /\ [InicializacaoNext]_inicializacaoProprias => ProcessInv'
<1> SUFFICES ASSUME ProcessInv, [InicializacaoNext]_inicializacaoProprias PROVE ProcessInv'
  OBVIOUS
<1>1. StartInv /\ StateInv /\ OpenInv
  BY DEF ProcessInv, StartInv
<1>2. StartInv'
  BY <1>1, StartInvNext
<1>3. OpenInv'
  <2>1. CASE \E p \in Processos : Acts(p)
    BY <1>1, <2>1, OpenInvStep
  <2>2. CASE BrokerReinicia
    BY <1>1, <2>2, InicializacaoAssumption DEF BrokerReinicia, Cai, OpenInv
  <2>3. CASE UNCHANGED inicializacaoProprias
    BY <1>1, <2>3 DEF inicializacaoProprias, OpenInv
  <2>4. QED
    BY <2>1, <2>2, <2>3 DEF InicializacaoNext, Acts
<1>4. QED
  BY <1>2, <1>3 DEF ProcessInv

LEMMA ProcessInvTypes == ProcessInv => InicializacaoTypeOK
<1> SUFFICES ASSUME ProcessInv, NEW p \in Processos
             PROVE  /\ passo[p] \in 1..(Len(Passos[p]) + 1) /\ abertos[p] \subseteq DOMAIN Passos[p]
                    /\ canal[p] <=> dentro[p] \in {"declara", "vincula", "fecha", "fechaComErro"}
                    /\ dentro \in [Processos -> Onde] /\ quedas \in 0..MaxQuedas
  BY DEF InicializacaoTypeOK, ProcessInv, StartInv, StateInv, OpenInv
<1>1. /\ Len(Passos[p]) \in Nat /\ DOMAIN Passos[p] = 1..Len(Passos[p])
      /\ passo[p] \in Nat \ {0} /\ abertos[p] \subseteq Nat
  BY StepsAreNumbered DEF ProcessInv, StartInv, StateInv
<1>2. passo[p] <= Len(Passos[p]) + 1 /\ 0 \notin abertos[p] /\ (dentro[p] = "ping" => passo[p] <= Len(Passos[p]))
  BY DEF ProcessInv, OpenInv
<1>3. \A i \in abertos[p] : i < passo[p] \/ (i = passo[p] /\ dentro[p] = "ping")
  BY DEF ProcessInv, StartInv, HeldInv
<1>4. abertos[p] \subseteq DOMAIN Passos[p]
  BY <1>1, <1>2, <1>3
<1>5. QED
  BY <1>1, <1>2, <1>4 DEF ProcessInv, StartInv, StateInv, OpenInv

\* Types of the start-up: a channel is open exactly while something is being declared.
THEOREM StartTypes == InicializacaoSpec => []InicializacaoTypeOK
BY ProcessInvInit, ProcessInvNext, ProcessInvTypes, PTL DEF InicializacaoSpec

\* The places of a step of each type, and the order in which a process goes through them.
Lugares(tipo) ==
    {"inicio", "erro", "parado"} \cup
    CASE tipo = "banco" -> {"ping"}
      [] tipo = "exchange" -> {"declara", "fecha", "fechaComErro"}
      [] tipo = "fila" -> {"declara", "vincula", "fecha", "fechaComErro"}
      [] OTHER -> {}
Ordem == [inicio |-> 0, ping |-> 1, declara |-> 1, vincula |-> 2, fecha |-> 3, fechaComErro |-> 3,
          erro |-> 4, parado |-> 5]

\* A process is always at a place that its step has, so there is a way on from it; one that is up
\* has nothing left to do.
TemCaminho ==
    \A p \in Processos :
        /\ ~Pronto(p) => dentro[p] \in Lugares(Atual(p).tipo)
        /\ Pronto(p) => dentro[p] = "inicio" \/ (dentro[p] = "parado" /\ Len(Passos[p]) = 0)

Fracassa == {"fechaComErro", "erro", "parado"}

Adianta(p) ==
    \/ passo'[p] = passo[p] + 1
    \/ passo'[p] = passo[p] /\ Ordem[dentro[p]] < Ordem[dentro'[p]]

\* Nothing that has been declared is lost. While nothing fails each step takes a process on, it turns
\* to an error only for a queue whose exchange nobody has declared yet, and once up it stays up.
PartidaAvanca ==
    /\ \A campo \in {"exchanges", "filas", "vinculos"} : noBroker[campo] \subseteq noBroker'[campo]
    /\ quedas' = quedas => \A p \in Processos :
          /\ Anda(p) => Adianta(p)
          /\ (passo'[p] = passo[p] /\ dentro'[p] = dentro[p]) \/ Adianta(p) \/ dentro[p] = "parado"
          /\ dentro[p] \notin Fracassa /\ dentro'[p] \in Fracassa =>
                Atual(p).tipo = "fila" /\ Atual(p).exchange \notin noBroker.exchanges
          /\ Pronto(p) => Pronto(p)'

\* What a step of a process does to where it is: on to the next step of its start, to another place
\* of the one it is at, to the beginning, or, killed, to the ground.
LEMMA WaysToGo ==
    ASSUME StateInv, OpenInv, TemCaminho, NEW p \in Processos, Acts(p)
    PROVE  \/ /\ ~Pronto(p) /\ dentro[p] \notin Fracassa
              /\ passo' = [passo EXCEPT ![p] = @ + 1] /\ dentro' = [dentro EXCEPT ![p] = "inicio"]
           \/ /\ ~Pronto(p) /\ passo' = passo
              /\ \E e \in Lugares(Atual(p).tipo) :
                    /\ dentro' = [dentro EXCEPT ![p] = e] /\ Ordem[dentro[p]] < Ordem[e]
                    /\ e \in Fracassa /\ dentro[p] \notin Fracassa =>
                          \/ quedas' # quedas
                          \/ Atual(p).tipo = "fila" /\ Atual(p).exchange \notin noBroker.exchanges
           \/ /\ dentro[p] = "parado" /\ ~Anda(p)
              /\ passo' = [passo EXCEPT ![p] = 1] /\ dentro' = [dentro EXCEPT ![p] = "inicio"]
           \/ /\ quedas' # quedas /\ dentro[p] # "parado" /\ ~Anda(p)
              /\ passo' = [passo EXCEPT ![p] = 1] /\ dentro' = [dentro EXCEPT ![p] = "parado"]
<1> DEFINE Vai(e) ==
              /\ passo' = passo /\ dentro' = [dentro EXCEPT ![p] = e]
              /\ e \in Lugares(Atual(p).tipo) /\ Ordem[dentro[p]] < Ordem[e]
              /\ e \in Fracassa /\ dentro[p] \notin Fracassa =>
                    \/ quedas' # quedas
                    \/ Atual(p).tipo = "fila" /\ Atual(p).exchange \notin noBroker.exchanges
<1>1. quedas \in Int
  BY InicializacaoAssumption DEF OpenInv
<1>2. CASE PingResponde(p) \/ ConectaBroker(p)
  BY <1>2 DEF PingResponde, ConectaBroker, No, Avanca, Fracassa
<1>3. CASE FechaCanal(p) /\ dentro[p] = "fecha"
  BY <1>3 DEF FechaCanal, No, Avanca, Fracassa
<1>4. CASE NaoAbre(p) \/ PingFalha(p)
  <2>1. ~Pronto(p) /\ Vai("erro")
    BY <1>1, <1>4 DEF NaoAbre, PingFalha, No, Va, Cai, Lugares, Ordem
  <2>2. QED
    BY <2>1 DEF Lugares
<1>5. CASE DeclaraFalha(p)
  <2>1. ~Pronto(p) /\ Atual(p).tipo \in Declara /\ passo' = passo /\ quedas' # quedas
    BY <1>1, <1>5 DEF DeclaraFalha, No, Va, Cai, Atual
  <2>2. \/ dentro[p] = "inicio" /\ dentro' = [dentro EXCEPT ![p] = "erro"]
        \/ dentro[p] \in {"declara", "vincula"} /\ dentro' = [dentro EXCEPT ![p] = "fechaComErro"]
    BY <1>5 DEF DeclaraFalha, No, Va
  <2>3. Vai("erro") \/ Vai("fechaComErro")
    BY <2>1, <2>2 DEF Lugares, Ordem, Declara
  <2>4. QED
    BY <2>1, <2>3
<1>6. CASE AbreBanco(p)
  <2>1. ~Pronto(p) /\ Vai("ping")
    BY <1>6 DEF AbreBanco, No, Va, Lugares, Ordem, Fracassa, Atual
  <2>2. QED
    BY <2>1
<1>7. CASE AbreCanal(p)
  <2>1. ~Pronto(p) /\ Vai("declara")
    BY <1>7 DEF AbreCanal, No, Va, Lugares, Ordem, Declara, Fracassa, Atual
  <2>2. QED
    BY <2>1
<1>8. CASE DeclaraExchange(p) \/ DeclaraFila(p)
  <2>1. /\ ~Pronto(p) /\ Atual(p).tipo \in Declara /\ passo' = passo /\ dentro[p] = "declara"
        /\ \/ dentro' = [dentro EXCEPT ![p] = "fecha"]
           \/ Atual(p).tipo = "fila" /\ dentro' = [dentro EXCEPT ![p] = "vincula"]
    BY <1>8 DEF DeclaraExchange, DeclaraFila, No, Va, Declara, Atual
  <2>2. Vai("fecha") \/ Vai("vincula")
    BY <2>1 DEF Lugares, Ordem, Declara, Fracassa
  <2>3. QED
    BY <2>1, <2>2
<1>9. CASE Vincula(p)
  <2>1. /\ ~Pronto(p) /\ Atual(p).tipo = "fila" /\ passo' = passo /\ dentro[p] = "vincula"
        /\ \/ dentro' = [dentro EXCEPT ![p] = "fecha"]
           \/ dentro' = [dentro EXCEPT ![p] = "fechaComErro"] /\ Atual(p).exchange \notin noBroker.exchanges
    BY <1>9 DEF Vincula, No, Va, Atual
  <2>2. Vai("fecha") \/ Vai("fechaComErro")
    BY <2>1 DEF Lugares, Ordem, Fracassa
  <2>3. QED
    BY <2>1, <2>2
<1>10. CASE FechaCanal(p) /\ dentro[p] # "fecha"
  <2>1. ~Pronto(p) /\ Vai("erro")
    BY <1>10 DEF FechaCanal, No, Va, Lugares, Ordem, Fracassa
  <2>2. QED
    BY <2>1
<1>11. CASE Encerra(p)
  <2>1. ~Pronto(p) /\ Vai("parado")
    BY <1>11 DEF Encerra, Va, Lugares, Ordem, Fracassa, TemCaminho
  <2>2. QED
    BY <2>1
<1>12. dentro[p] = "parado" => ~Anda(p)
  BY DEF Anda, AbreBanco, PingResponde, ConectaBroker, AbreCanal, DeclaraExchange, DeclaraFila, Vincula,
         FechaCanal, Encerra, No
<1>13. Anda(p) => quedas' = quedas
  BY DEF Anda, AbreBanco, PingResponde, ConectaBroker, AbreCanal, DeclaraExchange, DeclaraFila, Vincula,
         FechaCanal, Encerra
<1>14. CASE Inicia(p)
  BY <1>12, <1>14 DEF Inicia
<1>15. CASE Mata(p)
  BY <1>1, <1>13, <1>15 DEF Mata, Cai
<1>16. QED
  BY <1>2, <1>3, <1>4, <1>5, <1>6, <1>7, <1>8, <1>9, <1>10, <1>11, <1>14, <1>15 DEF Acts, Anda

\* Each of these keeps the process on its way.
LEMMA WayKept ==
    ASSUME StateInv, OpenInv, TemCaminho, NEW p \in Processos, Acts(p)
    PROVE  /\ \A q \in Processos : q # p => passo'[q] = passo[q] /\ dentro'[q] = dentro[q]
           /\ ~Pronto(p)' => dentro'[p] \in Lugares(Passos[p][passo'[p]].tipo)
           /\ Pronto(p)' => dentro'[p] = "inicio" \/ (dentro'[p] = "parado" /\ Len(Passos[p]) = 0)
           /\ Anda(p) => Adianta(p)
           /\ quedas' = quedas =>
                 /\ Adianta(p) \/ dentro[p] = "parado"
                 /\ dentro[p] \notin Fracassa /\ dentro'[p] \in Fracassa =>
                       Atual(p).tipo = "fila" /\ Atual(p).exchange \notin noBroker.exchanges
                 /\ Pronto(p) => Pronto(p)'
<1>1. Len(Passos[p]) \in Nat /\ passo[p] \in Nat \ {0} /\ passo \in [Processos -> Nat \ {0}] /\ dentro \in [Processos -> Onde]
  BY StepsAreNumbered DEF StateInv
<1>2. CASE /\ ~Pronto(p) /\ dentro[p] \notin Fracassa
           /\ passo' = [passo EXCEPT ![p] = @ + 1] /\ dentro' = [dentro EXCEPT ![p] = "inicio"]
  BY <1>1, <1>2 DEF Adianta, Lugares, Fracassa
<1>3. CASE /\ ~Pronto(p) /\ passo' = passo
           /\ \E e \in Lugares(Atual(p).tipo) :
                    /\ dentro' = [dentro EXCEPT ![p] = e] /\ Ordem[dentro[p]] < Ordem[e]
                    /\ e \in Fracassa /\ dentro[p] \notin Fracassa =>
                          \/ quedas' # quedas
                          \/ Atual(p).tipo = "fila" /\ Atual(p).exchange \notin noBroker.exchanges
  <2>1. PICK e \in Lugares(Atual(p).tipo) :
                    /\ dentro' = [dentro EXCEPT ![p] = e] /\ Ordem[dentro[p]] < Ordem[e]
                    /\ e \in Fracassa /\ dentro[p] \notin Fracassa =>
                          \/ quedas' # quedas
                          \/ Atual(p).tipo = "fila" /\ Atual(p).exchange \notin noBroker.exchanges
    BY <1>3
  <2>2. dentro'[p] = e /\ \A q \in Processos : q # p => dentro'[q] = dentro[q]
    BY <1>1, <2>1
  <2>3. passo'[p] = passo[p] /\ ~Pronto(p)'
    BY <1>3 DEF Pronto
  <2>4. QED
    BY <1>3, <2>1, <2>2, <2>3 DEF Adianta, Atual
<1>4. CASE /\ dentro[p] = "parado" /\ ~Anda(p)
           /\ passo' = [passo EXCEPT ![p] = 1] /\ dentro' = [dentro EXCEPT ![p] = "inicio"]
  <2>1. Pronto(p) => Pronto(p)'
    BY <1>1, <1>4 DEF TemCaminho, Pronto
  <2>2. QED
    BY <1>1, <1>4, <2>1 DEF Lugares, Fracassa
<1>5. CASE /\ quedas' # quedas /\ dentro[p] # "parado" /\ ~Anda(p)
           /\ passo' = [passo EXCEPT ![p] = 1] /\ dentro' = [dentro EXCEPT ![p] = "parado"]
  <2>1. Pronto(p)' => Len(Passos[p]) = 0
    BY <1>1, <1>5 DEF Pronto
  <2>2. QED
    BY <1>1, <1>5, <2>1 DEF Lugares
<1>6. QED
  BY <1>2, <1>3, <1>4, <1>5, WaysToGo

LEMMA BrokerKeeps ==
    ASSUME StateInv, [InicializacaoNext]_inicializacaoProprias
    PROVE  \A campo \in {"exchanges", "filas", "vinculos"} : noBroker[campo] \subseteq noBroker'[campo]
<1>1. CASE UNCHANGED noBroker
  BY <1>1
<1>2. ASSUME NEW p \in Processos, DeclaraExchange(p) \/ DeclaraFila(p) \/ Vincula(p), noBroker' # noBroker
      PROVE  \E x : \/ noBroker' = [noBroker EXCEPT !.exchanges = @ \cup {x}]
                    \/ noBroker' = [noBroker EXCEPT !.filas = @ \cup {x}]
                    \/ noBroker' = [noBroker EXCEPT !.vinculos = @ \cup {x}]
  BY <1>2 DEF DeclaraExchange, DeclaraFila, Vincula
<1>3. ASSUME NEW p \in Processos, DeclaraExchange(p) \/ DeclaraFila(p) \/ Vincula(p), noBroker' # noBroker
      PROVE  /\ noBroker.filas \subseteq noBroker'.filas
             /\ noBroker.exchanges \subseteq noBroker'.exchanges
             /\ noBroker.vinculos \subseteq noBroker'.vinculos
  BY <1>2, <1>3 DEF StateInv
<1>4. QED
  BY <1>1, <1>3
  DEF InicializacaoNext, Anda, NaoAbre, AbreBanco, PingResponde, PingFalha, ConectaBroker, AbreCanal,
      DeclaraFalha, FechaCanal, Encerra, Inicia, Mata, BrokerReinicia, Sobra, inicializacaoProprias

LEMMA PartidaAvancaNext ==
    ProcessInv /\ TemCaminho /\ [InicializacaoNext]_inicializacaoProprias
        => TemCaminho' /\ [PartidaAvanca]_inicializacaoProprias
<1> SUFFICES ASSUME ProcessInv, TemCaminho, [InicializacaoNext]_inicializacaoProprias
             PROVE  TemCaminho' /\ (PartidaAvanca \/ UNCHANGED inicializacaoProprias)
  OBVIOUS
<1>1. StateInv /\ OpenInv
  BY DEF ProcessInv, StartInv
<1>2. \A campo \in {"exchanges", "filas", "vinculos"} : noBroker[campo] \subseteq noBroker'[campo]
  BY <1>1, BrokerKeeps
<1>3. ASSUME NEW p \in Processos, Acts(p) PROVE TemCaminho' /\ PartidaAvanca
  <2>1. /\ \A q \in Processos : q # p => passo'[q] = passo[q] /\ dentro'[q] = dentro[q]
        /\ ~Pronto(p)' => dentro'[p] \in Lugares(Passos[p][passo'[p]].tipo)
        /\ Pronto(p)' => dentro'[p] = "inicio" \/ (dentro'[p] = "parado" /\ Len(Passos[p]) = 0)
        /\ quedas' = quedas =>
              /\ Adianta(p) \/ dentro[p] = "parado"
              /\ dentro[p] \notin Fracassa /\ dentro'[p] \in Fracassa =>
                    Atual(p).tipo = "fila" /\ Atual(p).exchange \notin noBroker.exchanges
              /\ Pronto(p) => Pronto(p)'
    BY <1>1, <1>3, WayKept
  <2>2. \A q \in Processos : Anda(q) => Adianta(q)
    BY <1>1, WayKept DEF Acts
  <2>3. \A q \in Processos : q # p => (Pronto(q)' <=> Pronto(q))
    BY <2>1 DEF Pronto
  <2>4. TemCaminho'
    BY <2>1, <2>3 DEF TemCaminho, Atual
  <2>5. PartidaAvanca
    BY <1>2, <2>1, <2>2, <2>3 DEF PartidaAvanca
  <2>6. QED
    BY <2>4, <2>5
<1>4. CASE BrokerReinicia
  <2>1. UNCHANGED <<passo, dentro>> /\ quedas' # quedas
    BY <1>1, <1>4, InicializacaoAssumption DEF BrokerReinicia, Cai, OpenInv
  <2>2. TemCaminho'
    BY <2>1 DEF TemCaminho, Pronto, Atual
  <2>3. QED
    BY <1>2, <2>1, <2>2 DEF PartidaAvanca
<1>5. CASE UNCHANGED inicializacaoProprias
  BY <1>5 DEF TemCaminho, Pronto, Atual, inicializacaoProprias
<1>6. QED
  BY <1>3, <1>4, <1>5 DEF InicializacaoNext, Acts

\* A start-up goes on: what TodosSobem needs beside fairness. Services that wait for each other's
\* exchanges stop only as long as those are not there, and what one has declared remains for the
\* other, also when it dies.
THEOREM StartGoesOn == InicializacaoSpec => []TemCaminho /\ [][PartidaAvanca]_inicializacaoProprias
<1>1. InicializacaoInit => TemCaminho
  <2> SUFFICES ASSUME InicializacaoInit, NEW p \in Processos
               PROVE  /\ ~Pronto(p) => dentro[p] \in Lugares(Atual(p).tipo)
                      /\ Pronto(p) => Len(Passos[p]) = 0 /\ dentro[p] = "parado"
    BY DEF TemCaminho
  <2>1. passo[p] = 1 /\ dentro[p] = "parado" /\ Len(Passos[p]) \in Nat
    BY StepsAreNumbered DEF InicializacaoInit
  <2>2. QED
    BY <2>1 DEF Pronto, Lugares
<1>2. QED
  BY <1>1, PartidaAvancaNext, ProcessInvInit, ProcessInvNext, PTL DEF InicializacaoSpec

(* ---------------------------- The collector --------------------------- *)

\* The goroutine and Iniciar: providers are being installed by one of them or by none, and the
\* variable desligar is theirs once the goroutine that installed them has ended.
EtapaInv ==
    /\ iniciar # "esperando" => sonda = "nenhuma"
    /\ iniciar = "esperando" => sonda # "nenhuma"
    /\ iniciar \in {"inicio", "desabilitada"} \/ sonda \in {"espera", "sondando"} => instala = "nao"
    /\ Instalando => instala # "nao"
    /\ iniciar = "erro" => instala \in {"nao", "falhou"}
    /\ sonda = "terminou" => instala \in {"nao", "falhou", "feito"}
    /\ iniciar = "instalado" => instala = "feito"
    /\ desligar = "providers" <=> sonda = "terminou" /\ instala = "feito"

\* The exporters that are there at each point of the installation.
ExporterInv ==
    /\ instala \in {"nao", "traces"} => \A s \in Sinais : exporter[s] = "nenhum"
    /\ instala = "metricas" => exporter["traces"] = "aberto" /\ exporter["metricas"] = "nenhum"
    /\ instala = "globais" => \A s \in Sinais : exporter[s] = "aberto"
    /\ instala = "falhou" => exporter["traces"] \in {"nenhum", "fechado"} /\ exporter["metricas"] = "nenhum"
    /\ instala = "feito" => \A s \in Sinais : exporter[s] # "nenhum"
    /\ instala = "feito" <=> globais

\* A caller that shuts the providers down, and one that has the traces behind it.
NosProviders == {"traces", "fechaTraces", "metricas", "fechaMetricas"}
DepoisDosTraces == {"metricas", "fechaMetricas"}

\* A caller reaches the providers only when they are installed, under mu if the goroutine did it;
\* what it has behind it is shut or being shut, under mu shut.
ChamadaInv ==
    \A c \in Chamadores :
        /\ pc[c] = "esperando" => iniciar = "esperando"
        /\ pc[c] \in NosProviders => instala = "feito" /\ (iniciar = "instalado" \/ (sonda = "terminou" /\ trava = c))
        /\ pc[c] = "voltou" => iniciar \in {"desabilitada", "instalado"} \/ sonda = "terminou"
        /\ pc[c] \in DepoisDosTraces => exporter["traces"] \in {"fechando", "fechado"}
        /\ pc[c] \in DepoisDosTraces /\ iniciar = "esperando" => exporter["traces"] = "fechado"
        /\ pc[c] = "voltou" /\ instala = "feito" =>
              \A s \in Sinais : exporter[s] \in {"fechando", "fechado"}
        /\ pc[c] = "voltou" /\ iniciar = "esperando" => \A s \in Sinais : exporter[s] # "fechando"

\* Each exporter is being shut down by one caller exactly.
FechaInv ==
    \A s \in Sinais :
        /\ exporter[s] = "fechando" => \E c \in Chamadores : pc[c] = Fechando[s]
        /\ \A c \in Chamadores : pc[c] = Fechando[s] => exporter[s] = "fechando"
        /\ \A c, d \in Chamadores : pc[c] = Fechando[s] /\ pc[d] = Fechando[s] => c = d

ColetorState ==
    /\ iniciar \in {"inicio", "instalando", "esperando", "instalado", "desabilitada", "erro"}
    /\ sonda \in {"nenhuma", "espera", "sondando", "instalando", "terminou"}
    /\ instala \in {"nao", "traces", "metricas", "globais", "feito", "falhou"}
    /\ exporter \in [Sinais -> {"nenhum", "aberto", "fechando", "fechado"}]
    /\ globais \in BOOLEAN
    /\ desligar \in {"nada", "providers"}
    /\ trava \in Chamadores \cup {Nunca}
    /\ pc \in [Chamadores -> {"fora", "esperando", "traces", "fechaTraces", "metricas", "fechaMetricas", "voltou"}]

\* The last warning is the latest of them and in the past, and speaks for all errors before it.
AvisoInv ==
    /\ agora \in Nat /\ ultimo \in Nat \cup {Nunca} /\ suprimidos \in Nat /\ erros \in Nat /\ contados \in Nat
    /\ avisos \subseteq Nat
    /\ ultimo = Nunca => avisos = {}
    /\ ultimo # Nunca => ultimo <= agora /\ \A a \in avisos : a <= ultimo
    /\ AvisosContados

ColetorInv == ColetorState /\ EtapaInv /\ ExporterInv /\ ChamadaInv /\ FechaInv /\ AvisoInv

-----------------------------------------------------------------------------
LEMMA ColetorInvInit == AmbienteInit /\ ColetorInit => ColetorInv
<1> SUFFICES ASSUME AmbienteInit, ColetorInit PROVE ColetorInv
  OBVIOUS
<1> USE DEF ColetorInit, Sinais
<1>1. ColetorState /\ EtapaInv /\ ExporterInv
  BY DEF ColetorState, EtapaInv, ExporterInv, Instalando
<1>2. ChamadaInv /\ FechaInv
  BY DEF ChamadaInv, FechaInv, NosProviders, DepoisDosTraces, Fechando
<1>3. AvisoInv
  BY DEF AvisoInv, AvisosContados, AmbienteInit
<1>4. QED
  BY <1>1, <1>2, <1>3 DEF ColetorInv

\* The steps of Iniciar, of its goroutine and of the Collector: no caller moves.
Sondas ==
    \/ NaoInicia \/ Sonda \/ Instalador \/ SondaPara \/ Sondagem \/ Tique \/ ColetorMuda

LEMMA InstallKeepsStages ==
    ASSUME ColetorState, EtapaInv, ExporterInv, Sondas
    PROVE  ColetorState' /\ EtapaInv' /\ ExporterInv'
<1> USE DEF ColetorState, EtapaInv, ExporterInv, Instalando, Sinais
<1>1. CASE NaoInicia \/ Sonda
  BY <1>1 DEF NaoInicia, Sonda
<1>2. CASE CriaTraces
  BY <1>2 DEF CriaTraces
<1>3. CASE CriaMetricas
  <2>1. UNCHANGED <<iniciar, sonda, globais, desligar, trava, pc>> /\ instala = "metricas"
    BY <1>3 DEF CriaMetricas
  <2>2. \/ instala' = "globais" /\ exporter' = [exporter EXCEPT !["metricas"] = "aberto"]
        \/ instala' = "falhou" /\ exporter' = [exporter EXCEPT !["traces"] = "fechado"]
    BY <1>3 DEF CriaMetricas, Cria, FalhaMetricas
  <2>3. ColetorState'
    BY <2>1, <2>2
  <2>4. EtapaInv'
    BY <1>3, <2>1, <2>2 DEF CriaMetricas
  <2>5. ExporterInv'
    BY <2>1, <2>2
  <2>6. QED
    BY <2>3, <2>4, <2>5
<1>4. CASE Instala
  BY <1>4 DEF Instala
<1>5. CASE IniciarVolta
  BY <1>5 DEF IniciarVolta
<1>6. CASE SondaPara \/ SondaTique \/ SondaResponde
  BY <1>6 DEF SondaPara, SondaTique, SondaResponde
<1>7. CASE SondaGuarda \/ SondaDesiste
  BY <1>7 DEF SondaGuarda, SondaDesiste
<1>8. CASE Tique \/ ColetorMuda
  BY <1>8 DEF Tique, ColetorMuda
<1>9. QED
  BY <1>1, <1>2, <1>3, <1>4, <1>6, <1>7, <1>8, <1>5 DEF Sondas, Instalador, Sondagem

\* Nobody waits for an answer that changes: a caller that is past the beginning finds Iniciar and
\* the goroutine done with the exporters.
LEMMA InstallKeepsCalls ==
    ASSUME ColetorState, EtapaInv, ExporterInv, ChamadaInv, FechaInv, Sondas
    PROVE  ChamadaInv' /\ FechaInv'
<1>1. /\ UNCHANGED <<pc, trava>>
      /\ iniciar = "esperando" => iniciar' = "esperando"
      /\ iniciar \in {"desabilitada", "instalado"} \/ sonda = "terminou" => UNCHANGED <<iniciar, sonda, instala>>
      /\ exporter' # exporter => instala \in {"traces", "metricas"} /\ Instalando
      /\ instala' = "feito" /\ instala # "feito" => instala = "globais" /\ Instalando
      /\ instala = "feito" => instala' = "feito"
  <2> USE DEF ColetorState, EtapaInv, Instalando
  <2>1. CASE NaoInicia \/ Sonda
    BY <2>1 DEF NaoInicia, Sonda
  <2>2. CASE CriaTraces \/ CriaMetricas \/ Instala \/ IniciarVolta
    BY <2>2 DEF CriaTraces, CriaMetricas, Instala, IniciarVolta
  <2>3. CASE SondaPara \/ SondaTique \/ SondaResponde
    BY <2>3 DEF SondaPara, SondaTique, SondaResponde
  <2>4. CASE SondaGuarda \/ SondaDesiste \/ Tique \/ ColetorMuda
    BY <2>4 DEF SondaGuarda, SondaDesiste, Tique, ColetorMuda
  <2>5. QED
    BY <2>1, <2>2, <2>3, <2>4 DEF Sondas, Instalador, Sondagem
<1>2. \A c \in Chamadores : pc[c] \in NosProviders \cup {"voltou"} => UNCHANGED <<iniciar, sonda, instala, exporter>>
  BY <1>1 DEF ChamadaInv, ColetorState, EtapaInv, Instalando, NosProviders
<1>3. ChamadaInv'
  BY <1>1, <1>2 DEF ChamadaInv, NosProviders, DepoisDosTraces
<1>4. \A s \in Sinais : exporter'[s] = "fechando" <=> exporter[s] = "fechando"
  <2>1. CASE NaoInicia \/ Sonda
    BY <2>1 DEF NaoInicia, Sonda
  <2>2. CASE CriaTraces \/ CriaMetricas
    BY <2>2 DEF CriaTraces, CriaMetricas, Cria, FalhaMetricas, Sinais, ExporterInv, ColetorState
  <2>3. CASE Instala \/ IniciarVolta
    BY <2>3 DEF Instala, IniciarVolta
  <2>4. CASE SondaPara \/ SondaTique \/ SondaResponde
    BY <2>4 DEF SondaPara, SondaTique, SondaResponde
  <2>5. CASE SondaGuarda \/ SondaDesiste \/ Tique \/ ColetorMuda
    BY <2>5 DEF SondaGuarda, SondaDesiste, Tique, ColetorMuda
  <2>6. QED
    BY <2>1, <2>2, <2>3, <2>4, <2>5 DEF Sondas, Instalador, Sondagem
<1>5. FechaInv'
  BY <1>1, <1>4 DEF FechaInv
<1>6. QED
  BY <1>3, <1>5

\* The steps of a caller: it goes on, shuts an exporter down, and lets go of mu.
LEMMA CallsKeepStages ==
    ASSUME ColetorState, EtapaInv, ExporterInv, ChamadaInv, FechaInv, NEW c \in Chamadores,
           Desligar(c) \/ Chamada(c)
    PROVE  ColetorState' /\ EtapaInv' /\ ExporterInv'
<1> USE DEF ColetorState, Sinais
<1>1. CASE Desligar(c) \/ Terminou(c)
  BY <1>1 DEF Desligar, Terminou, Em, EtapaInv, ExporterInv, Instalando
<1>2. ASSUME NEW s \in Sinais, ComecaFechar(c, s) \/ TerminaFechar(c, s)
      PROVE  ColetorState' /\ EtapaInv' /\ ExporterInv'
  <2>1. UNCHANGED <<iniciar, sonda, instala, globais, desligar>>
    BY <1>2 DEF ComecaFechar, TerminaFechar
  <2>2. instala = "feito"
    BY <1>2 DEF ComecaFechar, TerminaFechar, Em, ChamadaInv, NosProviders, Fechando
  <2>3. ColetorState'
    BY <1>2 DEF ComecaFechar, TerminaFechar, Em, Libera, Fechando, Depois
  <2>4. \A x \in Sinais : exporter'[x] # "nenhum"
    BY <1>2, <2>2 DEF ComecaFechar, TerminaFechar, ExporterInv
  <2>5. EtapaInv' /\ ExporterInv'
    BY <2>1, <2>2, <2>4 DEF EtapaInv, ExporterInv, Instalando
  <2>6. QED
    BY <2>3, <2>5
<1>3. QED
  BY <1>1, <1>2 DEF Chamada

LEMMA StartKeepsCalls ==
    ASSUME ColetorState, EtapaInv, ExporterInv, ChamadaInv, FechaInv, NEW c \in Chamadores,
           Desligar(c) \/ Terminou(c)
    PROVE  ChamadaInv' /\ FechaInv'
<1>1. UNCHANGED <<iniciar, sonda, instala, exporter>>
  BY DEF Desligar, Terminou
<1>2. \/ /\ pc[c] = "fora" /\ UNCHANGED trava
         /\ \/ iniciar = "esperando" /\ pc' = [pc EXCEPT ![c] = "esperando"]
            \/ iniciar = "instalado" /\ pc' = [pc EXCEPT ![c] = "traces"]
            \/ iniciar = "desabilitada" /\ pc' = [pc EXCEPT ![c] = "voltou"]
      \/ /\ pc[c] = "esperando" /\ sonda = "terminou" /\ trava = Nunca
         /\ \/ desligar = "providers" /\ pc' = [pc EXCEPT ![c] = "traces"] /\ trava' = c
            \/ desligar = "nada" /\ pc' = [pc EXCEPT ![c] = "voltou"] /\ trava' = Nunca
  BY DEF Desligar, Terminou, Em, ColetorState
<1>3. \A d \in Chamadores : d # c => pc'[d] = pc[d]
  BY <1>2 DEF ColetorState
<1>4. ChamadaInv'
  <2> SUFFICES ASSUME NEW d \in Chamadores
               PROVE  (/\ pc[d] = "esperando" => iniciar = "esperando"
                       /\ pc[d] \in NosProviders => instala = "feito" /\ (iniciar = "instalado" \/ (sonda = "terminou" /\ trava = d))
                       /\ pc[d] = "voltou" => iniciar \in {"desabilitada", "instalado"} \/ sonda = "terminou"
                       /\ pc[d] \in DepoisDosTraces => exporter["traces"] \in {"fechando", "fechado"}
                       /\ pc[d] \in DepoisDosTraces /\ iniciar = "esperando" => exporter["traces"] = "fechado"
                       /\ pc[d] = "voltou" /\ instala = "feito" => \A s \in Sinais : exporter[s] \in {"fechando", "fechado"}
                       /\ pc[d] = "voltou" /\ iniciar = "esperando" => \A s \in Sinais : exporter[s] # "fechando")'
    BY DEF ChamadaInv
  <2>1. CASE d = c
    BY <1>1, <1>2, <2>1 DEF ColetorState, EtapaInv, ExporterInv, NosProviders, DepoisDosTraces, Sinais
  <2>2. CASE d # c
    <3>1. pc[d] \in NosProviders => iniciar = "instalado" \/ trava = d
      BY DEF ChamadaInv
    <3>2. pc[d] \in NosProviders /\ iniciar # "instalado" => trava' = d
      BY <1>2, <2>2, <3>1, ColetorAssumption
    <3>3. QED
      BY <1>1, <1>3, <2>2, <3>2 DEF ChamadaInv
  <2>3. QED
    BY <2>1, <2>2
<1>5. FechaInv'
  <2>1. \A d \in Chamadores, s \in Sinais : pc'[d] = Fechando[s] <=> pc[d] = Fechando[s]
    BY <1>2, <1>3 DEF ColetorState, Sinais, Fechando
  <2>2. QED
    BY <1>1, <2>1 DEF FechaInv
<1>6. QED
  BY <1>4, <1>5

\* An exporter that somebody else shuts down is no obstacle, because under mu nobody else does.
LEMMA ShutdownKeepsCalls ==
    ASSUME ColetorState, EtapaInv, ExporterInv, ChamadaInv, FechaInv, NEW c \in Chamadores,
           NEW s \in Sinais, ComecaFechar(c, s) \/ TerminaFechar(c, s)
    PROVE  ChamadaInv' /\ FechaInv'
<1>1. UNCHANGED <<iniciar, sonda, instala>>
  BY DEF ComecaFechar, TerminaFechar
<1>2. \/ /\ pc[c] = s /\ exporter[s] = "aberto" /\ pc' = [pc EXCEPT ![c] = Fechando[s]]
         /\ exporter' = [exporter EXCEPT ![s] = "fechando"] /\ UNCHANGED trava
      \/ /\ pc[c] = s /\ exporter[s] # "aberto" /\ pc' = [pc EXCEPT ![c] = Depois[s]]
         /\ UNCHANGED exporter /\ Libera(c, s)
      \/ /\ pc[c] = Fechando[s] /\ pc' = [pc EXCEPT ![c] = Depois[s]]
         /\ exporter' = [exporter EXCEPT ![s] = "fechado"] /\ Libera(c, s)
  BY DEF ComecaFechar, TerminaFechar, Em
<1>3. /\ \A d \in Chamadores : d # c => pc'[d] = pc[d]
      /\ \A x \in Sinais : x # s => exporter'[x] = exporter[x]
  BY <1>2 DEF ColetorState
<1>4. /\ pc[c] \in NosProviders /\ instala = "feito"
      /\ iniciar = "instalado" \/ (iniciar = "esperando" /\ sonda = "terminou" /\ trava = c)
  BY <1>2 DEF NosProviders, Fechando, Sinais, ChamadaInv, EtapaInv
<1>5. iniciar = "esperando" => \A d \in Chamadores : d # c => pc[d] \notin NosProviders
  BY <1>4 DEF ChamadaInv
<1>6. \A x \in Sinais : exporter[x] \in {"aberto", "fechando", "fechado"}
  BY <1>4 DEF ExporterInv, ColetorState
<1>7. \A x \in Sinais : exporter[x] = "fechando" /\ pc[c] # Fechando[x] => iniciar = "instalado"
  BY <1>4, <1>5 DEF FechaInv, NosProviders, Fechando, Sinais
<1>8. ChamadaInv'
  <2> SUFFICES ASSUME NEW d \in Chamadores
               PROVE  (/\ pc[d] = "esperando" => iniciar = "esperando"
                       /\ pc[d] \in NosProviders => instala = "feito" /\ (iniciar = "instalado" \/ (sonda = "terminou" /\ trava = d))
                       /\ pc[d] = "voltou" => iniciar \in {"desabilitada", "instalado"} \/ sonda = "terminou"
                       /\ pc[d] \in DepoisDosTraces => exporter["traces"] \in {"fechando", "fechado"}
                       /\ pc[d] \in DepoisDosTraces /\ iniciar = "esperando" => exporter["traces"] = "fechado"
                       /\ pc[d] = "voltou" /\ instala = "feito" => \A x \in Sinais : exporter[x] \in {"fechando", "fechado"}
                       /\ pc[d] = "voltou" /\ iniciar = "esperando" => \A x \in Sinais : exporter[x] # "fechando")'
    BY DEF ChamadaInv
  <2>1. CASE d = c
    <3>1. CASE s = "traces"
      <4>1. /\ pc'[c] \in {"fechaTraces", "metricas"} /\ trava' = trava
            /\ pc'[c] = "metricas" => exporter'["traces"] \in {"fechando", "fechado"}
            /\ pc'[c] = "metricas" /\ iniciar # "instalado" => exporter'["traces"] = "fechado"
        BY <1>2, <1>6, <1>7, <3>1 DEF ColetorState, Sinais, Fechando, Depois, Libera
      <4>2. QED
        BY <1>1, <1>4, <2>1, <4>1 DEF NosProviders, DepoisDosTraces
    <3>2. CASE s = "metricas"
      <4>1. /\ exporter["traces"] \in {"fechando", "fechado"}
            /\ iniciar # "instalado" => exporter["traces"] = "fechado"
        BY <1>2, <1>4, <3>2 DEF ChamadaInv, DepoisDosTraces, Fechando
      <4>2. /\ pc'[c] \in {"fechaMetricas", "voltou"}
            /\ pc'[c] = "fechaMetricas" => trava' = trava
            /\ pc'[c] = "voltou" => exporter'["metricas"] \in {"fechando", "fechado"}
            /\ pc'[c] = "voltou" /\ iniciar # "instalado" => exporter'["metricas"] = "fechado"
        BY <1>2, <1>6, <1>7, <3>2 DEF ColetorState, Sinais, Fechando, Depois, Libera
      <4>3. exporter'["traces"] = exporter["traces"]
        BY <1>3, <3>2 DEF Sinais
      <4>4. CASE pc'[c] = "fechaMetricas"
        BY <1>1, <1>4, <2>1, <4>1, <4>2, <4>3, <4>4 DEF NosProviders, DepoisDosTraces
      <4>5. CASE pc'[c] = "voltou"
        <5>1. /\ \A x \in Sinais : exporter'[x] \in {"fechando", "fechado"}
              /\ iniciar # "instalado" => \A x \in Sinais : exporter'[x] = "fechado"
          BY <4>1, <4>2, <4>3, <4>5 DEF Sinais
        <5>2. QED
          BY <1>1, <1>4, <2>1, <4>5, <5>1 DEF NosProviders, DepoisDosTraces
      <4>6. QED
        BY <4>2, <4>4, <4>5
    <3>3. QED
      BY <3>1, <3>2 DEF Sinais
  <2>2. CASE d # c
    <3>1. pc'[d] = pc[d] /\ (iniciar = "esperando" => pc[d] \notin NosProviders)
      BY <1>3, <1>5, <2>2
    <3>2. \A x \in Sinais : exporter[x] \in {"fechando", "fechado"} =>
             /\ exporter'[x] \in {"fechando", "fechado"}
             /\ exporter[x] = "fechado" => exporter'[x] = "fechado"
      BY <1>2, <1>3, <1>6 DEF ColetorState, FechaInv
    <3>3. "traces" \in Sinais
      BY DEF Sinais
    <3>4. QED
      BY <1>1, <1>4, <3>1, <3>2, <3>3 DEF ChamadaInv, NosProviders, DepoisDosTraces
  <2>3. QED
    BY <2>1, <2>2
<1>9. FechaInv'
  <2> SUFFICES ASSUME NEW x \in Sinais
               PROVE  (/\ exporter[x] = "fechando" => \E d \in Chamadores : pc[d] = Fechando[x]
                       /\ \A d \in Chamadores : pc[d] = Fechando[x] => exporter[x] = "fechando"
                       /\ \A d, e \in Chamadores : pc[d] = Fechando[x] /\ pc[e] = Fechando[x] => d = e)'
    BY DEF FechaInv
  <2>1. CASE x # s
    <3>1. \A d \in Chamadores : pc'[d] = Fechando[x] <=> pc[d] = Fechando[x]
      BY <1>2, <1>3, <2>1 DEF ColetorState, Sinais, Fechando, Depois
    <3>2. QED
      BY <1>3, <2>1, <3>1 DEF FechaInv
  <2>2. CASE x = s
    <3>1. CASE pc[c] = s
      <4>1. pc[c] # Fechando[s] /\ Depois[s] # Fechando[s]
        BY <3>1 DEF Sinais, Fechando, Depois
      <4>2. QED
        BY <1>2, <1>3, <2>2, <3>1, <4>1 DEF ColetorState, FechaInv
    <3>2. CASE pc[c] = Fechando[s]
      <4>1. s # Fechando[s] /\ Depois[s] # Fechando[s]
        BY DEF Sinais, Fechando, Depois
      <4>2. pc'[c] = Depois[s] /\ exporter'[s] = "fechado"
        BY <1>2, <3>2, <4>1 DEF ColetorState
      <4>3. \A d \in Chamadores : pc'[d] # Fechando[s]
        BY <1>3, <3>2, <4>1, <4>2 DEF FechaInv
      <4>4. QED
        BY <2>2, <4>2, <4>3
    <3>3. QED
      BY <1>2, <3>1, <3>2
  <2>3. QED
    BY <2>1, <2>2
<1>10. QED
  BY <1>8, <1>9

-----------------------------------------------------------------------------
\* The steps of Iniciar and Desligar together.
PassoInv == ColetorState /\ EtapaInv /\ ExporterInv /\ ChamadaInv /\ FechaInv

LEMMA PassoInvNext == ASSUME PassoInv, IniciarNext PROVE PassoInv'
<1>1. CASE Sondas
  BY <1>1, InstallKeepsStages, InstallKeepsCalls DEF PassoInv
<1>2. ASSUME NEW c \in Chamadores, Desligar(c) \/ Chamada(c) PROVE PassoInv'
  BY <1>2, CallsKeepStages, StartKeepsCalls, ShutdownKeepsCalls DEF PassoInv, Chamada
<1>3. QED
  BY <1>1, <1>2 DEF IniciarNext, Sondas

\* The steps of the error handler: a warning is due only an interval after the last one.
LEMMA WarningsNext == ASSUME AvisoInv, Handle, UNCHANGED agora PROVE AvisoInv'
<1>1. IntervaloAviso \in Nat \ {0} /\ Nunca \notin Int
  BY ColetorAssumption, AmbienteAssumption
<1>2. CASE Suprime
  <2>1. erros' = erros + 1 /\ suprimidos' = suprimidos + 1 /\ UNCHANGED <<ultimo, avisos, contados>>
    BY <1>2 DEF Handle
  <2>2. QED
    BY <2>1 DEF AvisoInv, AvisosContados
<1>3. CASE ~Suprime
  <2>1. /\ erros' = erros + 1 /\ ultimo' = agora /\ suprimidos' = 0 /\ avisos' = avisos \cup {agora}
        /\ contados' = contados + suprimidos + 1
    BY <1>3 DEF Handle, Avisa
  <2>2. \A a \in avisos : a \in Nat /\ a <= agora /\ agora - a >= IntervaloAviso
    BY <1>1, <1>3 DEF Suprime, AvisoInv
  <2>3. \A a, b \in avisos' : a < b => b - a >= IntervaloAviso
    BY <1>1, <2>1, <2>2 DEF AvisoInv, AvisosContados
  <2>4. QED
    BY <1>1, <2>1, <2>2, <2>3 DEF AvisoInv, AvisosContados
<1>4. QED
  BY <1>2, <1>3

ambienteColetor == <<agora, comRedis, coletorProprias>>

LEMMA ColetorInvNext == ColetorInv /\ [ColetorNext]_ambienteColetor => ColetorInv'
<1> SUFFICES ASSUME ColetorInv, [ColetorNext]_ambienteColetor PROVE ColetorInv'
  OBVIOUS
<1>1. PassoInv /\ AvisoInv
  BY DEF ColetorInv, PassoInv
<1>2. UNCHANGED iniciarVars => PassoInv'
  BY <1>1 DEF iniciarVars, PassoInv, ColetorState, EtapaInv, Instalando, ExporterInv, ChamadaInv, FechaInv
<1>3. UNCHANGED <<agora, avisoVars>> => AvisoInv'
  BY <1>1 DEF avisoVars, AvisoInv, AvisosContados
<1>4. CASE IniciarNext /\ UNCHANGED <<agora, comRedis>>
  <2>1. UNCHANGED avisoVars
    BY <1>4 DEF IniciarNext, NaoInicia, Sonda, Instalador, CriaTraces, CriaMetricas, Instala, IniciarVolta,
       SondaPara, Sondagem, SondaTique, SondaResponde, SondaGuarda, SondaDesiste, Tique, Desligar,
       Chamada, Terminou, ComecaFechar, TerminaFechar, ColetorMuda
  <2>2. QED
    BY <1>1, <1>3, <1>4, <2>1, PassoInvNext DEF ColetorInv, PassoInv
<1>5. CASE HandleNext
  BY <1>1, <1>2, <1>5, WarningsNext DEF HandleNext, ColetorInv, PassoInv
<1>6. CASE Passa /\ UNCHANGED coletorProprias
  <2>1. AvisoInv'
    BY <1>1, <1>6, AmbienteAssumption DEF Passa, coletorProprias, avisoVars, AvisoInv, AvisosContados
  <2>2. QED
    BY <1>2, <1>6, <2>1 DEF coletorProprias, ColetorInv, PassoInv
<1>7. CASE UNCHANGED ambienteColetor
  BY <1>2, <1>3, <1>7 DEF ambienteColetor, coletorProprias, ColetorInv, PassoInv
<1>8. QED
  BY <1>4, <1>5, <1>6, <1>7 DEF ColetorNext

LEMMA ColetorInvTypes == ColetorInv => ColetorTypeOK
<1> SUFFICES ASSUME ColetorInv PROVE ColetorTypeOK
  OBVIOUS
<1>1. suprimidos \in 0..erros
  BY DEF ColetorInv, AvisoInv, AvisosContados
<1>2. QED
  BY <1>1 DEF ColetorInv, ColetorState, EtapaInv, ColetorTypeOK

LEMMA ColetorSpecInv == ColetorSpec => []ColetorInv
<1>1. QED
  BY ColetorInvInit, ColetorInvNext, PTL DEF ColetorSpec, ambienteColetor

\* The safe part of what Desligar promises (DesligarCumpre): once a call of it returned nothing
\* exports and nothing is installed any more, however the probing, the installation and other
\* calls interleave with it; and a failed installation leaves nothing open.
THEOREM ShutDownForGood == ColetorSpec => [](DesligadoDeVez /\ FalhaNaoVaza)
<1>1. ColetorInv => DesligadoDeVez
  <2> SUFFICES ASSUME ColetorInv, NEW c \in Chamadores, pc[c] = "voltou"
               PROVE  /\ \A s \in Sinais : exporter[s] # "aberto"
                      /\ sonda \in {"nenhuma", "terminou"}
                      /\ iniciar = "esperando" => \A s \in Sinais : exporter[s] # "fechando"
    BY DEF DesligadoDeVez
  <2> USE DEF ColetorInv, ColetorState, EtapaInv, ChamadaInv
  <2>1. sonda \in {"nenhuma", "terminou"} /\ instala \in {"nao", "falhou", "feito"}
    OBVIOUS
  <2>2. \A s \in Sinais : exporter[s] # "aberto"
    BY <2>1 DEF ExporterInv, Sinais
  <2>3. QED
    BY <2>1, <2>2
<1>2. ColetorInv => FalhaNaoVaza
  BY DEF ColetorInv, ExporterInv, FalhaNaoVaza, Sinais, ColetorState
<1>3. QED
  BY <1>1, <1>2, ColetorSpecInv, PTL

\* The safe part of SondagemFiel: each error is told once, in a warning or in the number of
\* suppressed ones, and warnings keep their distance (errorHandlerLimitado.Handle).
THEOREM ErrorsAreCounted == ColetorSpec => []AvisosContados
<1>1. ColetorInv => AvisosContados
  BY DEF ColetorInv, AvisoInv
<1>2. QED
  BY <1>1, ColetorSpecInv, PTL

\* The ways of a call of Desligar and of the goroutine, which may go back to wait for its ticker.
Percurso == [fora |-> 0, esperando |-> 1, traces |-> 2, fechaTraces |-> 3, metricas |-> 4,
             fechaMetricas |-> 5, voltou |-> 6]
PercursoDaSonda == [nenhuma |-> 0, espera |-> 1, sondando |-> 1, instalando |-> 2, terminou |-> 3]

\* mu is held by a call that shuts the providers down and waits for nobody; a call that waits for
\* the goroutine has told it to stop, and the goroutine is there; and it never waits for mu, which
\* no call takes before it has ended.
NadaTrava ==
    /\ trava # Nunca => pc[trava] \in NosProviders
    /\ sonda = "instalando" => trava = Nunca
    /\ \A c \in Chamadores : pc[c] = "esperando" => parar /\ sonda # "nenhuma"

\* A call only goes forward, and each step of its own takes it further; neither does the goroutine
\* start over, nor does anything take back that it has to stop.
DesligarAvanca ==
    /\ \A c \in Chamadores :
          /\ Percurso[pc[c]] <= Percurso[pc'[c]]
          /\ Chamada(c) => Percurso[pc[c]] < Percurso[pc'[c]]
    /\ PercursoDaSonda[sonda] <= PercursoDaSonda[sonda']
    /\ parar => parar'

LEMMA CallsGoForward ==
    ASSUME PassoInv, NadaTrava, NEW c \in Chamadores, Desligar(c) \/ Chamada(c)
    PROVE  /\ \A d \in Chamadores : d # c => pc'[d] = pc[d]
           /\ Percurso[pc[c]] < Percurso[pc'[c]]
           /\ sonda' = sonda /\ (parar => parar') /\ NadaTrava'
<1> USE DEF PassoInv, ColetorState, Em
<1>1. CASE Desligar(c)
  <2>1. /\ pc[c] = "fora" /\ UNCHANGED <<sonda, iniciar, trava>>
        /\ \/ iniciar = "esperando" /\ pc' = [pc EXCEPT ![c] = "esperando"] /\ parar'
           \/ pc' = [pc EXCEPT ![c] = "traces"] /\ parar' = parar
           \/ pc' = [pc EXCEPT ![c] = "voltou"] /\ parar' = parar
    BY <1>1 DEF Desligar
  <2>2. trava # c
    BY <2>1, ColetorAssumption DEF NadaTrava, NosProviders
  <2>3. NadaTrava'
    BY <2>1, <2>2 DEF NadaTrava, NosProviders, EtapaInv
  <2>4. Percurso[pc[c]] < Percurso[pc'[c]]
    BY <2>1 DEF Percurso
  <2>5. QED
    BY <2>1, <2>3, <2>4
<1>2. CASE Terminou(c)
  <2>1. /\ pc[c] = "esperando" /\ sonda = "terminou" /\ trava = Nunca /\ UNCHANGED <<sonda, parar>>
        /\ \/ pc' = [pc EXCEPT ![c] = "traces"] /\ trava' = c
           \/ pc' = [pc EXCEPT ![c] = "voltou"] /\ trava' = Nunca
    BY <1>2 DEF Terminou
  <2>2. NadaTrava'
    BY <2>1 DEF NadaTrava, NosProviders
  <2>3. Percurso[pc[c]] < Percurso[pc'[c]]
    BY <2>1 DEF Percurso
  <2>4. QED
    BY <2>1, <2>2, <2>3
<1>3. ASSUME NEW s \in Sinais, ComecaFechar(c, s) \/ TerminaFechar(c, s)
      PROVE  /\ \A d \in Chamadores : d # c => pc'[d] = pc[d]
             /\ Percurso[pc[c]] < Percurso[pc'[c]]
             /\ sonda' = sonda /\ (parar => parar') /\ NadaTrava'
  <2>1. /\ UNCHANGED <<sonda, parar>>
        /\ \/ pc[c] = s /\ pc' = [pc EXCEPT ![c] = Fechando[s]] /\ trava' = trava
           \/ pc[c] = s /\ pc' = [pc EXCEPT ![c] = Depois[s]] /\ Libera(c, s)
           \/ pc[c] = Fechando[s] /\ pc' = [pc EXCEPT ![c] = Depois[s]] /\ Libera(c, s)
    BY <1>3 DEF ComecaFechar, TerminaFechar
  <2>2. Percurso[pc[c]] < Percurso[pc'[c]] /\ pc'[c] \in NosProviders \cup {"voltou"}
    BY <2>1 DEF Percurso, Sinais, Fechando, Depois, NosProviders
  <2>3. /\ trava' = trava \/ (trava' = Nunca)
        /\ trava = c /\ trava' = trava => pc'[c] \in NosProviders
    BY <2>1, ColetorAssumption DEF Libera, Sinais, Fechando, Depois, NosProviders
  <2>4. NadaTrava'
    BY <2>1, <2>2, <2>3 DEF NadaTrava, NosProviders
  <2>5. QED
    BY <2>1, <2>2, <2>4
<1>4. QED
  BY <1>1, <1>2, <1>3 DEF Chamada

LEMMA GoroutineGoesForward ==
    ASSUME PassoInv, NadaTrava, Sondas
    PROVE  /\ UNCHANGED <<pc, trava, parar>>
           /\ PercursoDaSonda[sonda] <= PercursoDaSonda[sonda']
           /\ NadaTrava'
<1>1. UNCHANGED <<pc, trava, parar>>
  BY DEF Sondas, Instalador, Sondagem, NaoInicia, Sonda, CriaTraces, CriaMetricas, Instala, IniciarVolta,
         SondaPara, SondaTique, SondaResponde, SondaGuarda, SondaDesiste, Tique, ColetorMuda
<1>2. /\ sonda' # "nenhuma" \/ sonda' = sonda
      /\ PercursoDaSonda[sonda] <= PercursoDaSonda[sonda']
      /\ sonda' = "instalando" => sonda = "instalando" \/ sonda = "sondando"
  <2> USE DEF PassoInv, ColetorState, EtapaInv, PercursoDaSonda
  <2>1. CASE NaoInicia \/ Sonda
    BY <2>1 DEF NaoInicia, Sonda
  <2>2. CASE Instalador
    BY <2>2 DEF Instalador, CriaTraces, CriaMetricas, Instala, IniciarVolta
  <2>3. CASE SondaPara \/ Sondagem
    BY <2>3 DEF SondaPara, Sondagem, SondaTique, SondaResponde, SondaGuarda, SondaDesiste
  <2>4. CASE Tique \/ ColetorMuda
    BY <2>4 DEF Tique, ColetorMuda
  <2>5. QED
    BY <2>1, <2>2, <2>3, <2>4 DEF Sondas
<1>3. sonda = "sondando" => trava = Nunca
  BY DEF PassoInv, ColetorState, EtapaInv, ChamadaInv, NadaTrava
<1>4. NadaTrava'
  BY <1>1, <1>2, <1>3 DEF NadaTrava, PassoInv, ColetorState
<1>5. QED
  BY <1>1, <1>2, <1>4

LEMMA NadaTravaNext ==
    ColetorInv /\ NadaTrava /\ [ColetorNext]_ambienteColetor => NadaTrava' /\ [DesligarAvanca]_ambienteColetor
<1> SUFFICES ASSUME ColetorInv, NadaTrava, [ColetorNext]_ambienteColetor
             PROVE  NadaTrava' /\ DesligarAvanca
  OBVIOUS
<1>1. PassoInv
  BY DEF ColetorInv, PassoInv
<1>2. \A c \in Chamadores : Percurso[pc[c]] \in Int
  BY <1>1 DEF PassoInv, ColetorState, Percurso
<1>3. PercursoDaSonda[sonda] \in Int
  BY <1>1 DEF PassoInv, ColetorState, PercursoDaSonda
<1>4. \A c \in Chamadores : Chamada(c) => Percurso[pc[c]] < Percurso[pc'[c]]
  BY <1>1, CallsGoForward
<1>5. /\ NadaTrava'
      /\ \A c \in Chamadores : Percurso[pc[c]] <= Percurso[pc'[c]]
      /\ PercursoDaSonda[sonda] <= PercursoDaSonda[sonda']
      /\ parar => parar'
  <2>1. ASSUME NEW c \in Chamadores, Desligar(c) \/ Chamada(c)
        PROVE  /\ NadaTrava'
               /\ \A d \in Chamadores : Percurso[pc[d]] <= Percurso[pc'[d]]
               /\ PercursoDaSonda[sonda] <= PercursoDaSonda[sonda']
               /\ parar => parar'
    <3>1. /\ \A d \in Chamadores : d # c => pc'[d] = pc[d]
          /\ Percurso[pc[c]] < Percurso[pc'[c]]
          /\ sonda' = sonda /\ (parar => parar') /\ NadaTrava'
      BY <1>1, <2>1, CallsGoForward
    <3>2. pc'[c] \in DOMAIN Percurso
      BY <1>1, <2>1, PassoInvNext DEF IniciarNext, PassoInv, ColetorState, Percurso
    <3>3. Percurso[pc'[c]] \in Int
      BY <3>2 DEF Percurso
    <3>4. QED
      BY <1>2, <1>3, <3>1, <3>3
  <2>2. CASE Sondas
    BY <1>1, <1>2, <2>2, GoroutineGoesForward
  <2>3. CASE UNCHANGED <<pc, trava, sonda, parar>>
    BY <1>2, <1>3, <2>3 DEF NadaTrava
  <2>4. CASE HandleNext \/ (Passa /\ UNCHANGED coletorProprias) \/ UNCHANGED ambienteColetor
    BY <2>3, <2>4 DEF HandleNext, coletorProprias, iniciarVars, ambienteColetor
  <2>5. QED
    BY <2>1, <2>2, <2>4 DEF ColetorNext, IniciarNext, Sondas
<1>6. QED
  BY <1>4, <1>5 DEF DesligarAvanca

\* No call of Desligar waits for something that does not come: what DesligarVolta needs beside
\* fairness. Its goroutine may be dialling or installing, and others may shut down the same
\* providers.
THEOREM ShutDownGoesOn == ColetorSpec => []NadaTrava /\ [][DesligarAvanca]_ambienteColetor
<1>1. AmbienteInit /\ ColetorInit => NadaTrava
  BY DEF ColetorInit, NadaTrava
<1>2. QED
  BY <1>1, NadaTravaNext, ColetorSpecInv, PTL DEF ColetorSpec, ambienteColetor

\* What a Collector that stays leads to: installed, unless told to stop or an exporter failed.
Resolvida == globais \/ parar \/ instala = "falhou"

\* The goroutine ends for no other reason, so failed probes never end it.
SoEncerraResolvida == sonda = "terminou" => Resolvida

NaInstalacao == [nao |-> 0, traces |-> 1, metricas |-> 2, globais |-> 3]

\* Until then it waits for a tick that nothing takes away, probes, finds the Collector if it is
\* there, and goes on with the installation it began, also when the Collector leaves again.
SondaContinua ==
    iniciar = "esperando" /\ ~Resolvida /\ ~Resolvida' =>
        /\ sonda \in {"espera", "sondando", "instalando"}
        /\ sonda = "espera" => sonda' = "sondando" \/ (sonda' = "espera" /\ (tique => tique'))
        /\ sonda = "sondando" => sonda' = "sondando" \/ sonda' = (IF coletor THEN "instalando" ELSE "espera")
        /\ sonda = "instalando" => sonda' = "instalando" /\ NaInstalacao[instala] <= NaInstalacao[instala']
        /\ Sondagem => sonda' # sonda
        /\ Instalador => NaInstalacao[instala] < NaInstalacao[instala']

LEMMA SondaContinuaNext ==
    ColetorInv /\ SoEncerraResolvida /\ [ColetorNext]_ambienteColetor =>
        SoEncerraResolvida' /\ [SondaContinua]_ambienteColetor
<1> SUFFICES ASSUME ColetorInv, SoEncerraResolvida, [ColetorNext]_ambienteColetor
             PROVE  SoEncerraResolvida' /\ SondaContinua
  OBVIOUS
<1> USE DEF ColetorInv, ColetorState, EtapaInv, ExporterInv, SoEncerraResolvida, Resolvida
<1>1. iniciar = "esperando" /\ ~Resolvida =>
        /\ sonda \in {"espera", "sondando", "instalando"}
        /\ sonda = "instalando" => instala \in {"traces", "metricas", "globais"}
        /\ sonda # "instalando" => instala = "nao"
  BY DEF Instalando
<1>2. CASE NaoInicia \/ Sonda
  BY <1>2 DEF NaoInicia, Sonda, SondaContinua
<1>3. CASE Instalador
  <2>1. /\ UNCHANGED <<sonda, parar>> /\ (Instalando \/ iniciar = "instalando")
        /\ \/ instala = "traces" /\ instala' \in {"metricas", "falhou"} /\ globais' = globais
           \/ instala = "metricas" /\ instala' \in {"globais", "falhou"} /\ globais' = globais
           \/ globais'
           \/ iniciar = "instalando" /\ UNCHANGED <<instala, globais>>
    BY <1>3 DEF Instalador, CriaTraces, CriaMetricas, Instala, IniciarVolta, Instalando
  <2>2. SoEncerraResolvida'
    BY <2>1 DEF Instalando
  <2>3. SondaContinua
    <3> SUFFICES ASSUME iniciar = "esperando", ~Resolvida, ~Resolvida' PROVE SondaContinua
      BY DEF SondaContinua
    <3>1. sonda = "instalando" /\ sonda' = sonda
      BY <2>1 DEF Instalando
    <3>2. NaInstalacao[instala] < NaInstalacao[instala'] /\ NaInstalacao[instala] <= NaInstalacao[instala']
      BY <2>1, <3>1 DEF NaInstalacao
    <3>3. ~Sondagem
      BY <3>1, <1>1 DEF Sondagem, SondaTique, SondaResponde, SondaGuarda, SondaDesiste
    <3>4. QED
      BY <3>1, <3>2, <3>3 DEF SondaContinua
  <2>4. QED
    BY <2>2, <2>3
<1>4. CASE SondaPara
  BY <1>4 DEF SondaPara, SondaContinua
<1>5. CASE Sondagem
  <2>1. /\ UNCHANGED <<iniciar, parar, globais>>
        /\ \/ sonda = "espera" /\ sonda' = "sondando" /\ instala' = instala
           \/ sonda = "sondando" /\ coletor /\ sonda' = "instalando" /\ instala' = "traces"
           \/ sonda = "sondando" /\ ~coletor /\ sonda' = "espera" /\ instala' = instala
           \/ instala = "feito" /\ instala' = instala
           \/ instala = "falhou" /\ instala' = instala
    BY <1>5 DEF Sondagem, SondaTique, SondaResponde, SondaGuarda, SondaDesiste
  <2>2. SoEncerraResolvida'
    BY <2>1
  <2>3. SondaContinua
    <3> SUFFICES ASSUME iniciar = "esperando", ~Resolvida, ~Resolvida' PROVE SondaContinua
      BY DEF SondaContinua
    <3>1. ~Instalador
      BY <2>1, <1>1 DEF Instalador, CriaTraces, CriaMetricas, Instala, IniciarVolta, Instalando
    <3>2. QED
      BY <2>1, <3>1, <1>1 DEF SondaContinua
  <2>4. QED
    BY <2>2, <2>3
<1>6. CASE UNCHANGED <<iniciar, sonda, instala, globais>> /\ (parar => parar') /\ (tique => tique')
  <2>1. ~Resolvida /\ iniciar = "esperando" => ~Sondagem /\ ~Instalador
    BY <1>6, <1>1 DEF Sondagem, SondaTique, SondaResponde, SondaGuarda, SondaDesiste,
       Instalador, CriaTraces, CriaMetricas, Instala, IniciarVolta
  <2>2. iniciar = "esperando" /\ ~Resolvida => NaInstalacao[instala] \in Int
    BY <1>1 DEF NaInstalacao
  <2>3. QED
    BY <1>6, <2>1, <2>2, <1>1 DEF SondaContinua
<1>7. CASE Tique \/ ColetorMuda \/ \E c \in Chamadores : Desligar(c) \/ Chamada(c)
  BY <1>6, <1>7 DEF Tique, ColetorMuda, Desligar, Chamada, Terminou, ComecaFechar, TerminaFechar
<1>8. CASE HandleNext \/ (Passa /\ UNCHANGED coletorProprias) \/ UNCHANGED ambienteColetor
  BY <1>6, <1>8 DEF HandleNext, coletorProprias, iniciarVars, ambienteColetor
<1>9. QED
  BY <1>2, <1>3, <1>4, <1>5, <1>7, <1>8 DEF ColetorNext, IniciarNext

\* The probing goes on until the Collector is found: what AtivaQuandoSobe needs beside fairness
\* and a Collector that stays.
THEOREM ProbingGoesOn == ColetorSpec => []SoEncerraResolvida /\ [][SondaContinua]_ambienteColetor
<1>1. AmbienteInit /\ ColetorInit => SoEncerraResolvida
  BY DEF ColetorInit, SoEncerraResolvida
<1>2. QED
  BY <1>1, SondaContinuaNext, ColetorSpecInv, PTL DEF ColetorSpec, ambienteColetor

(* ------------------------- The three together ------------------------- *)

Partes == {"iniciar", "avisos", "tenant", "inicializacao"}

\* Each of the three takes its own steps whatever the others do.
LEMMA PartsTakeTheirSteps ==
    ASSUME parte \in Partes, MCNext
    PROVE  [ColetorNext]_ambienteColetor /\ [TenantNext]_tenantVars /\ [InicializacaoNext]_inicializacaoProprias
<1>1. [TenantNext]_tenantVars /\ [InicializacaoNext]_inicializacaoProprias
  BY DEF MCNext
<1>2. [ColetorNext]_ambienteColetor
  <2>1. CASE parte = "iniciar"
    BY <2>1 DEF MCNext, SemTempo, ColetorNext
  <2>2. CASE parte = "avisos"
    BY <2>2 DEF MCNext, ColetorNext
  <2>3. CASE parte \in {"tenant", "inicializacao"}
    BY <2>3 DEF MCNext, SemTempo, ambienteColetor
  <2>4. QED
    BY <2>1, <2>2, <2>3 DEF Partes
<1>3. QED
  BY <1>1, <1>2

\* The types of the collector, of the purge and of the start-up, in the specification that the runs
\* check.
THEOREM TypesOfAll == MCSpec => []OperacaoTypeOK
<1> DEFINE Inv == ColetorInv /\ TenantInv /\ ProcessInv /\ parte \in Partes
<1>1. MCInit => Inv
  BY ColetorInvInit, TenantInvInit, ProcessInvInit DEF MCInit, Partes
<1>2. Inv /\ [MCNext]_mcVars => Inv'
  <2>1. UNCHANGED mcVars => UNCHANGED <<ambienteColetor, tenantVars, inicializacaoProprias>>
    BY DEF mcVars, ambienteColetor
  <2>2. [MCNext]_mcVars => UNCHANGED parte
    BY DEF MCNext, mcVars
  <2>3. QED
    BY <2>1, <2>2, PartsTakeTheirSteps, ColetorInvNext, TenantInvNext, ProcessInvNext
<1>3. Inv => OperacaoTypeOK
  BY ColetorInvTypes, TenantInvTypes, ProcessInvTypes DEF OperacaoTypeOK
<1>4. QED
  BY <1>1, <1>2, <1>3, PTL DEF MCSpec
=============================================================================
