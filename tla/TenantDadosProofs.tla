------------------------- MODULE TenantDadosProofs --------------------------
(***************************************************************************)
(* Theorems about TenantDados, for any services with any sources in any    *)
(* order, any number of calls at work at once, and any number of failures. *)
(***************************************************************************)
EXTENDS TenantDados, WellFoundedInduction, TLAPS

\* What the sources held at first.
TodosOsItens == UNION {Itens[f] : f \in Todas}

\* A request that is on its way, and what its handler has come to.
Tarefa ==
    [estado : {"chegou", "fontes", "apagando", "ok", "erro"}, servico : Servicos, fase : Int,
     simular : {"false", "true"}, aceita : BOOLEAN, i : Nat \ {0}, lista : SUBSET TodosOsItens,
     itens : Seq(Todas), tocou : SUBSET Todas]

TenantState ==
    /\ DOMAIN dados = Todas /\ \A f \in Todas : dados[f] \subseteq Itens[f]
    /\ ch \in [Chamadas -> Tarefa \cup {Livre}]
    /\ etapa \in Parado..Fim /\ faltam \in SUBSET Servicos
    /\ atual \in Chamadas \cup {Ninguem}

\* Nothing of the phase is left at s.
Vazias(s, fase) == \A f \in Expurgaveis(s, fase) : dados[f] = {}

\* The source f may be deleted by r, which names its phase.
Permitida(r, f) == DaFase(r, f) /\ ~SoConta(r, f)

\* How far a call has come. While it deletes item by item, what is left is on its list; the sources
\* behind it that it may delete are empty; of those it touched, all but the one it is at are in the
\* report; and no call deletes master data while there is movement.
EmCurso(r) == r.estado \in {"fontes", "apagando", "ok"}
TarefaInv(r) ==
    /\ EmCurso(r) => r.aceita /\ r.fase \in 0..2
    /\ r.estado = "chegou" => r.tocou = {} /\ r.i = 1
    /\ r.estado = "apagando" => /\ r.i \in DOMAIN Fontes[r.servico]
                                /\ Permitida(r, Fonte(r)) /\ Fonte(r) \in EmPartes
                                /\ dados[Fonte(r)] \subseteq r.lista
    /\ r.estado = "ok" => r.i > Len(Fontes[r.servico])
    /\ EmCurso(r) /\ r.simular = "false" /\ r.fase # 0
          => \A j \in DOMAIN Fontes[r.servico] :
                j < r.i /\ Fontes[r.servico][j] \in Expurgaveis(r.servico, r.fase)
                   => dados[Fontes[r.servico][j]] = {}
    /\ \A f \in ToSet(r.itens) : Permitida(r, f) => dados[f] = {}
    /\ \A f \in r.tocou :
          /\ Permitida(r, f)
          /\ \/ f \in ToSet(r.itens)
             \/ /\ r.estado \in {"apagando", "erro"}
                /\ r.i \in DOMAIN Fontes[r.servico] /\ f = Fonte(r)
    /\ r.aceita /\ r.simular = "false" /\ r.fase = 2 => \A s \in Servicos : Vazias(s, 1)

TarefasInv == \A c \in Chamadas : ch[c] # Livre => TarefaInv(ch[c])

\* The call that is waited for is the orchestrator's own, for its step.
EsperaInv ==
    atual # Ninguem =>
        /\ ch[atual] # Livre /\ ch[atual].servico \in faltam
        /\ ch[atual].aceita /\ ch[atual].simular = "false"
        /\ ch[atual].fase = etapa - 1 /\ etapa \in Exportacao..(Fim - 1)

TenantInv == TenantState /\ TarefasInv /\ EsperaInv /\ SucessoQuerDizerApagado /\ CadastroPorUltimo

-----------------------------------------------------------------------------
LEMMA ElementType ==
    ASSUME NEW S, NEW s \in Seq(S), NEW i \in DOMAIN s
    PROVE  s[i] \in S
OBVIOUS

LEMMA SourcesAreListed ==
    ASSUME NEW s \in Servicos
    PROVE  /\ Len(Fontes[s]) \in Nat /\ DOMAIN Fontes[s] = 1..Len(Fontes[s])
           /\ \A j \in DOMAIN Fontes[s] : Fontes[s][j] \in Todas
           /\ \A f \in ToSet(Fontes[s]) : \E j \in DOMAIN Fontes[s] : f = Fontes[s][j]
<1>1. Fontes[s] \in Seq(Todas)
  BY TenantDadosAssumption
<1>2. QED
  BY <1>1, ElementType DEF ToSet

LEMMA NamedAfter ==
    ASSUME NEW s \in Seq(Todas), NEW f \in Todas
    PROVE  Append(s, f) \in Seq(Todas) /\ ToSet(Append(s, f)) = ToSet(s) \cup {f}
<1>1. /\ Append(s, f) \in Seq(Todas) /\ Len(s) \in Nat
      /\ DOMAIN s = 1..Len(s) /\ DOMAIN Append(s, f) = 1..(Len(s) + 1)
      /\ \A i \in 1..Len(s) : Append(s, f)[i] = s[i]
      /\ Append(s, f)[Len(s) + 1] = f
  OBVIOUS
<1>2. QED
  BY <1>1 DEF ToSet

LEMMA TenantInvInit == TenantInit => TenantInv
<1> SUFFICES ASSUME TenantInit PROVE TenantInv
  OBVIOUS
<1>1. TenantState
  BY TenantDadosAssumption DEF TenantInit, TenantState, Parado, Fim
<1>2. TarefasInv /\ EsperaInv
  BY DEF TenantInit, TarefasInv, EsperaInv
<1>3. SucessoQuerDizerApagado
  BY DEF TenantInit, SucessoQuerDizerApagado, Parado
<1>4. CadastroPorUltimo
  <2>1. \A f \in Todas : dados[f] = Itens[f]
    BY DEF TenantInit
  <2>2. QED
    BY <2>1 DEF CadastroPorUltimo
<1>5. QED
  BY <1>1, <1>2, <1>3, <1>4 DEF TenantInv

\* A handler at a source of its service.
LEMMA AtASource ==
    ASSUME TenantState, NEW r \in Tarefa, r.i <= Len(Fontes[r.servico])
    PROVE  r.i \in DOMAIN Fontes[r.servico] /\ Fonte(r) \in Todas /\ Fonte(r) \in ToSet(Fontes[r.servico])
<1>1. r.servico \in Servicos /\ r.i \in Nat /\ r.i > 0
  BY DEF Tarefa
<1>2. r.i \in DOMAIN Fontes[r.servico]
  BY <1>1, SourcesAreListed
<1>3. QED
  BY <1>1, <1>2, SourcesAreListed DEF Fonte, ToSet

\* What was found out about a call stays true while others delete.
LEMMA OthersDelete ==
    ASSUME TenantState, NEW r \in Tarefa, TarefaInv(r), \A f \in Todas : dados'[f] \subseteq dados[f]
    PROVE  TarefaInv(r)'
<1>1. \A s \in Servicos : \A fase : Vazias(s, fase) => Vazias(s, fase)'
  <2>1. \A s \in Servicos : \A fase : Expurgaveis(s, fase) \subseteq Todas
    BY SourcesAreListed DEF Expurgaveis
  <2>2. QED
    BY <2>1 DEF Vazias
<1>2. r.servico \in Servicos /\ r.tocou \subseteq Todas /\ ToSet(r.itens) \subseteq Todas
  <2>1. r.itens \in Seq(Todas) /\ r.servico \in Servicos /\ r.tocou \subseteq Todas
    BY DEF Tarefa
  <2>2. QED
    BY <2>1, ElementType DEF ToSet
<1>3. \A j \in DOMAIN Fontes[r.servico] : Fontes[r.servico][j] \in Todas
  BY <1>2, SourcesAreListed
<1>4. r.i \in DOMAIN Fontes[r.servico] => Fonte(r) \in Todas
  BY <1>3 DEF Fonte
<1>5. QED
  BY <1>1, <1>2, <1>3, <1>4 DEF TarefaInv, EmCurso, Permitida, DaFase, SoConta, Simula, Fonte, Expurgaveis

\* A step of a call: from r to n, with the data that goes in between.
AvancaPara(c, n) ==
    /\ ch[c] \in Tarefa /\ n \in Tarefa
    /\ ch' = [ch EXCEPT ![c] = n]
    /\ n.servico = ch[c].servico /\ n.fase = ch[c].fase /\ n.simular = ch[c].simular
    /\ n.aceita = ch[c].aceita
    /\ DOMAIN dados' = Todas /\ \A f \in Todas : dados'[f] \subseteq dados[f]
    /\ \A f \in Todas : dados'[f] # dados[f] => EmCurso(ch[c]) /\ Permitida(ch[c], f) /\ f \in n.tocou
    /\ TarefaInv(n)'
    /\ UNCHANGED <<etapa, faltam, atual>>

\* A handler passes its source; if it may delete it, it has, and it names it.
LEMMA NextSource ==
    ASSUME TenantState, NEW r \in Tarefa, TarefaInv(r), NEW n \in Tarefa,
           r.estado \in {"fontes", "apagando"}, r.i <= Len(Fontes[r.servico]),
           \A f \in Todas : dados'[f] \subseteq dados[f],
           n.estado = "fontes", n.i = r.i + 1, n.servico = r.servico, n.fase = r.fase,
           n.simular = r.simular, n.aceita = r.aceita,
           ToSet(r.itens) \subseteq ToSet(n.itens), ToSet(n.itens) \subseteq ToSet(r.itens) \cup {Fonte(r)},
           n.tocou \subseteq r.tocou \cup {Fonte(r)},
           Permitida(r, Fonte(r)) => Fonte(r) \in ToSet(n.itens) /\ dados'[Fonte(r)] = {},
           ~Permitida(r, Fonte(r)) => n.tocou \subseteq r.tocou
    PROVE  TarefaInv(n)'
<1>1. /\ r.i \in DOMAIN Fontes[r.servico] /\ Fonte(r) \in Todas /\ r.i \in Nat
      /\ r.servico \in Servicos /\ r.tocou \subseteq Todas
  BY AtASource DEF Tarefa
<1>2. TarefaInv(r)'
  BY OthersDelete
<1>3. \A f : Permitida(n, f) <=> Permitida(r, f)
  BY DEF Permitida, DaFase, SoConta, Simula
<1>4. EmCurso(r) /\ EmCurso(n) /\ r.aceita /\ r.fase \in 0..2
  BY DEF EmCurso, TarefaInv
<1>5. n.simular = "false" /\ n.fase # 0
         => \A j \in DOMAIN Fontes[n.servico] :
               j < n.i /\ Fontes[n.servico][j] \in Expurgaveis(n.servico, n.fase)
                  => dados'[Fontes[n.servico][j]] = {}
  <2> SUFFICES ASSUME n.simular = "false", n.fase # 0, NEW j \in DOMAIN Fontes[r.servico],
                      j < r.i + 1, Fontes[r.servico][j] \in Expurgaveis(r.servico, r.fase)
               PROVE  dados'[Fontes[r.servico][j]] = {}
    OBVIOUS
  <2>1. CASE j < r.i
    BY <1>2, <1>4, <2>1 DEF TarefaInv, EmCurso, Expurgaveis
  <2>2. CASE j = r.i
    <3>1. Permitida(r, Fonte(r))
      BY <2>2 DEF Permitida, DaFase, SoConta, Simula, Expurgaveis, Fonte
    <3>2. QED
      BY <2>2, <3>1 DEF Fonte
  <2>3. j \in Int
    BY <1>1, SourcesAreListed
  <2>4. QED
    BY <1>1, <2>1, <2>2, <2>3
<1>6. \A f \in ToSet(n.itens) : Permitida(n, f) => dados'[f] = {}
  <2> SUFFICES ASSUME NEW f \in ToSet(n.itens), Permitida(r, f)
               PROVE  dados'[f] = {}
    BY <1>3
  <2>1. CASE f = Fonte(r)
    BY <2>1
  <2>2. CASE f # Fonte(r)
    BY <1>2, <2>2 DEF TarefaInv, Permitida, DaFase, SoConta, Simula
  <2>3. QED
    BY <2>1, <2>2
<1>7. \A f \in n.tocou : Permitida(n, f) /\ f \in ToSet(n.itens)
  <2> SUFFICES ASSUME NEW f \in n.tocou
               PROVE  Permitida(n, f) /\ f \in ToSet(n.itens)
    OBVIOUS
  <2>1. CASE f \in r.tocou
    <3>1. /\ Permitida(r, f)
          /\ f \in ToSet(r.itens) \/ f = Fonte(r)
      BY <2>1 DEF TarefaInv
    <3>2. QED
      BY <1>3, <3>1
  <2>2. CASE f \notin r.tocou
    BY <1>3, <2>2
  <2>3. QED
    BY <2>1, <2>2
<1>8. n.aceita /\ n.simular = "false" /\ n.fase = 2 => \A s \in Servicos : Vazias(s, 1)'
  BY <1>2 DEF TarefaInv
<1>9. QED
  BY <1>4, <1>5, <1>6, <1>7, <1>8
     DEF TarefaInv, EmCurso, Permitida, DaFase, SoConta, Simula, Expurgaveis

\* What a handler at work is.
LEMMA AtWork ==
    ASSUME TenantInv, NEW c \in Chamadas, ch[c].estado # "livre"
    PROVE  /\ ch[c] \in Tarefa /\ TarefaInv(ch[c])
           /\ ch[c].servico \in Servicos /\ ch[c].i \in Nat /\ ch[c].itens \in Seq(Todas)
           /\ Len(Fontes[ch[c].servico]) \in Nat
           /\ TenantState
<1>1. TenantState /\ TarefasInv
  BY DEF TenantInv
<1>2. ch[c] # Livre
  BY DEF Livre
<1>3. ch[c] \in Tarefa /\ TarefaInv(ch[c])
  BY <1>1, <1>2 DEF TenantState, TarefasInv
<1>4. QED
  BY <1>1, <1>3, SourcesAreListed DEF Tarefa

LEMMA RecebeAdvances ==
    ASSUME TenantInv, NEW c \in Chamadas, Recebe(c)
    PROVE  \E n : AvancaPara(c, n)
<1>a. PICK r : r = ch[c]
  OBVIOUS
<1>b. PICK n : n = [r EXCEPT !.estado = IF r.aceita /\ r.fase \in 0..2 THEN "fontes" ELSE "erro"]
  OBVIOUS
<1>1. r.estado = "chegou" /\ ch' = [ch EXCEPT ![c] = n] /\ UNCHANGED <<dados, etapa, faltam, atual>>
  BY <1>a, <1>b DEF Recebe, Muda
<1>2. r \in Tarefa /\ TarefaInv(r) /\ TenantState
  BY <1>a, <1>1, AtWork
<1>3. n \in Tarefa
  BY <1>a, <1>b, <1>2 DEF Tarefa
<1>4. /\ n.estado \in {"fontes", "erro"} /\ (n.estado = "fontes" => r.aceita /\ r.fase \in 0..2)
      /\ n.servico = r.servico /\ n.fase = r.fase /\ n.simular = r.simular /\ n.aceita = r.aceita
      /\ n.i = r.i /\ n.itens = r.itens /\ n.tocou = r.tocou
  BY <1>a, <1>b, <1>2 DEF Tarefa
<1>5. DOMAIN dados' = Todas /\ \A f \in Todas : dados'[f] = dados[f]
  BY <1>a, <1>1, <1>2 DEF TenantState
<1>6. TarefaInv(r)' /\ r.i = 1 /\ r.tocou = {}
  BY <1>a, <1>1, <1>2, <1>5, OthersDelete DEF TarefaInv
<1>7. \A j \in DOMAIN Fontes[r.servico] : ~(j < 1)
  BY <1>a, <1>2, SourcesAreListed DEF Tarefa
<1>8. TarefaInv(n)'
  BY <1>4, <1>6, <1>7 DEF TarefaInv, EmCurso, Permitida, DaFase, SoConta, Simula
<1>9. AvancaPara(c, n)
  BY <1>a, <1>1, <1>2, <1>3, <1>4, <1>5, <1>8 DEF AvancaPara
<1>10. QED
  BY <1>9

LEMMA ConcluiAdvances ==
    ASSUME TenantInv, NEW c \in Chamadas, Conclui(c)
    PROVE  \E n : AvancaPara(c, n)
<1>a. PICK r : r = ch[c]
  OBVIOUS
<1>b. PICK n : n = [r EXCEPT !.estado = "ok"]
  OBVIOUS
<1>1. /\ r.estado = "fontes" /\ r.i > Len(Fontes[r.servico])
      /\ ch' = [ch EXCEPT ![c] = n] /\ UNCHANGED <<dados, etapa, faltam, atual>>
  BY <1>a, <1>b DEF Conclui, Muda
<1>2. r \in Tarefa /\ TarefaInv(r) /\ TenantState
  BY <1>a, <1>1, AtWork
<1>3. n \in Tarefa
  BY <1>a, <1>b, <1>2 DEF Tarefa
<1>4. /\ n.estado = "ok"
      /\ n.servico = r.servico /\ n.fase = r.fase /\ n.simular = r.simular /\ n.aceita = r.aceita
      /\ n.i = r.i /\ n.itens = r.itens /\ n.tocou = r.tocou
  BY <1>a, <1>b, <1>2 DEF Tarefa
<1>5. DOMAIN dados' = Todas /\ \A f \in Todas : dados'[f] = dados[f]
  BY <1>a, <1>1, <1>2 DEF TenantState
<1>6. TarefaInv(r)'
  BY <1>a, <1>1, <1>2, <1>5, OthersDelete
<1>7. TarefaInv(n)'
  BY <1>1, <1>4, <1>6 DEF TarefaInv, EmCurso, Permitida, DaFase, SoConta, Simula, Expurgaveis
<1>8. AvancaPara(c, n)
  BY <1>a, <1>1, <1>2, <1>3, <1>4, <1>5, <1>7 DEF AvancaPara
<1>9. QED
  BY <1>8

LEMMA PulaAdvances ==
    ASSUME TenantInv, NEW c \in Chamadas, Pula(c)
    PROVE  \E n : AvancaPara(c, n)
<1>a. PICK r : r = ch[c]
  OBVIOUS
<1>b. PICK n : n = [r EXCEPT !.i = @ + 1]
  OBVIOUS
<1>1. /\ r.estado = "fontes" /\ r.i <= Len(Fontes[r.servico]) /\ ~DaFase(r, Fonte(r))
      /\ ch' = [ch EXCEPT ![c] = n] /\ UNCHANGED <<dados, etapa, faltam, atual>>
  BY <1>a, <1>b DEF Pula, NaFonte, Muda
<1>2. r \in Tarefa /\ TarefaInv(r) /\ TenantState
  BY <1>a, <1>1, AtWork
<1>3. n \in Tarefa
  BY <1>a, <1>b, <1>2 DEF Tarefa
<1>4. /\ n.estado = "fontes"
      /\ n.servico = r.servico /\ n.fase = r.fase /\ n.simular = r.simular /\ n.aceita = r.aceita
      /\ n.i = r.i + 1 /\ n.itens = r.itens /\ n.tocou = r.tocou
  BY <1>a, <1>b, <1>1, <1>2 DEF Tarefa
<1>5. DOMAIN dados' = Todas /\ \A f \in Todas : dados'[f] = dados[f]
  BY <1>a, <1>1, <1>2 DEF TenantState
<1>6. ~Permitida(r, Fonte(r))
  BY <1>1 DEF Permitida
<1>7. Fonte(r) \notin n.tocou
  BY <1>2, <1>4, <1>6 DEF TarefaInv
<1>8. TarefaInv(n)'
  BY <1>1, <1>2, <1>3, <1>4, <1>5, <1>6, <1>7, NextSource
<1>9. AvancaPara(c, n)
  BY <1>a, <1>1, <1>2, <1>3, <1>4, <1>5, <1>8 DEF AvancaPara
<1>10. QED
  BY <1>9

\* The next source of a task, named in the report.
Adiante(r, f, t) == [Proxima(r, f) EXCEPT !.tocou = t]
LEMMA NextIsATask ==
    ASSUME NEW r \in Tarefa, NEW f \in Todas, NEW t \in SUBSET Todas, NEW n,
           n = Adiante(r, f, t)
    PROVE  /\ n \in Tarefa /\ n.estado = "fontes"
           /\ n.servico = r.servico /\ n.fase = r.fase /\ n.simular = r.simular /\ n.aceita = r.aceita
           /\ n.i = r.i + 1 /\ ToSet(n.itens) = ToSet(r.itens) \cup {f} /\ n.tocou = t
<1>1. r.itens \in Seq(Todas)
  BY DEF Tarefa
<1>2. PICK q : q = Append(r.itens, f)
  OBVIOUS
<1>3. q \in Seq(Todas) /\ ToSet(q) = ToSet(r.itens) \cup {f}
  BY <1>1, <1>2, NamedAfter
<1>4. n = [estado |-> "fontes", servico |-> r.servico, fase |-> r.fase, simular |-> r.simular,
           aceita |-> r.aceita, i |-> r.i + 1, lista |-> {}, itens |-> q, tocou |-> t]
  BY <1>2 DEF Tarefa, Proxima, Adiante
<1>5. /\ r.servico \in Servicos /\ r.fase \in Int /\ r.simular \in {"false", "true"} /\ r.aceita \in BOOLEAN
      /\ r.i + 1 \in Nat \ {0}
  BY DEF Tarefa
<1>6. n \in Tarefa
  BY <1>3, <1>4, <1>5 DEF Tarefa
<1>7. QED
  BY <1>3, <1>4, <1>6

LEMMA ContaAdvances ==
    ASSUME TenantInv, NEW c \in Chamadas, Conta(c)
    PROVE  \E n : AvancaPara(c, n)
<1>a. PICK r : r = ch[c]
  OBVIOUS
<1>b. PICK n : n = Proxima(r, Fonte(r))
  OBVIOUS
<1>1. /\ r.estado = "fontes" /\ r.i <= Len(Fontes[r.servico]) /\ SoConta(r, Fonte(r))
      /\ ch' = [ch EXCEPT ![c] = n] /\ UNCHANGED <<dados, etapa, faltam, atual>>
  BY <1>a, <1>b DEF Conta, NaFonte, Muda
<1>2. r \in Tarefa /\ TarefaInv(r) /\ TenantState
  BY <1>a, <1>1, AtWork
<1>3. Fonte(r) \in Todas
  BY <1>a, <1>1, <1>2, AtASource
<1>4. /\ n \in Tarefa /\ n.estado = "fontes"
      /\ n.servico = r.servico /\ n.fase = r.fase /\ n.simular = r.simular /\ n.aceita = r.aceita
      /\ n.i = r.i + 1 /\ ToSet(n.itens) = ToSet(r.itens) \cup {Fonte(r)} /\ n.tocou = r.tocou
  <2>1. n = Adiante(r, Fonte(r), r.tocou) /\ r.tocou \in SUBSET Todas
    BY <1>b, <1>2 DEF Tarefa, Proxima, Adiante
  <2>2. QED
    BY <1>2, <1>3, <2>1, NextIsATask
<1>5. DOMAIN dados' = Todas /\ \A f \in Todas : dados'[f] = dados[f]
  BY <1>a, <1>1, <1>2 DEF TenantState
<1>6. ~Permitida(r, Fonte(r))
  BY <1>1 DEF Permitida
<1>7. TarefaInv(n)'
  BY <1>1, <1>2, <1>4, <1>5, <1>6, NextSource
<1>8. AvancaPara(c, n)
  BY <1>a, <1>1, <1>2, <1>4, <1>5, <1>7 DEF AvancaPara
<1>9. QED
  BY <1>8

LEMMA ApagaTudoAdvances ==
    ASSUME TenantInv, NEW c \in Chamadas, ApagaTudo(c)
    PROVE  \E n : AvancaPara(c, n)
<1>a. PICK r : r = ch[c]
  OBVIOUS
<1>t. PICK t : t = r.tocou \cup {Fonte(r)}
  OBVIOUS
<1>b. PICK n : n = Adiante(r, Fonte(r), t)
  OBVIOUS
<1>1. /\ r.estado = "fontes" /\ r.i <= Len(Fontes[r.servico]) /\ Permitida(r, Fonte(r))
      /\ dados' = [dados EXCEPT ![Fonte(r)] = {}]
      /\ UNCHANGED <<etapa, faltam, atual>>
  <2>1. \A S : S \ S = {}
    OBVIOUS
  <2>2. QED
    BY <1>a, <1>b, <2>1 DEF ApagaTudo, NaFonte, Apaga, Permitida
<1>2. r \in Tarefa /\ TarefaInv(r) /\ TenantState
  BY <1>a, <1>1, AtWork
<1>3. Fonte(r) \in Todas
  BY <1>a, <1>1, <1>2, AtASource
<1>4. ch' = [ch EXCEPT ![c] = n]
  BY <1>a, <1>b, <1>t, <1>2 DEF ApagaTudo, Muda, Proxima, Adiante, Tarefa
<1>5. /\ n \in Tarefa /\ n.estado = "fontes"
      /\ n.servico = r.servico /\ n.fase = r.fase /\ n.simular = r.simular /\ n.aceita = r.aceita
      /\ n.i = r.i + 1 /\ ToSet(n.itens) = ToSet(r.itens) \cup {Fonte(r)} /\ n.tocou = t
  <2>1. t \in SUBSET Todas
    BY <1>a, <1>t, <1>2, <1>3 DEF Tarefa
  <2>2. QED
    BY <1>a, <1>b, <1>2, <1>3, <2>1, NextIsATask
<1>6. /\ DOMAIN dados' = Todas /\ dados'[Fonte(r)] = {}
      /\ \A f \in Todas : dados'[f] \subseteq dados[f] /\ (dados'[f] # dados[f] => f = Fonte(r))
  BY <1>a, <1>1, <1>2, <1>3 DEF TenantState
<1>7. EmCurso(r)
  BY <1>a, <1>1 DEF EmCurso
<1>8. TarefaInv(n)'
  BY <1>t, <1>1, <1>2, <1>5, <1>6, NextSource
<1>9. AvancaPara(c, n)
  BY <1>a, <1>t, <1>1, <1>2, <1>4, <1>5, <1>6, <1>7, <1>8 DEF AvancaPara
<1>10. QED
  BY <1>9

LEMMA ListaAdvances ==
    ASSUME TenantInv, NEW c \in Chamadas, Lista(c)
    PROVE  \E n : AvancaPara(c, n)
<1>a. PICK r : r = ch[c]
  OBVIOUS
<1>b. PICK n : n = [r EXCEPT !.estado = "apagando", !.lista = dados[Fonte(r)]]
  OBVIOUS
<1>1. /\ r.estado = "fontes" /\ r.i <= Len(Fontes[r.servico]) /\ Permitida(r, Fonte(r))
      /\ Fonte(r) \in EmPartes
      /\ ch' = [ch EXCEPT ![c] = n] /\ UNCHANGED <<dados, etapa, faltam, atual>>
  BY <1>a, <1>b DEF Lista, NaFonte, Muda, Permitida
<1>2. r \in Tarefa /\ TarefaInv(r) /\ TenantState
  BY <1>a, <1>1, AtWork
<1>3. Fonte(r) \in Todas /\ r.i \in DOMAIN Fontes[r.servico]
  BY <1>a, <1>1, <1>2, AtASource
<1>4. n \in Tarefa
  <2>1. dados[Fonte(r)] \subseteq TodosOsItens
    BY <1>2, <1>3, TenantDadosAssumption DEF TenantState, TodosOsItens
  <2>2. QED
    BY <1>a, <1>b, <1>2, <2>1 DEF Tarefa
<1>5. /\ n.estado = "apagando" /\ n.lista = dados[Fonte(r)]
      /\ n.servico = r.servico /\ n.fase = r.fase /\ n.simular = r.simular /\ n.aceita = r.aceita
      /\ n.i = r.i /\ n.itens = r.itens /\ n.tocou = r.tocou
  BY <1>a, <1>b, <1>2 DEF Tarefa
<1>6. DOMAIN dados' = Todas /\ \A f \in Todas : dados'[f] = dados[f]
  BY <1>a, <1>1, <1>2 DEF TenantState
<1>7. TarefaInv(r)'
  BY <1>a, <1>1, <1>2, <1>6, OthersDelete
<1>8. TarefaInv(n)'
  <2>1. Fonte(n) = Fonte(r)
    BY <1>5 DEF Fonte
  <2>2. \A f : Permitida(n, f) <=> Permitida(r, f)
    BY <1>5 DEF Permitida, DaFase, SoConta, Simula
  <2>3. EmCurso(r) /\ EmCurso(n)
    BY <1>1, <1>5 DEF EmCurso
  <2>4. \A f \in r.tocou : Permitida(r, f) /\ f \in ToSet(r.itens)
    BY <1>1, <1>7 DEF TarefaInv, Permitida, DaFase, SoConta, Simula
  <2>5. dados'[Fonte(n)] \subseteq n.lista /\ n.i \in DOMAIN Fontes[n.servico]
    BY <1>3, <1>5, <1>6, <2>1
  <2>6. QED
    BY <1>1, <1>5, <1>7, <2>1, <2>2, <2>3, <2>4, <2>5
       DEF TarefaInv, EmCurso, Permitida, DaFase, SoConta, Simula
<1>9. AvancaPara(c, n)
  BY <1>a, <1>1, <1>2, <1>4, <1>5, <1>6, <1>8 DEF AvancaPara
<1>10. QED
  BY <1>9

LEMMA ExcluiAdvances ==
    ASSUME TenantInv, NEW c \in Chamadas, Exclui(c)
    PROVE  \E n : AvancaPara(c, n)
<1>a. PICK r : r = ch[c]
  OBVIOUS
<1>f. PICK f : f = Fonte(r)
  OBVIOUS
<1>1. r.estado = "apagando" /\ UNCHANGED <<etapa, faltam, atual>>
  BY <1>a DEF Exclui
<1>2. r \in Tarefa /\ TarefaInv(r) /\ TenantState
  BY <1>a, <1>1, AtWork
<1>3. /\ r.i \in DOMAIN Fontes[r.servico] /\ r.i <= Len(Fontes[r.servico]) /\ f \in Todas
      /\ Permitida(r, f) /\ f \in EmPartes /\ dados[f] \subseteq r.lista /\ EmCurso(r)
  <2>1. r.i \in DOMAIN Fontes[r.servico] /\ Permitida(r, f) /\ f \in EmPartes /\ dados[f] \subseteq r.lista
    BY <1>f, <1>1, <1>2 DEF TarefaInv
  <2>2. r.servico \in Servicos
    BY <1>2 DEF Tarefa
  <2>3. QED
    BY <1>f, <1>1, <2>1, <2>2, SourcesAreListed DEF Fonte, EmCurso
<1>4. CASE r.lista = {}
  <2>n. PICK n : n = Proxima(r, f)
    OBVIOUS
  <2>1. ch' = [ch EXCEPT ![c] = n] /\ dados' = dados
    BY <1>a, <1>f, <2>n, <1>4 DEF Exclui, Muda
  <2>2. /\ n \in Tarefa /\ n.estado = "fontes"
        /\ n.servico = r.servico /\ n.fase = r.fase /\ n.simular = r.simular /\ n.aceita = r.aceita
        /\ n.i = r.i + 1 /\ ToSet(n.itens) = ToSet(r.itens) \cup {f} /\ n.tocou = r.tocou
    <3>1. n = Adiante(r, f, r.tocou) /\ r.tocou \in SUBSET Todas
      BY <2>n, <1>2 DEF Tarefa, Proxima, Adiante
    <3>2. QED
      BY <1>2, <1>3, <3>1, NextIsATask
  <2>3. DOMAIN dados' = Todas /\ dados'[f] = {} /\ \A g \in Todas : dados'[g] = dados[g]
    BY <1>2, <1>3, <1>4, <2>1 DEF TenantState
  <2>4. TarefaInv(n)'
    BY <1>f, <1>1, <1>2, <1>3, <2>2, <2>3, NextSource
  <2>5. AvancaPara(c, n)
    BY <1>a, <1>1, <1>2, <1>3, <2>1, <2>2, <2>3, <2>4 DEF AvancaPara
  <2>6. QED
    BY <2>5
<1>5. CASE r.lista # {}
  <2>m. PICK m : m = Min(r.lista)
    OBVIOUS
  <2>n. PICK n : n = [r EXCEPT !.lista = @ \ {m}, !.tocou = @ \cup {f}]
    OBVIOUS
  <2>1. ch' = [ch EXCEPT ![c] = n] /\ dados' = [dados EXCEPT ![f] = @ \ {m}]
    BY <1>a, <1>f, <2>m, <2>n, <1>5 DEF Exclui, Muda, Apaga
  <2>2. n \in Tarefa
    BY <2>n, <1>2, <1>3 DEF Tarefa
  <2>3. /\ n.estado = "apagando" /\ n.lista = r.lista \ {m}
        /\ n.servico = r.servico /\ n.fase = r.fase /\ n.simular = r.simular /\ n.aceita = r.aceita
        /\ n.i = r.i /\ n.itens = r.itens /\ n.tocou = r.tocou \cup {f}
    BY <2>n, <1>1, <1>2 DEF Tarefa
  <2>4. /\ DOMAIN dados' = Todas /\ dados'[f] = dados[f] \ {m}
        /\ \A g \in Todas : dados'[g] \subseteq dados[g] /\ (dados'[g] # dados[g] => g = f)
    BY <1>2, <1>3, <2>1 DEF TenantState
  <2>5. TarefaInv(r)'
    BY <1>2, <2>4, OthersDelete
  <2>6. Fonte(n) = f
    BY <1>f, <2>3 DEF Fonte
  <2>7. dados'[f] \subseteq n.lista
    BY <1>3, <2>3, <2>4
  <2>8. \A g : Permitida(n, g) <=> Permitida(r, g)
    BY <2>3 DEF Permitida, DaFase, SoConta, Simula
  <2>9. Fonte(r) = f
    BY <1>f
  <2>10. TarefaInv(n)'
    BY <1>1, <1>3, <2>3, <2>5, <2>6, <2>7, <2>8, <2>9
       DEF TarefaInv, EmCurso, Permitida, DaFase, SoConta, Simula, Expurgaveis
  <2>11. AvancaPara(c, n)
    BY <1>a, <1>1, <1>2, <1>3, <2>1, <2>2, <2>3, <2>4, <2>10 DEF AvancaPara
  <2>12. QED
    BY <2>11
<1>6. QED
  BY <1>4, <1>5

LEMMA FalhaAdvances ==
    ASSUME TenantInv, NEW c \in Chamadas, Falha(c)
    PROVE  \E n : AvancaPara(c, n)
<1>a. PICK r : r = ch[c]
  OBVIOUS
<1>f. PICK f : f = Fonte(r)
  OBVIOUS
<1>1. /\ NaFonte(c) \/ r.estado = "apagando"
      /\ DaFase(r, f) /\ UNCHANGED <<etapa, faltam, atual>>
  BY <1>a, <1>f DEF Falha
<1>2. r.estado \in {"fontes", "apagando"}
  BY <1>a, <1>1 DEF NaFonte
<1>3. r \in Tarefa /\ TarefaInv(r) /\ TenantState
  BY <1>a, <1>2, AtWork
<1>4. r.i \in DOMAIN Fontes[r.servico] /\ f \in Todas
  <2>1. r.i \in DOMAIN Fontes[r.servico]
    BY <1>a, <1>1, <1>3, AtASource DEF TarefaInv, NaFonte
  <2>2. r.servico \in Servicos
    BY <1>3 DEF Tarefa
  <2>3. QED
    BY <1>f, <2>1, <2>2, SourcesAreListed DEF Fonte
<1>5. PICK itens :
         /\ itens # {} => ~SoConta(r, f)
         /\ dados' = [dados EXCEPT ![f] = @ \ itens]
         /\ ch' = [ch EXCEPT ![c] = Para([r EXCEPT !.tocou = @ \cup (IF itens = {} THEN {} ELSE {f})])]
  BY <1>a, <1>f DEF Falha, Apaga, Muda
<1>t. PICK t : t = r.tocou \cup (IF itens = {} THEN {} ELSE {f})
  OBVIOUS
<1>b. PICK n : n = Para([r EXCEPT !.tocou = t])
  OBVIOUS
<1>6. t \subseteq Todas /\ t \subseteq r.tocou \cup {f}
  BY <1>t, <1>3, <1>4 DEF Tarefa
<1>7. itens # {} => f \in t /\ Permitida(r, f)
  BY <1>t, <1>1, <1>5 DEF Permitida
<1>8. f \in t => Permitida(r, f)
  BY <1>t, <1>3, <1>7 DEF TarefaInv
<1>9. ch' = [ch EXCEPT ![c] = n]
  BY <1>t, <1>b, <1>3, <1>5 DEF Tarefa
<1>10. n \in Tarefa
  BY <1>b, <1>3, <1>6 DEF Tarefa, Para
<1>11. /\ n.estado = "erro"
       /\ n.servico = r.servico /\ n.fase = r.fase /\ n.simular = r.simular /\ n.aceita = r.aceita
       /\ n.i = r.i /\ n.itens = r.itens /\ n.tocou = t
  BY <1>b, <1>3 DEF Tarefa, Para
<1>12. /\ DOMAIN dados' = Todas
       /\ \A g \in Todas : dados'[g] \subseteq dados[g] /\ (dados'[g] # dados[g] => g = f /\ itens # {})
  BY <1>3, <1>4, <1>5 DEF TenantState
<1>13. TarefaInv(r)'
  BY <1>3, <1>12, OthersDelete
<1>14. EmCurso(r)
  BY <1>2 DEF EmCurso
<1>15. Fonte(n) = f
  BY <1>f, <1>11 DEF Fonte
<1>16. \A g : Permitida(n, g) <=> Permitida(r, g)
  BY <1>11 DEF Permitida, DaFase, SoConta, Simula
<1>17. \A g \in n.tocou : /\ Permitida(n, g)
                          /\ g \in ToSet(n.itens) \/ (n.i \in DOMAIN Fontes[n.servico] /\ g = Fonte(n))
  <2> SUFFICES ASSUME NEW g \in t, g # f PROVE Permitida(r, g) /\ g \in ToSet(r.itens)
    BY <1>4, <1>8, <1>11, <1>15, <1>16
  <2>1. g \in r.tocou
    BY <1>6
  <2>2. QED
    BY <1>f, <1>3, <2>1 DEF TarefaInv
<1>18. TarefaInv(n)'
  BY <1>11, <1>13, <1>16, <1>17
     DEF TarefaInv, EmCurso, Permitida, DaFase, SoConta, Simula
<1>19. AvancaPara(c, n)
  BY <1>a, <1>1, <1>3, <1>7, <1>9, <1>10, <1>11, <1>12, <1>14, <1>18 DEF AvancaPara
<1>20. QED
  BY <1>19

\* Every step of a handler goes from one task to the next and keeps what is known of it.
LEMMA HandlerSteps ==
    ASSUME TenantInv, NEW c \in Chamadas, Servico(c) \/ Falha(c)
    PROVE  \E n : AvancaPara(c, n)
BY RecebeAdvances, ConcluiAdvances, PulaAdvances, ContaAdvances, ApagaTudoAdvances, ListaAdvances, ExcluiAdvances, FalhaAdvances DEF Servico

-----------------------------------------------------------------------------
LEMMA TasksAreNotFree == \A n \in Tarefa : n # Livre
BY DEF Tarefa, Livre

LEMMA PurgeableAreSources ==
    \A s \in Servicos : \A fase : Expurgaveis(s, fase) \subseteq Todas
BY SourcesAreListed DEF Expurgaveis

\* What is known of a task is known of the call that has become it.
LEMMA TaskOfACall ==
    ASSUME NEW d, NEW r, ch'[d] = r, TarefaInv(r)'
    PROVE  TarefaInv(ch[d])'
BY DEF TarefaInv, EmCurso, Permitida, DaFase, SoConta, Simula, Fonte, Expurgaveis, Vazias

\* While data only goes, what is known of the calls stays: of one that does not move, and of all when
\* the call of c becomes n.
LEMMA TaskKept ==
    ASSUME TenantInv, \A f \in Todas : dados'[f] \subseteq dados[f], NEW d \in Chamadas,
           ch'[d] = ch[d], ch[d] # Livre
    PROVE  TarefaInv(ch[d])'
<1>1. PICK r : r = ch[d]
  OBVIOUS
<1>2. TenantState /\ r \in Tarefa /\ TarefaInv(r)
  BY <1>1 DEF TenantInv, TenantState, TarefasInv
<1>3. TarefaInv(r)'
  BY <1>2, OthersDelete
<1>4. QED
  BY <1>1, <1>3, TaskOfACall

LEMMA TasksKept ==
    ASSUME TenantInv, NEW c \in Chamadas, NEW n \in Tarefa \cup {Livre}, n # Livre => TarefaInv(n)',
           ch' = [ch EXCEPT ![c] = n], \A f \in Todas : dados'[f] \subseteq dados[f]
    PROVE  TarefasInv'
<1>1. TenantState
  BY DEF TenantInv
<1> SUFFICES ASSUME NEW d \in Chamadas, ch'[d] # Livre
             PROVE  TarefaInv(ch[d])'
  BY DEF TarefasInv
<1>2. CASE d = c
  <2>1. ch'[d] = n /\ TarefaInv(n)'
    BY <1>1, <1>2 DEF TenantState
  <2>2. QED
    BY <2>1, TaskOfACall
<1>3. CASE d # c
  <2>1. ch'[d] = ch[d]
    BY <1>1, <1>3 DEF TenantState
  <2>2. QED
    BY <2>1, TaskKept
<1>4. QED
  BY <1>2, <1>3

\* What was empty stays so.
LEMMA EmptyStays ==
    ASSUME TenantState, \A f \in Todas : dados'[f] \subseteq dados[f], NEW s \in Servicos, NEW fase,
           Vazias(s, fase)
    PROVE  Vazias(s, fase)'
BY PurgeableAreSources DEF Vazias, Expurgaveis

\* A call deletes only what it was asked for.
LEMMA HandlersDeleteInOrder ==
    ASSUME TenantInv, NEW c \in Chamadas, NEW n, AvancaPara(c, n)
    PROVE  SoApagaOPedido /\ CadastroPorUltimo'
<1>1. TenantState /\ TarefasInv /\ CadastroPorUltimo
  BY DEF TenantInv
<1>2. /\ ch[c] \in Tarefa /\ n \in Tarefa /\ ch'[c] = n /\ TarefaInv(ch[c])
      /\ \A f \in Todas : dados'[f] \subseteq dados[f]
      /\ \A f \in Todas : dados'[f] # dados[f] => EmCurso(ch[c]) /\ Permitida(ch[c], f) /\ f \in n.tocou
  BY <1>1, TasksAreNotFree DEF TenantState, TarefasInv, AvancaPara
<1>3. \A f \in Todas : dados'[f] # dados[f] =>
         /\ f \notin Retida /\ ch[c].estado # "livre" /\ f \in n.tocou
         /\ ch[c].aceita /\ ch[c].simular = "false" /\ ch[c].fase = Fase[f]
  BY <1>2 DEF TarefaInv, EmCurso, Permitida, DaFase, SoConta, Simula
<1>4. SoApagaOPedido
  BY <1>2, <1>3 DEF SoApagaOPedido
<1>5. CadastroPorUltimo'
  <2> SUFFICES ASSUME NEW f \in Todas, Fase[f] = 2, dados'[f] # Itens[f], NEW s \in Servicos
               PROVE  Vazias(s, 1)'
    BY DEF CadastroPorUltimo, Vazias
  <2>1. Vazias(s, 1)
    <3>1. CASE dados'[f] = dados[f]
      BY <1>1, <3>1 DEF CadastroPorUltimo, Vazias
    <3>2. CASE dados'[f] # dados[f]
      <4>1. ch[c].aceita /\ ch[c].simular = "false" /\ ch[c].fase = 2
        BY <1>3, <3>2
      <4>2. QED
        BY <1>2, <4>1 DEF TarefaInv
    <3>3. QED
      BY <3>1, <3>2
  <2>2. QED
    BY <1>1, <1>2, <2>1, EmptyStays
<1>6. QED
  BY <1>4, <1>5

\* While the orchestrator stays where it is, what its calls emptied stays empty.
LEMMA SuccessKept ==
    ASSUME TenantInv, \A f \in Todas : dados'[f] \subseteq dados[f], UNCHANGED <<etapa, faltam>>
    PROVE  SucessoQuerDizerApagado'
<1>1. TenantState /\ SucessoQuerDizerApagado
  BY DEF TenantInv
<1>2. \A s \in Servicos, fase \in 1..2 : Expurgaveis(s, fase) \subseteq Todas
  BY PurgeableAreSources
<1>3. QED
  BY <1>1, <1>2 DEF SucessoQuerDizerApagado, Expurgaveis

LEMMA HandlersKeepInv ==
    ASSUME TenantInv, NEW c \in Chamadas, NEW n, AvancaPara(c, n)
    PROVE  TenantInv' /\ SoApagaOPedido
<1>1. TenantState /\ EsperaInv
  BY DEF TenantInv
<1>2. /\ ch[c] \in Tarefa /\ n \in Tarefa /\ n # Livre
      /\ ch' = [ch EXCEPT ![c] = n] /\ TarefaInv(n)'
      /\ n.servico = ch[c].servico /\ n.fase = ch[c].fase /\ n.simular = ch[c].simular
      /\ n.aceita = ch[c].aceita
      /\ DOMAIN dados' = Todas /\ \A f \in Todas : dados'[f] \subseteq dados[f]
      /\ UNCHANGED <<etapa, faltam, atual>>
  BY TasksAreNotFree DEF AvancaPara
<1>3. TenantState'
  BY <1>1, <1>2 DEF TenantState
<1>4. TarefasInv'
  BY <1>2, TasksKept
<1>5. EsperaInv'
  BY <1>1, <1>2 DEF TenantState, EsperaInv
<1>6. SucessoQuerDizerApagado'
  BY <1>2, SuccessKept
<1>7. QED
  BY <1>3, <1>4, <1>5, <1>6, HandlersDeleteInOrder DEF TenantInv

-----------------------------------------------------------------------------
\* Steps that leave the data alone.
LEMMA QuietSteps ==
    ASSUME TenantInv, UNCHANGED dados
    PROVE  /\ SoApagaOPedido /\ CadastroPorUltimo'
           /\ DOMAIN dados' = Todas /\ \A f \in Todas : dados'[f] \subseteq Itens[f]
           /\ \A f \in Todas : dados'[f] \subseteq dados[f]
           /\ UNCHANGED <<etapa, faltam>> => SucessoQuerDizerApagado'
           /\ UNCHANGED ch => TarefasInv'
<1>1. TenantState /\ CadastroPorUltimo /\ TarefasInv
  BY DEF TenantInv
<1>2. SoApagaOPedido
  BY DEF SoApagaOPedido
<1>3. CadastroPorUltimo'
  BY <1>1 DEF CadastroPorUltimo, Expurgaveis
<1>4. /\ DOMAIN dados' = Todas /\ \A f \in Todas : dados'[f] \subseteq Itens[f]
      /\ \A f \in Todas : dados'[f] \subseteq dados[f]
  BY <1>1 DEF TenantState
<1>5. UNCHANGED <<etapa, faltam>> => SucessoQuerDizerApagado'
  BY <1>4, SuccessKept
<1>6. UNCHANGED ch => TarefasInv'
  BY <1>4, TaskKept DEF TarefasInv
<1>7. QED
  BY <1>2, <1>3, <1>4, <1>5, <1>6

LEMMA RequestsAreTasks ==
    ASSUME NEW s \in Servicos, NEW fase \in Int, NEW simular \in {"false", "true"}, NEW aceita \in BOOLEAN, NEW n,
           n = Pedido(s, fase, simular, aceita)
    PROVE  n \in Tarefa
<1>1. PICK vazia : vazia = <<>>
  OBVIOUS
<1>2. vazia \in Seq(Todas)
  BY <1>1
<1>3. n = [estado |-> "chegou", servico |-> s, fase |-> fase, simular |-> simular, aceita |-> aceita,
           i |-> 1, lista |-> {}, itens |-> vazia, tocou |-> {}]
  BY <1>1 DEF Pedido
<1>4. 1 \in Nat \ {0}
  OBVIOUS
<1>5. QED
  BY <1>2, <1>3, <1>4 DEF Tarefa

\* A new request, which has not read anything yet: if it may delete master data, the movement is gone.
LEMMA NewRequest ==
    ASSUME TenantInv, UNCHANGED dados, NEW c \in Chamadas, NEW n \in Tarefa,
           n.estado = "chegou", n.i = 1, n.itens = <<>>, n.tocou = {}, ch' = [ch EXCEPT ![c] = n],
           n.aceita /\ n.simular = "false" /\ n.fase = 2 => \A s \in Servicos : Vazias(s, 1)
    PROVE  n # Livre /\ ch' \in [Chamadas -> Tarefa \cup {Livre}] /\ ch'[c] = n /\ TarefasInv'
<1>1. TenantState
  BY DEF TenantInv
<1>2. ToSet(n.itens) = {}
  BY DEF ToSet
<1>3. TarefaInv(n)
  BY <1>2 DEF TarefaInv, EmCurso
<1>4. TarefaInv(n)'
  BY <1>1, <1>3, QuietSteps, OthersDelete
<1>5. TarefasInv'
  BY <1>4, QuietSteps, TasksKept
<1>6. ch' \in [Chamadas -> Tarefa \cup {Livre}] /\ ch'[c] = n
  BY <1>1 DEF TenantState
<1>7. QED
  BY <1>5, <1>6, TasksAreNotFree

\* A handler that is done makes room.
LEMMA CallOver ==
    ASSUME TenantInv, UNCHANGED dados, NEW c \in Chamadas, Muda(c, Livre)
    PROVE  ch' \in [Chamadas -> Tarefa \cup {Livre}] /\ TarefasInv'
<1>1. ch' = [ch EXCEPT ![c] = Livre] /\ TenantState
  BY DEF Muda, TenantInv
<1>2. ch' \in [Chamadas -> Tarefa \cup {Livre}]
  BY <1>1 DEF TenantState
<1>3. TarefasInv'
  BY <1>1, QuietSteps, TasksKept
<1>4. QED
  BY <1>2, <1>3

\* A call of the orchestrator that succeeded has emptied its service's sources of the phase.
LEMMA SuccessMeansPurged ==
    ASSUME TenantInv, atual # Ninguem, Sucesso(ch[atual])
    PROVE  etapa - 1 \in 1..2 => Vazias(ch[atual].servico, etapa - 1)
<1> DEFINE r == ch[atual]
<1>1. TenantState /\ EsperaInv /\ TarefasInv
  BY DEF TenantInv
<1>2. atual \in Chamadas
  BY <1>1 DEF TenantState
<1>3. /\ r.estado = "ok" /\ r.simular = "false" /\ r.fase = etapa - 1
      /\ r \in Tarefa /\ TarefaInv(r) /\ r.servico \in Servicos /\ r.i \in Nat
  BY <1>1, <1>2, AtWork DEF EsperaInv, Sucesso
<1>4. r.i > Len(Fontes[r.servico])
  BY <1>3 DEF TarefaInv
<1>5. r.fase # 0 => \A j \in DOMAIN Fontes[r.servico] :
        j < r.i /\ Fontes[r.servico][j] \in Expurgaveis(r.servico, r.fase)
           => dados[Fontes[r.servico][j]] = {}
  BY <1>3 DEF TarefaInv, EmCurso
<1> SUFFICES ASSUME etapa - 1 \in 1..2, NEW f \in Expurgaveis(r.servico, r.fase)
             PROVE  dados[f] = {}
  BY <1>3 DEF Vazias
<1>6. PICK j \in DOMAIN Fontes[r.servico] : f = Fontes[r.servico][j]
  BY <1>3, SourcesAreListed DEF Expurgaveis
<1>7. j < r.i
  BY <1>3, <1>4, SourcesAreListed
<1>8. QED
  BY <1>3, <1>5, <1>6, <1>7

LEMMA RespondeKeepsInv == ASSUME TenantInv, Responde PROVE TenantInv' /\ SoApagaOPedido
<1> DEFINE resta == IF Sucesso(ch[atual]) THEN faltam \ {ch[atual].servico} ELSE faltam
<1>1. /\ TenantState /\ EsperaInv /\ SucessoQuerDizerApagado /\ UNCHANGED dados /\ atual # Ninguem
      /\ Muda(atual, Livre) /\ atual' = Ninguem
  BY DEF TenantInv, Responde
<1>2. /\ resta = {} => etapa' = etapa + 1 /\ faltam' = Servicos
      /\ resta # {} => etapa' = etapa /\ faltam' = resta
  BY DEF Responde
<1>3. atual \in Chamadas /\ etapa \in 1..3 /\ resta \subseteq Servicos
  BY <1>1 DEF TenantState, EsperaInv, Exportacao, Fim
<1>4. \A s \in Servicos : s \notin resta =>
         s \notin faltam \/ (Sucesso(ch[atual]) /\ s = ch[atual].servico)
  OBVIOUS
<1> HIDE DEF resta
<1>5. \A s \in Servicos, fase \in 1..2 :
         etapa > fase + 1 \/ (etapa = fase + 1 /\ s \notin resta) => Vazias(s, fase)
  <2> SUFFICES ASSUME NEW s \in Servicos, NEW fase \in 1..2,
                      etapa > fase + 1 \/ (etapa = fase + 1 /\ s \notin resta)
               PROVE  Vazias(s, fase)
    OBVIOUS
  <2>1. CASE etapa > fase + 1 \/ s \notin faltam
    BY <1>1, <2>1 DEF SucessoQuerDizerApagado, Vazias
  <2>2. CASE etapa = fase + 1 /\ Sucesso(ch[atual]) /\ s = ch[atual].servico
    <3>1. fase = etapa - 1
      BY <1>3, <2>2
    <3>2. QED
      BY <1>1, <2>2, <3>1, SuccessMeansPurged
  <2>3. QED
    BY <1>4, <2>1, <2>2
<1>6. SucessoQuerDizerApagado'
  <2> SUFFICES ASSUME NEW s \in Servicos, NEW fase \in 1..2,
                      etapa' > fase + 1 \/ (etapa' = fase + 1 /\ s \notin faltam')
               PROVE  Vazias(s, fase)'
    BY DEF SucessoQuerDizerApagado, Vazias, Expurgaveis
  <2>1. etapa > fase + 1 \/ (etapa = fase + 1 /\ s \notin resta)
    <3>1. CASE resta = {}
      BY <1>2, <1>3, <3>1
    <3>2. CASE resta # {}
      BY <1>2, <1>3, <3>2
    <3>3. QED
      BY <3>1, <3>2
  <2>2. QED
    BY <1>1, <1>5, <2>1, QuietSteps, EmptyStays
<1>7. ch' \in [Chamadas -> Tarefa \cup {Livre}] /\ TarefasInv'
  BY <1>1, <1>3, CallOver
<1>8. TenantState'
  BY <1>1, <1>2, <1>3, <1>7, QuietSteps DEF TenantState, Parado, Fim
<1>9. EsperaInv'
  BY <1>1 DEF EsperaInv
<1>10. QED
  BY <1>1, <1>6, <1>7, <1>8, <1>9, QuietSteps DEF TenantInv

LEMMA ChamaKeepsInv == ASSUME TenantInv, Chama PROVE TenantInv' /\ SoApagaOPedido
<1>1. /\ TenantState /\ SucessoQuerDizerApagado
      /\ UNCHANGED <<dados, etapa, faltam>> /\ etapa \in Exportacao..(Fim - 1)
  BY DEF TenantInv, Chama
<1>2. PICK s \in faltam, c \in Chamadas :
         ch' = [ch EXCEPT ![c] = Pedido(s, etapa - 1, "false", TRUE)] /\ atual' = c
  BY DEF Chama, Muda
<1>3. PICK n : n = Pedido(s, etapa - 1, "false", TRUE)
  OBVIOUS
<1>4. s \in Servicos /\ etapa \in 1..3 /\ etapa - 1 \in Int
  BY <1>1 DEF TenantState, Exportacao, Fim
<1>5. etapa - 1 = 2 => \A x \in Servicos : Vazias(x, 1)
  BY <1>1, <1>4 DEF SucessoQuerDizerApagado, Vazias
<1>6. /\ n \in Tarefa /\ n.estado = "chegou" /\ n.i = 1 /\ n.itens = <<>> /\ n.tocou = {}
      /\ n.servico = s /\ n.fase = etapa - 1 /\ n.simular = "false" /\ n.aceita
  <2>1. /\ n.estado = "chegou" /\ n.i = 1 /\ n.itens = <<>> /\ n.tocou = {}
        /\ n.servico = s /\ n.fase = etapa - 1 /\ n.simular = "false" /\ n.aceita
    BY <1>3 DEF Pedido
  <2>2. n \in Tarefa
    <3>1. TRUE \in BOOLEAN /\ "false" \in {"false", "true"}
      OBVIOUS
    <3>2. QED
      BY <1>3, <1>4, <3>1, RequestsAreTasks
  <2>3. QED
    BY <2>1, <2>2
<1>7. ch' = [ch EXCEPT ![c] = n]
  BY <1>2, <1>3
<1>8. n # Livre /\ ch' \in [Chamadas -> Tarefa \cup {Livre}] /\ ch'[c] = n /\ TarefasInv'
  BY <1>1, <1>5, <1>6, <1>7, NewRequest
<1>9. TenantState'
  BY <1>1, <1>2, <1>8, QuietSteps DEF TenantState
<1>10. EsperaInv'
  BY <1>1, <1>2, <1>6, <1>8 DEF EsperaInv
<1>11. QED
  BY <1>1, <1>9, <1>10, <1>8, QuietSteps DEF TenantInv

LEMMA AvulsaKeepsInv == ASSUME TenantInv, Avulsa PROVE TenantInv' /\ SoApagaOPedido
<1>1. TenantState /\ EsperaInv /\ UNCHANGED <<dados, etapa, faltam, atual>>
  BY DEF TenantInv, Avulsa
<1>2. PICK c \in Chamadas, s \in Servicos, fase \in 1..3, simular \in {"false", "true"}, aceita \in BOOLEAN :
         /\ ch[c] = Livre /\ (~aceita \/ simular # "false" \/ fase = 3)
         /\ ch' = [ch EXCEPT ![c] = Pedido(s, fase, simular, aceita)]
  BY DEF Avulsa, Muda
<1>3. PICK n : n = Pedido(s, fase, simular, aceita)
  OBVIOUS
<1>4. /\ n \in Tarefa /\ n.estado = "chegou" /\ n.i = 1 /\ n.itens = <<>> /\ n.tocou = {}
      /\ ~(n.aceita /\ n.simular = "false" /\ n.fase = 2)
  <2>1. /\ n.estado = "chegou" /\ n.i = 1 /\ n.itens = <<>> /\ n.tocou = {} /\ n.fase = fase
        /\ n.simular = simular /\ n.aceita = aceita
    BY <1>3 DEF Pedido
  <2>2. n \in Tarefa
    <3>1. fase \in Int
      OBVIOUS
    <3>2. QED
      BY <1>3, <3>1, RequestsAreTasks
  <2>3. QED
    BY <1>2, <2>1, <2>2
<1>5. ch' = [ch EXCEPT ![c] = n]
  BY <1>2, <1>3
<1>6. n # Livre /\ ch' \in [Chamadas -> Tarefa \cup {Livre}] /\ TarefasInv'
  BY <1>1, <1>3, <1>4, <1>5, NewRequest
<1>7. TenantState'
  BY <1>1, <1>6, QuietSteps DEF TenantState
<1>8. EsperaInv'
  BY <1>1, <1>2, <1>5 DEF TenantState, EsperaInv
<1>9. QED
  BY <1>1, <1>6, <1>7, <1>8, QuietSteps DEF TenantInv

LEMMA TenantInvNext == TenantInv /\ [TenantNext]_tenantVars => TenantInv' /\ (SoApagaOPedido \/ UNCHANGED tenantVars)
<1> SUFFICES ASSUME TenantInv, [TenantNext]_tenantVars
             PROVE  TenantInv' /\ (SoApagaOPedido \/ UNCHANGED tenantVars)
  OBVIOUS
<1>1. TenantState /\ EsperaInv
  BY DEF TenantInv
<1>2. ASSUME NEW c \in Chamadas, Servico(c) \/ Falha(c) PROVE TenantInv' /\ SoApagaOPedido
  <2>1. PICK n : AvancaPara(c, n)
    BY <1>2, HandlerSteps
  <2>2. QED
    BY <2>1, HandlersKeepInv
<1>3. ASSUME NEW c \in Chamadas, Descarta(c) PROVE TenantInv' /\ SoApagaOPedido
  <2>1. c # atual /\ Muda(c, Livre) /\ UNCHANGED <<dados, etapa, faltam, atual>>
    BY <1>3 DEF Descarta
  <2>2. ch' \in [Chamadas -> Tarefa \cup {Livre}] /\ TarefasInv'
    BY <2>1, CallOver
  <2>3. TenantState'
    BY <1>1, <2>1, <2>2, QuietSteps DEF TenantState
  <2>4. EsperaInv'
    BY <1>1, <2>1 DEF TenantState, EsperaInv, Muda
  <2>5. QED
    BY <2>1, <2>2, <2>3, <2>4, QuietSteps DEF TenantInv
<1>4. CASE Comeca
  <2>1. UNCHANGED <<dados, ch, faltam, atual>> /\ etapa = 0 /\ etapa' = 1
    BY <1>4 DEF Comeca, Parado, Exportacao
  <2>2. TenantState'
    BY <1>1, <2>1 DEF TenantState, Parado, Fim
  <2>3. EsperaInv'
    BY <1>1, <2>1 DEF EsperaInv, Exportacao, Fim
  <2>4. SucessoQuerDizerApagado'
    BY <2>1 DEF SucessoQuerDizerApagado
  <2>5. QED
    BY <2>1, <2>2, <2>3, <2>4, QuietSteps DEF TenantInv
<1>5. CASE Desiste
  <2>1. UNCHANGED <<dados, ch, etapa, faltam>> /\ atual' = Ninguem
    BY <1>5 DEF Desiste
  <2>2. TenantState' /\ EsperaInv'
    BY <1>1, <2>1 DEF TenantState, EsperaInv
  <2>3. QED
    BY <2>1, <2>2, QuietSteps DEF TenantInv
<1>6. CASE UNCHANGED tenantVars
  <2>1. UNCHANGED <<dados, ch, etapa, faltam, atual>>
    BY <1>6 DEF tenantVars
  <2>2. TenantState' /\ EsperaInv'
    BY <1>1, <2>1 DEF TenantState, EsperaInv
  <2>3. QED
    BY <1>6, <2>1, <2>2, QuietSteps DEF TenantInv
<1>7. QED
  BY <1>2, <1>3, <1>4, <1>5, <1>6, ChamaKeepsInv, RespondeKeepsInv, AvulsaKeepsInv DEF TenantNext

LEMMA TenantSpecInv == TenantSpec => []TenantInv
<1>1. TenantInv /\ [TenantNext]_tenantVars => TenantInv'
  BY TenantInvNext
<1>2. QED
  BY <1>1, TenantInvInit, PTL DEF TenantSpec

LEMMA TenantInvTypes == TenantInv => TenantTypeOK
<1> SUFFICES ASSUME TenantInv PROVE TenantTypeOK
  OBVIOUS
<1>1. TenantState /\ EsperaInv
  BY DEF TenantInv
<1>2. \A c \in Chamadas : ch[c].estado \in {"livre", "chegou", "fontes", "apagando", "ok", "erro"}
  BY <1>1 DEF TenantState, Tarefa, Livre
<1>3. QED
  BY <1>1, <1>2 DEF TenantState, EsperaInv, TenantTypeOK

\* TypeOK of the purge: the call that is waited for is at work, for a service that has still to answer.
THEOREM TenantTypes == TenantSpec => []TenantTypeOK
BY TenantSpecInv, TenantInvTypes, PTL

\* However often calls are repeated, overlap or fail half-way: the answer of a failed call names all
\* the sources it emptied, of those it touched only the one it stopped at is missing, and when the
\* orchestrator has gone past a service, nothing of that phase is left there (expurgo.go).
THEOREM ReportsAreTrue == TenantSpec => []RelatorioVerdadeiro
<1>1. TenantInv => RelatorioVerdadeiro
  <2> SUFFICES ASSUME TenantInv PROVE RelatorioVerdadeiro
    OBVIOUS
  <2>1. SucessoQuerDizerApagado
    BY DEF TenantInv
  <2>2. SabeOndeParou
    <3> SUFFICES ASSUME NEW c \in Chamadas, ch[c].estado = "erro"
                 PROVE  LET nomeadas == ToSet(ch[c].itens)
                        IN /\ \A f \in ch[c].tocou : f \in nomeadas => dados[f] = {}
                           /\ \A f \in ch[c].tocou \ nomeadas :
                                 ch[c].i \in DOMAIN Fontes[ch[c].servico] /\ f = Fonte(ch[c])
      BY DEF SabeOndeParou
    <3>1. TarefaInv(ch[c])
      BY AtWork
    <3>2. QED
      BY <3>1 DEF TarefaInv
  <2>3. QED
    BY <2>1, <2>2 DEF RelatorioVerdadeiro
<1>2. QED
  BY <1>1, TenantSpecInv, PTL

\* Data goes only on a call with a valid key and company that says simular=false, only of sources
\* of the phase that it names and never of one that is kept; and no master data goes while any
\* service holds movement (Servico.Expurgar).
THEOREM PurgeInOrder == TenantSpec => ExpurgoEmOrdem
<1>1. TenantInv /\ [TenantNext]_tenantVars => [SoApagaOPedido /\ CadastroPorUltimo']_tenantVars
  BY TenantInvNext DEF TenantInv
<1>2. QED
  BY <1>1, TenantSpecInv, PTL DEF TenantSpec, ExpurgoEmOrdem

(* ----------------------- Why the purge ends ---------------------------- *)

\* The record n of a call is further on than r: it was let in or answered, is at the next of
\* its sources, has listed the keys of the one it is at, or has fewer of them left.
Atendida(r) == r.estado \in {"chegou", "fontes", "apagando"}
Adiantada(r, n) ==
    /\ Atendida(r) /\ n # Livre /\ n.servico = r.servico
    /\ \/ r.estado = "chegou" /\ n.estado \in {"fontes", "erro"} /\ n.i = r.i
       \/ r.estado # "chegou" /\ n.estado \in {"ok", "erro"} /\ n.i = r.i
       \/ r.estado # "chegou" /\ n.estado = "fontes" /\ n.i = r.i + 1 /\ r.i <= Len(Fontes[r.servico])
       \/ r.estado = "fontes" /\ n.estado = "apagando" /\ n.i = r.i
       \/ /\ r.estado = "apagando" /\ n.estado = "apagando" /\ n.i = r.i
          /\ n.lista \subseteq r.lista /\ n.lista # r.lista

\* Each step of a handler brings its call nearer to an answer and nothing sends it back; the
\* orchestrator's own call fails by a failure only; and no success is asked for again, nor a step
\* left before all services have had it.
PurgeGoesOn ==
    /\ \A c \in Chamadas :
          /\ Servico(c) => Adiantada(ch[c], ch'[c])
          /\ Atendida(ch[c]) => ch'[c] = ch[c] \/ Adiantada(ch[c], ch'[c])
    /\ atual # Ninguem /\ ch[atual].estado # "erro" /\ ch'[atual].estado = "erro" => falhas' = falhas + 1
    /\ etapa' > etapa \/ (etapa' = etapa /\ faltam' \subseteq faltam)
    /\ Responde /\ Sucesso(ch[atual]) => etapa' > etapa \/ faltam' # faltam
    /\ etapa' > etapa /\ etapa # Parado => faltam \subseteq {ch[atual].servico} /\ Sucesso(ch[atual])

LEMMA LeastKey ==
    ASSUME NEW S \in SUBSET Nat, S # {}
    PROVE  Min(S) \in S
<1>1. PICK x \in S : \A y \in S : ~(<<y, x>> \in OpToRel(<, Nat))
  BY NatLessThanWellFounded, WFMin
<1>2. \A y \in S : x <= y
  <2> SUFFICES ASSUME NEW y \in S, ~(x <= y) PROVE FALSE
    OBVIOUS
  <2>1. y < x /\ <<y, x>> \in Nat \X Nat
    OBVIOUS
  <2>2. QED
    BY <1>1, <2>1 DEF OpToRel
<1>3. QED
  BY <1>2 DEF Min

LEMMA HandlersFurther ==
    ASSUME TenantInv, NEW c \in Chamadas, Servico(c) \/ Falha(c)
    PROVE  ch[c] \in Tarefa /\ \E n : ch' = [ch EXCEPT ![c] = n] /\ Adiantada(ch[c], n)
<1>a. PICK r : r = ch[c]
  OBVIOUS
<1>1. Atendida(r)
  BY <1>a DEF Servico, Recebe, Pula, Conta, ApagaTudo, Lista, Exclui, Falha, Conclui, NaFonte, Atendida
<1>2. /\ r \in Tarefa /\ TarefaInv(r) /\ TenantState /\ r.i \in Nat /\ r.servico \in Servicos
      /\ r.lista \subseteq TodosOsItens
  BY <1>a, <1>1, AtWork DEF Atendida, Tarefa
<1>3. r.estado = "apagando" => r.i <= Len(Fontes[r.servico])
  BY <1>2, SourcesAreListed DEF TarefaInv
<1>4. CASE Recebe(c) \/ Conclui(c)
  <2>1. PICK e \in {"fontes", "erro", "ok"} :
           /\ ch' = [ch EXCEPT ![c] = [r EXCEPT !.estado = e]]
           /\ \/ r.estado = "chegou" /\ e # "ok"
              \/ r.estado = "fontes" /\ e = "ok"
    BY <1>a, <1>4 DEF Recebe, Conclui, Muda
  <2>2. PICK n : n = [r EXCEPT !.estado = e]
    OBVIOUS
  <2>3. n.estado = e /\ n.i = r.i /\ n.servico = r.servico
    BY <1>2, <2>2 DEF Tarefa
  <2>4. Adiantada(r, n)
    BY <1>1, <2>1, <2>3 DEF Adiantada, Livre
  <2>5. QED
    BY <1>a, <1>2, <2>1, <2>2, <2>4
<1>5. CASE Pula(c)
  <2>1. PICK n : n = [r EXCEPT !.i = @ + 1]
    OBVIOUS
  <2>2. ch' = [ch EXCEPT ![c] = n] /\ r.estado = "fontes" /\ r.i <= Len(Fontes[r.servico])
    BY <1>a, <1>5, <2>1 DEF Pula, NaFonte, Muda
  <2>3. n.estado = "fontes" /\ n.i = r.i + 1 /\ n.servico = r.servico
    BY <1>2, <2>1, <2>2 DEF Tarefa
  <2>4. Adiantada(r, n)
    BY <1>1, <2>2, <2>3 DEF Adiantada, Livre
  <2>5. QED
    BY <1>a, <1>2, <2>2, <2>4
<1>6. CASE Conta(c)
  <2>1. PICK n : n = Proxima(r, Fonte(r))
    OBVIOUS
  <2>2. ch' = [ch EXCEPT ![c] = n] /\ r.estado = "fontes" /\ r.i <= Len(Fontes[r.servico])
    BY <1>a, <1>6, <2>1 DEF Conta, NaFonte, Muda
  <2>3. n.estado = "fontes" /\ n.i = r.i + 1 /\ n.servico = r.servico
    BY <1>2, <2>1 DEF Tarefa, Proxima
  <2>4. Adiantada(r, n)
    BY <1>1, <2>2, <2>3 DEF Adiantada, Livre
  <2>5. QED
    BY <1>a, <1>2, <2>2, <2>4
<1>7. CASE ApagaTudo(c)
  <2>1. PICK n : n = Adiante(r, Fonte(r), r.tocou \cup {Fonte(r)})
    OBVIOUS
  <2>2. r.estado = "fontes" /\ r.i <= Len(Fontes[r.servico])
    BY <1>a, <1>7 DEF ApagaTudo, NaFonte
  <2>3. ch' = [ch EXCEPT ![c] = n]
    BY <1>a, <1>2, <1>7, <2>1 DEF ApagaTudo, Muda, Proxima, Adiante, Tarefa
  <2>4. n.estado = "fontes" /\ n.i = r.i + 1 /\ n.servico = r.servico
    BY <1>2, <2>1 DEF Tarefa, Proxima, Adiante
  <2>5. Adiantada(r, n)
    BY <1>1, <2>2, <2>4 DEF Adiantada, Livre
  <2>6. QED
    BY <1>a, <1>2, <2>3, <2>5
<1>8. CASE Lista(c)
  <2>1. PICK n : n = [r EXCEPT !.estado = "apagando", !.lista = dados[Fonte(r)]]
    OBVIOUS
  <2>2. ch' = [ch EXCEPT ![c] = n] /\ r.estado = "fontes"
    BY <1>a, <1>8, <2>1 DEF Lista, NaFonte, Muda
  <2>3. n.estado = "apagando" /\ n.i = r.i /\ n.servico = r.servico
    BY <1>2, <2>1 DEF Tarefa
  <2>4. Adiantada(r, n)
    BY <1>1, <2>2, <2>3 DEF Adiantada, Livre
  <2>5. QED
    BY <1>a, <1>2, <2>2, <2>4
<1>9. CASE Exclui(c) /\ r.lista = {}
  <2>1. PICK n : n = Proxima(r, Fonte(r))
    OBVIOUS
  <2>2. ch' = [ch EXCEPT ![c] = n] /\ r.estado = "apagando"
    BY <1>a, <1>9, <2>1 DEF Exclui, Muda
  <2>3. n.estado = "fontes" /\ n.i = r.i + 1 /\ n.servico = r.servico
    BY <1>2, <2>1 DEF Tarefa, Proxima
  <2>4. Adiantada(r, n)
    BY <1>1, <1>3, <2>2, <2>3 DEF Adiantada, Livre
  <2>5. QED
    BY <1>a, <1>2, <2>2, <2>4
<1>10. CASE Exclui(c) /\ r.lista # {}
  <2>1. Min(r.lista) \in r.lista
    <3>1. TodosOsItens \subseteq Nat
      BY TenantDadosAssumption DEF TodosOsItens
    <3>2. QED
      BY <1>2, <1>10, <3>1, LeastKey
  <2>2. PICK m \in r.lista : m = Min(r.lista)
    BY <2>1
  <2>3. PICK n : n = [r EXCEPT !.lista = @ \ {m}, !.tocou = @ \cup {Fonte(r)}]
    OBVIOUS
  <2>4. ch' = [ch EXCEPT ![c] = n] /\ r.estado = "apagando"
    BY <1>a, <1>10, <2>2, <2>3 DEF Exclui, Muda
  <2>5. n.estado = "apagando" /\ n.i = r.i /\ n.servico = r.servico /\ n.lista = r.lista \ {m}
    BY <1>2, <2>3, <2>4 DEF Tarefa
  <2>6. Adiantada(r, n)
    BY <1>1, <2>2, <2>4, <2>5 DEF Adiantada, Livre
  <2>7. QED
    BY <1>a, <1>2, <2>4, <2>6
<1>11. CASE Falha(c)
  <2>1. PICK t : ch' = [ch EXCEPT ![c] = Para([r EXCEPT !.tocou = t])] /\ r.estado # "chegou"
    BY <1>a, <1>11 DEF Falha, NaFonte, Muda
  <2>2. PICK n : n = Para([r EXCEPT !.tocou = t])
    OBVIOUS
  <2>3. n.estado = "erro" /\ n.i = r.i /\ n.servico = r.servico
    BY <1>2, <2>2 DEF Para, Tarefa
  <2>4. Adiantada(r, n)
    BY <1>1, <2>1, <2>3 DEF Adiantada, Livre
  <2>5. QED
    BY <1>a, <1>2, <2>1, <2>2, <2>4
<1>12. QED
  BY <1>4, <1>5, <1>6, <1>7, <1>8, <1>9, <1>10, <1>11 DEF Servico

\* A handler answers with an error only what it refuses and what fails.
LEMMA RefusedOnly ==
    ASSUME TenantInv, NEW c \in Chamadas, Servico(c), ch'[c].estado = "erro"
    PROVE  ~(ch[c].aceita /\ ch[c].fase \in 0..2)
<1>a. PICK r : r = ch[c]
  OBVIOUS
<1>1. r \in Tarefa
  BY <1>a, HandlersFurther
<1>2. ch \in [Chamadas -> Tarefa \cup {Livre}]
  BY DEF TenantInv, TenantState
<1>3. \A e : ch' = [ch EXCEPT ![c] = e] => ch'[c] = e
  BY <1>2
<1>4. CASE Recebe(c)
  <2>1. PICK n : n = [r EXCEPT !.estado = IF r.aceita /\ r.fase \in 0..2 THEN "fontes" ELSE "erro"]
    OBVIOUS
  <2>2. ch'[c] = n
    BY <1>a, <1>3, <1>4, <2>1 DEF Recebe, Muda
  <2>3. n.estado = IF r.aceita /\ r.fase \in 0..2 THEN "fontes" ELSE "erro"
    BY <1>1, <2>1 DEF Tarefa
  <2>4. QED
    BY <1>a, <2>2, <2>3
<1>5. CASE Conclui(c)
  <2>1. ch'[c] = [r EXCEPT !.estado = "ok"]
    BY <1>a, <1>3, <1>5 DEF Conclui, Muda
  <2>2. QED
    BY <1>1, <2>1 DEF Tarefa
<1>6. CASE Pula(c)
  <2>1. ch'[c] = [r EXCEPT !.i = @ + 1] /\ r.estado = "fontes"
    BY <1>a, <1>3, <1>6 DEF Pula, NaFonte, Muda
  <2>2. QED
    BY <1>1, <2>1 DEF Tarefa
<1>7. CASE Lista(c)
  <2>1. ch'[c] = [r EXCEPT !.estado = "apagando", !.lista = dados[Fonte(r)]]
    BY <1>a, <1>3, <1>7 DEF Lista, Muda
  <2>2. QED
    BY <1>1, <2>1 DEF Tarefa
<1>8. CASE Conta(c)
  <2>1. ch'[c] = Proxima(r, Fonte(r))
    BY <1>a, <1>3, <1>8 DEF Conta, Muda
  <2>2. QED
    BY <1>1, <2>1 DEF Proxima, Tarefa
<1>9. CASE ApagaTudo(c)
  <2>1. PICK p : p = Proxima(r, Fonte(r))
    OBVIOUS
  <2>2. ch'[c] = [p EXCEPT !.tocou = @ \cup {Fonte(r)}]
    BY <1>a, <1>3, <1>9, <2>1 DEF ApagaTudo, Muda
  <2>3. p.estado = "fontes"
    BY <1>1, <2>1 DEF Proxima, Tarefa
  <2>4. ch'[c].estado = p.estado
    BY <2>2
  <2>5. QED
    BY <2>3, <2>4
<1>10. CASE Exclui(c)
  <2>1. CASE r.lista = {}
    <3>1. ch'[c] = Proxima(r, Fonte(r))
      BY <1>a, <1>3, <1>10, <2>1 DEF Exclui, Muda
    <3>2. QED
      BY <1>1, <3>1 DEF Proxima, Tarefa
  <2>2. CASE r.lista # {}
    <3>1. ch'[c] = [r EXCEPT !.lista = @ \ {Min(r.lista)}, !.tocou = @ \cup {Fonte(r)}] /\ r.estado = "apagando"
      BY <1>a, <1>3, <1>10, <2>2 DEF Exclui, Muda
    <3>2. QED
      BY <1>1, <3>1 DEF Tarefa
  <2>3. QED
    BY <2>1, <2>2
<1>11. QED
  BY <1>4, <1>5, <1>6, <1>7, <1>8, <1>9, <1>10 DEF Servico

\* The orchestrator always has somebody to ask.
Pendentes == Servicos # {} => faltam # {}

\* A reply takes the orchestrator on: a success once for each service.
LEMMA RespondeAdvances ==
    ASSUME TenantInv, Responde
    PROVE  /\ etapa' > etapa \/ (etapa' = etapa /\ faltam' \subseteq faltam)
           /\ Sucesso(ch[atual]) => etapa' > etapa \/ faltam' # faltam
           /\ etapa' > etapa => faltam \subseteq {ch[atual].servico} /\ Sucesso(ch[atual])
           /\ Pendentes'
           /\ atual # Ninguem /\ ch' = [ch EXCEPT ![atual] = Livre] /\ ch[atual].estado \in {"ok", "erro"}
<1> DEFINE resta == IF Sucesso(ch[atual]) THEN faltam \ {ch[atual].servico} ELSE faltam
<1>1. /\ resta = {} => etapa' = etapa + 1 /\ faltam' = Servicos
      /\ resta # {} => etapa' = etapa /\ faltam' = resta
      /\ atual # Ninguem /\ ch' = [ch EXCEPT ![atual] = Livre] /\ ch[atual].estado \in {"ok", "erro"}
  BY DEF Responde, Muda
<1>2. ch[atual].servico \in faltam /\ etapa \in Int
  BY <1>1 DEF TenantInv, EsperaInv, Exportacao, Fim
<1>3. /\ resta \subseteq faltam
      /\ Sucesso(ch[atual]) => ch[atual].servico \notin resta
      /\ resta = {} => Sucesso(ch[atual]) /\ faltam \subseteq {ch[atual].servico}
  BY <1>2
<1> HIDE DEF resta
<1>4. CASE resta = {}
  <2>1. etapa' > etapa
    BY <1>1, <1>2, <1>4
  <2>2. QED
    BY <1>1, <1>3, <1>4, <2>1 DEF Pendentes
<1>5. CASE resta # {}
  <2>1. ~(etapa' > etapa)
    BY <1>1, <1>2, <1>5
  <2>2. QED
    BY <1>1, <1>2, <1>3, <1>5, <2>1 DEF Pendentes
<1>6. QED
  BY <1>4, <1>5

\* Where a call is at work: a step of a handler moves its own call, all others leave it alone.
LEMMA CallsFurther ==
    ASSUME TenantInv, [TenantNext]_tenantVars, NEW c \in Chamadas
    PROVE  /\ Servico(c) => Adiantada(ch[c], ch'[c])
           /\ Atendida(ch[c]) => ch'[c] = ch[c] \/ Adiantada(ch[c], ch'[c])
<1>1. ch \in [Chamadas -> Tarefa \cup {Livre}] /\ atual \in Chamadas \cup {Ninguem} /\ Ninguem \notin Chamadas
  BY TenantDadosAssumption DEF TenantInv, TenantState
<1>2. ASSUME NEW d \in Chamadas, Servico(d) \/ Falha(d)
      PROVE  Adiantada(ch[d], ch'[d]) /\ \A e \in Chamadas : e # d => ch'[e] = ch[e]
  <2>1. PICK n : ch' = [ch EXCEPT ![d] = n] /\ Adiantada(ch[d], n)
    BY <1>2, HandlersFurther
  <2>2. QED
    BY <1>1, <2>1
<1>3. ASSUME NEW d \in Chamadas, NEW n, ch' = [ch EXCEPT ![d] = n], ~Atendida(ch[d])
      PROVE  Atendida(ch[c]) => ch'[c] = ch[c]
  BY <1>1, <1>3
<1>4. Atendida(ch[c]) => ch'[c] = ch[c] \/ Adiantada(ch[c], ch'[c])
  <2>1. CASE \E d \in Chamadas : Servico(d) \/ Falha(d)
    BY <1>2, <2>1
  <2>2. CASE \E d \in Chamadas : Descarta(d)
    BY <1>3, <2>2 DEF Descarta, Muda, Atendida
  <2>3. CASE Responde
    BY <1>1, <1>3, <2>3, RespondeAdvances DEF Atendida
  <2>4. CASE Chama \/ Avulsa
    <3>1. PICK d \in Chamadas : ch[d] = Livre /\ \E n : ch' = [ch EXCEPT ![d] = n]
      <4>1. CASE Chama
        BY <4>1 DEF Chama, Muda
      <4>2. CASE Avulsa
        BY <4>2 DEF Avulsa, Muda
      <4>3. QED
        BY <2>4, <4>1, <4>2
    <3>2. ~Atendida(ch[d])
      BY <3>1 DEF Atendida, Livre
    <3>3. QED
      BY <1>3, <3>1, <3>2
  <2>5. CASE Comeca \/ Desiste \/ UNCHANGED tenantVars
    BY <2>5 DEF Comeca, Desiste, tenantVars
  <2>6. QED
    BY <2>1, <2>2, <2>3, <2>4, <2>5 DEF TenantNext
<1>5. QED
  BY <1>2, <1>4

\* The call that the orchestrator waits for is refused by no handler.
LEMMA OwnCallFails ==
    ASSUME TenantInv, [TenantNext]_tenantVars, atual # Ninguem,
           ch[atual].estado # "erro", ch'[atual].estado = "erro"
    PROVE  falhas' = falhas + 1
<1>1. /\ ch \in [Chamadas -> Tarefa \cup {Livre}] /\ atual \in Chamadas
      /\ ch[atual] # Livre /\ ch[atual].aceita /\ ch[atual].fase \in 0..2
  BY DEF TenantInv, TenantState, EsperaInv, Exportacao, Fim
<1>2. ch'[atual] # ch[atual]
  OBVIOUS
<1>3. ASSUME NEW d \in Chamadas, NEW n, ch' = [ch EXCEPT ![d] = n], d # atual \/ n = Livre
      PROVE  FALSE
  BY <1>1, <1>2, <1>3 DEF Livre
<1>4. CASE \E d \in Chamadas : Servico(d) \/ Falha(d)
  <2>1. PICK d \in Chamadas : Servico(d) \/ Falha(d)
    BY <1>4
  <2>2. PICK n : ch' = [ch EXCEPT ![d] = n]
    BY <2>1, HandlersFurther
  <2>3. d = atual
    BY <1>3, <2>2
  <2>4. ~Servico(d)
    BY <1>1, <2>3, RefusedOnly
  <2>5. QED
    BY <2>1, <2>4 DEF Falha
<1>5. CASE \E d \in Chamadas : Descarta(d)
  BY <1>3, <1>5 DEF Descarta, Muda
<1>6. CASE Responde
  BY <1>1, <1>3, <1>6, RespondeAdvances
<1>7. CASE Chama
  BY <1>7 DEF Chama
<1>8. CASE Avulsa
  <2>1. PICK d \in Chamadas : ch[d] = Livre /\ \E n : ch' = [ch EXCEPT ![d] = n]
    BY <1>8 DEF Avulsa, Muda
  <2>2. QED
    BY <1>1, <1>3, <2>1
<1>9. CASE Comeca \/ Desiste \/ UNCHANGED tenantVars
  BY <1>2, <1>9 DEF Comeca, Desiste, tenantVars
<1>10. QED
  BY <1>4, <1>5, <1>6, <1>7, <1>8, <1>9 DEF TenantNext

LEMMA PurgeGoesOnNext ==
    TenantInv /\ Pendentes /\ [TenantNext]_tenantVars => Pendentes' /\ [PurgeGoesOn]_tenantVars
<1> SUFFICES ASSUME TenantInv, Pendentes, [TenantNext]_tenantVars
             PROVE  Pendentes' /\ PurgeGoesOn
  OBVIOUS
<1>1. etapa \in Int
  BY DEF TenantInv, TenantState, Parado, Fim
<1>2. CASE Responde
  BY <1>2, RespondeAdvances, CallsFurther, OwnCallFails DEF PurgeGoesOn
<1>3. CASE ~Responde
  <2>1. /\ faltam' = faltam
        /\ etapa' = etapa \/ (etapa' > etapa /\ etapa = Parado)
    <3>1. ASSUME NEW c \in Chamadas, Servico(c) \/ Falha(c) \/ Descarta(c)
          PROVE  faltam' = faltam /\ etapa' = etapa
      BY <3>1 DEF Servico, Recebe, Pula, Conta, ApagaTudo, Lista, Exclui, Conclui, Falha, Descarta
    <3>2. CASE Comeca
      BY <3>2 DEF Comeca, Parado, Exportacao
    <3>3. CASE Chama \/ Desiste \/ Avulsa \/ UNCHANGED tenantVars
      BY <3>3 DEF Chama, Desiste, Avulsa, tenantVars
    <3>4. QED
      BY <1>3, <3>1, <3>2, <3>3 DEF TenantNext
  <2>2. etapa' > etapa => etapa' # etapa
    BY <1>1
  <2>3. QED
    BY <1>3, <2>1, <2>2, CallsFurther, OwnCallFails DEF PurgeGoesOn, Pendentes
<1>4. QED
  BY <1>2, <1>3

\* The purge always goes forward: what Termina needs beside fairness and failures that end. Calls
\* that are repeated, overlap or fail take back nothing of it, and while it runs the orchestrator
\* has somebody to ask.
THEOREM ThePurgeGoesOn == TenantSpec => []Pendentes /\ [][PurgeGoesOn]_tenantVars
<1>1. TenantInit => Pendentes
  BY DEF TenantInit, Pendentes
<1>2. QED
  BY <1>1, PurgeGoesOnNext, TenantSpecInv, PTL DEF TenantSpec
=============================================================================
