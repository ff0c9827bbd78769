----------------------------- MODULE Publicacao -----------------------------
(***************************************************************************)
(* What mensageria.Publisher promises to those who call it, with no mutex, *)
(* no channel, no attempts and no network: calls do not disturb each       *)
(* other, a message leaves once at most and only while its call runs, and  *)
(* each error says what the caller may assume of the message.              *)
(***************************************************************************)
CONSTANTS Tasks, Requests

VARIABLES
    req,        \* what each call was asked
    result,     \* what it returned, "none" while it runs
    copia,      \* where its message is: "nenhuma", "aCaminho" or "entregue"
    fate        \* what the broker did with it

Init ==
    /\ req \in [Tasks -> Requests]
    /\ result = [t \in Tasks |-> "none"]
    /\ copia = [t \in Tasks |-> "nenhuma"]
    /\ fate = [t \in Tasks |-> "none"]

Roda(t) == result[t] = "none"

Escreve(t) ==
    /\ Roda(t) /\ req[t].op # "declarar"
    /\ copia[t] = "nenhuma"
    /\ copia' = [copia EXCEPT ![t] = "aCaminho"]
    /\ UNCHANGED <<req, result, fate>>

\* The broker takes a message, also long after its call has returned.
Toma(t) ==
    /\ copia[t] = "aCaminho"
    /\ copia' = [copia EXCEPT ![t] = "entregue"]
    /\ \E f \in {"queued", "unroutable", "refused"} : fate' = [fate EXCEPT ![t] = f]
    /\ UNCHANGED <<req, result>>

\* No message left for these errors, nor ever will: publishing again is safe.
NadaSaiu == {"fechado", "canal", "declarar"}

\* It did for these: it may be, or come to be, in a queue.
Saiu == {"recusada", "incerta"}

\* What a call may return.
Cabe(t, r) ==
    IF req[t].op = "declarar"
    THEN r \in NadaSaiu \cup {"nil"}
    ELSE \/ r = "nil" /\ (fate[t] = "queued" \/ (fate[t] = "unroutable" /\ req[t].permit))
         \/ r = "naoRoteada" /\ fate[t] = "unroutable" /\ ~req[t].permit
         \/ r \in NadaSaiu \cup {"publicar"} /\ copia[t] = "nenhuma"
         \/ r \in Saiu /\ copia[t] # "nenhuma"

\* An error of the publication itself leaves open whether the message left with it.
Responde(t, r) ==
    /\ Roda(t) /\ Cabe(t, r)
    /\ result' = [result EXCEPT ![t] = r]
    /\ \/ UNCHANGED copia
       \/ r = "publicar" /\ copia' = [copia EXCEPT ![t] = "aCaminho"]
    /\ UNCHANGED <<req, fate>>

Respostas == NadaSaiu \cup Saiu \cup {"nil", "naoRoteada", "publicar"}

Next == \E t \in Tasks : Escreve(t) \/ Toma(t) \/ \E r \in Respostas : Responde(t, r)

Spec == Init /\ [][Next]_<<req, result, copia, fate>>
=============================================================================
