----------------------------- MODULE CacheRedis -----------------------------
(***************************************************************************)
(* cache.CacheService (src/cache/cache.go): several replicas set, delete   *)
(* and clear keys of one Redis, which expires them. DeletePattern is two   *)
(* commands, and any command may fail, with or without having taken        *)
(* effect. A key stands for what is under it; Get and Exists change        *)
(* nothing.                                                                *)
(***************************************************************************)
EXTENDS Ambiente, FiniteSetsExt

CONSTANTS
    Chaves,
    DoPadrao,   \* the keys that match the pattern
    Prazos,     \* the ttls that Set and SetWithTTL are given
    Replicas

ASSUME CacheAssumption == DoPadrao \subseteq Chaves /\ Prazos \subseteq Nat

VARIABLES
    vence,      \* when each key expires; Nunca if it is not there
    limpeza,    \* where each replica's DeletePattern is
    listadas,   \* the keys its KEYS returned
    \* history
    antigas     \* keys of the pattern whose value was there when it sent KEYS

cacheProprias == <<vence, limpeza, listadas, antigas>>

CacheInit ==
    /\ vence = [k \in Chaves |-> Nunca]
    /\ limpeza = [r \in Replicas |-> "fora"]
    /\ listadas = [r \in Replicas |-> {}] /\ antigas = [r \in Replicas |-> {}]

\* Some moment after the last one: a ttl of 0 never ends.
Sempre == MaxTempo + 1

Guardada(k) == vence[k] # Nunca /\ agora < vence[k]

Guardadas == {k \in DoPadrao : Guardada(k)}

\* Each value under one of the keys is new, or gone: none of them is an old one any more.
Renova(chaves) == antigas' = [r \in Replicas |-> antigas[r] \ chaves]

\* Set with the default ttl, and SetWithTTL. A lost reply changes nothing about it.
SetWithTTL(k, ttl) ==
    /\ vence' = [vence EXCEPT ![k] = IF ttl = 0 THEN Sempre ELSE Min({agora + ttl, Sempre})]
    /\ Renova({k})
    /\ UNCHANGED <<limpeza, listadas>>

DelChaves(chaves) ==
    /\ vence' = [k \in Chaves |-> IF k \in chaves THEN Nunca ELSE vence[k]]
    /\ Renova(chaves)

Delete(k) == DelChaves({k}) /\ UNCHANGED <<limpeza, listadas>>

\* What KEYS returns.
Listadas == Guardadas

\* DeletePattern up to the reply of KEYS: an error, no key, or keys to delete.
Keys(r) ==
    /\ limpeza[r] \in {"fora", "limpou", "erro"}
    /\ \/ /\ limpeza' = [limpeza EXCEPT ![r] = IF Listadas = {} THEN "limpou" ELSE "listou"]
          /\ listadas' = [listadas EXCEPT ![r] = Listadas]
          /\ antigas' = [antigas EXCEPT ![r] = Guardadas]
       \/ limpeza' = [limpeza EXCEPT ![r] = "erro"] /\ UNCHANGED <<listadas, antigas>>
    /\ UNCHANGED vence

\* Mutant: only the first key is passed on.
DelSoUma(r) == DelChaves({CHOOSE k \in listadas[r] : TRUE})

DelListadas(r) == DelChaves(listadas[r])

\* DEL of the listed keys, all at once.
Del(r) ==
    /\ limpeza[r] = "listou"
    /\ \/ DelListadas(r) /\ limpeza' = [limpeza EXCEPT ![r] = "limpou"]
       \/ (DelListadas(r) \/ UNCHANGED <<vence, antigas>>) /\ limpeza' = [limpeza EXCEPT ![r] = "erro"]
    /\ UNCHANGED listadas

CachePassa ==
    /\ Passa
    /\ Renova({k \in Chaves : vence[k] = agora + 1})
    /\ UNCHANGED <<vence, limpeza, listadas>>

CacheNext ==
    \/ /\ \/ \E k \in Chaves, ttl \in Prazos : SetWithTTL(k, ttl)
          \/ \E k \in Chaves : Delete(k)
          \/ \E r \in Replicas : Keys(r) \/ Del(r)
       /\ UNCHANGED <<agora, comRedis>>
    \/ CachePassa

CacheSpec == AmbienteInit /\ CacheInit /\ [][CacheNext]_<<agora, comRedis, cacheProprias>>

-----------------------------------------------------------------------------
(* Properties.                                                             *)

\* Types, and a replica never gets hold of a key that does not match the pattern it clears.
CacheTypeOK ==
    /\ vence \in [Chaves -> {Nunca} \cup 0..Sempre]
    /\ limpeza \in [Replicas -> {"fora", "listou", "limpou", "erro"}]
    /\ listadas \in [Replicas -> SUBSET DoPadrao]
    /\ \A r \in Replicas : antigas[r] \subseteq Guardadas

\* After DeletePattern returned nil no key of the pattern holds a value that was there when it
\* listed the keys, although keys are set, deleted, expire and are cleared by others in between;
\* what is left was written later.
LimpezaCompleta == \A r \in Replicas : limpeza[r] = "limpou" => antigas[r] = {}
=============================================================================
