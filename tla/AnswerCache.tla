----------------------------- MODULE AnswerCache -----------------------------
(***************************************************************************)
(* The two levels of cached answers (server/src/services/cache.ts): a map  *)
(* in the process with its own short life, which a hit in Redis fills      *)
(* again.                                                                  *)
(***************************************************************************)
EXTENDS Integers, Sequences, FiniteSets, SequencesExt

CONSTANTS
  L1Ttl, L2Ttl,   \* L1_TTL and config.cache.ttl, in ticks
  L1Max, L1Evict, \* L1_MAX and the 20 oldest entries
  CacheTimeMax,   \* bound on the ticks
  Nothing         \* "no entry"

ASSUME CacheAssumption ==
  /\ L1Ttl \in Nat /\ L2Ttl \in Nat /\ CacheTimeMax \in Nat
  /\ L1Max \in Nat \ {0} /\ L1Evict \in Nat \ {0}

VARIABLES
  l1,             \* the map, in the order of insertion: key, entry, exp
  l2,             \* Redis: a set of such records
  cacheNow        \* Date.now()

cacheVars == <<l1, l2, cacheNow>>

CacheInit == l1 = <<>> /\ l2 = {} /\ cacheNow = 0

(* Map.set keeps the place of a key it holds; a full map first loses its   *)
(* oldest entries.                                                         *)
Evicted(map) ==
  IF Len(map) >= L1Max THEN SubSeq(map, IF L1Evict < Len(map) THEN L1Evict + 1 ELSE Len(map) + 1, Len(map))
  ELSE map

(* Map.delete; a key is there once.                                        *)
Without(map, key) ==
  LET at == {i \in DOMAIN map : map[i].key = key}
  IN  IF at = {} THEN map ELSE RemoveAt(map, CHOOSE i \in at : TRUE)

PutL1(map, key, entry) ==
  LET kept == Evicted(map)
      row == [key |-> key, entry |-> entry, exp |-> cacheNow + L1Ttl]
  IN  IF \E i \in DOMAIN kept : kept[i].key = key
      THEN [i \in DOMAIN kept |-> IF kept[i].key = key THEN row ELSE kept[i]]
      ELSE Append(kept, row)

(* get: what a caller finds, Redis answering or not.                       *)
FoundL1(key) == {r \in ToSet(l1) : r.key = key /\ r.exp > cacheNow}
FoundL2(key) == {r \in l2 : r.key = key /\ r.exp > cacheNow}

CacheGet(key, answers, found) ==
  /\ UNCHANGED <<l2, cacheNow>>
  /\ IF FoundL1(key) # {}
     THEN found \in {r.entry : r \in FoundL1(key)} /\ UNCHANGED l1
     ELSE IF answers /\ FoundL2(key) # {}
     THEN /\ found \in {r.entry : r \in FoundL2(key)}
          /\ l1' = PutL1(Without(l1, key), key, found)
     ELSE found = Nothing /\ l1' = Without(l1, key)

CacheSet(key, entry, answers) ==
  /\ l1' = PutL1(l1, key, entry)
  /\ l2' = IF answers
           THEN {r \in l2 : r.key # key} \cup {[key |-> key, entry |-> entry, exp |-> cacheNow + L2Ttl]}
           ELSE l2
  /\ UNCHANGED cacheNow

CacheTick == cacheNow < CacheTimeMax /\ cacheNow' = cacheNow + 1 /\ UNCHANGED <<l1, l2>>
==============================================================================
