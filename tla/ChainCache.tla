----------------------------- MODULE ChainCache -----------------------------
(***************************************************************************)
(* The cache of resolved authority chains, crates/exo-authority/src/       *)
(* cache.rs, beside the registry the chains come from.                     *)
(*                                                                         *)
(* Registry and cache are separate objects: a caller resolves a chain with *)
(* find_chain, inserts it later or never, and calls `invalidate' when it   *)
(* sees fit.  Cache calls are stamped with one increasing clock.           *)
(***************************************************************************)
EXTENDS Delegation

CONSTANTS
    MaxEntries,  \* max_entries
    MaxNow,      \* bound on the clock
    MaxFound,    \* bound on the chains resolved and not yet inserted
    NoDid        \* not a DID

ASSUME CacheAssumption == /\ MaxEntries \in Nat \ {0} /\ MaxNow \in Nat /\ MaxFound \in Nat
                          /\ NoDid \notin Dids

Key == Dids \X Dids   \* CacheKey, <<from, to>>

VARIABLES
    entries,           \* CacheKey -> [chain, last_accessed]
    now,               \* the last timestamp used
    found,             \* <<key, chain>> pairs find_chain returned, not yet inserted
    last_use,          \* CacheKey -> last get or insert of a cached or evicted key, or 0
    evicted,           \* keys dropped for lack of room and not inserted since
    just_invalidated   \* DID of the last call if that was `invalidate'

cacheVars == <<entries, now, found, last_use, evicted, just_invalidated>>
vars == <<regVars, cacheVars>>

Cached == DOMAIN entries

Init ==
    /\ RegInit
    /\ entries = [k \in {} |-> <<>>]
    /\ now = 0
    /\ found = {}
    /\ last_use = [k \in Key |-> 0]
    /\ evicted = {}
    /\ just_invalidated = NoDid

Registry ==
    /\ RegNext
    /\ just_invalidated' = NoDid
    /\ UNCHANGED <<entries, now, found, last_use, evicted>>

(* A caller resolves a chain and keeps it. *)
Resolve(k) ==
    /\ Cardinality(found) < MaxFound
    /\ find_chain(k[1], k[2]) # <<>>
    /\ found' = found \cup {<<k, find_chain(k[1], k[2])>>}
    /\ just_invalidated' = NoDid
    /\ UNCHANGED <<regVars, entries, now, last_use, evicted>>

Tick == now < MaxNow /\ now' = now + 1

KeepOnly(f, S) == [k \in S |-> f[k]]

(* Mutant: a hit is read without being renewed. *)
Touch_NoRenewal(k) == entries

(* A hit renews the entry. *)
Touch(k) == [entries EXCEPT ![k].last_accessed = now']

get(k) ==
    /\ Tick
    /\ k \in Cached
    /\ entries' = Touch(k)
    /\ last_use' = [last_use EXCEPT ![k] = now']
    /\ just_invalidated' = NoDid
    /\ UNCHANGED <<regVars, found, evicted>>

(* evict_oldest; the clock is strict, so there is one oldest entry. *)
Oldest(f) == CHOOSE k \in DOMAIN f :
                \A j \in DOMAIN f : f[k].last_accessed <= f[j].last_accessed

(* The eviction loop of `insert' ends after one round: the cache is never
   above capacity before an insert. *)
Victims == IF Cardinality(Cached) >= MaxEntries THEN {Oldest(entries)} ELSE {}

insert(k, chain) ==
    LET rest == Cached \ Victims
    IN  /\ Tick
        /\ <<k, chain>> \in found
        /\ entries' = [j \in rest \cup {k} |->
                          IF j = k THEN [chain |-> chain, last_accessed |-> now']
                          ELSE entries[j]]
        /\ last_use' = [last_use EXCEPT ![k] = now']
        /\ evicted' = (evicted \cup Victims) \ {k}
        /\ found' = found \ {<<k, chain>>}
        /\ just_invalidated' = NoDid
        /\ UNCHANGED regVars

Unrelated(k, did) == k[1] # did /\ k[2] # did

invalidate(did) ==
    /\ entries' = KeepOnly(entries, {k \in Cached : Unrelated(k, did)})
    /\ last_use' = [k \in Key |-> IF k \in Cached \ DOMAIN entries' THEN 0 ELSE last_use[k]]
    /\ just_invalidated' = did
    /\ UNCHANGED <<regVars, now, found, evicted>>

clear ==
    /\ entries' = KeepOnly(entries, {})
    /\ evicted' = {}
    /\ last_use' = [k \in Key |-> 0]
    /\ just_invalidated' = NoDid
    /\ UNCHANGED <<regVars, now, found>>

Next ==
    \/ Registry
    \/ \E k \in Key : Resolve(k) \/ get(k)
    \/ \E f \in found : insert(f[1], f[2])
    \/ \E did \in Dids : invalidate(did)
    \/ clear

Spec == Init /\ [][Next]_vars

----------------------------------------------------------------------------
(* DIDs a chain passes through. *)
Involved(chain) == {chain[i].delegator : i \in DOMAIN chain}
                     \cup {chain[i].delegate : i \in DOMAIN chain}

(* cache.rs "LRU-like cache": within the capacity, and whatever is dropped for
   lack of room was used less recently than everything that is kept. *)
EvictsLeastRecent ==
    /\ Cardinality(Cached) <= MaxEntries
    /\ \A k \in Cached, j \in evicted : last_use[j] < last_use[k]

(* "Invalidate all chains involving a specific DID." (cache.rs `invalidate') *)
InvalidatesAllInvolved ==
    \A k \in Cached : just_invalidated \notin Involved(entries[k].chain)
=============================================================================
