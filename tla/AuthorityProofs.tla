-------------------------- MODULE AuthorityProofs ---------------------------
(***************************************************************************)
(* Delegations, the chain cache and the identity components, for any set   *)
(* of DIDs, any capacity and any history of calls: the delegation graph    *)
(* gets no cycle, the cache drops what was used least recently, and what   *)
(* is revoked or rotated in an identity stays that way.                    *)
(***************************************************************************)
EXTENDS ChainCache, Identity, ChainVerify, SequenceTheorems, FiniteSetTheorems,
        WellFoundedInduction, TLAPS

DelegationInv == TypeOK /\ IndexExact /\ NoCircularDelegation

(* With exact indices the search follows the active links. *)
LEMMA DelegatesExact ==
    ASSUME IndexExact, NEW d \in Dids, NEW l \in links, l.delegator = d
    PROVE  l.delegate \in Delegates(d)
<1>1. l \in Ids(by_delegator[d]) \cap links
  BY DEF IndexExact
<1> QED BY <1>1 DEF Delegates

(* A link refused by no search closes no cycle. *)
LEMMA DelegateAcyclic ==
    ASSUME DelegationInv, NEW from \in Dids, NEW to \in Dids, ~has_path(to, from),
           NEW l, l.delegator = from, l.delegate = to, links' = links \cup {l}
    PROVE  NoCircularDelegation'
<1>0. TypeOK /\ IndexExact /\ NoCircularDelegation
  BY DEF DelegationInv
<1>1. PICK C \in SUBSET Dids : /\ to \in C /\ from \notin C
                               /\ \A d \in C : Delegates(d) \subseteq C
  BY DEF has_path
<1>2. \A m \in links : m.delegator \in C => m.delegate \in C
  <2> SUFFICES ASSUME NEW m \in links, m.delegator \in C PROVE m.delegate \in C
    OBVIOUS
  <2>1. m.delegate \in Delegates(m.delegator)
    BY <1>0, DelegatesExact
  <2> QED BY <2>1, <1>1
<1> SUFFICES ASSUME NEW T \in SUBSET Dids, T # {}
             PROVE  \E d \in T : \A m \in links' : m.delegator = d => m.delegate \notin T
  BY DEF NoCircularDelegation
<1>3. CASE T \cap C # {}
  <2>1. T \cap C \in SUBSET Dids
    OBVIOUS
  <2>2. PICK d \in T \cap C : \A m \in links : m.delegator = d => m.delegate \notin T \cap C
    BY <2>1, <1>0, <1>3 DEF NoCircularDelegation
  <2>3. \A m \in links : m.delegator = d => m.delegate \notin T
    BY <2>2, <1>2
  <2>4. d # from
    BY <2>2, <1>1
  <2> QED BY <2>2, <2>3, <2>4
<1>4. CASE T \cap C = {}
  <2>1. PICK d \in T : \A m \in links : m.delegator = d => m.delegate \notin T
    BY <1>0 DEF NoCircularDelegation
  <2>2. to \notin T
    BY <1>1, <1>4
  <2> QED BY <2>1, <2>2
<1> QED BY <1>3, <1>4

(* The depth given to a link is a natural number. *)
LEMMA DepthIsNat == ASSUME TypeOK, NEW d \in Dids PROVE compute_depth(d) \in Nat
<1>1. CASE by_delegate[d] = {}
  BY <1>1 DEF compute_depth
<1>2. CASE by_delegate[d] # {}
  <2> DEFINE first == CHOOSE e \in by_delegate[d] : \A f \in by_delegate[d] : e[1] <= f[1]
  <2>1. compute_depth(d) = IF first[2] \in links THEN first[2].depth + 1 ELSE 0
    BY <1>2 DEF compute_depth
  <2>2. first[2] \in links => first[2].depth \in Nat
    BY DEF TypeOK, AuthorityLink
  <2> HIDE DEF first
  <2> QED BY <2>1, <2>2
<1> QED BY <1>1, <1>2

(* A push adds one id to a Vec. *)
LEMMA PushIds ==
    ASSUME NEW v, NEW n, NEW l PROVE Ids(Push(v, n, l)) = Ids(v) \cup {l}
<1>1. \A x : x \in Ids(Push(v, n, l)) <=> \E e \in v \cup {<<n, l>>} : x = e[2]
  BY DEF Ids, Push
<1>2. <<n, l>>[2] = l
  OBVIOUS
<1>3. \A x : x \in Ids(Push(v, n, l)) <=> (\E e \in v : x = e[2]) \/ x = l
  BY <1>1, <1>2
<1>4. \A x : x \in Ids(v) \cup {l} <=> (\E e \in v : x = e[2]) \/ x = l
  BY DEF Ids
<1> QED BY <1>3, <1>4, Zenon

(* A retain takes every occurrence of one id out of a Vec. *)
LEMMA RetainIds ==
    ASSUME NEW v, NEW l PROVE Ids(Retain(v, l)) = Ids(v) \ {l}
<1>1. \A x : x \in Ids(Retain(v, l)) <=> \E e \in v : e[2] # l /\ x = e[2]
  BY DEF Ids, Retain
<1>2. \A x : x \in Ids(v) \ {l} <=> (\E e \in v : x = e[2]) /\ x # l
  BY DEF Ids
<1>3. \A x : x \in Ids(Retain(v, l)) <=> x \in Ids(v) \ {l}
  BY <1>1, <1>2
<1> QED BY <1>3, Zenon

(* `delegate' keeps the invariant. *)
LEMMA DelegateInv ==
    ASSUME DelegationInv, NEW from \in Dids, NEW to \in Dids, NEW terms \in Terms,
           delegate(from, to, terms)
    PROVE  DelegationInv'
<1> DEFINE l == [delegator |-> from, delegate |-> to, terms |-> terms,
                 depth |-> compute_depth(from)]
<1>0. TypeOK /\ IndexExact
  BY DEF DelegationInv
<1>1. ~has_path(to, from) /\ l.depth <= MaxLinkDepth /\ links' = links \cup {l}
  BY DEF delegate
<1>2. PICK n \in Place : by_delegator' = [by_delegator EXCEPT ![from] = Push(@, n, l)]
  BY DEF delegate
<1>3. PICK m \in Place : by_delegate' = [by_delegate EXCEPT ![to] = Push(@, m, l)]
  BY DEF delegate
<1>4. l \in AuthorityLink /\ l.delegator = from /\ l.delegate = to
  <2>1. compute_depth(from) \in 0..MaxLinkDepth
    BY <1>0, <1>1, DepthIsNat, DelegationAssumption
  <2> QED BY <2>1 DEF AuthorityLink
<1> HIDE DEF l
<1>5. TypeOK'
  <2>1. Push(by_delegator[from], n, l) \in Vec /\ Push(by_delegate[to], m, l) \in Vec
    BY <1>0, <1>4 DEF TypeOK, Push, Vec
  <2> QED BY <2>1, <1>0, <1>1, <1>2, <1>3, <1>4 DEF TypeOK
<1>6. IndexExact'
  <2> SUFFICES ASSUME NEW d \in Dids
               PROVE  /\ Ids(by_delegator'[d]) = {k \in links' : k.delegator = d}
                      /\ Ids(by_delegate'[d])  = {k \in links' : k.delegate = d}
    BY DEF IndexExact
  <2>1. Ids(by_delegator'[d]) = IF d = from THEN Ids(by_delegator[d]) \cup {l}
                                ELSE Ids(by_delegator[d])
    BY <1>0, <1>2, PushIds DEF TypeOK
  <2>2. Ids(by_delegate'[d]) = IF d = to THEN Ids(by_delegate[d]) \cup {l}
                               ELSE Ids(by_delegate[d])
    BY <1>0, <1>3, PushIds DEF TypeOK
  <2>3. /\ Ids(by_delegator[d]) = {k \in links : k.delegator = d}
        /\ Ids(by_delegate[d])  = {k \in links : k.delegate = d}
    BY <1>0 DEF IndexExact
  <2> HIDE DEF Ids
  <2>4. Ids(by_delegator'[d]) = {k \in links' : k.delegator = d}
    BY <2>1, <2>3, <1>1, <1>4
  <2>5. Ids(by_delegate'[d]) = {k \in links' : k.delegate = d}
    BY <2>2, <2>3, <1>1, <1>4
  <2> QED BY <2>4, <2>5
<1>7. NoCircularDelegation'
  BY <1>1, <1>4, DelegateAcyclic
<1> QED BY <1>5, <1>6, <1>7 DEF DelegationInv

(* `revoke_delegation' keeps the invariant. *)
LEMMA RevokeInv ==
    ASSUME DelegationInv, NEW l \in links, revoke_delegation(l)
    PROVE  DelegationInv'
<1>0. TypeOK /\ IndexExact /\ NoCircularDelegation
  BY DEF DelegationInv
<1>1. /\ links' = links \ {l}
      /\ by_delegator' = [by_delegator EXCEPT ![l.delegator] = Retain(@, l)]
      /\ by_delegate'  = [by_delegate EXCEPT ![l.delegate] = Retain(@, l)]
  BY DEF revoke_delegation
<1>2. l.delegator \in Dids /\ l.delegate \in Dids
  BY <1>0 DEF TypeOK, AuthorityLink
<1>3. TypeOK'
  <2>1. Retain(by_delegator[l.delegator], l) \in Vec /\ Retain(by_delegate[l.delegate], l) \in Vec
    BY <1>0, <1>2 DEF TypeOK, Retain, Vec
  <2> QED BY <2>1, <1>0, <1>1 DEF TypeOK
<1>4. IndexExact'
  <2> SUFFICES ASSUME NEW d \in Dids
               PROVE  /\ Ids(by_delegator'[d]) = {k \in links' : k.delegator = d}
                      /\ Ids(by_delegate'[d])  = {k \in links' : k.delegate = d}
    BY DEF IndexExact
  <2>1. Ids(by_delegator'[d]) = IF d = l.delegator THEN Ids(by_delegator[d]) \ {l}
                                ELSE Ids(by_delegator[d])
    BY <1>0, <1>1, RetainIds DEF TypeOK
  <2>2. Ids(by_delegate'[d]) = IF d = l.delegate THEN Ids(by_delegate[d]) \ {l}
                               ELSE Ids(by_delegate[d])
    BY <1>0, <1>1, RetainIds DEF TypeOK
  <2>3. /\ Ids(by_delegator[d]) = {k \in links : k.delegator = d}
        /\ Ids(by_delegate[d])  = {k \in links : k.delegate = d}
    BY <1>0 DEF IndexExact
  <2>4. Ids(by_delegator'[d]) = {k \in links' : k.delegator = d}
    BY <2>1, <2>3, <1>1
  <2>5. Ids(by_delegate'[d]) = {k \in links' : k.delegate = d}
    BY <2>2, <2>3, <1>1
  <2> QED BY <2>4, <2>5
<1>5. NoCircularDelegation'
  BY <1>0, <1>1 DEF NoCircularDelegation
<1> QED BY <1>3, <1>4, <1>5 DEF DelegationInv

(* The empty registry satisfies the invariant. *)
LEMMA DelegationInit == RegInit => DelegationInv
BY DEF RegInit, DelegationInv, TypeOK, IndexExact, NoCircularDelegation, Ids, Vec

(* The inductive invariant holds in every state of the registry. *)
THEOREM DelegationInvariant == RegSpec => []DelegationInv
<1>1. DelegationInv /\ [RegNext]_regVars => DelegationInv'
  <2> SUFFICES ASSUME DelegationInv, [RegNext]_regVars PROVE DelegationInv'
    OBVIOUS
  <2>1. ASSUME NEW from \in Dids, NEW to \in Dids, NEW terms \in Terms,
               delegate(from, to, terms)
        PROVE  DelegationInv'
    BY <2>1, DelegateInv
  <2>2. ASSUME NEW l \in links, revoke_delegation(l) PROVE DelegationInv'
    BY <2>2, RevokeInv
  <2>3. CASE UNCHANGED regVars
    BY <2>3 DEF regVars, DelegationInv, TypeOK, IndexExact, NoCircularDelegation
  <2> QED BY <2>1, <2>2, <2>3 DEF RegNext
<1> QED BY DelegationInit, <1>1, PTL DEF RegSpec

(* The registry and its indices keep their types under every call. *)
THEOREM TypeCorrect == RegSpec => []TypeOK
<1>1. DelegationInv => TypeOK
  BY DEF DelegationInv
<1> QED BY <1>1, DelegationInvariant, PTL

(* No history of delegate and revoke_delegation calls builds a cycle. *)
THEOREM NeverCircular == RegSpec => []NoCircularDelegation
<1>1. DelegationInv => NoCircularDelegation
  BY DEF DelegationInv
<1> QED BY <1>1, DelegationInvariant, PTL

(* Both indices list exactly the active links, so what has_path searches is the
   graph as it is, and `delegate' lets no cycle into it. *)
THEOREM DelegationsAreSound == RegSpec => []DelegationsSound
<1>1. DelegationInv => DelegationsSound
  BY DEF DelegationInv, DelegationsSound
<1> QED BY <1>1, DelegationInvariant, PTL

-----------------------------------------------------------------------------
(* A set of numbers that is not empty has a least one. *)
LEMMA LeastNat ==
    ASSUME NEW T \in SUBSET Nat, T # {}
    PROVE  \E m \in T : \A k \in T : m <= k
<1> DEFINE R == {ss \in Nat \X Nat : ss[1] < ss[2]}
<1>1. IsWellFoundedOn(R, Nat)
  BY NatLessThanWellFounded DEF OpToRel
<1>2. PICK x \in T : \A y \in T : ~(<<y, x>> \in R)
  BY <1>1, WFMin, Zenon
<1>3. \A y \in T : x <= y
  <2> TAKE y \in T
  <2>1. x \in Nat /\ y \in Nat
    OBVIOUS
  <2>2. y < x => <<y, x>> \in R
    BY <2>1
  <2> QED BY <2>1, <2>2, <1>2
<1> QED BY <1>3

-----------------------------------------------------------------------------
(* The cache knows when its entries were used, no two of them at one time. *)
StampsTrue ==
    /\ now \in Nat
    /\ last_use \in [Key -> Nat] /\ \A k \in Key : last_use[k] <= now
    /\ \A k \in Cached : "last_accessed" \in DOMAIN entries[k]
                           /\ entries[k].last_accessed = last_use[k]
    /\ \A j, k \in Cached : last_use[j] = last_use[k] => j = k

(* The inductive invariant of the cache. *)
CacheInv ==
    /\ entries = [k \in Cached |-> entries[k]] /\ Cached \subseteq Key /\ IsFiniteSet(Cached)
    /\ \A f \in found : f[1] \in Key
    /\ evicted \subseteq Key \ Cached
    /\ StampsTrue
    /\ EvictsLeastRecent

(* The empty cache satisfies the invariant. *)
LEMMA CacheInit == Init => CacheInv
<1> SUFFICES ASSUME Init PROVE CacheInv
  OBVIOUS
<1>1. Cached = {} /\ found = {} /\ evicted = {} /\ now = 0 /\ last_use = [k \in Key |-> 0]
      /\ entries = [k \in Cached |-> entries[k]]
  BY DEF Init, Cached
<1>2. IsFiniteSet(Cached) /\ Cardinality(Cached) = 0
  BY <1>1, FS_EmptySet
<1>3. StampsTrue
  BY <1>1 DEF StampsTrue
<1>4. EvictsLeastRecent
  BY <1>1, <1>2, CacheAssumption DEF EvictsLeastRecent
<1> QED BY <1>1, <1>2, <1>3, <1>4 DEF CacheInv

(* evict_oldest takes the entry that was used least recently, if there is one. *)
LEMMA OldestIsLeastRecent ==
    ASSUME CacheInv, Cached # {}
    PROVE  Oldest(entries) \in Cached /\ \A j \in Cached : last_use[Oldest(entries)] <= last_use[j]
<1>0. Cached \subseteq Key /\ StampsTrue
  BY DEF CacheInv
<1>1. \A k \in Cached : last_use[k] \in Nat /\ entries[k].last_accessed = last_use[k]
  BY <1>0 DEF StampsTrue
<1> DEFINE T == {last_use[k] : k \in Cached}
<1>2. T \in SUBSET Nat /\ T # {}
  BY <1>1
<1>3. PICK m \in T : \A x \in T : m <= x
  BY <1>2, LeastNat
<1>4. PICK k \in Cached : \A j \in Cached : last_use[k] <= last_use[j]
  BY <1>3
<1>5. \E o \in DOMAIN entries : \A j \in DOMAIN entries : entries[o].last_accessed <= entries[j].last_accessed
  BY <1>1, <1>4 DEF Cached
<1>6. /\ Oldest(entries) \in DOMAIN entries
      /\ \A j \in DOMAIN entries : entries[Oldest(entries)].last_accessed <= entries[j].last_accessed
  BY <1>5 DEF Oldest
<1> QED BY <1>1, <1>6 DEF Cached

(* A hit makes its entry the most recent. *)
LEMMA GetInv ==
    ASSUME CacheInv, NEW k \in Key, get(k) PROVE CacheInv'
<1>0. /\ entries = [j \in Cached |-> entries[j]] /\ Cached \subseteq Key /\ IsFiniteSet(Cached)
      /\ evicted \subseteq Key \ Cached /\ StampsTrue /\ EvictsLeastRecent
      /\ \A f \in found : f[1] \in Key
  BY DEF CacheInv
<1>1. /\ now' = now + 1 /\ k \in Cached /\ entries' = [entries EXCEPT ![k].last_accessed = now']
      /\ last_use' = [last_use EXCEPT ![k] = now'] /\ found' = found /\ evicted' = evicted
  BY DEF get, Tick, Touch
<1>2. Cached' = Cached /\ entries' = [j \in Cached |-> entries'[j]]
  BY <1>0, <1>1 DEF Cached
<1>3. \A j \in Cached : j # k => entries'[j] = entries[j]
  BY <1>1 DEF Cached
<1>4. /\ now \in Nat /\ last_use \in [Key -> Nat] /\ \A j \in Key : last_use[j] <= now
      /\ \A j \in Cached : "last_accessed" \in DOMAIN entries[j] /\ entries[j].last_accessed = last_use[j]
      /\ \A i, j \in Cached : last_use[i] = last_use[j] => i = j
  BY <1>0 DEF StampsTrue
<1>5. entries'[k] = [entries[k] EXCEPT !.last_accessed = now']
  BY <1>0, <1>1 DEF Cached
<1>6. "last_accessed" \in DOMAIN entries'[k] /\ entries'[k].last_accessed = now'
  <2>1. "last_accessed" \in DOMAIN entries[k]
    BY <1>1, <1>4
  <2> QED BY <1>5, <2>1
<1>7. /\ last_use' \in [Key -> Nat] /\ last_use'[k] = now'
      /\ \A j \in Key : j # k => last_use'[j] = last_use[j]
  BY <1>1, <1>4
<1>8. now' \in Nat /\ \A j \in Key : last_use'[j] <= now'
  BY <1>1, <1>4, <1>7
<1>9. \A j \in Cached : "last_accessed" \in DOMAIN entries'[j] /\ entries'[j].last_accessed = last_use'[j]
  BY <1>0, <1>3, <1>4, <1>6, <1>7
<1>10. \A i, j \in Cached : last_use'[i] = last_use'[j] => i = j
  BY <1>0, <1>1, <1>4, <1>7
<1>11. StampsTrue'
  BY <1>2, <1>7, <1>8, <1>9, <1>10 DEF StampsTrue
<1>12. EvictsLeastRecent'
  <2>1. Cardinality(Cached) <= MaxEntries /\ \A c \in Cached, j \in evicted : last_use[j] < last_use[c]
    BY <1>0 DEF EvictsLeastRecent
  <2>2. ASSUME NEW c \in Cached, NEW j \in evicted PROVE last_use'[j] < last_use'[c]
    <3>1. j \in Key /\ j # k /\ c \in Key
      BY <1>0, <1>1
    <3>2. last_use'[j] = last_use[j] /\ last_use[j] <= now
      BY <3>1, <1>4, <1>7
    <3>3. CASE c = k
      BY <3>1, <3>2, <3>3, <1>1, <1>4, <1>7
    <3>4. CASE c # k
      BY <3>1, <3>2, <3>4, <1>7, <2>1
    <3> QED BY <3>3, <3>4
  <2> QED BY <2>1, <2>2, <1>1, <1>2 DEF EvictsLeastRecent
<1> QED BY <1>0, <1>1, <1>2, <1>11, <1>12 DEF CacheInv

(* What an insert evicts was used before everything that stays. *)
LEMMA InsertInv ==
    ASSUME CacheInv, NEW f \in found, insert(f[1], f[2]) PROVE CacheInv'
<1> DEFINE k == f[1]
           rest == Cached \ Victims
<1>0. /\ entries = [j \in Cached |-> entries[j]] /\ Cached \subseteq Key /\ IsFiniteSet(Cached)
      /\ evicted \subseteq Key \ Cached /\ StampsTrue /\ EvictsLeastRecent
      /\ \A g \in found : g[1] \in Key
  BY DEF CacheInv
<1>1. /\ now' = now + 1 /\ k \in Key
      /\ entries' = [j \in rest \cup {k} |->
                        IF j = k THEN [chain |-> f[2], last_accessed |-> now'] ELSE entries[j]]
      /\ last_use' = [last_use EXCEPT ![k] = now']
      /\ evicted' = (evicted \cup Victims) \ {k} /\ found' \subseteq found
  BY <1>0 DEF insert, Tick
<1> HIDE DEF k
<1>2. /\ now \in Nat /\ last_use \in [Key -> Nat] /\ \A j \in Key : last_use[j] <= now
      /\ \A j \in Cached : "last_accessed" \in DOMAIN entries[j] /\ entries[j].last_accessed = last_use[j]
      /\ \A i, j \in Cached : last_use[i] = last_use[j] => i = j
  BY <1>0 DEF StampsTrue
<1>3. Cardinality(Cached) <= MaxEntries /\ \A c \in Cached, j \in evicted : last_use[j] < last_use[c]
  BY <1>0 DEF EvictsLeastRecent
<1>c. Cardinality(Cached) \in Nat /\ MaxEntries \in Nat \ {0}
  BY <1>0, FS_CardinalityType, CacheAssumption
<1>4. /\ Victims \subseteq Cached /\ \A v \in Victims, c \in rest : last_use[v] < last_use[c]
      /\ IsFiniteSet(rest) /\ Cardinality(rest) < MaxEntries
  <2>1. CASE Cardinality(Cached) >= MaxEntries
    <3>1. Cached # {}
      <4>1. Cardinality({}) = 0
        BY FS_EmptySet
      <4> QED BY <2>1, <4>1, <1>c
    <3> DEFINE o == Oldest(entries)
    <3>2. o \in Cached /\ \A j \in Cached : last_use[o] <= last_use[j]
      BY <3>1, OldestIsLeastRecent
    <3>3. Victims = {o}
      BY <2>1 DEF Victims
    <3> HIDE DEF o
    <3>4. \A c \in Cached \ {o} : last_use[o] < last_use[c]
      BY <3>2, <1>0, <1>2
    <3>5. IsFiniteSet(Cached \ {o}) /\ Cardinality(Cached \ {o}) = Cardinality(Cached) - 1
      BY <3>2, <1>0, FS_RemoveElement
    <3> QED BY <3>2, <3>3, <3>4, <3>5, <1>3, <1>c
  <2>2. CASE ~(Cardinality(Cached) >= MaxEntries)
    <3>1. Victims = {} /\ rest = Cached
      BY <2>2 DEF Victims
    <3> HIDE DEF rest
    <3> QED BY <3>1, <2>2, <1>0, <1>c
  <2> QED BY <2>1, <2>2
<1>r. rest \subseteq Cached
  OBVIOUS
<1>v. \A j \in Cached : j \in Victims \/ j \in rest
  OBVIOUS
<1>w. rest \cap Victims = {}
  OBVIOUS
<1> HIDE DEF rest
<1>5. Cached' = rest \cup {k} /\ entries' = [j \in Cached' |-> entries'[j]]
  BY <1>1 DEF Cached
<1>6. /\ Cached' \subseteq Key /\ IsFiniteSet(Cached') /\ Cardinality(Cached') <= MaxEntries
  <2>1. IsFiniteSet(rest \cup {k})
        /\ Cardinality(rest \cup {k}) = IF k \in rest THEN Cardinality(rest) ELSE Cardinality(rest) + 1
    BY <1>4, FS_AddElement
  <2>2. Cardinality(rest) \in Nat
    BY <1>4, FS_CardinalityType
  <2> QED BY <2>1, <2>2, <1>0, <1>1, <1>4, <1>5, <1>c, <1>r
<1>7. /\ last_use' \in [Key -> Nat] /\ last_use'[k] = now'
      /\ \A j \in Key : j # k => last_use'[j] = last_use[j]
  BY <1>1, <1>2
<1>8. now' \in Nat /\ \A j \in Key : last_use'[j] <= now'
  BY <1>1, <1>2, <1>7
<1>9. ASSUME NEW j \in Cached'
      PROVE  "last_accessed" \in DOMAIN entries'[j] /\ entries'[j].last_accessed = last_use'[j]
  <2>1. CASE j = k
    <3>1. entries'[j] = [chain |-> f[2], last_accessed |-> now']
      BY <2>1, <1>1, <1>5
    <3> QED BY <2>1, <3>1, <1>7
  <2>2. CASE j # k
    <3>1. j \in rest /\ j \in Cached /\ j \in Key
      BY <2>2, <1>0, <1>5, <1>r
    <3>2. entries'[j] = entries[j]
      BY <2>2, <3>1, <1>1
    <3> QED BY <2>2, <3>1, <3>2, <1>2, <1>7
  <2> QED BY <2>1, <2>2
<1>10. \A i, j \in Cached' : last_use'[i] = last_use'[j] => i = j
  BY <1>0, <1>1, <1>2, <1>5, <1>7, <1>r
<1>11. StampsTrue'
  BY <1>7, <1>8, <1>9, <1>10 DEF StampsTrue
<1>12. EvictsLeastRecent'
  <2>2. ASSUME NEW c \in Cached', NEW j \in evicted' PROVE last_use'[j] < last_use'[c]
    <3>1. j \in Key /\ j # k /\ c \in Key
      BY <1>0, <1>1, <1>4, <1>6
    <3>2. last_use'[j] = last_use[j] /\ last_use[j] <= now /\ last_use[j] \in Nat
      BY <3>1, <1>2, <1>7
    <3>3. CASE c = k
      BY <3>1, <3>2, <3>3, <1>1, <1>2, <1>7
    <3>4. CASE c # k
      <4>1. c \in rest /\ c \in Cached /\ last_use'[c] = last_use[c]
        BY <3>1, <3>4, <1>5, <1>7, <1>r
      <4>2. last_use[j] < last_use[c]
        BY <4>1, <1>1, <1>3, <1>4
      <4> QED BY <3>2, <4>1, <4>2
    <3> QED BY <3>3, <3>4
  <2> QED BY <2>2, <1>6 DEF EvictsLeastRecent
<1>13. evicted' \subseteq Key \ Cached'
  BY <1>0, <1>1, <1>4, <1>5, <1>r, <1>w
<1> QED BY <1>0, <1>1, <1>5, <1>6, <1>11, <1>12, <1>13 DEF CacheInv

(* Dropping entries, whichever, keeps the order of the rest. *)
LEMMA DropInv ==
    ASSUME CacheInv, NEW S \in SUBSET Cached, entries' = KeepOnly(entries, S),
           last_use' \in [Key -> Nat],
           \A k \in Key : last_use'[k] = last_use[k] \/ (last_use'[k] = 0 /\ (k \in Cached \ S \/ evicted' = {})),
           \A k \in S : last_use'[k] = last_use[k] \/ S = {},
           evicted' \subseteq evicted, now' = now, found' = found
    PROVE  CacheInv'
<1>0. /\ entries = [j \in Cached |-> entries[j]] /\ Cached \subseteq Key /\ IsFiniteSet(Cached)
      /\ evicted \subseteq Key \ Cached /\ StampsTrue /\ EvictsLeastRecent
      /\ \A g \in found : g[1] \in Key
  BY DEF CacheInv
<1>1. Cached' = S /\ \A j \in S : entries'[j] = entries[j]
  BY DEF Cached, KeepOnly
<1>2. entries' = [j \in Cached' |-> entries'[j]]
  BY <1>1 DEF KeepOnly
<1>3. IsFiniteSet(S) /\ Cardinality(S) <= Cardinality(Cached)
  BY <1>0, FS_Subset
<1>4. /\ now \in Nat /\ last_use \in [Key -> Nat] /\ \A j \in Key : last_use[j] <= now
      /\ \A j \in Cached : "last_accessed" \in DOMAIN entries[j] /\ entries[j].last_accessed = last_use[j]
      /\ \A i, j \in Cached : last_use[i] = last_use[j] => i = j
  BY <1>0 DEF StampsTrue
<1>5. StampsTrue'
  <2>1. \A k \in Key : last_use'[k] <= now'
    BY <1>4
  <2>2. \A k \in S : k \in Cached /\ last_use'[k] = last_use[k]
    OBVIOUS
  <2> QED BY <1>1, <1>4, <2>1, <2>2 DEF StampsTrue
<1>6. EvictsLeastRecent'
  <2>1. Cardinality(Cached) <= MaxEntries /\ \A c \in Cached, j \in evicted : last_use[j] < last_use[c]
    BY <1>0 DEF EvictsLeastRecent
  <2>2. ASSUME NEW c \in S, NEW j \in evicted' PROVE last_use'[j] < last_use'[c]
    <3>1. j \in Key /\ j \notin Cached /\ evicted' # {}
      BY <1>0
    <3>2. last_use'[j] = last_use[j] /\ last_use'[c] = last_use[c]
      BY <3>1, <1>0
    <3> QED BY <3>2, <2>1
  <2>3. Cardinality(S) <= MaxEntries
    <3>1. Cardinality(S) \in Nat /\ Cardinality(Cached) \in Nat
      BY <1>0, <1>3, FS_CardinalityType
    <3> QED BY <3>1, <2>1, <1>3, CacheAssumption
  <2> QED BY <2>2, <2>3, <1>1 DEF EvictsLeastRecent
<1> QED BY <1>0, <1>1, <1>2, <1>3, <1>5, <1>6 DEF CacheInv

(* `invalidate' drops the entries from or to a DID, and forgets their use. *)
LEMMA InvalidateInv ==
    ASSUME CacheInv, NEW did \in Dids, invalidate(did) PROVE CacheInv'
<1> DEFINE S == {k \in Cached : Unrelated(k, did)}
<1>1. entries' = KeepOnly(entries, S) /\ S \in SUBSET Cached
  BY DEF invalidate
<1>2. DOMAIN entries' = S
  BY <1>1 DEF KeepOnly
<1>3. last_use \in [Key -> Nat] /\ Cached \subseteq Key
  BY DEF CacheInv, StampsTrue
<1>4. last_use' = [k \in Key |-> IF k \in Cached \ S THEN 0 ELSE last_use[k]]
  BY <1>2 DEF invalidate
<1>5. evicted' = evicted /\ now' = now /\ found' = found
  BY DEF invalidate
<1>p. PICK D : D = S
  OBVIOUS
<1> HIDE DEF S
<1>6. /\ D \in SUBSET Cached /\ entries' = KeepOnly(entries, D) /\ last_use' \in [Key -> Nat]
      /\ \A k \in Key : last_use'[k] = last_use[k] \/ (last_use'[k] = 0 /\ (k \in Cached \ D \/ evicted' = {}))
      /\ \A k \in D : last_use'[k] = last_use[k] \/ D = {}
  BY <1>1, <1>3, <1>4, <1>p
<1> QED BY <1>5, <1>6, DropInv

(* `clear' drops them all. *)
LEMMA ClearInv == ASSUME CacheInv, clear PROVE CacheInv'
<1>1. /\ entries' = KeepOnly(entries, {}) /\ last_use' \in [Key -> Nat] /\ \A k \in Key : last_use'[k] = 0
      /\ evicted' = {} /\ now' = now /\ found' = found
  BY DEF clear
<1> QED BY <1>1, DropInv

-----------------------------------------------------------------------------
(* The invariant holds whatever chains are resolved, and whenever and in
   whichever order they are inserted, read, invalidated and cleared. *)
THEOREM CacheInvariant == Spec => []CacheInv
<1>1. CacheInv /\ [Next]_vars => CacheInv'
  <2> SUFFICES ASSUME CacheInv, [Next]_vars PROVE CacheInv'
    OBVIOUS
  <2>1. ASSUME UNCHANGED <<entries, now, last_use, evicted>>, \A f \in found' : f[1] \in Key
        PROVE  CacheInv'
    BY <2>1 DEF CacheInv, StampsTrue, EvictsLeastRecent, Cached
  <2>2. CASE Registry
    BY <2>1, <2>2 DEF Registry, CacheInv
  <2>3. ASSUME NEW k \in Key, Resolve(k) PROVE CacheInv'
    <3>1. \A f \in found' : f[1] \in Key
      BY <2>3 DEF Resolve, CacheInv
    <3> QED BY <3>1, <2>1, <2>3 DEF Resolve
  <2>4. CASE UNCHANGED vars
    BY <2>1, <2>4 DEF vars, cacheVars, CacheInv
  <2> QED BY <2>2, <2>3, <2>4, GetInv, InsertInv, InvalidateInv, ClearInv DEF Next
<1> QED BY CacheInit, <1>1, PTL DEF Spec

(* cache.rs `insert': for any capacity, one round of evict_oldest makes room, and
   what it drops was used less recently than all that stays. *)
THEOREM CacheIsLru == Spec => []EvictsLeastRecent
<1>1. CacheInv => EvictsLeastRecent
  BY DEF CacheInv
<1> QED BY <1>1, CacheInvariant, PTL

-----------------------------------------------------------------------------
(* A rotated record leads on to a later one. *)
RotationsLead ==
    \A d \in Subjects : \A i \in DOMAIN records[d] : \A k \in records[d][i].rotated_to :
       \E j \in (i + 1)..Len(records[d]) : records[d][j].public_key = k

(* The method a retired id stands for is not active. *)
RetiredInactive ==
    \A id \in retired : HasMethod(id) /\ ~methods[First(id)].active

(* The inductive invariant of the identity components. *)
IdInv ==
    /\ IdTypeOK
    /\ documents \in [DOMAIN documents -> DidDocument]
    /\ fresh \in 0..MaxKeys
    /\ RotationsLead
    /\ RetiredInactive

-----------------------------------------------------------------------------
(* The first method of an id in a document. *)
IsFirst(s, id, i) ==
    i \in DOMAIN s /\ s[i].id = id /\ \A j \in DOMAIN s : s[j].id = id => i <= j

(* `find' finds a method when there is one, *)
LEMMA FirstExists ==
    ASSUME NEW s \in Seq(VerificationMethod), NEW id, \E i \in DOMAIN s : s[i].id = id
    PROVE  \E i : IsFirst(s, id, i)
<1> DEFINE at == {i \in DOMAIN s : s[i].id = id}
<1>1. at \in SUBSET Nat /\ at # {}
  OBVIOUS
<1>2. PICK m \in at : \A k \in at : m <= k
  BY <1>1, LeastNat
<1> QED BY <1>2 DEF IsFirst

(* ... and there is only one it can find. *)
LEMMA FirstUnique ==
    ASSUME NEW s \in Seq(VerificationMethod), NEW id, NEW i, NEW j,
           IsFirst(s, id, i), IsFirst(s, id, j)
    PROVE  i = j
<1>1. i \in Nat /\ j \in Nat /\ i <= j /\ j <= i
  BY DEF IsFirst
<1> QED BY <1>1

(* What First chooses in the document is that method. *)
LEMMA FirstIsFirst ==
    ASSUME methods \in Seq(VerificationMethod), NEW id, HasMethod(id)
    PROVE  IsFirst(methods, id, First(id))
<1>1. \E i : IsFirst(methods, id, i)
  BY FirstExists DEF HasMethod
<1>2. \E i \in DOMAIN methods : methods[i].id = id /\ \A j \in DOMAIN methods : methods[j].id = id => i <= j
  BY <1>1 DEF IsFirst
<1> QED BY <1>2 DEF First, IsFirst

(* A rotation appends, so what an id stood for it still stands for. *)
LEMMA FirstKept ==
    ASSUME NEW s \in Seq(VerificationMethod), NEW t \in Seq(VerificationMethod),
           Len(s) <= Len(t), \A i \in DOMAIN s : t[i].id = s[i].id,
           NEW id, NEW i, IsFirst(s, id, i)
    PROVE  IsFirst(t, id, i)
<1>1. DOMAIN s = 1..Len(s) /\ DOMAIN t = 1..Len(t) /\ Len(s) \in Nat /\ Len(t) \in Nat
  OBVIOUS
<1>2. i \in DOMAIN t /\ t[i].id = id
  BY <1>1 DEF IsFirst
<1>3. ASSUME NEW j \in DOMAIN t, t[j].id = id PROVE i <= j
  <2>1. CASE j \in DOMAIN s
    BY <2>1, <1>3 DEF IsFirst
  <2>2. CASE j \notin DOMAIN s
    BY <2>2, <1>1, <1>3 DEF IsFirst
  <2> QED BY <2>1, <2>2
<1> QED BY <1>2, <1>3 DEF IsFirst

-----------------------------------------------------------------------------
(* Who is retired depends on the methods alone. *)
LEMMA RetiredKept ==
    ASSUME RetiredInactive, methods' = methods, retired' = retired PROVE RetiredInactive'
  BY DEF RetiredInactive, HasMethod, First

(* The initial state satisfies the invariant. *)
LEMMA IdInitInv == IdInit => IdInv
<1> SUFFICES ASSUME IdInit PROVE IdInv
  OBVIOUS
<1> USE IdentityAssumption
<1>1. documents \in [DOMAIN documents -> DidDocument] /\ DOMAIN documents = {}
  BY DEF IdInit
<1>2. methods \in Seq([id : Nat, version : Nat, key : {1}, active : BOOLEAN]) /\ methods[1].key = 1
  BY DEF IdInit
<1>3. records \in [Subjects -> Seq(KeyRecord)] /\ \A d \in Subjects : records[d] = <<>>
  BY DEF IdInit
<1>4. config \in PaceConfig
  <2>1. \A o \in Successors : <<o>> \in Seq(Successors)
    OBVIOUS
  <2>2. <<>> \in Seq(Successors)
    OBVIOUS
  <2> QED BY <2>1, <2>2 DEF IdInit, PaceConfig
<1>5. level \in DOMAIN PaceState
  BY DEF IdInit, PaceState
<1>6. methods \in Seq(VerificationMethod)
  BY DEF IdInit, VerificationMethod
<1> QED BY <1>1, <1>3, <1>4, <1>5, <1>6 DEF IdInit, IdInv, IdTypeOK, RotationsLead, RetiredInactive

-----------------------------------------------------------------------------
(* The registry of documents. *)
LEMMA RegistryInv == IdInv /\ RegistryStep => IdInv' /\ KeepsWithdrawn
<1> SUFFICES ASSUME IdInv, RegistryStep PROVE IdInv' /\ KeepsWithdrawn
  OBVIOUS
<1> USE IdentityAssumption
<1>0. IdTypeOK /\ documents \in [DOMAIN documents -> DidDocument] /\ fresh \in 0..MaxKeys
      /\ RotationsLead /\ RetiredInactive
  BY DEF IdInv
<1>1. methods' = methods /\ retired' = retired /\ records' = records /\ config' = config /\ level' = level
  BY DEF RegistryStep, register, revoke, rotate_key
<1>2. SUFFICES /\ documents' \in [DOMAIN documents' -> DidDocument] /\ fresh' \in 0..MaxKeys
               /\ \A d \in DOMAIN documents : documents[d].revoked => documents'[d] = documents[d]
  <2>1. RotationsLead' /\ RetiredInactive'
    <3>1. RotationsLead'
      BY <1>0, <1>1 DEF RotationsLead
    <3>2. RetiredInactive'
      BY <1>0, <1>1, RetiredKept
    <3> QED BY <3>1, <3>2
  <2>2. IdTypeOK'
    BY <1>0, <1>1, <1>2 DEF IdTypeOK
  <2>3. KeepsWithdrawn
    <3>1. records \in [Subjects -> Seq(KeyRecord)]
      BY <1>0 DEF IdTypeOK
    <3> QED BY <3>1, <1>0, <1>1, <1>2 DEF KeepsWithdrawn, RotationsLead
  <2> QED BY <2>1, <2>2, <2>3, <1>2 DEF IdInv
<1>3. ASSUME NEW did \in Subjects, register(did)
      PROVE  /\ documents' \in [DOMAIN documents' -> DidDocument] /\ fresh' \in 0..MaxKeys
             /\ \A d \in DOMAIN documents : documents[d].revoked => documents'[d] = documents[d]
  <2>1. fresh' \in 1..MaxKeys
    BY <1>0, <1>3 DEF register
  <2> DEFINE new == [public_keys |-> <<fresh'>>, updated |-> 0, revoked |-> FALSE]
  <2>2. new \in DidDocument
    BY <2>1 DEF DidDocument
  <2> HIDE DEF new
  <2>3. did \notin DOMAIN documents /\ documents' = [d \in DOMAIN documents \cup {did} |->
            IF d = did THEN new ELSE documents[d]]
    BY <1>3 DEF register, new
  <2> QED BY <2>1, <2>2, <2>3, <1>0
<1>4. ASSUME NEW did \in Subjects, NEW k \in 1..fresh, NEW d0 \in Subjects, revoke(did, Sig(k, d0))
      PROVE  /\ documents' \in [DOMAIN documents' -> DidDocument] /\ fresh' \in 0..MaxKeys
             /\ \A d \in DOMAIN documents : documents[d].revoked => documents'[d] = documents[d]
  <2>1. did \in DOMAIN documents /\ documents' = [documents EXCEPT ![did].revoked = TRUE] /\ fresh' = fresh
    BY <1>4 DEF revoke
  <2>2. documents[did] \in DidDocument
    BY <2>1, <1>0
  <2>3. [documents[did] EXCEPT !.revoked = TRUE] \in DidDocument
    BY <2>2 DEF DidDocument
  <2>4. documents[did].revoked => [documents[did] EXCEPT !.revoked = TRUE] = documents[did]
    BY <2>2 DEF DidDocument
  <2> QED BY <2>1, <2>3, <2>4, <1>0
<1>5. ASSUME NEW did \in Subjects, NEW k \in 1..MaxKeys, NEW n \in 1..MaxKeys,
             did \in DOMAIN documents, rotate_key(did, n, Sig(k, n))
      PROVE  /\ documents' \in [DOMAIN documents' -> DidDocument] /\ fresh' \in 0..MaxKeys
             /\ \A d \in DOMAIN documents : documents[d].revoked => documents'[d] = documents[d]
  <2>1. /\ ~documents[did].revoked /\ fresh' = fresh
        /\ documents' = [documents EXCEPT ![did].public_keys = Append(@, n), ![did].updated = @ + 1]
    BY <1>5 DEF rotate_key, Rotatable
  <2>2. documents[did] \in DidDocument
    BY <1>5, <1>0
  <2> DEFINE new == [documents[did] EXCEPT !.public_keys = Append(documents[did].public_keys, n),
                                           !.updated = documents[did].updated + 1]
  <2>3. new \in DidDocument
    <3>1. Append(documents[did].public_keys, n) \in Seq(1..MaxKeys) /\ documents[did].updated + 1 \in Nat
      BY <2>2 DEF DidDocument
    <3>2. [documents[did] EXCEPT !.public_keys = Append(documents[did].public_keys, n)] \in DidDocument
      BY <2>2, <3>1 DEF DidDocument
    <3> QED BY <3>1, <3>2 DEF DidDocument
  <2>4. documents' = [documents EXCEPT ![did] = new]
    BY <2>1, <1>0, <1>5
  <2> HIDE DEF new
  <2> QED BY <2>1, <2>3, <2>4, <1>0
<1> QED BY <1>3, <1>4, <1>5 DEF RegistryStep

(* The verification methods of a document. *)
LEMMA MethodsInv == IdInv /\ MethodStep => IdInv' /\ KeepsWithdrawn
<1> SUFFICES ASSUME IdInv, NEW old \in 1..(MaxMethods + 1), NEW key \in 1..MaxKeys,
                    rotate_verification_key(old, key)
             PROVE  IdInv' /\ KeepsWithdrawn
  BY DEF MethodStep
<1> USE IdentityAssumption
<1>0. IdTypeOK /\ documents \in [DOMAIN documents -> DidDocument] /\ fresh \in 0..MaxKeys
      /\ RotationsLead /\ RetiredInactive
  BY DEF IdInv
<1>1. documents' = documents /\ records' = records /\ fresh' = fresh /\ config' = config /\ level' = level
  BY DEF rotate_verification_key
<1> DEFINE i == First(old)
           n == methods[i].version + 1
           off == [methods EXCEPT ![i].active = FALSE]
           new == [id |-> n, version |-> n, key |-> key, active |-> TRUE]
<1>2. HasMethod(old) /\ methods' = Append(off, new) /\ retired' = retired \cup {old}
  BY DEF rotate_verification_key
<1>3. methods \in Seq(VerificationMethod)
  BY <1>0 DEF IdTypeOK
<1>4. IsFirst(methods, old, i)
  BY <1>2, <1>3, FirstIsFirst
<1>5. i \in DOMAIN methods /\ methods[i] \in VerificationMethod
  BY <1>3, <1>4 DEF IsFirst
<1> HIDE DEF i
<1>6. new \in VerificationMethod
  BY <1>5 DEF VerificationMethod
<1> HIDE DEF n, new
<1>7. [methods[i] EXCEPT !.active = FALSE] \in VerificationMethod
  BY <1>5 DEF VerificationMethod
<1>8. off \in Seq(VerificationMethod) /\ Len(off) = Len(methods) /\ DOMAIN off = DOMAIN methods
  BY <1>3, <1>5, <1>7
<1>9. /\ ~off[i].active
      /\ \A j \in DOMAIN methods : off[j].id = methods[j].id /\ (~methods[j].active => ~off[j].active)
  <2>1. off[i] = [methods[i] EXCEPT !.active = FALSE] /\ \A j \in DOMAIN methods : j # i => off[j] = methods[j]
    BY <1>3, <1>5
  <2>2. ~off[i].active /\ off[i].id = methods[i].id
    BY <2>1, <1>5 DEF VerificationMethod
  <2> QED BY <2>1, <2>2
<1> HIDE DEF off
<1>10. /\ methods' \in Seq(VerificationMethod) /\ Len(methods) <= Len(methods')
       /\ \A j \in DOMAIN methods : methods'[j] = off[j]
  BY <1>2, <1>3, <1>6, <1>8
<1>11. \A j \in DOMAIN methods : methods'[j].id = methods[j].id
  BY <1>9, <1>10
<1>12. ASSUME NEW id, NEW m, IsFirst(methods, id, m)
       PROVE  HasMethod(id)' /\ First(id)' = m
  <2>1. IsFirst(methods', id, m)
    BY <1>3, <1>10, <1>11, <1>12, FirstKept
  <2>2. HasMethod(id)'
    BY <2>1 DEF HasMethod, IsFirst
  <2>3. IsFirst(methods', id, First(id)')
    <3>1. \E j \in DOMAIN methods' : methods'[j].id = id /\ \A l \in DOMAIN methods' : methods'[l].id = id => j <= l
      BY <2>1 DEF IsFirst
    <3> QED BY <3>1 DEF First, IsFirst
  <2> QED BY <2>1, <2>2, <2>3, <1>10, FirstUnique
<1>13. RetiredInactive'
  <2> SUFFICES ASSUME NEW id \in retired' PROVE HasMethod(id)' /\ ~methods'[First(id)'].active
    BY DEF RetiredInactive
  <2>1. CASE id = old
    BY <2>1, <1>4, <1>5, <1>9, <1>10, <1>12
  <2>2. CASE id \in retired
    <3>1. HasMethod(id) /\ ~methods[First(id)].active
      BY <2>2, <1>0 DEF RetiredInactive
    <3>2. IsFirst(methods, id, First(id))
      BY <3>1, <1>3, FirstIsFirst
    <3>3. First(id) \in DOMAIN methods
      BY <3>2 DEF IsFirst
    <3> QED BY <3>1, <3>2, <3>3, <1>9, <1>10, <1>12
  <2> QED BY <2>1, <2>2, <1>2
<1>14. RotationsLead' /\ KeepsWithdrawn
  <2>1. records \in [Subjects -> Seq(KeyRecord)]
    BY <1>0 DEF IdTypeOK
  <2> QED BY <2>1, <1>0, <1>1 DEF RotationsLead, KeepsWithdrawn
<1> QED BY <1>0, <1>1, <1>10, <1>13, <1>14 DEF IdInv, IdTypeOK

(* The operators take turns. *)
LEMMA PaceInv == IdInv /\ PaceStep => IdInv' /\ KeepsWithdrawn
<1> SUFFICES ASSUME IdInv, PaceStep PROVE IdInv' /\ KeepsWithdrawn
  OBVIOUS
<1>0. IdTypeOK /\ RotationsLead /\ RetiredInactive
  BY DEF IdInv
<1>1. UNCHANGED <<documents, methods, retired, records, fresh, config>>
  BY DEF PaceStep
<1>2. level' \in DOMAIN PaceState
  BY <1>0 DEF PaceStep, escalate, deescalate, IdTypeOK, PaceState
<1>3. RotationsLead' /\ KeepsWithdrawn
  <2>1. records \in [Subjects -> Seq(KeyRecord)]
    BY <1>0 DEF IdTypeOK
  <2> QED BY <2>1, <1>0, <1>1 DEF RotationsLead, KeepsWithdrawn
<1>4. RetiredInactive'
  BY <1>0, <1>1, RetiredKept
<1> QED BY <1>0, <1>1, <1>2, <1>3, <1>4 DEF IdInv, IdTypeOK

-----------------------------------------------------------------------------
(* The key store: one DID's records change, and only as an operation says. *)
LEMMA StoreInv == IdInv /\ StoreStep => IdInv' /\ KeepsWithdrawn
<1> SUFFICES ASSUME IdInv, NEW did \in Subjects,
                    \/ create_key(did)
                    \/ \E key \in 1..fresh : rotate_stored_key(did, key) \/ revoke_key(did, key)
             PROVE  IdInv' /\ KeepsWithdrawn
  BY DEF StoreStep
<1> USE IdentityAssumption
<1>0. IdTypeOK /\ documents \in [DOMAIN documents -> DidDocument] /\ fresh \in 0..MaxKeys
      /\ RotationsLead /\ RetiredInactive
  BY DEF IdInv
<1>1. /\ documents' = documents /\ methods' = methods /\ retired' = retired /\ config' = config
      /\ level' = level
  BY DEF create_key, rotate_stored_key, revoke_key
<1>2. records \in [Subjects -> Seq(KeyRecord)]
  BY <1>0 DEF IdTypeOK
<1> DEFINE s == records[did]
<1>3. s \in Seq(KeyRecord) /\ Len(s) \in Nat /\ DOMAIN s = 1..Len(s)
      /\ \A i \in DOMAIN s : s[i] \in KeyRecord
  BY <1>2
(* What is left to show of the one sequence of records. *)
<1> DEFINE Good(t) ==
             /\ t \in Seq(KeyRecord)
             /\ \A i \in DOMAIN s :
                  /\ i <= Len(t) /\ t[i].public_key = s[i].public_key
                  /\ s[i].status # "Active" => t[i].status # "Active"
                  /\ s[i].status = "Revoked" => t[i] = s[i]
             /\ \A i \in DOMAIN t : \A k \in t[i].rotated_to :
                  \E j \in (i + 1)..Len(t) : t[j].public_key = k
<1>4. SUFFICES \E t : Good(t) /\ records' = [records EXCEPT ![did] = t] /\ fresh' \in 0..MaxKeys
  <2>1. PICK t : Good(t) /\ records' = [records EXCEPT ![did] = t] /\ fresh' \in 0..MaxKeys
    BY <1>4
  <2>2. records' \in [Subjects -> Seq(KeyRecord)] /\ records'[did] = t
        /\ \A d \in Subjects : d # did => records'[d] = records[d]
    BY <2>1, <1>2
  <2>3. RotationsLead'
    <3> SUFFICES ASSUME NEW d \in Subjects, NEW i \in DOMAIN records'[d], NEW k \in records'[d][i].rotated_to
                 PROVE  \E j \in (i + 1)..Len(records'[d]) : records'[d][j].public_key = k
      BY DEF RotationsLead
    <3>1. CASE d = did
      BY <3>1, <2>1, <2>2
    <3>2. CASE d # did
      BY <3>2, <2>2, <1>0 DEF RotationsLead
    <3> QED BY <3>1, <3>2
  <2>4. RetiredInactive'
    BY <1>0, <1>1, RetiredKept
  <2>5. KeepsWithdrawn
    <3> SUFFICES ASSUME NEW d \in Subjects, NEW i \in DOMAIN records[d]
                 PROVE  /\ i <= Len(records'[d]) /\ records'[d][i].public_key = records[d][i].public_key
                        /\ records[d][i].status # "Active" => records'[d][i].status # "Active"
                        /\ records[d][i].status = "Revoked" => records'[d][i] = records[d][i]
                        /\ \A k \in records'[d][i].rotated_to :
                             \E j \in (i + 1)..Len(records'[d]) : records'[d][j].public_key = k
      BY <1>1 DEF KeepsWithdrawn
    <3>1. CASE d = did
      <4>1. i \in DOMAIN t
        BY <3>1, <2>1, <1>3
      <4>2. records'[d] = t /\ records[d] = s
        BY <3>1, <2>2
      <4>3. /\ i <= Len(t) /\ t[i].public_key = s[i].public_key
            /\ s[i].status # "Active" => t[i].status # "Active"
            /\ s[i].status = "Revoked" => t[i] = s[i]
        BY <4>2, <2>1
      <4>4. \A k \in t[i].rotated_to : \E j \in (i + 1)..Len(t) : t[j].public_key = k
        BY <4>1, <2>1
      <4> HIDE DEF s, Good
      <4> QED BY <4>2, <4>3, <4>4, Zenon
    <3>2. CASE d # did
      <4>1. records'[d] = records[d] /\ records[d] \in Seq(KeyRecord)
        BY <3>2, <2>2, <1>2
      <4> QED BY <4>1, <1>0 DEF RotationsLead
    <3> QED BY <3>1, <3>2
  <2>6. IdTypeOK'
    BY <1>0, <1>1, <2>2 DEF IdTypeOK
  <2> QED BY <2>1, <2>3, <2>4, <2>5, <2>6, <1>0, <1>1 DEF IdInv
<1>5. \A i \in DOMAIN s : \A k \in s[i].rotated_to : \E j \in (i + 1)..Len(s) : s[j].public_key = k
  BY <1>0 DEF RotationsLead
(* A further record takes nothing away. *)
<1>6. ASSUME NEW r \in Seq(KeyRecord), Len(r) = Len(s), NEW key \in 1..MaxKeys,
             \A i \in DOMAIN s :
                /\ r[i].public_key = s[i].public_key
                /\ s[i].status # "Active" => r[i].status # "Active"
                /\ s[i].status = "Revoked" => r[i] = s[i]
                /\ r[i].rotated_to \in {s[i].rotated_to, {key}}
      PROVE  Good(Append(r, ActiveRecord(key)))
  <2> DEFINE t == Append(r, ActiveRecord(key))
  <2>1. ActiveRecord(key) \in KeyRecord /\ ActiveRecord(key).rotated_to = {}
        /\ ActiveRecord(key).public_key = key
    BY DEF ActiveRecord, KeyRecord, KeyStatus
  <2>2. /\ t \in Seq(KeyRecord) /\ Len(t) = Len(s) + 1
        /\ \A i \in DOMAIN s : t[i] = r[i]
        /\ t[Len(s) + 1] = ActiveRecord(key) /\ DOMAIN t = 1..(Len(s) + 1)
    BY <2>1, <1>3, <1>6
  <2> HIDE DEF t, s
  <2>3. ASSUME NEW i \in DOMAIN t, NEW k \in t[i].rotated_to
        PROVE  \E j \in (i + 1)..Len(t) : t[j].public_key = k
    <3>1. i \in DOMAIN s
      BY <2>1, <2>2, <2>3, <1>3
    <3>2. CASE k = key
      <4>1. Len(s) + 1 \in (i + 1)..Len(t) /\ t[Len(s) + 1].public_key = k
        BY <3>1, <3>2, <2>1, <2>2, <1>3
      <4> QED BY <4>1
    <3>3. CASE k \in s[i].rotated_to
      <4>1. PICK j \in (i + 1)..Len(s) : s[j].public_key = k
        BY <3>1, <3>3, <1>5
      <4>2. j \in DOMAIN s /\ j \in (i + 1)..Len(t)
        BY <4>1, <3>1, <2>2, <1>3
      <4>3. t[j].public_key = k
        BY <4>1, <4>2, <2>2, <1>6
      <4> QED BY <4>2, <4>3
    <3>4. k \in r[i].rotated_to
      BY <3>1, <2>2, <2>3
    <3> QED BY <3>1, <3>2, <3>3, <3>4, <1>6
  <2>4. ASSUME NEW i \in DOMAIN s
        PROVE  /\ i <= Len(t) /\ t[i].public_key = s[i].public_key
               /\ s[i].status # "Active" => t[i].status # "Active"
               /\ s[i].status = "Revoked" => t[i] = s[i]
    BY <2>2, <1>3, <1>6
  <2> QED BY <2>2, <2>3, <2>4 DEF t
<1>7. CASE create_key(did)
  <2>1. fresh' \in 1..MaxKeys /\ records' = [records EXCEPT ![did] = Append(s, ActiveRecord(fresh'))]
    BY <1>7, <1>0, <1>2 DEF create_key
  <2>2. Good(Append(s, ActiveRecord(fresh')))
    <3>1. PICK key \in 1..MaxKeys : key = fresh'
      BY <2>1
    <3> HIDE DEF s, Good
    <3>2. Good(Append(s, ActiveRecord(key)))
      BY <1>3, <1>6
    <3> QED BY <3>1, <3>2
  <2> HIDE DEF Good, s
  <2>3. fresh' \in 0..MaxKeys
    BY <2>1
  <2> QED BY <2>1, <2>2, <2>3
<1>8. ASSUME NEW old \in 1..fresh, rotate_stored_key(did, old)
      PROVE  \E t : Good(t) /\ records' = [records EXCEPT ![did] = t] /\ fresh' \in 0..MaxKeys
  <2> DEFINE i == RecordOf(did, old)
  <2>1. fresh' \in 1..MaxKeys /\ s[i].status = "Active"
    BY <1>8, <1>0 DEF rotate_stored_key
  <2>2. i \in DOMAIN s
    BY <1>8 DEF rotate_stored_key, HasKey, RecordOf
  <2> DEFINE u == [s[i] EXCEPT !.status = "Rotated", !.rotated_to = {fresh'}]
             r == [s EXCEPT ![i] = u]
  <2>3. records' = [records EXCEPT ![did] = Append(r, ActiveRecord(fresh'))]
    BY <1>8, <1>2, <1>3, <2>2 DEF rotate_stored_key
  <2> HIDE DEF i
  <2>4. u \in KeyRecord /\ u.public_key = s[i].public_key /\ u.status = "Rotated" /\ u.rotated_to = {fresh'}
    <3>1. s[i] \in KeyRecord
      BY <1>3, <2>2
    <3> HIDE DEF s
    <3> QED BY <3>1, <2>1 DEF KeyRecord, KeyStatus
  <2> HIDE DEF u
  <2>5. r \in Seq(KeyRecord) /\ Len(r) = Len(s) /\ r[i] = u /\ \A j \in DOMAIN s : j # i => r[j] = s[j]
    BY <1>3, <2>2, <2>4
  <2> HIDE DEF r, s
  <2>6. PICK key \in 1..MaxKeys : key = fresh'
    BY <2>1
  <2>7. \A j \in DOMAIN s :
           /\ r[j].public_key = s[j].public_key
           /\ s[j].status # "Active" => r[j].status # "Active"
           /\ s[j].status = "Revoked" => r[j] = s[j]
           /\ r[j].rotated_to \in {s[j].rotated_to, {key}}
    BY <2>1, <2>4, <2>5, <2>6
  <2> HIDE DEF Good
  <2>8. Good(Append(r, ActiveRecord(key)))
    BY <2>5, <2>7, <1>6
  <2>9. fresh' \in 0..MaxKeys
    BY <2>1
  <2> QED BY <2>3, <2>6, <2>8, <2>9
<1>9. ASSUME NEW key \in 1..fresh, revoke_key(did, key)
      PROVE  \E t : Good(t) /\ records' = [records EXCEPT ![did] = t] /\ fresh' \in 0..MaxKeys
  <2> DEFINE i == RecordOf(did, key)
  <2>1. fresh' \in 0..MaxKeys /\ s[i].status # "Revoked"
    BY <1>9, <1>0 DEF revoke_key
  <2>2. i \in DOMAIN s
    BY <1>9 DEF revoke_key, HasKey, RecordOf
  <2> DEFINE u == [s[i] EXCEPT !.status = "Revoked"]
             t == [s EXCEPT ![i] = u]
  <2>3. records' = [records EXCEPT ![did] = t]
    BY <1>9, <1>2, <1>3, <2>2 DEF revoke_key
  <2> HIDE DEF i
  <2>4. u \in KeyRecord /\ u.public_key = s[i].public_key /\ u.status = "Revoked"
        /\ u.rotated_to = s[i].rotated_to
    <3>1. s[i] \in KeyRecord
      BY <1>3, <2>2
    <3> HIDE DEF s
    <3> QED BY <3>1 DEF KeyRecord, KeyStatus
  <2> HIDE DEF u
  <2>5. t \in Seq(KeyRecord) /\ Len(t) = Len(s) /\ DOMAIN t = DOMAIN s
        /\ t[i] = u /\ \A j \in DOMAIN s : j # i => t[j] = s[j]
    BY <1>3, <2>2, <2>4
  <2> HIDE DEF t, s
  <2>6. \A j \in DOMAIN s : t[j].public_key = s[j].public_key /\ t[j].rotated_to = s[j].rotated_to
    BY <2>4, <2>5
  <2>7. ASSUME NEW j \in DOMAIN t, NEW k \in t[j].rotated_to
        PROVE  \E m \in (j + 1)..Len(t) : t[m].public_key = k
    <3>1. PICK m \in (j + 1)..Len(s) : s[m].public_key = k
      BY <2>5, <2>6, <2>7, <1>5
    <3>2. m \in DOMAIN s /\ m \in (j + 1)..Len(t)
      BY <3>1, <2>5, <1>3
    <3> QED BY <3>1, <3>2, <2>6
  <2>8. \A j \in DOMAIN s :
           /\ j <= Len(t)
           /\ s[j].status # "Active" => t[j].status # "Active"
           /\ s[j].status = "Revoked" => t[j] = s[j]
    BY <2>1, <2>4, <2>5, <1>3
  <2>9. Good(t)
    BY <2>5, <2>6, <2>7, <2>8
  <2> HIDE DEF Good
  <2> QED BY <2>1, <2>3, <2>9
<1> HIDE DEF Good
<1> QED BY <1>7, <1>8, <1>9

-----------------------------------------------------------------------------
(* Operators of one configuration: who is in charge differs by level. *)
LEMMA OperatorsOf ==
    ASSUME NEW cfg \in PaceConfig, validate(cfg), NEW k \in 1..4, NEW l \in 1..4,
           resolve_operator(cfg, k) = resolve_operator(cfg, l)
    PROVE  k = l
<1> DEFINE a == cfg.alternates
           c == cfg.contingency
           e == cfg.emergency
           all == AllDids(cfg)
           at == <<1, 2, 2 + Len(a), 2 + Len(a) + Len(c)>>
<1>1. /\ a \in Seq(Successors) /\ c \in Seq(Successors) /\ e \in Seq(Successors)
      /\ a # <<>> /\ c # <<>> /\ e # <<>>
  BY DEF PaceConfig, validate
<1>2. Len(a) \in Nat \ {0} /\ Len(c) \in Nat \ {0} /\ Len(e) \in Nat \ {0}
  BY <1>1
<1>3. all = <<cfg.primary>> \o a \o c \o e
  BY DEF AllDids
<1> HIDE DEF all
<1>4. \A i, j \in DOMAIN all : all[i] = all[j] => i = j
  BY DEF validate, all
<1> DEFINE p == <<cfg.primary>>
<1>p. p \in Seq(Successors) /\ Len(p) = 1 /\ p[1] = cfg.primary
  BY DEF PaceConfig
<1>5. /\ all[1] = cfg.primary /\ all[2] = a[1]
      /\ all[2 + Len(a)] = c[1] /\ all[2 + Len(a) + Len(c)] = e[1]
      /\ DOMAIN all = 1..(1 + Len(a) + Len(c) + Len(e))
  <2> HIDE DEF a, c, e, p
  <2>1. Len(a) > 0 /\ Len(c) > 0 /\ Len(e) > 0
    BY <1>2
  <2>2. all = p \o a \o c \o e
    BY <1>3 DEF p, a, c, e
  <2>3. PICK pa : pa = p \o a
    OBVIOUS
  <2>4. /\ pa \in Seq(Successors) /\ Len(pa) = 1 + Len(a) /\ pa[1] = p[1] /\ pa[2] = a[1]
    <3>1. p \in Seq(Successors) /\ a \in Seq(Successors)
      BY <1>1, <1>p
    <3>2. /\ p \o a \in Seq(Successors) /\ Len(p \o a) = Len(p) + Len(a)
          /\ \A i \in 1..(Len(p) + Len(a)) :
                (p \o a)[i] = IF i <= Len(p) THEN p[i] ELSE a[i - Len(p)]
      BY <3>1, ConcatProperties
    <3> QED BY <3>1, <3>2, <1>2, <1>p, <2>3
  <2>5. PICK pac : pac = pa \o c
    OBVIOUS
  <2>6. /\ pac \in Seq(Successors) /\ Len(pac) = 1 + Len(a) + Len(c)
        /\ pac[1] = p[1] /\ pac[2] = a[1] /\ pac[2 + Len(a)] = c[1]
    <3>1. pa \in Seq(Successors) /\ c \in Seq(Successors)
      BY <1>1, <2>4
    <3>2. /\ pa \o c \in Seq(Successors) /\ Len(pa \o c) = Len(pa) + Len(c)
          /\ \A i \in 1..(Len(pa) + Len(c)) :
                (pa \o c)[i] = IF i <= Len(pa) THEN pa[i] ELSE c[i - Len(pa)]
      BY <3>1, ConcatProperties
    <3> QED BY <3>1, <3>2, <1>2, <2>4, <2>5
  <2>7. all = pac \o e
    BY <2>2, <2>3, <2>5
  <2>8. /\ all \in Seq(Successors) /\ Len(all) = 1 + Len(a) + Len(c) + Len(e)
        /\ all[1] = p[1] /\ all[2] = a[1] /\ all[2 + Len(a)] = c[1]
        /\ all[2 + Len(a) + Len(c)] = e[1]
    <3>1. pac \in Seq(Successors) /\ e \in Seq(Successors)
      BY <1>1, <2>6
    <3>2. /\ pac \o e \in Seq(Successors) /\ Len(pac \o e) = Len(pac) + Len(e)
          /\ \A i \in 1..(Len(pac) + Len(e)) :
                (pac \o e)[i] = IF i <= Len(pac) THEN pac[i] ELSE e[i - Len(pac)]
      BY <3>1, ConcatProperties
    <3> QED BY <3>1, <3>2, <1>2, <2>6, <2>7
  <2> QED BY <1>p, <2>8
<1>6. \A m \in 1..4 : at[m] \in DOMAIN all /\ all[at[m]] = resolve_operator(cfg, m)
  <2> HIDE DEF a, c, e
  <2>1. resolve_operator(cfg, 1) = cfg.primary /\ resolve_operator(cfg, 2) = a[1]
        /\ resolve_operator(cfg, 3) = c[1] /\ resolve_operator(cfg, 4) = e[1]
    BY DEF resolve_operator, a, c, e
  <2>2. at[1] = 1 /\ at[2] = 2 /\ at[3] = 2 + Len(a) /\ at[4] = 2 + Len(a) + Len(c)
    OBVIOUS
  <2> HIDE DEF at
  <2>3. \A m \in 1..4 : m = 1 \/ m = 2 \/ m = 3 \/ m = 4
    OBVIOUS
  <2> QED BY <1>2, <1>5, <2>1, <2>2, <2>3
<1>7. at[k] = at[l]
  <2> HIDE DEF at
  <2> QED BY <1>4, <1>6
<1> HIDE DEF a, c, e
<1> QED BY <1>2, <1>7

(* ... which a valid configuration of the current state does as well. *)
LEMMA OperatorsDiffer == IdTypeOK => OwnOperator
<1> SUFFICES ASSUME config \in PaceConfig, validate(config), NEW k \in 1..4, NEW l \in 1..4,
                    resolve_operator(config, k) = resolve_operator(config, l)
             PROVE  k = l
  BY DEF IdTypeOK, OwnOperator
<1>1. PICK cfg : cfg = config
  OBVIOUS
<1> QED BY <1>1, OperatorsOf

(* A signature only verifies against a method that is active, and the method of a
   rotated id is not. *)
LEMMA RotatedAway == IdInv => RotatedNeverVerifies
<1> SUFFICES ASSUME IdInv PROVE RotatedNeverVerifies
  OBVIOUS
<1>1. ASSUME NEW id \in retired, NEW key \in 1..MaxKeys
      PROVE  ~verify_did_signature(id, "message", Sig(key, "message"))
  BY <1>1 DEF IdInv, RetiredInactive, verify_did_signature, MethodOf
<1>2. ASSUME NEW id, NEW key \in 1..MaxKeys, verify_did_signature(id, "message", Sig(key, "message"))
      PROVE  \E i \in DOMAIN methods : methods[i].key = key /\ methods[i].active
  <2>1. HasMethod(id) /\ methods[First(id)].active
        /\ Sig(key, "message") = Sig(methods[First(id)].key, "message")
    BY <1>2 DEF verify_did_signature, MethodOf
  <2>2. methods \in Seq(VerificationMethod)
    BY DEF IdInv, IdTypeOK
  <2>3. First(id) \in DOMAIN methods
    BY <2>1, <2>2, FirstIsFirst DEF IsFirst
  <2>4. methods[First(id)].key = key
    BY <2>1 DEF Sig
  <2> QED BY <2>1, <2>3, <2>4
<1> QED BY <1>1, <1>2 DEF RotatedNeverVerifies

(* The invariant holds under every operation of the registry, the documents, the
   key store and PACE. *)
THEOREM IdentityInvariant == IdSpec => []IdInv
<1>1. IdInit => IdInv
  BY IdInitInv
<1>2. IdInv /\ [IdNext]_idVars => IdInv'
  <2> SUFFICES ASSUME IdInv, [IdNext]_idVars PROVE IdInv'
    OBVIOUS
  <2>1. CASE IdNext
    BY <2>1, RegistryInv, MethodsInv, StoreInv, PaceInv DEF IdNext
  <2>2. CASE UNCHANGED idVars
    <3>1. UNCHANGED <<documents, methods, retired, records, fresh, config, level>>
      BY <2>2 DEF idVars
    <3>2. RotationsLead'
      BY <3>1 DEF IdInv, RotationsLead
    <3>3. RetiredInactive'
      BY <3>1, RetiredKept DEF IdInv
    <3> QED BY <3>1, <3>2, <3>3 DEF IdInv, IdTypeOK
  <2> QED BY <2>1, <2>2
<1> QED BY <1>1, <1>2, PTL DEF IdSpec

(* did_verification.rs, key_management.rs, pace.rs: a rotated method verifies no
   signature and a level of a valid configuration has its own operator, for any
   number of methods, keys and successors. *)
THEOREM IdentityIsSound == IdSpec => []IdentitySound
<1>1. IdInv => IdentitySound
  BY OperatorsDiffer, RotatedAway DEF IdentitySound, IdInv
<1> QED BY <1>1, IdentityInvariant, PTL

(* did.rs, key_management.rs: no operation makes a revoked document or a
   revoked key usable again, and a rotated record keeps pointing onwards. *)
THEOREM WithdrawnStaysWithdrawn == IdSpec => WithdrawnForGood
<1>1. IdInv /\ [IdNext]_idVars => [KeepsWithdrawn]_idVars
  BY RegistryInv, MethodsInv, StoreInv, PaceInv DEF IdNext
<1> QED BY <1>1, IdentityInvariant, PTL DEF IdSpec, WithdrawnForGood

-----------------------------------------------------------------------------
(***************************************************************************)
(* Signatures.                                                              *)
(***************************************************************************)
(* A block that signs something is not the block of zeros. *)
LEMMA BlockNotZeros == ASSUME NEW alg, NEW pair, NEW m PROVE Block(alg, pair, m) # Zeros
BY DEF Block, Zeros

(* What verifies is what was signed. *)
LEMMA VerifiedIsSigned ==
    ASSUME NEW s \in Signatures, NEW m, NEW p, NEW q
    PROVE  /\ verify(m, s, p) => s = sign(m, p)
           /\ verify_pq(m, s, p) => s = sign_pq(m, p)
           /\ verify_hybrid(m, s, p, q) => s = sign_hybrid(m, p, q)
           /\ is_empty(s) => ~verify(m, s, p) /\ ~verify_pq(m, s, p) /\ ~verify_hybrid(m, s, p, q)
           /\ deserialize(serialize(s)) = {s}
<1> DEFINE ed == Block("ed", p, m)
           pq == Block("pq", q, m)
           pp == Block("pq", p, m)
<1>0. ed # Zeros /\ pq # Zeros /\ pp # Zeros
  BY BlockNotZeros
<1> HIDE DEF ed, pq, pp
<1>1. /\ verify(m, s, p) <=> s.kind = "Ed25519" /\ s.classical = <<ed>>
      /\ verify_pq(m, s, p) <=> s.kind = "PostQuantum" /\ s.pq = <<pp>>
      /\ verify_hybrid(m, s, p, q) <=> s.kind = "Hybrid" /\ s.classical = <<ed>> /\ s.pq = <<pq>>
      /\ sign(m, p) = Ed25519(<<ed>>) /\ sign_pq(m, p) = PostQuantum(<<pp>>)
      /\ sign_hybrid(m, p, q) = Hybrid(<<ed>>, <<pq>>)
  BY DEF verify, verify_pq, verify_hybrid, verify_ed25519_bytes, sign, sign_pq, sign_hybrid,
         Ed25519, PostQuantum, Hybrid, ed, pq, pp
<1>2. CASE s \in Ed25519s
  <2>1. PICK b \in Blocks : s = [kind |-> "Ed25519", classical |-> <<b>>, pq |-> <<>>]
    BY <1>2 DEF Ed25519s, Bytes
  <2> QED BY <1>0, <1>1, <2>1 DEF Ed25519, is_empty, deserialize, serialize
<1>3. CASE s \in PostQuantums
  <2>1. PICK z \in {<<>>} \cup Bytes : s = [kind |-> "PostQuantum", classical |-> <<>>, pq |-> z]
    BY <1>3 DEF PostQuantums
  <2> QED BY <1>0, <1>1, <2>1 DEF PostQuantum, is_empty, deserialize, serialize
<1>4. CASE s \in Hybrids
  <2>1. PICK b \in Blocks, z \in {<<>>} \cup Bytes :
           s = [kind |-> "Hybrid", classical |-> <<b>>, pq |-> z]
    BY <1>4 DEF Hybrids, Bytes
  <2> QED BY <1>0, <1>1, <2>1 DEF Hybrid, is_empty, deserialize, serialize
<1>5. CASE s = EmptySignature
  BY <1>0, <1>1, <1>5 DEF EmptySignature, is_empty, deserialize, serialize
<1> QED BY <1>2, <1>3, <1>4, <1>5 DEF Signatures

(* An event of equal fields, signed with p, of which one field was changed. *)
Altered(x, p, f, y) == [create_signed_event([g \in EventFields |-> x], p) EXCEPT ![f] = y]

(* Of a signed event no field can change, and it verifies under one key. *)
LEMMA EventsSealed ==
    ASSUME NEW f \in EventFields, NEW x, NEW y, NEW p, NEW q
    PROVE  verify_event(Altered(x, p, f, y), q) <=> x = y /\ p = q
<1> DEFINE fields == [g \in EventFields |-> x]
           event == create_signed_event(fields, p)
           changed == [event EXCEPT ![f] = y]
<1>1. f # "signature" /\ "signature" \notin EventFields
  BY DEF EventFields
<1>2. signable_bytes(fields) = fields
  BY DEF signable_bytes
<1>3. event = [g \in EventFields \cup {"signature"} |-> IF g = "signature" THEN sign(fields, p) ELSE x]
  BY <1>1, <1>2 DEF create_signed_event
<1>4. changed.signature = sign(fields, p)
  BY <1>1, <1>3
<1>5. signable_bytes(changed) = [g \in EventFields |-> IF g = f THEN y ELSE x]
  BY <1>1, <1>3 DEF signable_bytes
<1>6. signable_bytes(changed) = fields <=> x = y
  BY <1>5
<1>7. verify_event(changed, q) <=>
         <<Block("ed", p, fields)>> = <<Block("ed", q, signable_bytes(changed))>>
  BY <1>4 DEF verify_event, verify, verify_ed25519_bytes, sign, Ed25519
<1> HIDE DEF fields, event, changed
<1>8. verify_event(changed, q) <=> p = q /\ fields = signable_bytes(changed)
  BY <1>7 DEF Block
<1>9. verify_event(changed, q) <=> x = y /\ p = q
  BY <1>6, <1>8
<1> QED BY <1>9 DEF changed, event, fields, Altered

(* crypto.rs, events.rs, for any keys and messages: a signature somebody     *)
(* holds, however it was made, stored or put together, is good for what was  *)
(* signed and for nothing else.                                              *)
THEOREM SignaturesAlwaysBind == SigSpec => []SignaturesBind
<1>1. SigInit => signature \in Signatures
  BY DEF SigInit
<1>2. signature \in Signatures /\ [SigNext]_sigVars => (signature \in Signatures)'
  <2> SUFFICES ASSUME signature \in Signatures, [SigNext]_sigVars PROVE signature' \in Signatures
    OBVIOUS
  <2>1. ASSUME NEW m \in Messages, NEW p \in Pairs, NEW q \in Pairs
        PROVE  sign(m, p) \in Signatures /\ sign_pq(m, p) \in Signatures
               /\ sign_hybrid(m, p, q) \in Signatures
    <3>1. \A alg \in {"ed", "pq"}, o \in Pairs : Block(alg, o, m) \in Blocks
      BY DEF Blocks
    <3>2. PICK b, c, d \in Blocks : b = Block("ed", p, m) /\ c = Block("pq", p, m) /\ d = Block("pq", q, m)
      BY <3>1
    <3>3. sign(m, p) = Ed25519(<<b>>) /\ sign_pq(m, p) = PostQuantum(<<c>>)
          /\ sign_hybrid(m, p, q) = Hybrid(<<b>>, <<d>>)
      BY <3>2 DEF sign, sign_pq, sign_hybrid, Ed25519, PostQuantum
    <3>4. <<b>> \in Bytes /\ <<c>> \in Bytes /\ <<d>> \in Bytes
      BY DEF Bytes
    <3> QED BY <3>3, <3>4
            DEF Signatures, Ed25519s, PostQuantums, Hybrids, Ed25519, PostQuantum, Hybrid
  <2>2. deserialize(serialize(signature)) = {signature}
    BY VerifiedIsSigned
  <2> QED BY <2>1, <2>2 DEF SigNext, sigVars
<1>3. ASSUME signature \in Signatures PROVE SignaturesBind
  <2>1. PICK s \in Signatures : s = signature
    BY <1>3
  <2>2. \A m, p, q :
           /\ verify(m, s, p) => s = sign(m, p)
           /\ verify_pq(m, s, p) => s = sign_pq(m, p)
           /\ verify_hybrid(m, s, p, q) => s = sign_hybrid(m, p, q)
           /\ is_empty(s) => ~verify(m, s, p) /\ ~verify_pq(m, s, p) /\ ~verify_hybrid(m, s, p, q)
           /\ deserialize(serialize(s)) = {s}
    BY VerifiedIsSigned, Zenon
  <2>3. \A f \in EventFields, x, y \in Messages, p, q \in Pairs :
           LET event == create_signed_event([g \in EventFields |-> x], p)
           IN  verify_event([event EXCEPT ![f] = y], q) <=> x = y /\ p = q
    <3> TAKE f \in EventFields, x, y \in Messages, p, q \in Pairs
    <3>1. verify_event(Altered(x, p, f, y), q) <=> x = y /\ p = q
      BY EventsSealed
    <3> QED BY <3>1, Zenon DEF Altered
  <2> QED BY <2>1, <2>2, <2>3, Zenon DEF SignaturesBind
<1> QED BY <1>1, <1>2, <1>3, PTL DEF SigSpec

-----------------------------------------------------------------------------
(***************************************************************************)
(* Authority chains.                                                        *)
(***************************************************************************)
SignedLink(from, to, scope, expires, depth, signer) ==
    [Unsigned(from, to, scope, expires, depth) EXCEPT
        !.signature = Sign(Unsigned(from, to, scope, expires, depth), signer)]

Payloads == Holders \X Holders \X (SUBSET Granted) \X {1, Forever} \X Nat \X {"Unknown"}
ChainLinks ==
    [delegator : Holders, delegate : Holders, scope : SUBSET Granted, expires : {1, Forever},
     depth : Nat, kind : {"Unknown"}, signature : [key : Holders, over : Payloads]]

(* Scopes that narrow from link to link are all at least the last one. *)
LEMMA LeafIsLeast ==
    ASSUME NEW n \in Nat \ {0}, NEW scope, \A i \in 2..n : scope[i] \subseteq scope[i - 1],
           NEW p, p \in scope[n], NEW i \in 1..n
    PROVE  p \in scope[i]
<1> DEFINE K == {k \in Nat : k < n /\ p \notin scope[n - k]}
<1> SUFFICES ASSUME p \notin scope[i] PROVE FALSE
  OBVIOUS
<1>1. PICK d \in Nat : d = n - i /\ d < n /\ n - d = i
  OBVIOUS
<1>2. d \in K
  BY <1>1
<1>3. PICK m \in K : \A k \in K : m <= k
  BY <1>2, LeastNat
<1>4. m # 0
  BY <1>3
<1>5. PICK j \in 2..n : j = n - m + 1 /\ j - 1 = n - m /\ n - (m - 1) = j
  BY <1>3, <1>4
<1>6. m - 1 \in Nat /\ m - 1 \notin K
  BY <1>3, <1>4
<1>7. p \in scope[j]
  BY <1>3, <1>5, <1>6
<1>8. p \in scope[j - 1]
  BY <1>5, <1>7
<1> QED BY <1>3, <1>5, <1>8

(* A beginning of a chain that builds and verifies does so too, and the rest *)
(* of it does not build: its first depth is not zero.                        *)
LEMMA Beginnings ==
    ASSUME NEW c \in Seq(ChainLinks), NEW t,
           build_chain_with_depth(c, MaxLinks), verify_chain(c, MaxLinks, t),
           NEW k \in 1..(Len(c) - 1)
    PROVE  /\ build_chain_with_depth(SubSeq(c, 1, k), MaxLinks)
           /\ verify_chain(SubSeq(c, 1, k), MaxLinks, t)
           /\ ~build_chain_with_depth(SubSeq(c, k + 1, Len(c)), MaxLinks)
<1>1. PICK n : n = Len(c)
  OBVIOUS
<1>2. n \in Nat /\ DOMAIN c = 1..n /\ MaxLinks \in Nat /\ n <= MaxLinks /\ k \in 1..n /\ k <= n
  BY <1>1, LenProperties, ChainAssumption DEF build_chain_with_depth
<1>3. PICK b : b = SubSeq(c, 1, k)
  OBVIOUS
<1>4. Len(b) = k /\ (\A i \in 1..k : b[i] = c[i]) /\ DOMAIN b = 1..k
  <2>1. Len(b) = k /\ \A i \in 1..k : b[i] = c[i]
    BY <1>1, <1>2, <1>3
  <2>2. b \in Seq(ChainLinks)
    BY <1>1, <1>2, <1>3, SubSeqProperties
  <2> QED BY <2>1, <2>2, LenProperties
<1>5. b # <<>>
  BY <1>2, <1>4
<1>6. build_chain_with_depth(b, MaxLinks)
  <2>1. \A i \in 1..k : b[i].depth = i - 1
    BY <1>1, <1>2, <1>4 DEF build_chain_with_depth
  <2>2. \A i \in 2..k : b[i - 1].delegate = b[i].delegator
    <3> TAKE i \in 2..k
    <3>1. i \in 1..k /\ i - 1 \in 1..k /\ i \in 2..n
      BY <1>2
    <3> QED BY <1>1, <1>4, <3>1 DEF build_chain_with_depth
  <2> QED BY <1>2, <1>4, <1>5, <2>1, <2>2 DEF build_chain_with_depth
<1>7. verify_chain(b, MaxLinks, t)
  <2> DEFINE keys == [h \in Holders |-> h]
  <2>1. ASSUME NEW i \in 1..k
        PROVE  /\ b[i].delegator \in DOMAIN keys
               /\ b[i].signature = Sign(b[i], keys[b[i].delegator])
               /\ ~LinkExpired(b[i], t)
               /\ Narrows(b, i)
    <3>1. i \in DOMAIN c /\ b[i] = c[i] /\ (i > 1 => i - 1 \in 1..k)
      BY <1>2, <1>4
    <3>2. /\ c[i].delegator \in DOMAIN keys
          /\ c[i].signature = Sign(c[i], keys[c[i].delegator])
          /\ ~LinkExpired(c[i], t)
          /\ Narrows(c, i)
      BY <3>1 DEF verify_chain, verify_chain_with
    <3>3. Narrows(b, i)
      BY <1>4, <3>1, <3>2 DEF Narrows
    <3> QED BY <3>1, <3>2, <3>3
  <2> HIDE DEF keys
  <2>2. verify_chain_with(b, MaxLinks, t, keys)
    BY <1>2, <1>4, <1>5, <2>1 DEF verify_chain_with
  <2> QED BY <2>2 DEF verify_chain, keys
<1>8. ~build_chain_with_depth(SubSeq(c, k + 1, n), MaxLinks)
  <2>1. PICK r : r = SubSeq(c, k + 1, n)
    OBVIOUS
  <2>2. k + 1 \in 1..n /\ c[k + 1].depth = k
    BY <1>1, <1>2 DEF build_chain_with_depth
  <2>3. r \in Seq(ChainLinks) /\ Len(r) = n - k /\ r[1] = c[k + 1]
    BY <1>1, <1>2, <2>1, <2>2, SubSeqProperties
  <2>4. 1 \in DOMAIN r
    BY <1>2, <2>2, <2>3, LenProperties
  <2>5. build_chain_with_depth(r, MaxLinks) => r[1].depth = 1 - 1
    BY <2>4 DEF build_chain_with_depth
  <2>6. k # 1 - 1
    OBVIOUS
  <2> QED BY <2>1, <2>2, <2>3, <2>5, <2>6
<1> QED BY <1>1, <1>3, <1>6, <1>7, <1>8

(* chain.rs, permission.rs, for any holders, permissions and length: however *)
(* links are added and signed, a chain that builds and verifies grants what  *)
(* its last link does, and time only ever takes away.                        *)
THEOREM ChainsAlwaysNarrow == ChainSpec => []ChainsNarrow
<1> DEFINE Inv == chain \in Seq(ChainLinks) /\ instant \in Nat
<1>1. ChainInit => Inv
  BY DEF ChainInit
<1>2. Inv /\ [ChainNext]_chainVars => Inv'
  <2> SUFFICES ASSUME Inv, [ChainNext]_chainVars PROVE Inv'
    OBVIOUS
  <2>1. CASE UNCHANGED chainVars \/ Wait
    BY <2>1 DEF chainVars, Wait
  <2>2. ASSUME NEW from \in Holders, NEW to \in Holders, NEW signer \in Holders,
               NEW sc \in SUBSET Granted, NEW exp \in {1, Forever},
               NEW dep \in {Len(chain), Len(chain) + 1}, AddLink(from, to, sc, exp, signer, dep)
        PROVE  Inv'
    <3>1. dep \in Nat
      BY LenProperties
    <3>2. SignedLink(from, to, sc, exp, dep, signer) \in ChainLinks
      <4>1. signable_payload(Unsigned(from, to, sc, exp, dep)) \in Payloads
        BY <3>1 DEF signable_payload, Unsigned, Payloads
      <4>2. PICK sg \in [key : Holders, over : Payloads] : sg = Sign(Unsigned(from, to, sc, exp, dep), signer)
        BY <4>1 DEF Sign
      <4>3. SignedLink(from, to, sc, exp, dep, signer) =
               [delegator |-> from, delegate |-> to, scope |-> sc, expires |-> exp,
                depth |-> dep, kind |-> "Unknown", signature |-> sg]
        BY <4>2 DEF SignedLink, Unsigned
      <4> QED BY <3>1, <4>3 DEF ChainLinks
    <3>3. chain' = Append(chain, SignedLink(from, to, sc, exp, dep, signer)) /\ instant' = instant
      BY <2>2 DEF AddLink, SignedLink
    <3> QED BY <3>2, <3>3, AppendProperties
  <2> QED BY <2>1, <2>2 DEF ChainNext
<1>3. Inv => ChainsNarrow
  <2> SUFFICES ASSUME Inv, build_chain_with_depth(chain, MaxLinks), verify_chain(chain, MaxLinks, instant)
               PROVE  LET n == Len(chain)
                          good(ls) == /\ build_chain_with_depth(ls, MaxLinks)
                                      /\ verify_chain(ls, MaxLinks, instant)
                      IN  /\ \A p \in Granted : has_permission(chain, p) <=> p \in chain[n].scope
                          /\ \A k \in 1..(n - 1) :
                                good(SubSeq(chain, 1, k)) /\ ~good(SubSeq(chain, k + 1, n))
                          /\ \A earlier \in 0..instant : verify_chain(chain, MaxLinks, earlier)
    BY DEF ChainsNarrow
  <2>1. PICK c, n, t : c = chain /\ n = Len(c) /\ t = instant
    OBVIOUS
  <2>2. c \in Seq(ChainLinks) /\ n \in Nat \ {0} /\ DOMAIN c = 1..n /\ t \in Nat
    <3>1. c # <<>>
      BY <2>1 DEF build_chain_with_depth
    <3> QED BY <2>1, <3>1, LenProperties, EmptySeq
  <2>3. build_chain_with_depth(c, MaxLinks) /\ verify_chain(c, MaxLinks, t)
    BY <2>1
  <2>4. \A k \in 1..(n - 1) :
           /\ build_chain_with_depth(SubSeq(c, 1, k), MaxLinks)
           /\ verify_chain(SubSeq(c, 1, k), MaxLinks, t)
           /\ ~build_chain_with_depth(SubSeq(c, k + 1, n), MaxLinks)
    BY <2>1, <2>2, <2>3, Beginnings
  <2>5. ASSUME NEW p \in Granted PROVE has_permission(c, p) <=> p \in c[n].scope
    <3>1. has_permission(c, p) => p \in c[n].scope
      BY <2>2 DEF has_permission
    <3>2. PICK sc : sc = [i \in 1..n |-> c[i].scope]
      OBVIOUS
    <3>3. \A i \in 2..n : sc[i] \subseteq sc[i - 1]
      <4> TAKE i \in 2..n
      <4>1. i \in DOMAIN c /\ i > 1 /\ i - 1 \in 1..n /\ i \in 1..n
        BY <2>2
      <4>2. Narrows(c, i)
        BY <2>3, <4>1 DEF verify_chain, verify_chain_with
      <4> QED BY <3>2, <4>1, <4>2 DEF Narrows, is_subset
    <3>4. ASSUME p \in c[n].scope, NEW i \in 1..n PROVE p \in c[i].scope
      <4>1. p \in sc[n]
        BY <2>2, <3>2, <3>4
      <4>2. p \in sc[i]
        BY <2>2, <3>3, <4>1, LeafIsLeast
      <4> QED BY <3>2, <4>2
    <3> QED BY <2>2, <3>1, <3>4 DEF has_permission
  <2>6. ASSUME NEW earlier \in 0..t PROVE verify_chain(c, MaxLinks, earlier)
    <3>1. ASSUME NEW i \in DOMAIN c, ~LinkExpired(c[i], t) PROVE ~LinkExpired(c[i], earlier)
      <4>1. c[i] \in ChainLinks
        BY <2>2, <3>1
      <4>2. c[i].expires \in {1, Forever}
        BY <4>1 DEF ChainLinks
      <4> QED BY <2>2, <3>1, <4>2 DEF LinkExpired
    <3> QED BY <2>3, <3>1 DEF verify_chain, verify_chain_with
  <2> QED BY <2>1, <2>4, <2>5, <2>6
<1> QED BY <1>1, <1>2, <1>3, PTL DEF ChainSpec
=============================================================================
