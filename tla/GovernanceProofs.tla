-------------------------- MODULE GovernanceProofs --------------------------
(***************************************************************************)
(* exo-governance, exo-legal and exo-escalation, for any number of members, *)
(* writers, entries and parties: each hash-chained log is an append-only    *)
(* list of facts that always verifies and is in order, and a copy changed   *)
(* before its last entry verifies only if its texts read the same; what a   *)
(* deliberation announced stands, linked                                    *)
(* actors do not count and no conflict is lost; evidence and held records   *)
(* are kept, safe harbours rest on disinterested votes and every case is on *)
(* the board once.                                                          *)
(***************************************************************************)
EXTENDS Governance, LegalRecords, Escalation, SequenceTheorems, FiniteSetTheorems, TLAPS

-----------------------------------------------------------------------------
(* The inductive invariant.  A digest may nest to any depth, so a log is a *)
(* sequence over some set.                                                 *)
IsSeq(s) == \E S : s \in Seq(S)

(* What an entry follows was created before it.                            *)
FollowsEarlier(e) == e.chain_hash = Zero \/ e.chain_hash[1] < e.at

(* A log of entries created up to some time.                               *)
GoodLog(n, log, time) ==
    /\ IsSeq(log)
    /\ \A i \in DOMAIN log : log[i].fact \in FactsOf(n) /\ log[i].at \in 1..time
    /\ verify_chain(n, log)
    /\ \A i, j \in DOMAIN log : i < j => log[i].at < log[j].at

(* An entry created and not yet appended.                                  *)
GoodDraft(d, time) ==
    /\ d[1] \in LogNames
    /\ d[2].fact \in FactsOf(d[1]) /\ d[2].at \in 1..time
    /\ FollowsEarlier(d[2])

GoodCustody(chain) ==
    /\ IsSeq(chain)
    /\ \A i \in DOMAIN chain : chain[i].fact \in Facts
    /\ verify_integrity(chain)

AuditInv ==
    /\ created \in Nat
    /\ logs = [n \in LogNames |-> logs[n]]
    /\ \A n \in LogNames : GoodLog(n, logs[n], created)
    /\ drafts = [w \in Writers |-> drafts[w]]
    /\ \A w \in Writers : \A d \in drafts[w] : GoodDraft(d, created)
    /\ GoodCustody(events)

-----------------------------------------------------------------------------
(* The length, domain and last entry of a log. *)
LEMMA SeqFacts ==
    ASSUME NEW s, IsSeq(s)
    PROVE  /\ Len(s) \in Nat /\ DOMAIN s = 1..Len(s)
           /\ s = <<>> <=> Len(s) = 0
           /\ s # <<>> => Len(s) \in DOMAIN s /\ Last(s) = s[Len(s)]
<1>1. PICK S : s \in Seq(S)
  BY DEF IsSeq
<1> QED
  BY <1>1, LenProperties, EmptySeq DEF Last

(* What an append does to the entries and the length of a log. *)
LEMMA AppendFacts ==
    ASSUME NEW s, IsSeq(s), NEW e
    PROVE  /\ IsSeq(Append(s, e))
           /\ Len(Append(s, e)) = Len(s) + 1
           /\ DOMAIN Append(s, e) = 1..(Len(s) + 1)
           /\ \A i \in 1..Len(s) : Append(s, e)[i] = s[i]
           /\ Append(s, e)[Len(s) + 1] = e
<1>1. PICK S : s \in Seq(S)
  BY DEF IsSeq
<1> DEFINE T == S \cup {e}
<1>2. s \in Seq(T)
  BY <1>1, SeqMonotonic
<1>3. e \in T
  OBVIOUS
<1>4. Append(s, e) \in Seq(T)
  BY <1>2, <1>3
<1> HIDE DEF T
<1> QED
  BY <1>2, <1>3, <1>4 DEF IsSeq

(* What a log says after an append is what it said and the new fact.       *)
LEMMA SaysAppend ==
    ASSUME NEW s, IsSeq(s), NEW e
    PROVE  Says(Append(s, e)) = Append(Says(s), e.fact)
<1> DEFINE n == Len(s)
           F == {s[i].fact : i \in 1..n} \cup {e.fact}
           g == Says(s)
           h == Says(Append(s, e))
<1>1. n \in Nat /\ DOMAIN s = 1..n
  BY SeqFacts
<1>2. /\ DOMAIN Append(s, e) = 1..(n + 1)
      /\ \A i \in 1..n : Append(s, e)[i] = s[i]
      /\ Append(s, e)[n + 1] = e
  BY AppendFacts
<1>3. g \in [1..n -> F] /\ \A i \in 1..n : g[i] = s[i].fact
  BY <1>1 DEF Says
<1>4. h = [i \in 1..(n + 1) |-> Append(s, e)[i].fact]
  BY <1>2 DEF Says
<1>5. \A i \in 1..n : h[i] = s[i].fact
  BY <1>1, <1>2, <1>4
<1>6. h[n + 1] = e.fact
  BY <1>1, <1>2, <1>4
<1>7. h \in [1..(n + 1) -> F]
  <2>1. \A i \in 1..(n + 1) : h[i] \in F
    <3>1. \A i \in 1..n : h[i] \in F
      BY <1>5
    <3>2. h[n + 1] \in F
      BY <1>6
    <3> QED
      BY <3>1, <3>2, <1>1
  <2> HIDE DEF F
  <2> QED
    BY <1>4, <2>1
<1>8. e.fact \in F
  OBVIOUS
<1> HIDE DEF n, F, g, h
<1>9. g \in Seq(F) /\ h \in Seq(F)
  BY <1>1, <1>3, <1>7, SeqDef
<1>10. Len(g) = n /\ Len(h) = n + 1
  BY <1>1, <1>3, <1>7, <1>9
<1>11. /\ Append(g, e.fact) \in Seq(F)
       /\ Len(Append(g, e.fact)) = n + 1
       /\ \A i \in 1..(n + 1) : Append(g, e.fact)[i] = h[i]
  BY <1>1, <1>3, <1>5, <1>6, <1>8, <1>9, <1>10
<1>12. h = Append(g, e.fact)
  BY <1>9, <1>10, <1>11, SeqEqual
<1> QED
  BY <1>12 DEF g, h

(* A digest begins with the time of its entry and is not the zero hash.    *)
LEMMA DigestHead ==
    ASSUME NEW n, NEW e
    PROVE  Digest(n, e) # Zero /\ Digest(n, e)[1] = e.at
<1>1. CASE n = "mcp"
  BY <1>1 DEF Digest, hash_record, Zero
<1>2. CASE n # "mcp"
  BY <1>2 DEF Digest, hash_entry, Zero
<1> QED
  BY <1>1, <1>2

-----------------------------------------------------------------------------
(* An accepted entry keeps a log good.                                     *)
LEMMA AppendKeepsLog ==
    ASSUME NEW n, NEW log, NEW time \in Nat, GoodLog(n, log, time),
           NEW e, e.fact \in FactsOf(n), e.at \in 1..time,
           FollowsEarlier(e), e.chain_hash = head_hash(n, log)
    PROVE  GoodLog(n, Append(log, e), time)
<1> DEFINE new == Append(log, e)
           k == Len(log)
<1>1. /\ k \in Nat /\ DOMAIN log = 1..k
      /\ log = <<>> <=> k = 0
      /\ log # <<>> => k \in DOMAIN log /\ Last(log) = log[k]
  BY SeqFacts DEF GoodLog
<1>2. /\ IsSeq(new)
      /\ DOMAIN new = 1..(k + 1)
      /\ \A i \in 1..k : new[i] = log[i]
      /\ new[k + 1] = e
  BY AppendFacts DEF GoodLog
<1> HIDE DEF new, k
<1>3. \A i \in 1..(k + 1) : i \in 1..k \/ i = k + 1
  BY <1>1
<1>4. \A i \in DOMAIN new : new[i].fact \in FactsOf(n) /\ new[i].at \in 1..time
  BY <1>1, <1>2, <1>3 DEF GoodLog
<1>5. verify_chain(n, new)
  <2>1. ASSUME NEW i \in 1..k
        PROVE  new[i].chain_hash = IF i = 1 THEN Zero ELSE Digest(n, new[i - 1])
    <3>1. log[i].chain_hash = IF i = 1 THEN Zero ELSE Digest(n, log[i - 1])
      BY <1>1 DEF GoodLog, verify_chain
    <3>2. i # 1 => i - 1 \in 1..k
      BY <1>1
    <3> QED
      BY <3>1, <3>2, <1>2
  <2>2. ASSUME NEW i, i = k + 1
        PROVE  new[i].chain_hash = IF i = 1 THEN Zero ELSE Digest(n, new[i - 1])
    <3>1. new[i] = e
      BY <2>2, <1>2
    <3>2. CASE k = 0
      <4>1. i = 1 /\ log = <<>>
        BY <2>2, <3>2, <1>1
      <4> QED
        BY <3>1, <4>1 DEF head_hash
    <3>3. CASE k # 0
      <4>1. i # 1 /\ i - 1 = k /\ k \in 1..k /\ log # <<>>
        BY <2>2, <3>3, <1>1
      <4>2. e.chain_hash = Digest(n, log[k])
        BY <4>1, <1>1 DEF head_hash
      <4>3. new[i - 1] = log[k]
        BY <4>1, <1>2
      <4> QED
        BY <3>1, <4>1, <4>2, <4>3
    <3> QED
      BY <3>2, <3>3
  <2> QED
    BY <2>1, <2>2, <1>2, <1>3 DEF verify_chain
<1>6. ASSUME NEW i \in DOMAIN new, NEW j \in DOMAIN new, i < j
      PROVE  new[i].at < new[j].at
  <2>1. CASE j \in 1..k
    <3>1. i \in 1..k
      BY <2>1, <1>1, <1>2, <1>6
    <3> QED
      BY <2>1, <3>1, <1>1, <1>2, <1>6 DEF GoodLog
  <2>2. CASE j = k + 1
    <3>1. i \in 1..k /\ k # 0
      BY <2>2, <1>1, <1>2, <1>6
    <3>2. e.chain_hash = Digest(n, log[k])
      BY <3>1, <1>1 DEF head_hash
    <3>3. log[k].at < e.at
      BY <3>2, DigestHead DEF FollowsEarlier
    <3>4. log[i].at \in Nat /\ log[k].at \in Nat /\ e.at \in Nat
      BY <3>1, <1>1 DEF GoodLog
    <3>5. i = k \/ log[i].at < log[k].at
      BY <3>1, <1>1 DEF GoodLog
    <3> QED
      BY <2>2, <3>1, <3>3, <3>4, <3>5, <1>2
  <2> QED
    BY <2>1, <2>2, <1>2, <1>3
<1>7. GoodLog(n, new, time)
  BY <1>2, <1>4, <1>5, <1>6 DEF GoodLog
<1> QED
  BY <1>7 DEF new

(* Time only adds to what counts as created.                               *)
LEMMA LaterIsGood ==
    ASSUME NEW time \in Nat
    PROVE  /\ \A n, log : GoodLog(n, log, time) => GoodLog(n, log, time + 1)
           /\ \A d : GoodDraft(d, time) => GoodDraft(d, time + 1)
<1>1. \A x : x \in 1..time => x \in 1..(time + 1)
  OBVIOUS
<1> QED
  BY <1>1 DEF GoodLog, GoodDraft

(* What custody_append adds keeps the chain good.                          *)
LEMMA AppendKeepsCustody ==
    ASSUME NEW chain, GoodCustody(chain), NEW fact \in Facts, NEW role
    PROVE  GoodCustody(Append(chain, CustodyEvent(chain, fact, role)))
<1> DEFINE e == CustodyEvent(chain, fact, role)
           new == Append(chain, e)
           k == Len(chain)
           prev == IF chain = <<>> THEN Zero ELSE Last(chain).event_hash
<1>1. /\ k \in Nat /\ DOMAIN chain = 1..k
      /\ chain = <<>> <=> k = 0
      /\ chain # <<>> => k \in DOMAIN chain /\ Last(chain) = chain[k]
  BY SeqFacts DEF GoodCustody
<1>2. /\ IsSeq(new)
      /\ DOMAIN new = 1..(k + 1)
      /\ \A i \in 1..k : new[i] = chain[i]
      /\ new[k + 1] = e
  BY AppendFacts DEF GoodCustody
<1>3. /\ e.sequence = k /\ e.prev_event_hash = prev /\ e.fact = fact
      /\ e.event_hash = compute_event_hash(k, prev, fact)
  BY DEF CustodyEvent
<1> HIDE DEF e, new, k
<1>4. \A i \in 1..(k + 1) : i \in 1..k \/ i = k + 1
  BY <1>1
<1>5. \A i \in DOMAIN new : new[i].fact \in Facts
  BY <1>1, <1>2, <1>3, <1>4 DEF GoodCustody
<1>6. verify_integrity(new)
  <2> DEFINE Fits(i, before) ==
               /\ new[i].sequence = i - 1
               /\ new[i].prev_event_hash = before
               /\ new[i].event_hash =
                     compute_event_hash(new[i].sequence, new[i].prev_event_hash, new[i].fact)
  <2>1. ASSUME NEW i \in 1..k
        PROVE  Fits(i, IF i = 1 THEN Zero ELSE new[i - 1].event_hash)
    <3>1. /\ chain[i].sequence = i - 1
          /\ chain[i].prev_event_hash = IF i = 1 THEN Zero ELSE chain[i - 1].event_hash
          /\ chain[i].event_hash = compute_event_hash(chain[i].sequence,
                                       chain[i].prev_event_hash, chain[i].fact)
      BY <1>1 DEF GoodCustody, verify_integrity
    <3>2. i # 1 => i - 1 \in 1..k
      BY <1>1
    <3> QED
      BY <3>1, <3>2, <1>2
  <2>2. ASSUME NEW i, i = k + 1
        PROVE  Fits(i, IF i = 1 THEN Zero ELSE new[i - 1].event_hash)
    <3>1. new[i] = e /\ i - 1 = k
      BY <2>2, <1>1, <1>2
    <3>2. prev = IF i = 1 THEN Zero ELSE new[i - 1].event_hash
      <4>1. CASE k = 0
        BY <4>1, <2>2, <1>1
      <4>2. CASE k # 0
        <5>1. i # 1 /\ k \in 1..k /\ chain # <<>>
          BY <4>2, <2>2, <1>1
        <5> QED
          BY <5>1, <3>1, <1>1, <1>2
      <4> QED
        BY <4>1, <4>2
    <3> HIDE DEF prev
    <3>3. Fits(i, prev)
      BY <3>1, <1>3
    <3> QED
      BY <3>2, <3>3, Zenon
  <2> HIDE DEF Fits
  <2>3. \A i \in DOMAIN new : Fits(i, IF i = 1 THEN Zero ELSE new[i - 1].event_hash)
    BY <2>1, <2>2, <1>2, <1>4, Zenon
  <2> QED
    BY <2>3 DEF verify_integrity, Fits
<1>7. GoodCustody(new)
  BY <1>2, <1>5, <1>6 DEF GoodCustody
<1> QED
  BY <1>7 DEF new, e

-----------------------------------------------------------------------------
(* What a draft follows is the head of its log, created before it.         *)
LEMMA CreatedIsGood ==
    ASSUME AuditInv, NEW n \in LogNames, NEW fact \in FactsOf(n)
    PROVE  GoodDraft(<<n, create_entry(n, fact)>>, created + 1)
<1> DEFINE log == logs[n]
           e == create_entry(n, fact)
<1>1. GoodLog(n, log, created) /\ created \in Nat
  BY DEF AuditInv
<1>2. e.fact = fact /\ e.at = created + 1 /\ e.chain_hash = head_hash(n, log)
  BY DEF create_entry
<1> HIDE DEF log, e
<1>3. FollowsEarlier(e)
  <2>1. CASE log = <<>>
    BY <2>1, <1>2 DEF head_hash, FollowsEarlier
  <2>2. CASE log # <<>>
    <3>1. e.chain_hash = Digest(n, log[Len(log)]) /\ Len(log) \in DOMAIN log
      BY <2>2, <1>1, <1>2, SeqFacts DEF head_hash, GoodLog
    <3>2. log[Len(log)].at \in 1..created
      BY <3>1, <1>1 DEF GoodLog
    <3>3. e.chain_hash[1] = log[Len(log)].at
      BY <3>1, DigestHead
    <3> QED
      BY <3>2, <3>3, <1>1, <1>2 DEF FollowsEarlier
  <2> QED
    BY <2>1, <2>2
<1>4. GoodDraft(<<n, e>>, created + 1)
  BY <1>1, <1>2, <1>3 DEF GoodDraft
<1> QED
  BY <1>4 DEF e

(* Every log starts empty, with nothing in a writer's hands. *)
LEMMA LogInitGood == LogInit => AuditInv
<1> SUFFICES ASSUME LogInit PROVE AuditInv
  OBVIOUS
<1>1. IsSeq(<<>>) /\ DOMAIN <<>> = {}
  <2>1. <<>> \in Seq({})
    OBVIOUS
  <2> QED
    BY <2>1 DEF IsSeq
<1>2. \A n, time : GoodLog(n, <<>>, time)
  BY <1>1 DEF GoodLog, verify_chain
<1>3. GoodCustody(<<>>)
  BY <1>1 DEF GoodCustody, verify_integrity
<1> QED
  BY <1>2, <1>3 DEF LogInit, AuditInv

(* An entry created against the log as it stands is a good draft. *)
LEMMA CreateKeeps ==
    ASSUME AuditInv, NEW w \in Writers, NEW n \in LogNames, NEW fact \in FactsOf(n),
           Create(w, n, fact)
    PROVE  AuditInv'
<1>1. /\ created \in Nat /\ created' = created + 1
      /\ logs' = logs /\ events' = events
      /\ drafts' = [drafts EXCEPT ![w] = {<<n, create_entry(n, fact)>>}]
  BY DEF Create, AuditInv
<1>2. \A m \in LogNames : GoodLog(m, logs[m], created + 1)
  BY <1>1, LaterIsGood DEF AuditInv
<1>3. drafts' = [v \in Writers |-> drafts'[v]]
  BY <1>1 DEF AuditInv
<1>4. \A v \in Writers : \A d \in drafts'[v] : GoodDraft(d, created + 1)
  <2>1. GoodDraft(<<n, create_entry(n, fact)>>, created + 1)
    BY CreatedIsGood
  <2>2. \A v \in Writers : \A d \in drafts[v] : GoodDraft(d, created + 1)
    BY <1>1, LaterIsGood DEF AuditInv
  <2>3. \A v \in Writers : drafts'[v] = drafts[v] \/ drafts'[v] = {<<n, create_entry(n, fact)>>}
    BY <1>1 DEF AuditInv
  <2> QED
    BY <2>1, <2>2, <2>3
<1> QED
  BY <1>1, <1>2, <1>3, <1>4 DEF AuditInv

(* A draft the log accepts leaves a log that verifies. *)
LEMMA AppendKeeps ==
    ASSUME AuditInv, NEW w \in Writers, append(w)
    PROVE  AuditInv'
<1>1. PICK d \in drafts[w] :
         /\ logs' = IF Accepts(d[1], d[2])
                    THEN [logs EXCEPT ![d[1]] = Append(@, d[2])] ELSE logs
         /\ drafts' = [drafts EXCEPT ![w] = {}]
         /\ UNCHANGED <<created, events>>
  BY DEF append
<1>2. created \in Nat /\ GoodDraft(d, created) /\ d[1] \in LogNames
  BY DEF AuditInv, GoodDraft
<1>3. /\ drafts' = [v \in Writers |-> drafts'[v]]
      /\ \A v \in Writers : \A x \in drafts'[v] : GoodDraft(x, created)
  BY <1>1 DEF AuditInv
<1>4. /\ logs' = [n \in LogNames |-> logs'[n]]
      /\ \A n \in LogNames : GoodLog(n, logs'[n], created)
  <2>1. CASE ~Accepts(d[1], d[2])
    BY <2>1, <1>1 DEF AuditInv
  <2>2. CASE Accepts(d[1], d[2])
    <3>1. GoodLog(d[1], Append(logs[d[1]], d[2]), created)
      BY <2>2, <1>2, AppendKeepsLog DEF AuditInv, GoodDraft, Accepts
    <3>2. logs' = [logs EXCEPT ![d[1]] = Append(logs[d[1]], d[2])]
      BY <2>2, <1>1
    <3> QED
      BY <3>1, <3>2, <1>2 DEF AuditInv
  <2> QED
    BY <2>1, <2>2
<1> QED
  BY <1>1, <1>2, <1>3, <1>4 DEF AuditInv

(* Every step of every writer keeps the inductive invariant. *)
LEMMA LogStepGood == AuditInv /\ [LogNext]_logVars => AuditInv'
<1> SUFFICES ASSUME AuditInv, [LogNext]_logVars PROVE AuditInv'
  OBVIOUS
<1>1. CASE \E w \in Writers, n \in LogNames : \E fact \in FactsOf(n) : Create(w, n, fact)
  BY <1>1, CreateKeeps
<1>2. CASE \E w \in Writers : append(w)
  BY <1>2, AppendKeeps
<1>3. CASE \E fact \in Facts, role \in Roles : custody_append(fact, role)
  <2>1. PICK fact \in Facts, role \in Roles : custody_append(fact, role)
    BY <1>3
  <2>2. GoodCustody(Append(events, CustodyEvent(events, fact, role)))
    BY AppendKeepsCustody DEF AuditInv
  <2> QED
    BY <2>1, <2>2 DEF AuditInv, custody_append
<1>4. CASE UNCHANGED logVars
  BY <1>4 DEF AuditInv, logVars
<1> QED
  BY <1>1, <1>2, <1>3, <1>4 DEF LogNext

(* The inductive invariant holds of every behaviour of the logs.           *)
THEOREM AuditInvariant == LogSpec => []AuditInv
<1> QED
  BY LogInitGood, LogStepGood, PTL DEF LogSpec

(* Every log verifies at every moment, whichever appends were refused, and *)
(* lists its entries in the order they were created (append, verify_chain, *)
(* verify_integrity).                                                      *)
THEOREM KeptInOrder == LogSpec => []LogsInOrder
<1>1. AuditInv => LogsInOrder
  BY DEF AuditInv, GoodLog, GoodCustody, LogsInOrder
<1> QED
  BY <1>1, AuditInvariant, PTL

-----------------------------------------------------------------------------
(* Tampering.  What a digest binds, and what copies of a log look like. *)
(* Two entries with one digest have one text and one time. *)
LEMMA DigestBinds ==
    ASSUME NEW n, NEW a, NEW b, Digest(n, a) = Digest(n, b)
    PROVE  Text(n, a.fact) = Text(n, b.fact) /\ a.at = b.at
<1>1. CASE n = "mcp"
  BY <1>1 DEF Digest, hash_record, Text
<1>2. CASE n # "mcp"
  BY <1>2 DEF Digest, hash_entry, Text
<1> QED BY <1>1, <1>2

(* Sequences with the same elements are the same. *)
LEMMA SameSeq ==
    ASSUME NEW s, NEW t, IsSeq(s), IsSeq(t), Len(s) = Len(t), \A i \in 1..Len(s) : s[i] = t[i]
    PROVE  s = t
<1>1. PICK S, T : s \in Seq(S) /\ t \in Seq(T)
  BY DEF IsSeq
<1>2. PICK U : U = S \cup T
  OBVIOUS
<1>3. s \in Seq(U) /\ t \in Seq(U)
  BY <1>1, <1>2, SeqMonotonic
<1> QED BY <1>3, SeqEqual

(* Entries and events have the fields the code gives them. *)
IsEntry(e) == e = [fact |-> e.fact, at |-> e.at, chain_hash |-> e.chain_hash]
IsEvent(e) == e = [sequence |-> e.sequence, prev_event_hash |-> e.prev_event_hash, fact |-> e.fact,
                   role |-> e.role, event_hash |-> e.event_hash]

Shaped ==
    /\ \A n \in LogNames : \A i \in DOMAIN logs[n] : IsEntry(logs[n][i])
    /\ \A w \in Writers : \A d \in drafts[w] : IsEntry(d[2])
    /\ \A i \in DOMAIN events : IsEvent(events[i])

(* All but the last of a sequence, and a sequence without its i-th. *)
LEMMA FrontFacts ==
    ASSUME NEW s, IsSeq(s), s # <<>>
    PROVE  /\ IsSeq(Front(s)) /\ Len(Front(s)) = Len(s) - 1
           /\ \A i \in 1..(Len(s) - 1) : Front(s)[i] = s[i]
<1>1. PICK S : s \in Seq(S)
  BY DEF IsSeq
<1>2. Len(s) \in Nat \ {0}
  BY SeqFacts
<1>3. PICK m : m = Len(s) - 1
  OBVIOUS
<1>4. m \in Nat /\ \A i \in 1..m : i \in 1..Len(s)
  BY <1>2, <1>3
<1>5. /\ SubSeq(s, 1, m) \in Seq(S)
      /\ Len(SubSeq(s, 1, m)) = m
      /\ \A i \in 1..m : SubSeq(s, 1, m)[i] = s[i]
  BY <1>1, <1>2, <1>3, <1>4
<1> QED BY <1>3, <1>5 DEF Front, IsSeq

(* What a sequence without its i-th element holds, place by place. *)
LEMMA RemovedFacts ==
    ASSUME NEW s, IsSeq(s), NEW k \in DOMAIN s
    PROVE  /\ IsSeq(RemoveAt(s, k)) /\ Len(RemoveAt(s, k)) = Len(s) - 1
           /\ \A i \in 1..(k - 1) : RemoveAt(s, k)[i] = s[i]
           /\ \A i \in k..(Len(s) - 1) : RemoveAt(s, k)[i] = s[i + 1]
<1>1. PICK S : s \in Seq(S)
  BY DEF IsSeq
<1>2. PICK n : n = Len(s)
  OBVIOUS
<1>3. n \in Nat /\ k \in 1..n
  BY <1>2, SeqFacts
<1>4. PICK a, b : a = SubSeq(s, 1, k - 1) /\ b = SubSeq(s, k + 1, n)
  OBVIOUS
<1>5. a \in Seq(S) /\ Len(a) = k - 1 /\ \A i \in 1..(k - 1) : a[i] = s[i]
  BY <1>1, <1>2, <1>3, <1>4
<1>6. b \in Seq(S) /\ Len(b) = n - k /\ \A i \in 1..(n - k) : b[i] = s[k + i]
  BY <1>1, <1>2, <1>3, <1>4
<1>7. /\ a \o b \in Seq(S)
      /\ Len(a \o b) = Len(a) + Len(b)
      /\ \A i \in 1..(Len(a) + Len(b)) : (a \o b)[i] = IF i <= Len(a) THEN a[i] ELSE b[i - Len(a)]
  BY <1>5, <1>6, ConcatProperties
<1>8. Len(a \o b) = n - 1
  BY <1>3, <1>5, <1>6, <1>7
<1>9. \A i \in 1..(k - 1) : (a \o b)[i] = s[i]
  BY <1>3, <1>5, <1>6, <1>7
<1>10. ASSUME NEW i \in k..(n - 1) PROVE (a \o b)[i] = s[i + 1]
  <2>1. i \in 1..(Len(a) + Len(b)) /\ ~(i <= Len(a)) /\ i - Len(a) \in 1..(n - k) /\ k + (i - Len(a)) = i + 1
    BY <1>3, <1>5, <1>6
  <2>2. (a \o b)[i] = b[i - Len(a)]
    BY <1>7, <2>1
  <2>3. b[i - Len(a)] = s[k + (i - Len(a))]
    BY <1>6, <2>1
  <2> QED BY <2>1, <2>2, <2>3
<1>11. RemoveAt(s, k) = a \o b
  BY <1>2, <1>4 DEF RemoveAt
<1> QED BY <1>2, <1>7, <1>8, <1>9, <1>10, <1>11 DEF IsSeq

(* Removing the last entry leaves the others. *)
LEMMA LastRemoved ==
    ASSUME NEW s, IsSeq(s), s # <<>>
    PROVE  RemoveAt(s, Len(s)) = Front(s)
<1>1. PICK n, a, b : n = Len(s) /\ a = RemoveAt(s, n) /\ b = Front(s)
  OBVIOUS
<1>2. n \in Nat /\ n >= 1 /\ n \in DOMAIN s
  BY <1>1, SeqFacts
<1>3. IsSeq(a) /\ Len(a) = n - 1 /\ \A i \in 1..(n - 1) : a[i] = s[i]
  BY <1>1, <1>2, RemovedFacts
<1>4. IsSeq(b) /\ Len(b) = n - 1 /\ \A i \in 1..(n - 1) : b[i] = s[i]
  BY <1>1, FrontFacts
<1>5. a = b
  BY <1>2, <1>3, <1>4, SameSeq
<1> QED BY <1>1, <1>5

(* A copy of a log in which one entry says something else. *)
Rewritten(log, k, x, copy) ==
    /\ IsSeq(copy) /\ Len(copy) = Len(log)
    /\ copy[k] = x /\ \A i \in DOMAIN log : i # k => copy[i] = log[i]

(* A copy with another entry in one place is rewritten there. *)
LEMMA ReplaceRewrites ==
    ASSUME NEW log, IsSeq(log), NEW k \in DOMAIN log, NEW x
    PROVE  Rewritten(log, k, x, ReplaceAt(log, k, x))
<1>1. PICK S : log \in Seq(S)
  BY DEF IsSeq
<1>2. PICK U : U = S \cup {x}
  OBVIOUS
<1>3. log \in Seq(U) /\ x \in U /\ k \in 1..Len(log)
  BY <1>1, <1>2, SeqMonotonic, SeqFacts
<1>4. [log EXCEPT ![k] = x] \in Seq(U) /\ Len([log EXCEPT ![k] = x]) = Len(log)
  BY <1>3, ExceptSeq
<1>5. /\ [log EXCEPT ![k] = x][k] = x
      /\ \A i \in DOMAIN log : i # k => [log EXCEPT ![k] = x][i] = log[i]
  OBVIOUS
<1> QED BY <1>4, <1>5 DEF IsSeq, Rewritten, ReplaceAt

(* Copies that agree before their last entry. *)
LEMMA SameFront ==
    ASSUME NEW s, NEW t, IsSeq(s), IsSeq(t), Len(s) = Len(t), s # <<>>,
           \A i \in 1..(Len(s) - 1) : s[i] = t[i]
    PROVE  Front(s) = Front(t)
<1>1. t # <<>> /\ Len(s) \in Nat
  BY SeqFacts
<1>2. PICK m, a, b : m = Len(s) - 1 /\ a = Front(s) /\ b = Front(t)
  OBVIOUS
<1>3. IsSeq(a) /\ Len(a) = m /\ \A i \in 1..m : a[i] = s[i]
  BY <1>2, FrontFacts
<1>4. IsSeq(b) /\ Len(b) = m /\ \A i \in 1..m : b[i] = t[i]
  BY <1>1, <1>2, FrontFacts
<1>5. \A i \in 1..m : a[i] = b[i]
  BY <1>2, <1>3, <1>4
<1>6. a = b
  BY <1>3, <1>4, <1>5, SameSeq
<1> QED BY <1>2, <1>6

(* If an entry follows the one that was rewritten, its chain hash gives it away,  *)
(* unless the text of the rewritten entry reads the same.                         *)
LEMMA AlterationShows ==
    ASSUME NEW n \in LogNames, NEW time, NEW log, GoodLog(n, log, time),
           NEW k \in DOMAIN log, IsEntry(log[k]), NEW f \in FactsOf(n),
           NEW copy, Rewritten(log, k, [log[k] EXCEPT !.fact = f], copy), verify_chain(n, copy)
    PROVE  Front(log) = Front(copy) \/ ReadsAlike(n, copy, log)
<1>1. PICK m : m = Len(log)
  OBVIOUS
<1>2. IsSeq(log) /\ m \in Nat /\ DOMAIN log = 1..m /\ k \in 1..m /\ log # <<>>
  BY <1>1, SeqFacts DEF GoodLog
<1>3. PICK e, x : e = log[k] /\ x = [e EXCEPT !.fact = f]
  OBVIOUS
<1>4. e = [fact |-> e.fact, at |-> e.at, chain_hash |-> e.chain_hash]
  BY <1>3 DEF IsEntry
<1>5. x = [fact |-> f, at |-> e.at, chain_hash |-> e.chain_hash]
  BY <1>3, <1>4
<1>6. /\ IsSeq(copy) /\ Len(copy) = m /\ copy[k] = x /\ \A i \in 1..m : i # k => copy[i] = log[i]
  BY <1>1, <1>2, <1>3 DEF Rewritten
<1>7. DOMAIN copy = 1..m
  BY <1>6, SeqFacts
<1>8. CASE k = m
  <2>1. \A i \in 1..(m - 1) : i \in 1..m /\ i # k
    BY <1>2, <1>8
  <2>2. \A i \in 1..(m - 1) : log[i] = copy[i]
    BY <1>6, <2>1
  <2> QED BY <1>1, <1>2, <1>6, <2>2, SameFront
<1>9. CASE k # m
  <2>1. PICK j : j = k + 1
    OBVIOUS
  <2>2. j \in 1..m /\ j # k /\ j # 1 /\ j - 1 = k
    BY <1>2, <1>9, <2>1
  <2>3. log[j].chain_hash = Digest(n, log[k])
    BY <1>2, <2>2 DEF GoodLog, verify_chain
  <2>4. copy[j].chain_hash = Digest(n, copy[k])
    BY <1>7, <2>2 DEF verify_chain
  <2>5. copy[j] = log[j]
    BY <1>6, <2>2
  <2>6. Digest(n, x) = Digest(n, e)
    BY <1>3, <1>6, <2>3, <2>4, <2>5
  <2>7. Text(n, x.fact) = Text(n, e.fact)
    BY <2>6, DigestBinds
  <2>8. x.at = e.at /\ x.chain_hash = e.chain_hash
    BY <1>5
  <2>9. ASSUME NEW i \in 1..m
        PROVE  /\ Text(n, copy[i].fact) = Text(n, log[i].fact)
               /\ copy[i].at = log[i].at /\ copy[i].chain_hash = log[i].chain_hash
    <3>1. CASE i = k
      BY <1>3, <1>6, <2>7, <2>8, <3>1
    <3>2. CASE i # k
      BY <1>6, <3>2
    <3> QED BY <3>1, <3>2
  <2> QED BY <1>2, <1>7, <2>9 DEF ReadsAlike
<1> QED BY <1>8, <1>9

(* An entry removed: the next one follows the wrong entry. *)
LEMMA RemovalShows ==
    ASSUME NEW n \in LogNames, NEW time, NEW log, GoodLog(n, log, time),
           NEW k \in DOMAIN log, verify_chain(n, RemoveAt(log, k))
    PROVE  RemoveAt(log, k) = Front(log)
<1>1. PICK m, copy : m = Len(log) /\ copy = RemoveAt(log, k)
  OBVIOUS
<1>2. IsSeq(log) /\ m \in Nat /\ DOMAIN log = 1..m /\ k \in 1..m /\ log # <<>>
  BY <1>1, SeqFacts DEF GoodLog
<1>3. CASE k = m
  BY <1>1, <1>2, <1>3, LastRemoved
<1>4. CASE k # m
  <2>1. /\ IsSeq(copy) /\ Len(copy) = m - 1
        /\ \A i \in 1..(k - 1) : copy[i] = log[i]
        /\ \A i \in k..(m - 1) : copy[i] = log[i + 1]
    BY <1>1, <1>2, RemovedFacts
  <2>2. DOMAIN copy = 1..(m - 1)
    BY <2>1, SeqFacts
  <2>3. k \in DOMAIN copy /\ copy[k] = log[k + 1] /\ k + 1 \in 1..m
    BY <1>2, <1>4, <2>1, <2>2
  <2>4. verify_chain(n, copy) /\ verify_chain(n, log)
    BY <1>1 DEF GoodLog
  <2>5. log[k + 1].chain_hash = Digest(n, log[k])
    BY <1>2, <2>3, <2>4 DEF verify_chain
  <2>6. CASE k = 1
    <3>1. copy[k].chain_hash = Zero
      BY <2>3, <2>4, <2>6 DEF verify_chain
    <3> QED BY <2>3, <2>5, <3>1, DigestHead
  <2>7. CASE k # 1
    <3>1. k - 1 \in 1..(k - 1) /\ k - 1 \in 1..m /\ k - 1 < k
      BY <1>2, <2>7
    <3>2. copy[k].chain_hash = Digest(n, copy[k - 1])
      BY <2>3, <2>4, <2>7 DEF verify_chain
    <3>3. copy[k - 1] = log[k - 1]
      BY <2>1, <3>1
    <3>4. Digest(n, log[k - 1])[1] = log[k - 1].at /\ Digest(n, log[k])[1] = log[k].at
      BY DigestHead
    <3>5. log[k - 1].at = log[k].at
      BY <2>3, <2>5, <3>2, <3>3, <3>4
    <3>6. log[k - 1].at \in 1..time /\ log[k].at \in 1..time /\ log[k - 1].at < log[k].at
      BY <1>2, <3>1 DEF GoodLog
    <3> QED BY <3>5, <3>6
  <2> QED BY <2>6, <2>7
<1> QED BY <1>1, <1>3, <1>4

(* Two entries that changed places. *)
Exchanged(log, i, j, copy) ==
    /\ IsSeq(copy) /\ Len(copy) = Len(log)
    /\ copy[i] = log[j] /\ copy[j] = log[i]
    /\ \A l \in DOMAIN log : l \notin {i, j} => copy[l] = log[l]

(* A copy in which two entries changed places is exchanged there. *)
LEMMA SwapExchanges ==
    ASSUME NEW log, IsSeq(log), NEW i \in DOMAIN log, NEW j \in DOMAIN log
    PROVE  Exchanged(log, i, j, [log EXCEPT ![i] = log[j], ![j] = log[i]])
<1>1. PICK S : log \in Seq(S)
  BY DEF IsSeq
<1>2. i \in 1..Len(log) /\ j \in 1..Len(log) /\ log[i] \in S /\ log[j] \in S
  BY <1>1, SeqFacts
<1>3. PICK t : t = [log EXCEPT ![i] = log[j]]
  OBVIOUS
<1>4. t \in Seq(S) /\ Len(t) = Len(log)
  BY <1>1, <1>2, <1>3, ExceptSeq
<1>5. [t EXCEPT ![j] = log[i]] \in Seq(S) /\ Len([t EXCEPT ![j] = log[i]]) = Len(log)
  BY <1>2, <1>4, ExceptSeq
<1>6. [log EXCEPT ![i] = log[j], ![j] = log[i]] = [t EXCEPT ![j] = log[i]]
  BY <1>3
<1>7. PICK c : c = [log EXCEPT ![i] = log[j], ![j] = log[i]]
  OBVIOUS
<1>8. c \in Seq(S) /\ Len(c) = Len(log)
  BY <1>5, <1>6, <1>7
<1>9. c[i] = log[j] /\ c[j] = log[i] /\ \A l \in DOMAIN log : l \notin {i, j} => c[l] = log[l]
  BY <1>7
<1> QED BY <1>7, <1>8, <1>9 DEF IsSeq, Exchanged

(* The entry that moved forward follows one that was created too late. *)
LEMMA ForwardShows ==
    ASSUME NEW n \in LogNames, NEW time, NEW log, GoodLog(n, log, time),
           NEW i \in DOMAIN log, NEW j \in DOMAIN log, i < j,
           NEW copy, Exchanged(log, i, j, copy), verify_chain(n, copy)
    PROVE  FALSE
<1>1. PICK m : m = Len(log)
  OBVIOUS
<1>2. IsSeq(log) /\ m \in Nat /\ DOMAIN log = 1..m /\ i \in 1..m /\ j \in 1..m
  BY <1>1, SeqFacts DEF GoodLog
<1>3. /\ IsSeq(copy) /\ Len(copy) = m /\ copy[i] = log[j]
      /\ \A l \in 1..m : l # i /\ l # j => copy[l] = log[l]
  BY <1>1, <1>2 DEF Exchanged
<1>4. DOMAIN copy = 1..m
  BY <1>3, SeqFacts
<1>5. PICK p : p = j - 1
  OBVIOUS
<1>6. p \in 1..m /\ j # 1 /\ p >= i
  BY <1>2, <1>5
<1>7. log[j].chain_hash = Digest(n, log[p])
  BY <1>2, <1>5, <1>6 DEF GoodLog, verify_chain
<1>8. CASE i = 1
  <2>1. copy[i].chain_hash = Zero
    BY <1>2, <1>4, <1>8 DEF verify_chain
  <2> QED BY <1>3, <1>7, <2>1, DigestHead
<1>9. CASE i # 1
  <2>1. PICK q : q = i - 1
    OBVIOUS
  <2>2. q \in 1..m /\ q # i /\ q # j /\ q < p
    BY <1>2, <1>5, <1>6, <1>9, <2>1
  <2>3. copy[i].chain_hash = Digest(n, copy[q])
    BY <1>2, <1>4, <1>9, <2>1 DEF verify_chain
  <2>4. copy[q] = log[q]
    BY <1>3, <2>2
  <2>5. Digest(n, log[q])[1] = log[q].at /\ Digest(n, log[p])[1] = log[p].at
    BY DigestHead
  <2>6. log[q].at = log[p].at
    BY <1>3, <1>7, <2>3, <2>4, <2>5
  <2>7. log[q].at \in 1..time /\ log[p].at \in 1..time /\ log[q].at < log[p].at
    BY <1>2, <1>6, <2>2 DEF GoodLog
  <2> QED BY <2>6, <2>7
<1> QED BY <1>8, <1>9

(* A copy with two entries exchanged verifies only if it is the log itself. *)
LEMMA ExchangeShows ==
    ASSUME NEW n \in LogNames, NEW time, NEW log, GoodLog(n, log, time),
           NEW i \in DOMAIN log, NEW j \in DOMAIN log,
           NEW copy, Exchanged(log, i, j, copy), verify_chain(n, copy)
    PROVE  copy = log
<1>1. IsSeq(log) /\ DOMAIN log = 1..Len(log) /\ Len(log) \in Nat
  BY SeqFacts DEF GoodLog
<1>2. CASE i < j
  BY <1>2, ForwardShows
<1>3. CASE j < i
  <2>1. Exchanged(log, j, i, copy)
    BY DEF Exchanged
  <2> QED BY <1>3, <2>1, ForwardShows
<1>4. CASE i = j
  <2>1. IsSeq(copy) /\ Len(copy) = Len(log) /\ \A l \in 1..Len(log) : copy[l] = log[l]
    BY <1>1, <1>4 DEF Exchanged
  <2> QED BY <1>1, <2>1, SameSeq
<1> QED BY <1>1, <1>2, <1>3, <1>4

-----------------------------------------------------------------------------
(* The custody chain: an event carries its own place and digest. *)
LEMMA CustodyCopies ==
    ASSUME NEW chain, GoodCustody(chain), \A i \in DOMAIN chain : IsEvent(chain[i])
    PROVE  /\ \A copy \in Altered(chain, Facts) : verify_integrity(copy) => copy = chain
           /\ \A copy \in Shortened(chain) : verify_integrity(copy) => copy = Front(chain)
           /\ \A copy \in Swapped(chain) : verify_integrity(copy) => copy = chain
<1>1. PICK m : m = Len(chain)
  OBVIOUS
<1>2. IsSeq(chain) /\ m \in Nat /\ DOMAIN chain = 1..m /\ verify_integrity(chain)
  BY <1>1, SeqFacts DEF GoodCustody
<1>3. \A i \in 1..m : /\ chain[i].sequence = i - 1
                      /\ chain[i].event_hash = <<chain[i].sequence, chain[i].prev_event_hash, chain[i].fact>>
  BY <1>2 DEF verify_integrity, compute_event_hash
<1>4. ASSUME NEW k \in DOMAIN chain, NEW f \in Facts, NEW copy,
             copy = ReplaceAt(chain, k, [chain[k] EXCEPT !.fact = f]), verify_integrity(copy)
      PROVE  copy = chain
  <2>1. PICK e, x : e = chain[k] /\ x = [e EXCEPT !.fact = f]
    OBVIOUS
  <2>2. e = [sequence |-> e.sequence, prev_event_hash |-> e.prev_event_hash, fact |-> e.fact,
             role |-> e.role, event_hash |-> e.event_hash]
    BY <2>1 DEF IsEvent
  <2>3. x = [sequence |-> e.sequence, prev_event_hash |-> e.prev_event_hash, fact |-> f,
             role |-> e.role, event_hash |-> e.event_hash]
    BY <2>1, <2>2
  <2>4. Rewritten(chain, k, x, ReplaceAt(chain, k, x))
    BY <1>2, ReplaceRewrites
  <2>5. copy = ReplaceAt(chain, k, x)
    BY <1>4, <2>1
  <2>6. /\ IsSeq(copy) /\ Len(copy) = m /\ copy[k] = x /\ \A i \in 1..m : i # k => copy[i] = chain[i]
    BY <1>1, <1>2, <2>4, <2>5 DEF Rewritten
  <2>7. k \in DOMAIN copy
    BY <1>2, <2>6, SeqFacts
  <2>8. x.event_hash = <<x.sequence, x.prev_event_hash, x.fact>>
    BY <1>4, <2>6, <2>7 DEF verify_integrity, compute_event_hash
  <2>9. e.event_hash = <<e.sequence, e.prev_event_hash, e.fact>>
    BY <1>2, <1>3, <2>1
  <2>10. x.fact = f /\ x.event_hash = e.event_hash
    BY <2>3
  <2>11. f = e.fact
    BY <2>8, <2>9, <2>10
  <2>12. x = e
    BY <2>2, <2>3, <2>11
  <2>13. \A i \in 1..m : copy[i] = chain[i]
    BY <2>1, <2>6, <2>12
  <2> QED BY <1>1, <1>2, <2>6, <2>13, SameSeq
<1>5. ASSUME NEW k \in DOMAIN chain, verify_integrity(RemoveAt(chain, k))
      PROVE  RemoveAt(chain, k) = Front(chain)
  <2>1. PICK copy : copy = RemoveAt(chain, k)
    OBVIOUS
  <2>2. chain # <<>> /\ k \in 1..m
    BY <1>2, SeqFacts
  <2>3. CASE k = m
    BY <1>1, <1>2, <2>2, <2>3, LastRemoved
  <2>4. CASE k # m
    <3>1. IsSeq(copy) /\ Len(copy) = m - 1 /\ \A i \in k..(m - 1) : copy[i] = chain[i + 1]
      BY <1>1, <1>2, <2>1, RemovedFacts
    <3>2. DOMAIN copy = 1..(m - 1)
      BY <3>1, SeqFacts
    <3>3. k \in DOMAIN copy /\ copy[k] = chain[k + 1] /\ k + 1 \in 1..m
      BY <1>2, <2>2, <2>4, <3>1, <3>2
    <3>4. copy[k].sequence = k - 1
      BY <1>5, <2>1, <3>3 DEF verify_integrity
    <3>5. PICK j : j = k + 1
      OBVIOUS
    <3>6. chain[j].sequence = j - 1
      BY <1>3, <3>3, <3>5
    <3> QED BY <2>2, <3>3, <3>4, <3>5, <3>6
  <2> QED BY <2>3, <2>4
<1>6. ASSUME NEW i \in DOMAIN chain, NEW j \in DOMAIN chain, NEW copy, Exchanged(chain, i, j, copy),
             verify_integrity(copy)
      PROVE  copy = chain
  <2>1. IsSeq(copy) /\ Len(copy) = m /\ copy[i] = chain[j] /\ \A l \in 1..m : l \notin {i, j} => copy[l] = chain[l]
    BY <1>1, <1>2, <1>6 DEF Exchanged
  <2>2. i \in DOMAIN copy /\ i \in 1..m /\ j \in 1..m
    BY <1>2, <2>1, SeqFacts
  <2>3. copy[i].sequence = i - 1 /\ chain[j].sequence = j - 1
    BY <1>3, <1>6, <2>2 DEF verify_integrity
  <2>4. i = j
    BY <2>1, <2>2, <2>3
  <2>5. \A l \in 1..m : copy[l] = chain[l]
    BY <2>1, <2>4
  <2> QED BY <1>1, <1>2, <2>1, <2>5, SameSeq
<1>7. \A copy \in Swapped(chain) : \E i, j \in DOMAIN chain : Exchanged(chain, i, j, copy)
  BY <1>2, SwapExchanges DEF Swapped
<1>8. \A copy \in Altered(chain, Facts) : verify_integrity(copy) => copy = chain
  <2> TAKE copy \in Altered(chain, Facts)
  <2>1. PICK k \in DOMAIN chain, f \in Facts : copy = ReplaceAt(chain, k, [chain[k] EXCEPT !.fact = f])
    BY DEF Altered
  <2> QED BY <1>4, <2>1
<1>9. \A copy \in Shortened(chain) : verify_integrity(copy) => copy = Front(chain)
  BY <1>5 DEF Shortened
<1>10. \A copy \in Swapped(chain) : verify_integrity(copy) => copy = chain
  BY <1>6, <1>7
<1> QED BY <1>8, <1>9, <1>10

(* Every entry and event is written with its fields. *)
LEMMA ShapedStep == AuditInv /\ Shaped /\ [LogNext]_logVars => Shaped'
<1> SUFFICES ASSUME AuditInv, Shaped, [LogNext]_logVars PROVE Shaped'
  OBVIOUS
<1>1. CASE UNCHANGED logVars
  BY <1>1 DEF logVars, Shaped
<1>2. ASSUME NEW w \in Writers, NEW n \in LogNames, NEW fact \in FactsOf(n), Create(w, n, fact)
      PROVE  Shaped'
  <2>1. PICK e : e = create_entry(n, fact)
    OBVIOUS
  <2>2. IsEntry(e)
    BY <2>1 DEF create_entry, IsEntry
  <2>3. drafts' = [drafts EXCEPT ![w] = {<<n, e>>}] /\ logs' = logs /\ events' = events
    BY <1>2, <2>1 DEF Create
  <2>4. \A v \in Writers : drafts'[v] = IF v = w THEN {<<n, e>>} ELSE drafts[v]
    BY <2>3 DEF AuditInv
  <2>5. \A v \in Writers : \A d \in drafts'[v] : IsEntry(d[2])
    BY <2>2, <2>4 DEF Shaped
  <2> QED BY <2>3, <2>5 DEF Shaped
<1>3. ASSUME NEW w \in Writers, append(w) PROVE Shaped'
  <2>1. PICK d \in drafts[w] :
           /\ logs' = IF Accepts(d[1], d[2])
                      THEN [logs EXCEPT ![d[1]] = Append(@, d[2])] ELSE logs
           /\ drafts' = [drafts EXCEPT ![w] = {}]
           /\ UNCHANGED <<created, events>>
    BY <1>3 DEF append
  <2>2. PICK n, e, log : n = d[1] /\ e = d[2] /\ log = logs[n]
    OBVIOUS
  <2>3. n \in LogNames /\ IsEntry(e) /\ IsSeq(log) /\ \A i \in DOMAIN log : IsEntry(log[i])
    BY <2>2 DEF AuditInv, GoodDraft, GoodLog, Shaped
  <2>4. \A i \in DOMAIN Append(log, e) : IsEntry(Append(log, e)[i])
    <3>1. Len(log) \in Nat /\ DOMAIN log = 1..Len(log)
      BY <2>3, SeqFacts
    <3>2. /\ DOMAIN Append(log, e) = 1..(Len(log) + 1)
          /\ \A i \in 1..Len(log) : Append(log, e)[i] = log[i]
          /\ Append(log, e)[Len(log) + 1] = e
      BY <2>3, AppendFacts
    <3> QED BY <2>3, <3>1, <3>2
  <2>5. logs' = logs \/ logs' = [logs EXCEPT ![n] = Append(log, e)]
    BY <2>1, <2>2
  <2>6. \A m \in LogNames : logs'[m] = logs[m] \/ logs'[m] = Append(log, e)
    BY <2>5 DEF AuditInv
  <2>7. \A m \in LogNames : \A i \in DOMAIN logs'[m] : IsEntry(logs'[m][i])
    BY <2>4, <2>6 DEF Shaped
  <2>8. \A v \in Writers : drafts'[v] \subseteq drafts[v]
    BY <2>1 DEF AuditInv
  <2> QED BY <2>1, <2>7, <2>8 DEF Shaped
<1>4. ASSUME NEW fact \in Facts, NEW role \in Roles, custody_append(fact, role) PROVE Shaped'
  <2>1. PICK e, chain : e = CustodyEvent(events, fact, role) /\ chain = events
    OBVIOUS
  <2>2. IsEvent(e)
    BY <2>1 DEF CustodyEvent, IsEvent
  <2>3. events' = Append(chain, e) /\ logs' = logs /\ drafts' = drafts
    BY <1>4, <2>1 DEF custody_append
  <2>4. IsSeq(chain) /\ \A i \in DOMAIN chain : IsEvent(chain[i])
    BY <2>1 DEF AuditInv, GoodCustody, Shaped
  <2>5. Len(chain) \in Nat /\ DOMAIN chain = 1..Len(chain)
    BY <2>4, SeqFacts
  <2>6. /\ DOMAIN Append(chain, e) = 1..(Len(chain) + 1)
        /\ \A i \in 1..Len(chain) : Append(chain, e)[i] = chain[i]
        /\ Append(chain, e)[Len(chain) + 1] = e
    BY <2>4, AppendFacts
  <2>7. \A i \in DOMAIN Append(chain, e) : IsEvent(Append(chain, e)[i])
    BY <2>2, <2>4, <2>5, <2>6
  <2> QED BY <2>3, <2>7 DEF Shaped
<1> QED BY <1>1, <1>2, <1>3, <1>4 DEF LogNext

(* audit.rs, mcp_audit.rs, custody.rs, for logs of any length and any texts: of   *)
(* the copies of a log one change away, only those verify that keep all but its   *)
(* last entry, or whose entries all read the same when their fields are run       *)
(* together; of a custody chain only the chain itself and the chain without its   *)
(* last event.                                                                    *)
THEOREM TamperingAlwaysShows == LogSpec => []TamperingShows
<1>1. LogInit => Shaped
  BY DEF LogInit, Shaped
<1>2. LogSpec => []Shaped
  BY <1>1, ShapedStep, AuditInvariant, PTL DEF LogSpec
<1>3. AuditInv /\ Shaped => TamperingShows
  <2> SUFFICES ASSUME AuditInv, Shaped PROVE TamperingShows
    OBVIOUS
  <2>1. ASSUME NEW n \in LogNames,
               NEW copy \in Altered(logs[n], FactsOf(n)) \cup Shortened(logs[n]) \cup Swapped(logs[n]),
               verify_chain(n, copy)
        PROVE  Front(logs[n]) \in {copy, Front(copy)} \/ ReadsAlike(n, copy, logs[n])
    <3>1. PICK log, time, c : log = logs[n] /\ time = created /\ c = copy
      OBVIOUS
    <3>2. GoodLog(n, log, time) /\ IsSeq(log) /\ verify_chain(n, c) /\ \A i \in DOMAIN log : IsEntry(log[i])
      BY <2>1, <3>1 DEF AuditInv, GoodLog, Shaped
    <3>3. CASE c \in Altered(log, FactsOf(n))
      <4>1. PICK k \in DOMAIN log, f \in FactsOf(n) : c = ReplaceAt(log, k, [log[k] EXCEPT !.fact = f])
        BY <3>3 DEF Altered
      <4>2. PICK x : x = [log[k] EXCEPT !.fact = f]
        OBVIOUS
      <4>3. Rewritten(log, k, x, ReplaceAt(log, k, x))
        BY <3>2, ReplaceRewrites
      <4>4. Rewritten(log, k, [log[k] EXCEPT !.fact = f], c)
        BY <4>1, <4>2, <4>3
      <4>5. Front(log) = Front(c) \/ ReadsAlike(n, c, log)
        BY <3>2, <4>4, AlterationShows
      <4> QED BY <3>1, <4>5
    <3>4. CASE c \in Shortened(log)
      <4>1. PICK k \in DOMAIN log : c = RemoveAt(log, k)
        BY <3>4 DEF Shortened
      <4>2. verify_chain(n, RemoveAt(log, k))
        BY <3>2, <4>1
      <4>3. RemoveAt(log, k) = Front(log)
        BY <3>2, <4>2, RemovalShows
      <4> QED BY <3>1, <4>1, <4>3
    <3>5. CASE c \in Swapped(log)
      <4>1. PICK i \in DOMAIN log, j \in DOMAIN log : c = [log EXCEPT ![i] = log[j], ![j] = log[i]]
        BY <3>5 DEF Swapped
      <4>2. Exchanged(log, i, j, c)
        BY <3>2, <4>1, SwapExchanges
      <4>3. c = log
        BY <3>2, <4>2, ExchangeShows
      <4> QED BY <3>1, <4>3
    <3> QED BY <3>1, <3>3, <3>4, <3>5
  <2>2. ASSUME NEW copy \in Altered(events, Facts) \cup Shortened(events) \cup Swapped(events),
               verify_integrity(copy)
        PROVE  copy = events \/ copy = Front(events)
    <3>1. PICK chain : chain = events
      OBVIOUS
    <3>2. GoodCustody(chain) /\ \A i \in DOMAIN chain : IsEvent(chain[i])
      BY <3>1 DEF AuditInv, Shaped
    <3>3. /\ \A c \in Altered(chain, Facts) : verify_integrity(c) => c = chain
          /\ \A c \in Shortened(chain) : verify_integrity(c) => c = Front(chain)
          /\ \A c \in Swapped(chain) : verify_integrity(c) => c = chain
      BY <3>2, CustodyCopies
    <3> QED BY <2>2, <3>1, <3>3
  <2> QED BY <2>1, <2>2 DEF TamperingShows
<1> QED BY <1>2, <1>3, AuditInvariant, PTL

-----------------------------------------------------------------------------
(* A step leaves what each log says, or adds one fact at its end.          *)
LEMMA StepAdds ==
    ASSUME AuditInv, [LogNext]_logVars
    PROVE  /\ \A n \in LogNames :
                 \/ logs'[n] = logs[n]
                 \/ \E fact \in FactsOf(n) : Says(logs'[n]) = Append(Says(logs[n]), fact)
           /\ \/ events' = events
              \/ \E fact \in Facts : Says(events') = Append(Says(events), fact)
<1>1. CASE \E w \in Writers, n \in LogNames : \E fact \in FactsOf(n) : Create(w, n, fact)
  BY <1>1 DEF Create
<1>2. CASE \E w \in Writers : append(w)
  <2>1. PICK w \in Writers : append(w)
    BY <1>2
  <2>2. PICK d \in drafts[w] :
           /\ logs' = IF Accepts(d[1], d[2])
                      THEN [logs EXCEPT ![d[1]] = Append(@, d[2])] ELSE logs
           /\ UNCHANGED <<created, events>>
    BY <2>1 DEF append
  <2>3. d[1] \in LogNames /\ d[2].fact \in FactsOf(d[1])
    BY DEF AuditInv, GoodDraft
  <2>4. CASE ~Accepts(d[1], d[2])
    BY <2>2, <2>4
  <2>5. CASE Accepts(d[1], d[2])
    <3>1. logs' = [logs EXCEPT ![d[1]] = Append(logs[d[1]], d[2])]
      BY <2>2, <2>5
    <3>2. logs'[d[1]] = Append(logs[d[1]], d[2])
      BY <3>1, <2>3 DEF AuditInv
    <3>3. \A n \in LogNames : n # d[1] => logs'[n] = logs[n]
      BY <3>1 DEF AuditInv
    <3>4. Says(logs'[d[1]]) = Append(Says(logs[d[1]]), d[2].fact)
      BY <3>2, <2>3, SaysAppend DEF AuditInv, GoodLog
    <3> QED
      BY <3>3, <3>4, <2>2, <2>3
  <2> QED
    BY <2>4, <2>5
<1>3. CASE \E fact \in Facts, role \in Roles : custody_append(fact, role)
  <2>1. PICK fact \in Facts, role \in Roles : custody_append(fact, role)
    BY <1>3
  <2>2. /\ logs' = logs
        /\ events' = Append(events, CustodyEvent(events, fact, role))
    BY <2>1 DEF custody_append
  <2>3. CustodyEvent(events, fact, role).fact = fact
    BY DEF CustodyEvent
  <2>4. Says(events') = Append(Says(events), fact)
    BY <2>2, <2>3, SaysAppend DEF AuditInv, GoodCustody
  <2> QED
    BY <2>2, <2>4
<1>4. CASE UNCHANGED logVars
  BY <1>4 DEF logVars
<1> QED
  BY <1>1, <1>2, <1>3, <1>4 DEF LogNext

(* Each of the three logs implements AppendOnly: its facts are added one   *)
(* at a time at its end and never change, however many writers race for    *)
(* its head (audit.rs and mcp_audit.rs append, custody.rs append).         *)
THEOREM LogsAreAppendOnly == LogSpec => LogsAppendOnly
<1>1. LogInit => /\ AuditHistory!AddInit
                 /\ McpHistory!AddInit
                 /\ CustodyHistory!AddInit
  <2>1. Says(<<>>) = <<>>
    BY DEF Says
  <2> QED
    BY <2>1 DEF LogInit, LogNames, AuditHistory!AddInit, McpHistory!AddInit,
                CustodyHistory!AddInit
<1>2. AuditInv /\ [LogNext]_logVars =>
         /\ [AuditHistory!Add]_(Says(logs["audit"]))
         /\ [McpHistory!Add]_(Says(logs["mcp"]))
         /\ [CustodyHistory!Add]_(Says(events))
  <2> SUFFICES ASSUME AuditInv, [LogNext]_logVars
               PROVE  /\ [AuditHistory!Add]_(Says(logs["audit"]))
                      /\ [McpHistory!Add]_(Says(logs["mcp"]))
                      /\ [CustodyHistory!Add]_(Says(events))
    OBVIOUS
  <2>1. [AuditHistory!Add]_(Says(logs["audit"]))
    BY StepAdds DEF LogNames, FactsOf, AuditHistory!Add
  <2>2. [McpHistory!Add]_(Says(logs["mcp"]))
    BY StepAdds DEF LogNames, FactsOf, McpHistory!Add
  <2>3. [CustodyHistory!Add]_(Says(events))
    BY StepAdds DEF CustodyHistory!Add
  <2> QED
    BY <2>1, <2>2, <2>3
<1> QED
  BY <1>1, <1>2, AuditInvariant, PTL
     DEF LogSpec, LogsAppendOnly, AuditHistory!AppendOnlySpec,
         McpHistory!AppendOnlySpec, CustodyHistory!AppendOnlySpec

-----------------------------------------------------------------------------
(* Deliberations, the crosscheck and conflicts (exo-governance).             *)
-----------------------------------------------------------------------------
(* Votes stop at the first close, so what a close announced is still what the
   votes say. *)
Announced(d, rs) ==
    /\ rs \in Seq(Policies \X {DeliberationResult(d, p) : p \in Policies})
    /\ rs # <<>> => d.status = "Closed"
    /\ \A i \in DOMAIN rs : rs[i][2] = DeliberationResult(d, rs[i][1])

(* The inductive invariant of exo-governance; the register has every declaration
   that was filed. *)
GovInv ==
    /\ GovTypeOK
    /\ Announced(delib, results)
    /\ register.entries = filed

-----------------------------------------------------------------------------
(* What the approvals of a deliberation are. *)
LEMMA ApprovalsTyped ==
    ASSUME NEW d \in Deliberation PROVE Approvals(d) \subseteq Approval
<1> SUFFICES ASSUME NEW a \in Approvals(d) PROVE a \in Approval
  OBVIOUS
<1>1. PICK v \in Cast(d, "For") :
        a = [approver_did |-> v.voter_did, role |-> "Contributor",
             attestation |-> {[no_common_control |-> TRUE, no_coordination |-> TRUE,
                               identity_verified |-> TRUE]}]
  BY DEF Approvals
<1>2. v.voter_did \in Members
  BY DEF Cast, Deliberation, Vote
<1>3. {[no_common_control |-> TRUE, no_coordination |-> TRUE, identity_verified |-> TRUE]}
        \in SUBSET IndependenceAttestation
  BY DEF IndependenceAttestation
<1> QED BY <1>1, <1>2, <1>3 DEF Approval, Role

(* An initial state satisfies the invariant. *)
LEMMA GovInitInv == GovInit => GovInv
<1> SUFFICES ASSUME GovInit PROVE GovInv
  OBVIOUS
<1>1. delib \in Deliberation
  BY DEF GovInit, open_deliberation, Deliberation, DeliberationStatus
<1>2. registry \in IdentityRegistry
  BY DEF GovInit, IdentityRegistry
<1>3. register \in StandingConflictRegister /\ register.entries = filed /\ filed \subseteq ConflictDeclaration
  BY DEF GovInit, StandingConflictRegister
<1>4. DOMAIN clearances = {}
  BY DEF GovInit
<1>5. plan \in SuccessionPlan
  <2>1. PICK n \in 0..2 : plan \in [current_holder : Members, successors : [1..n -> Members]]
    BY DEF GovInit
  <2>2. plan.successors \in Seq(Members)
    BY <2>1, SeqDef
  <2> QED BY <2>1, <2>2 DEF SuccessionPlan
<1>6. Announced(delib, results)
  BY DEF GovInit, Announced
<1>7. challenge \in ChallengeStatus \cup {NoChallenge} /\ paused \in BOOLEAN
  BY DEF GovInit
<1> QED BY <1>1, <1>2, <1>3, <1>4, <1>5, <1>6, <1>7, ApprovalsTyped DEF GovInv, GovTypeOK

-----------------------------------------------------------------------------
(* A vote is cast only while nothing was announced. *)
LEMMA VoteInv ==
    ASSUME GovInv, NEW did \in Members, NEW position \in Position, cast_vote(did, position)
    PROVE  GovInv'
<1>0. GovTypeOK /\ Announced(delib, results) /\ register.entries = filed
  BY DEF GovInv
<1>1. /\ delib' = [delib EXCEPT !.votes = @ \cup {[voter_did |-> did, position |-> position]}]
      /\ delib.status = "Open"
      /\ UNCHANGED <<results, registry, register, filed, clearances, challenge, paused, plan>>
  BY DEF cast_vote, WithVote, MayVote
<1>2. delib' \in Deliberation
  BY <1>0, <1>1 DEF GovTypeOK, Deliberation, Vote
<1>3. Announced(delib', results)
  BY <1>0, <1>1 DEF Announced
<1>4. Approvals(delib') \subseteq Approval
  BY <1>2, ApprovalsTyped
<1> QED BY <1>0, <1>1, <1>2, <1>3, <1>4 DEF GovInv, GovTypeOK

(* A close reads the votes, and leaves them as they are. *)
LEMMA CloseInv ==
    ASSUME GovInv, NEW pol \in Policies, close(pol)
    PROVE  GovInv'
<1>0. GovTypeOK /\ Announced(delib, results) /\ register.entries = filed
  BY DEF GovInv
<1>1. /\ delib' = [delib EXCEPT !.status = "Closed"]
      /\ results' = Append(results, <<pol, DeliberationResult(delib, pol)>>)
      /\ UNCHANGED <<registry, register, filed, clearances, challenge, paused, plan>>
  BY DEF close
<1>2. delib \in Deliberation
  BY <1>0 DEF GovTypeOK
<1>3. delib' \in Deliberation /\ delib'.votes = delib.votes /\ delib'.status = "Closed"
  BY <1>1, <1>2 DEF Deliberation, DeliberationStatus
<1>4. \A p : DeliberationResult(delib', p) = DeliberationResult(delib, p)
  <2>1. \A pos : Cast(delib', pos) = Cast(delib, pos)
    BY <1>3 DEF Cast
  <2>2. Approvals(delib') = Approvals(delib)
    BY <2>1 DEF Approvals
  <2> QED BY <2>1, <2>2 DEF DeliberationResult
<1>5. Announced(delib', results')
  <2> DEFINE R == {DeliberationResult(delib, p) : p \in Policies}
  <2>1. {DeliberationResult(delib', p) : p \in Policies} = R
    BY <1>4
  <2>2. results \in Seq(Policies \X R) /\ \A i \in DOMAIN results : results[i][2] = DeliberationResult(delib, results[i][1])
    BY <1>0 DEF Announced
  <2>3. <<pol, DeliberationResult(delib, pol)>> \in Policies \X R
    OBVIOUS
  <2>p. PICK e : e = <<pol, DeliberationResult(delib, pol)>>
    OBVIOUS
  <2>4. e \in Policies \X R /\ e[2] = DeliberationResult(delib, e[1])
    BY <2>3, <2>p
  <2>5. results' = Append(results, e)
    BY <1>1, <2>p
  <2> HIDE DEF R
  <2>6. /\ results' \in Seq(Policies \X R)
        /\ DOMAIN results' = 1..(Len(results) + 1)
        /\ results'[Len(results) + 1] = e
        /\ \A i \in 1..Len(results) : results'[i] = results[i]
    BY <2>2, <2>4, <2>5, AppendProperties
  <2>7. \A i \in DOMAIN results' : results'[i][2] = DeliberationResult(delib, results'[i][1])
    <3> TAKE i \in DOMAIN results'
    <3>1. Len(results) \in Nat /\ DOMAIN results = 1..Len(results)
      BY <2>2, LenProperties
    <3>2. CASE i = Len(results) + 1
      BY <3>2, <2>6, <2>4
    <3>3. CASE i \in 1..Len(results)
      BY <3>3, <2>6, <2>2, <3>1
    <3> QED BY <3>1, <3>2, <3>3, <2>6
  <2> QED BY <2>1, <2>6, <2>7, <1>3, <1>4 DEF Announced
<1>6. Approvals(delib') \subseteq Approval
  BY <1>3, ApprovalsTyped
<1> QED BY <1>0, <1>1, <1>3, <1>5, <1>6 DEF GovInv, GovTypeOK

(* Only one entry of one map of the identity registry changes. *)
LEMMA EvidenceInv == ASSUME GovInv, EvidenceStep PROVE GovInv'
<1>0. GovTypeOK /\ Announced(delib, results) /\ register.entries = filed
  BY DEF GovInv
<1>1. PICK kind \in DOMAIN registry, did \in Members, e \in Evidence \cup {Absent} :
         SetEvidence(kind, did, e)
  BY DEF EvidenceStep
<1>2. registry \in IdentityRegistry
  BY <1>0 DEF GovTypeOK
<1>3. kind \in {"signing_keys", "attestation_roots", "control_metadata"}
  BY <1>1, <1>2 DEF IdentityRegistry
<1>4. registry' = [registry EXCEPT ![kind] = [registry[kind] EXCEPT ![did] = e]]
  BY <1>1 DEF SetEvidence
<1>5. registry' \in IdentityRegistry
  <2>1. CASE kind = "signing_keys"
    BY <2>1, <1>2, <1>4 DEF IdentityRegistry
  <2>2. CASE kind = "attestation_roots"
    BY <2>2, <1>2, <1>4 DEF IdentityRegistry
  <2>3. CASE kind = "control_metadata"
    BY <2>3, <1>2, <1>4 DEF IdentityRegistry
  <2> QED BY <1>3, <2>1, <2>2, <2>3
<1>6. UNCHANGED <<delib, results, register, filed, clearances, challenge, paused, plan>>
  BY <1>1 DEF SetEvidence
<1> QED BY <1>0, <1>5, <1>6 DEF GovInv, GovTypeOK, Announced

(* A declaration that is on file already is not filed again, and none is lost. *)
LEMMA ConflictInv == ASSUME GovInv, ConflictStep PROVE GovInv'
<1>0. GovTypeOK /\ Announced(delib, results) /\ register.entries = filed
  BY DEF GovInv
<1>1. register \in StandingConflictRegister /\ filed \subseteq ConflictDeclaration
  BY <1>0 DEF GovTypeOK
<1> DEFINE Kept ==
        /\ register' \in StandingConflictRegister /\ filed' \subseteq ConflictDeclaration
        /\ register'.entries = filed'
        /\ UNCHANGED <<delib, results, registry, clearances, challenge, paused, plan>>
<1>2. ASSUME NEW decl \in ConflictDeclaration, Register(decl) PROVE Kept
  BY <1>0, <1>1, <1>2 DEF Register, Duplicate, StandingConflictRegister
<1>3. ASSUME NEW did \in Members, record_acknowledgment(did) PROVE Kept
  BY <1>0, <1>1, <1>3 DEF record_acknowledgment, StandingConflictRegister
<1>4. Kept
  BY <1>2, <1>3 DEF ConflictStep
<1> QED BY <1>0, <1>4 DEF GovInv, GovTypeOK, Announced

(* Clearances, the challenge and the succession change each on its own. *)
LEMMA OfficeInv == ASSUME GovInv, OfficeStep PROVE GovInv'
<1>0. GovTypeOK /\ Announced(delib, results) /\ register.entries = filed
  BY DEF GovInv
<1>1. /\ DOMAIN clearances \subseteq Members
      /\ \A d \in DOMAIN clearances : clearances[d] \in DOMAIN ClearanceLevel
      /\ challenge \in ChallengeStatus \cup {NoChallenge} /\ paused \in BOOLEAN
      /\ plan \in SuccessionPlan
  BY <1>0 DEF GovTypeOK
<1> DEFINE Rest == UNCHANGED <<delib, results, registry, register, filed>>
<1>2. ASSUME NEW did \in Members, NEW level \in DOMAIN ClearanceLevel, set_level(did, level)
      PROVE  GovInv'
  <2>1. /\ DOMAIN clearances' \subseteq Members
        /\ \A d \in DOMAIN clearances' : clearances'[d] \in DOMAIN ClearanceLevel
    BY <1>1, <1>2 DEF set_level
  <2>2. Rest /\ UNCHANGED <<challenge, paused, plan>>
    BY <1>2 DEF set_level
  <2> QED BY <1>0, <2>1, <2>2 DEF GovInv, GovTypeOK, Announced
<1>3. ASSUME NEW status \in ChallengeStatus, ChallengeStep(status) PROVE GovInv'
  BY <1>0, <1>3 DEF GovInv, GovTypeOK, Announced, ChallengeStep
<1>4. CASE file_challenge \/ withdraw \/ \E verdict \in {"Sustain", "Overrule"} : adjudicate(verdict)
  BY <1>3, <1>4 DEF file_challenge, withdraw, adjudicate, ChallengeStatus
<1>5. CASE pause_action
  BY <1>0, <1>5 DEF GovInv, GovTypeOK, Announced, pause_action
<1>6. ASSUME NEW trigger \in SuccessionTrigger, NEW now \in Thresholds,
             activate_succession(trigger, now)
      PROVE  GovInv'
  <2>1. PICK did \in next_successor(plan) :
           plan' = [current_holder |-> did, successors |-> Tail(plan.successors)]
    BY <1>6 DEF activate_succession
  <2>2. plan.successors \in Seq(Members) /\ plan.successors # <<>> /\ did = Head(plan.successors)
    BY <1>1, <2>1 DEF next_successor, SuccessionPlan
  <2>3. did \in Members /\ Tail(plan.successors) \in Seq(Members)
    BY <2>2, HeadTailProperties
  <2>4. plan' \in SuccessionPlan
    BY <2>1, <2>3 DEF SuccessionPlan
  <2>5. Rest /\ UNCHANGED <<clearances, challenge, paused>>
    BY <1>6 DEF activate_succession
  <2> QED BY <1>0, <2>4, <2>5 DEF GovInv, GovTypeOK, Announced
<1> QED BY <1>2, <1>4, <1>5, <1>6 DEF OfficeStep

(* The invariant holds whatever the callers of exo-governance do. *)
THEOREM GovernanceInvariant == GovSpec => []GovInv
<1>1. GovInv /\ [GovNext]_govVars => GovInv'
  <2> SUFFICES ASSUME GovInv, [GovNext]_govVars PROVE GovInv'
    OBVIOUS
  <2>1. CASE DelibStep
    BY <2>1, VoteInv, CloseInv DEF DelibStep
  <2>2. CASE UNCHANGED govVars
    BY <2>2 DEF govVars, GovInv, GovTypeOK, Announced
  <2> QED BY <2>1, <2>2, EvidenceInv, ConflictInv, OfficeInv DEF GovNext
<1> QED BY GovInitInv, <1>1, PTL DEF GovSpec

-----------------------------------------------------------------------------
(* Approvals are as many as their voters at most: one per voter. *)
LEMMA ApprovalsAreVoters ==
    ASSUME NEW d \in Deliberation
    PROVE  LET voters == {v.voter_did : v \in Cast(d, "For")}
           IN  /\ IsFiniteSet(voters) /\ IsFiniteSet(Approvals(d))
               /\ Cardinality(Approvals(d)) <= Cardinality(voters)
<1> DEFINE voters == {v.voter_did : v \in Cast(d, "For")}
           full == [no_common_control |-> TRUE, no_coordination |-> TRUE, identity_verified |-> TRUE]
           app(m) == [approver_did |-> m, role |-> "Contributor", attestation |-> {full}]
           f == [m \in voters |-> app(m)]
<1>1. voters \subseteq Members
  BY DEF Cast, Deliberation, Vote
<1>2. IsFiniteSet(voters)
  BY <1>1, GovernanceAssumption, FS_Subset
<1>3. Approvals(d) = {app(v.voter_did) : v \in Cast(d, "For")}
  BY DEF Approvals
<1> HIDE DEF app
<1>4. f \in Surjection(voters, Approvals(d))
  <2>1. f \in [voters -> Approvals(d)]
    BY <1>3
  <2>2. \A a \in Approvals(d) : \E m \in voters : f[m] = a
    BY <1>3
  <2> QED BY <2>1, <2>2 DEF Surjection
<1> QED BY <1>2, <1>4, FS_Surjection

(* deliberation.rs `close': an approval is a majority of enough voters. *)
LEMMA ApprovedByEnough ==
    ASSUME NEW d \in Deliberation, NEW pol \in Policies,
           DeliberationResult(d, pol).outcome = "Approved"
    PROVE  LET r == DeliberationResult(d, pol)
           IN  /\ r.votes_for > r.votes_against
               /\ Cardinality({v.voter_did : v \in Cast(d, "For")}) >= pol.min_approvals
<1> DEFINE voters == {v.voter_did : v \in Cast(d, "For")}
           n == Cardinality(Cast(d, "For"))
           m == Cardinality(Cast(d, "Against"))
<1>1. compute_quorum(Approvals(d), pol) = "Met" /\ n > m
  BY DEF DeliberationResult
<1>2. Cardinality(Approvals(d)) >= pol.min_approvals
  BY <1>1 DEF compute_quorum
<1>3. /\ IsFiniteSet(voters) /\ IsFiniteSet(Approvals(d))
      /\ Cardinality(Approvals(d)) <= Cardinality(voters)
  BY ApprovalsAreVoters
<1>4. Cardinality(voters) \in Nat /\ Cardinality(Approvals(d)) \in Nat
  BY <1>3, FS_CardinalityType
<1>5. pol.min_approvals \in Nat
  BY GovernanceAssumption DEF QuorumPolicy
<1>6. Cardinality(voters) >= pol.min_approvals
  <2> HIDE DEF voters
  <2> QED BY <1>2, <1>3, <1>4, <1>5
<1> QED BY <1>1, <1>6 DEF DeliberationResult

(* What was announced is still what the votes give, and was rightly announced. *)
LEMMA ResultsStand == GovInv => AnnouncedStands
<1> SUFFICES ASSUME GovInv, NEW i \in DOMAIN results
             PROVE  LET pol == results[i][1]
                        r == results[i][2]
                    IN  /\ r = DeliberationResult(delib, pol)
                        /\ r.outcome = "Approved" =>
                              /\ r.votes_for > r.votes_against
                              /\ Cardinality({v.voter_did : v \in Cast(delib, "For")}) >= pol.min_approvals
  BY DEF AnnouncedStands
<1>1. delib \in Deliberation /\ Announced(delib, results)
  BY DEF GovInv, GovTypeOK
<1>2. results[i][1] \in Policies /\ results[i][2] = DeliberationResult(delib, results[i][1])
  BY <1>1 DEF Announced
<1>p. PICK d, p : d = delib /\ p = results[i][1]
  OBVIOUS
<1>3. DeliberationResult(d, p).outcome = "Approved" =>
         /\ DeliberationResult(d, p).votes_for > DeliberationResult(d, p).votes_against
         /\ Cardinality({v.voter_did : v \in Cast(d, "For")}) >= p.min_approvals
  BY <1>1, <1>2, <1>p, ApprovedByEnough
<1> QED BY <1>2, <1>3, <1>p

-----------------------------------------------------------------------------
(* The actors of a list, and those of them that no trait links to another. *)
Listed(actors) == {actors[i] : i \in DOMAIN actors}

Independent(actors, reg) ==
    Listed(actors) \ (Grouped(reg.signing_keys, actors) \cup Grouped(reg.attestation_roots, actors)
                        \cup Grouped(reg.control_metadata, actors))

(* That is what the crosscheck counts. *)
LEMMA CountIsOfIndependent ==
    ASSUME NEW actors, NEW reg
    PROVE  verify_independence(actors, reg).independent_count = Cardinality(Independent(actors, reg))
BY DEF verify_independence, Independent, Listed

(* A list that holds another one, shifted, groups all that the other groups. *)
LEMMA GroupedGrows ==
    ASSUME NEW s, NEW t, NEW k \in Nat, DOMAIN s \subseteq Nat,
           \A i \in DOMAIN s : i + k \in DOMAIN t /\ t[i + k] = s[i],
           NEW map
    PROVE  Grouped(map, s) \subseteq Grouped(map, t)
<1> SUFFICES ASSUME NEW x \in Grouped(map, s) PROVE x \in Grouped(map, t)
  OBVIOUS
<1>1. PICK i \in DOMAIN s : x = s[i] /\ \E j \in DOMAIN s : j # i /\ Share(map, s[i], s[j])
  BY DEF Grouped
<1>2. PICK j \in DOMAIN s : j # i /\ Share(map, s[i], s[j])
  BY <1>1
<1>3. /\ i + k \in DOMAIN t /\ j + k \in DOMAIN t /\ i + k # j + k
      /\ t[i + k] = s[i] /\ t[j + k] = s[j]
  BY <1>2
<1> QED BY <1>1, <1>2, <1>3 DEF Grouped

(* An actor beside one that shares a trait with it is grouped. *)
LEMMA LinkedIsGrouped ==
    ASSUME NEW t, NEW i \in DOMAIN t, NEW j \in DOMAIN t, i # j,
           NEW map, Share(map, t[j], t[i])
    PROVE  t[i] \in Grouped(map, t)
<1>1. Share(map, t[i], t[j])
  BY DEF Share
<1> QED BY <1>1 DEF Grouped

(* Whatever is added, if it is linked, no one becomes independent by it. *)
LEMMA LinkedAddsNone ==
    ASSUME NEW s \in Seq(Members), NEW t \in Seq(Members), NEW reg \in IdentityRegistry,
           NEW k \in Nat, NEW n \in DOMAIN t, NEW a \in Members, t[n] = a,
           \A i \in DOMAIN s : i + k \in DOMAIN t /\ t[i + k] = s[i] /\ i + k # n,
           \A i \in DOMAIN t : i = n \/ \E j \in DOMAIN s : t[i] = s[j],
           NEW kind \in DOMAIN reg, NEW m \in DOMAIN s, Share(reg[kind], s[m], a)
    PROVE  Cardinality(Independent(t, reg)) <= Cardinality(Independent(s, reg))
<1>1. DOMAIN s \subseteq Nat
  <2>1. DOMAIN s = 1..Len(s) /\ Len(s) \in Nat
    BY LenProperties
  <2> QED BY <2>1
<1>2. \A map : Grouped(map, s) \subseteq Grouped(map, t)
  BY <1>1, GroupedGrows
<1>3. kind \in {"signing_keys", "attestation_roots", "control_metadata"}
  BY DEF IdentityRegistry
<1>4. a \in Grouped(reg[kind], t)
  <2>1. m + k \in DOMAIN t /\ t[m + k] = s[m] /\ m + k # n
    OBVIOUS
  <2> QED BY <2>1, LinkedIsGrouped
<1>5. a \notin Independent(t, reg)
  BY <1>3, <1>4 DEF Independent
<1>6. Independent(t, reg) \subseteq Independent(s, reg)
  <2> SUFFICES ASSUME NEW x \in Independent(t, reg) PROVE x \in Independent(s, reg)
    OBVIOUS
  <2>1. x # a
    BY <1>5
  <2>2. PICK i \in DOMAIN t : x = t[i]
    BY DEF Independent, Listed
  <2>3. x \in Listed(s)
    BY <2>1, <2>2 DEF Listed
  <2> QED BY <2>3, <1>2 DEF Independent
<1>7. IsFiniteSet(Independent(s, reg))
  <2>1. Independent(s, reg) \subseteq Members
    BY DEF Independent, Listed
  <2> QED BY <2>1, GovernanceAssumption, FS_Subset
<1> QED BY <1>6, <1>7, FS_Subset

(* crosscheck.rs: put at the end or at the front of the list, a linked actor adds
   none to the count. *)
LEMMA LinkedDoNotCount == GovInv => LinkedNeverCounts
<1> SUFFICES ASSUME registry \in IdentityRegistry,
                    NEW actors \in UNION {[1..n -> Members] : n \in 1..Cardinality(Members)},
                    NEW a \in Members, NEW i \in DOMAIN actors, NEW kind \in DOMAIN registry,
                    Share(registry[kind], actors[i], a)
             PROVE  /\ verify_independence(Append(actors, a), registry).independent_count
                          <= verify_independence(actors, registry).independent_count
                    /\ verify_independence(<<a>> \o actors, registry).independent_count
                          <= verify_independence(actors, registry).independent_count
  BY DEF GovInv, GovTypeOK, LinkedNeverCounts
<1>1. PICK n \in 1..Cardinality(Members) : actors \in [1..n -> Members]
  OBVIOUS
<1>2. n \in Nat
  BY GovernanceAssumption, FS_CardinalityType
<1>3. actors \in Seq(Members)
  BY <1>1, <1>2, SeqDef
<1>p. PICK reg : reg = registry
  OBVIOUS
<1>q. PICK b, f : b = Append(actors, a) /\ f = <<a>> \o actors
  OBVIOUS
<1>4. /\ b \in Seq(Members) /\ DOMAIN b = 1..(Len(actors) + 1) /\ b[Len(actors) + 1] = a
      /\ \A j \in 1..Len(actors) : b[j] = actors[j]
  BY <1>3, <1>q, AppendProperties
<1>5. Len(actors) \in Nat /\ DOMAIN actors = 1..Len(actors)
  BY <1>3, LenProperties
<1>6. Cardinality(Independent(b, reg)) <= Cardinality(Independent(actors, reg))
  <2>1. /\ Len(actors) + 1 \in DOMAIN b
        /\ \A j \in DOMAIN actors : j + 0 \in DOMAIN b /\ b[j + 0] = actors[j] /\ j + 0 # Len(actors) + 1
        /\ \A j \in DOMAIN b : j = Len(actors) + 1 \/ \E l \in DOMAIN actors : b[j] = actors[l]
    BY <1>4, <1>5
  <2> QED BY <2>1, <1>3, <1>4, <1>p, LinkedAddsNone
<1>7. /\ f \in Seq(Members) /\ DOMAIN f = 1..(Len(actors) + 1) /\ f[1] = a
      /\ \A j \in 1..Len(actors) : f[j + 1] = actors[j]
  <2>1. <<a>> \in Seq(Members) /\ Len(<<a>>) = 1 /\ <<a>>[1] = a
    OBVIOUS
  <2>2. /\ f \in Seq(Members) /\ Len(f) = Len(<<a>>) + Len(actors)
        /\ \A j \in 1..(Len(<<a>>) + Len(actors)) :
              f[j] = IF j <= Len(<<a>>) THEN <<a>>[j] ELSE actors[j - Len(<<a>>)]
    BY <2>1, <1>3, <1>q, ConcatProperties
  <2>3. Len(f) = Len(actors) + 1 /\ \A j \in 1..(Len(actors) + 1) :
              f[j] = IF j <= 1 THEN a ELSE actors[j - 1]
    BY <2>1, <2>2, <1>5
  <2> QED BY <2>2, <2>3, <1>5
<1>8. Cardinality(Independent(f, reg)) <= Cardinality(Independent(actors, reg))
  <2>1. /\ 1 \in DOMAIN f
        /\ \A j \in DOMAIN actors : j + 1 \in DOMAIN f /\ f[j + 1] = actors[j] /\ j + 1 # 1
        /\ \A j \in DOMAIN f : j = 1 \/ \E l \in DOMAIN actors : f[j] = actors[l]
    <3>1. ASSUME NEW j \in DOMAIN f, j # 1 PROVE \E l \in DOMAIN actors : f[j] = actors[l]
      <4>1. j - 1 \in 1..Len(actors) /\ (j - 1) + 1 = j
        BY <3>1, <1>5, <1>7
      <4>2. f[(j - 1) + 1] = actors[j - 1]
        BY <4>1, <1>7
      <4> QED BY <4>1, <4>2, <1>5
    <3>2. 1 \in DOMAIN f /\ \A j \in DOMAIN actors : j + 1 \in DOMAIN f /\ f[j + 1] = actors[j] /\ j + 1 # 1
      BY <1>5, <1>7
    <3> QED BY <3>1, <3>2
  <2> QED BY <2>1, <1>3, <1>7, <1>p, LinkedAddsNone
<1> QED BY <1>6, <1>8, <1>p, <1>q, CountIsOfIndependent

-----------------------------------------------------------------------------
(* The conflicts of an actor: a declaration of its own, and a DID it names. *)
LEMMA ConflictsAre ==
    ASSUME NEW m, NEW affected, NEW entries, NEW c
    PROVE  c \in check_conflicts(m, affected, entries)
              <=> \E d \in entries, x \in affected :
                     /\ d.declarant_did = m /\ x \in d.related_dids
                     /\ c = [declaration |-> d, affected_did |-> x, severity |-> Severity(d.nature)]
<1> DEFINE Of(p) == [declaration |-> p[1], affected_did |-> p[2], severity |-> Severity(p[1].nature)]
           good == {p \in entries \X affected : p[1].declarant_did = m /\ p[2] \in p[1].related_dids}
<1>1. c \in check_conflicts(m, affected, entries) <=> \E p \in good : c = Of(p)
  BY DEF check_conflicts
<1>2. ASSUME NEW p \in good, c = Of(p)
      PROVE  \E d \in entries, x \in affected :
                /\ d.declarant_did = m /\ x \in d.related_dids
                /\ c = [declaration |-> d, affected_did |-> x, severity |-> Severity(d.nature)]
  <2>1. p[1] \in entries /\ p[2] \in affected /\ p[1].declarant_did = m /\ p[2] \in p[1].related_dids
    OBVIOUS
  <2> QED BY <1>2, <2>1
<1>3. ASSUME NEW d \in entries, NEW x \in affected, d.declarant_did = m, x \in d.related_dids,
             c = [declaration |-> d, affected_did |-> x, severity |-> Severity(d.nature)]
      PROVE  \E p \in good : c = Of(p)
  <2>1. <<d, x>> \in good /\ Of(<<d, x>>) = c
    BY <1>3
  <2> QED BY <2>1
<1> QED BY <1>1, <1>2, <1>3

(* Who must recuse: those who declared it, of any nature but the mild one. *)
LEMMA RecusalFollows ==
    ASSUME NEW entries \in SUBSET ConflictDeclaration, NEW affected \in SUBSET Members, NEW m \in Members
    PROVE  ~check_and_block(check_conflicts(m, affected, entries))
              <=> \E d \in entries : /\ d.declarant_did = m /\ d.nature # "other"
                                    /\ d.related_dids \cap affected # {}
<1> DEFINE C == check_conflicts(m, affected, entries)
<1>1. \A d \in entries : d.nature \in Nature /\ d.related_dids \subseteq Members
  BY DEF ConflictDeclaration
<1>2. \A n \in Nature : Severity(n) \in {"Disqualifying", "Material"} <=> n # "other"
  BY DEF Nature, Severity
<1>3. \A c : c \in C <=> \E d \in entries, x \in affected :
                            /\ d.declarant_did = m /\ x \in d.related_dids
                            /\ c = [declaration |-> d, affected_did |-> x, severity |-> Severity(d.nature)]
  BY ConflictsAre
<1> HIDE DEF C
<1>4. must_recuse(C) <=> \E c \in C : c.severity \in {"Disqualifying", "Material"}
  BY DEF must_recuse
<1>5. must_recuse(C) <=> \E d \in entries, x \in affected :
                            /\ d.declarant_did = m /\ x \in d.related_dids
                            /\ Severity(d.nature) \in {"Disqualifying", "Material"}
  <2>1. ASSUME NEW c \in C, c.severity \in {"Disqualifying", "Material"}
        PROVE  \E d \in entries, x \in affected :
                            /\ d.declarant_did = m /\ x \in d.related_dids
                            /\ Severity(d.nature) \in {"Disqualifying", "Material"}
    BY <2>1, <1>3
  <2>2. ASSUME NEW d \in entries, NEW x \in affected, d.declarant_did = m, x \in d.related_dids,
               Severity(d.nature) \in {"Disqualifying", "Material"}
        PROVE  \E c \in C : c.severity \in {"Disqualifying", "Material"}
    <3> DEFINE c == [declaration |-> d, affected_did |-> x, severity |-> Severity(d.nature)]
    <3>1. c \in C /\ c.severity = Severity(d.nature)
      BY <2>2, <1>3
    <3> QED BY <3>1, <2>2
  <2> QED BY <2>1, <2>2, <1>4
<1>6. (~check_and_block(C)) <=> must_recuse(C)
  BY DEF check_and_block
<1> QED BY <1>1, <1>2, <1>5, <1>6 DEF C

(* The register and check_conflicts name the same declarations. *)
LEMMA ViewsAgree ==
    ASSUME NEW m, NEW affected
    PROVE  {c.declaration : c \in check_conflicts(m, affected, register.entries)}
              = declarations_for_action(m, affected)
<1> DEFINE C == check_conflicts(m, affected, register.entries)
<1>3. \A c : c \in C <=> \E d \in register.entries, x \in affected :
                            /\ d.declarant_did = m /\ x \in d.related_dids
                            /\ c = [declaration |-> d, affected_did |-> x, severity |-> Severity(d.nature)]
  BY ConflictsAre
<1> HIDE DEF C
<1>4. ASSUME NEW e \in declarations_for_action(m, affected) PROVE \E c \in C : e = c.declaration
  <2>1. PICK x \in affected : x \in e.related_dids /\ e \in register.entries /\ e.declarant_did = m
    BY <1>4 DEF declarations_for_action
  <2> DEFINE c == [declaration |-> e, affected_did |-> x, severity |-> Severity(e.nature)]
  <2>2. c \in C /\ c.declaration = e
    BY <2>1, <1>3
  <2> QED BY <2>2
<1>5. ASSUME NEW c \in C PROVE c.declaration \in declarations_for_action(m, affected)
  BY <1>3, <1>5 DEF declarations_for_action
<1>6. {c.declaration : c \in C} = declarations_for_action(m, affected)
  BY <1>4, <1>5
<1> QED BY <1>6 DEF C

(* conflict.rs: the declarations filed decide who must recuse. *)
LEMMA ConflictsKept == GovInv => NoConflictLost
<1> DEFINE Recused(affected) ==
        {m \in Members : ~check_and_block(check_conflicts(m, affected, register.entries))}
<1> SUFFICES ASSUME GovInv, NEW affected \in SUBSET Members
             PROVE  /\ Recused(affected) =
                          {d.declarant_did : d \in {e \in filed : e.nature # "other"
                                                    /\ e.related_dids \cap affected # {}}}
                    /\ \A m \in Members :
                          {c.declaration : c \in check_conflicts(m, affected, register.entries)}
                             = declarations_for_action(m, affected)
                    /\ Recused(affected) # Members =>
                          adjusted_quorum_denominator(Cardinality(Members), Cardinality(Recused(affected)))
                             = Cardinality(Members \ Recused(affected))
  BY DEF NoConflictLost
<1>1. register.entries = filed /\ filed \subseteq ConflictDeclaration
  BY DEF GovInv, GovTypeOK
<1>p. PICK entries, R : entries = filed /\ R = Recused(affected)
  OBVIOUS
<1>2. \A m \in Members : m \in R <=> \E d \in entries : /\ d.declarant_did = m /\ d.nature # "other"
                                                     /\ d.related_dids \cap affected # {}
  BY <1>1, <1>p, RecusalFollows
<1>3. R \subseteq Members /\ \A d \in entries : d.declarant_did \in Members
  BY <1>1, <1>p DEF ConflictDeclaration
<1>4. R = {d.declarant_did : d \in {e \in entries : e.nature # "other" /\ e.related_dids \cap affected # {}}}
  BY <1>2, <1>3
<1>5. R # Members => adjusted_quorum_denominator(Cardinality(Members), Cardinality(R))
                        = Cardinality(Members \ R)
  <2> SUFFICES ASSUME R # Members
               PROVE  adjusted_quorum_denominator(Cardinality(Members), Cardinality(R)) = Cardinality(Members \ R)
    OBVIOUS
  <2>1. IsFiniteSet(Members \ R) /\ Cardinality(Members \ R) = Cardinality(Members) - Cardinality(Members \cap R)
    BY GovernanceAssumption, FS_Difference
  <2>2. Members \cap R = R /\ Members \ R # {}
    BY <1>3
  <2>3. Cardinality(Members \ R) \in Nat /\ Cardinality(Members \ R) # 0
    BY <2>1, <2>2, FS_CardinalityType, FS_EmptySet
  <2> QED BY <2>1, <2>2, <2>3 DEF adjusted_quorum_denominator
<1>6. \A m \in Members : {c.declaration : c \in check_conflicts(m, affected, register.entries)}
                             = declarations_for_action(m, affected)
  BY ViewsAgree
<1> HIDE DEF Recused
<1> QED BY <1>4, <1>5, <1>6, <1>p

(* deliberation.rs, crosscheck.rs, conflict.rs, for any members, policies and
   evidence: what a close announced stands through later calls, a linked actor
   never raises the independent count, and no filed conflict is lost. *)
THEOREM GovernanceIsSound == GovSpec => []GovernanceSound
<1>1. GovInv => GovernanceSound
  BY ResultsStand, LinkedDoNotCount, ConflictsKept DEF GovInv, GovernanceSound
<1> QED BY <1>1, GovernanceInvariant, PTL

-----------------------------------------------------------------------------
(* Evidence, records, duties and the safe harbour (exo-legal).               *)
-----------------------------------------------------------------------------
(* A chain of custody starts at the creator, goes on where it stopped, and
   moves on in time. *)
CustodySound(ev) ==
    LET chain == ev.chain_of_custody
    IN  /\ verify_chain_of_custody(ev)
        /\ \A i \in DOMAIN chain : chain[i].timestamp > ev.timestamp
        /\ \A i, j \in DOMAIN chain : i < j => chain[i].timestamp < chain[j].timestamp

(* Whatever its status, a transaction that got past the disclosure made it,
   and has no vote of the interested party. *)
HarborInv ==
    txn # NoTxn =>
       /\ txn \in InterestedTransaction
       /\ txn.status # "PendingDisclosure" => txn.disclosed
       /\ \A i \in DOMAIN txn.votes : txn.votes[i][1] # txn.interested_party

(* The inductive invariant of exo-legal. *)
LegalInv ==
    /\ LegalTypeOK
    /\ \A e \in DOMAIN evidence : CustodySound(evidence[e])
    /\ record.held => record.disposition = "RetentionHold"
    /\ HarborInv
    /\ SafeHarborSound

-----------------------------------------------------------------------------
(* The initial state satisfies the invariant. *)
LEMMA LegalInitInv == LegalInit => LegalInv
<1> SUFFICES ASSUME LegalInit PROVE LegalInv
  OBVIOUS
<1>1. evidence = <<>> /\ privileges = {} /\ txn = NoTxn /\ duty.type = "None"
  BY DEF LegalInit
<1>2. record \in Record /\ ~record.held
  <2>1. PICK class \in Tags, days \in Days : record = create_record(class, days)
    BY DEF LegalInit
  <2> QED BY <2>1 DEF create_record, Record, Disposition
<1>3. SafeHarborSound
  BY <1>1 DEF SafeHarborSound, NoTxn
<1> QED BY <1>1, <1>2, <1>3 DEF LegalInv, LegalTypeOK, HarborInv

(* A transfer from the custodian, a moment after the last one. *)
LEMMA TransferKeeps ==
    ASSUME NEW ev \in EvidenceItem, CustodySound(ev), Days \subseteq Nat,
           NEW from \in Parties, from = Custodian(ev), NEW to \in Parties, NEW new,
           new = [ev EXCEPT !.chain_of_custody =
                     Append(@, [from |-> from, to |-> to, timestamp |-> NextTransferAt(ev)])]
    PROVE  new \in EvidenceItem /\ CustodySound(new)
<1>p. PICK chain, link : /\ chain = ev.chain_of_custody
                         /\ link = [from |-> from, to |-> to, timestamp |-> NextTransferAt(ev)]
  OBVIOUS
<1>1. chain \in Seq(CustodyTransfer) /\ ev.timestamp \in Nat /\ Len(chain) \in Nat
      /\ DOMAIN chain = 1..Len(chain)
  BY <1>p, LenProperties DEF EvidenceItem
<1>2. chain # <<>> => Len(chain) \in DOMAIN chain /\ Last(chain) = chain[Len(chain)]
                      /\ chain[Len(chain)] \in CustodyTransfer
  BY <1>1, EmptySeq DEF Last
<1>3. chain = <<>> <=> Len(chain) = 0
  BY <1>1, EmptySeq
<1>4. link.timestamp \in Nat /\ link \in CustodyTransfer /\ link.from = from
  BY <1>1, <1>2, <1>p DEF NextTransferAt, CustodyTransfer
<1>5. link.timestamp > ev.timestamp /\ \A i \in DOMAIN chain : chain[i].timestamp < link.timestamp
  <2>1. CASE chain = <<>>
    BY <2>1, <1>1, <1>p, <1>3 DEF NextTransferAt
  <2>2. CASE chain # <<>>
    <3>1. link.timestamp = 1 + chain[Len(chain)].timestamp
      BY <2>2, <1>2, <1>p DEF NextTransferAt
    <3>2. /\ chain[Len(chain)].timestamp > ev.timestamp
          /\ \A i \in DOMAIN chain : i < Len(chain) => chain[i].timestamp < chain[Len(chain)].timestamp
      BY <2>2, <1>2, <1>p DEF CustodySound
    <3>3. ASSUME NEW i \in DOMAIN chain PROVE chain[i].timestamp \in Nat /\ i \in 1..Len(chain)
      <4>1. chain[i] \in CustodyTransfer
        BY <1>1, ElementOfSeq
      <4> QED BY <4>1, <1>1 DEF CustodyTransfer
    <3>4. chain[Len(chain)].timestamp \in Nat
      BY <2>2, <1>2, <3>3
    <3>5. \A i \in DOMAIN chain : i < Len(chain) \/ i = Len(chain)
      BY <3>3, <1>1
    <3> QED BY <3>1, <3>2, <3>3, <3>4, <3>5, <1>1
  <2> QED BY <2>1, <2>2
<1>6. /\ new.chain_of_custody = Append(chain, link)
      /\ new.creator = ev.creator /\ new.timestamp = ev.timestamp
      /\ new.type_tag = ev.type_tag /\ new.status = ev.status
      /\ DOMAIN new = {"type_tag", "creator", "timestamp", "chain_of_custody", "status"}
  BY <1>p DEF EvidenceItem
<1>q. PICK longer : longer = Append(chain, link)
  OBVIOUS
<1>7. /\ longer \in Seq(CustodyTransfer) /\ DOMAIN longer = 1..(Len(chain) + 1)
      /\ longer[Len(chain) + 1] = link /\ \A i \in 1..Len(chain) : longer[i] = chain[i]
  BY <1>1, <1>4, <1>q, AppendProperties
<1>8. new \in EvidenceItem
  <2>1. new = [ev EXCEPT !.chain_of_custody = longer]
    BY <1>p, <1>q
  <2> QED BY <2>1, <1>7 DEF EvidenceItem
<1>9. verify_chain_of_custody(new)
  <2> SUFFICES ASSUME NEW i \in DOMAIN longer
               PROVE  longer[i].from = IF i = 1 THEN ev.creator ELSE longer[i - 1].to
    BY <1>6, <1>q DEF verify_chain_of_custody
  <2>1. \A j \in DOMAIN chain : chain[j].from = IF j = 1 THEN ev.creator ELSE chain[j - 1].to
    BY <1>p DEF CustodySound, verify_chain_of_custody
  <2>2. CASE i \in 1..Len(chain)
    <3>1. i # 1 => i - 1 \in 1..Len(chain)
      BY <2>2, <1>1
    <3> QED BY <3>1, <2>1, <2>2, <1>1, <1>7
  <2>3. CASE i = Len(chain) + 1 /\ Len(chain) = 0
    <3>1. from = ev.creator
      BY <2>3, <1>3, <1>p DEF Custodian
    <3> QED BY <3>1, <2>3, <1>4, <1>7
  <2>4. CASE i = Len(chain) + 1 /\ Len(chain) # 0
    <3>1. from = chain[Len(chain)].to
      BY <2>4, <1>2, <1>3, <1>p DEF Custodian
    <3>2. i # 1 /\ i - 1 = Len(chain) /\ Len(chain) \in 1..Len(chain)
      BY <2>4, <1>1
    <3> QED BY <3>1, <3>2, <2>4, <1>4, <1>7
  <2> QED BY <2>2, <2>3, <2>4, <1>1, <1>7
<1>10. \A i \in DOMAIN longer : longer[i].timestamp > ev.timestamp
  <2>1. \A i \in DOMAIN chain : chain[i].timestamp > ev.timestamp
    BY <1>p DEF CustodySound
  <2> QED BY <2>1, <1>1, <1>5, <1>7
<1>11. \A i, j \in DOMAIN longer : i < j => longer[i].timestamp < longer[j].timestamp
  <2>1. \A i, j \in DOMAIN chain : i < j => chain[i].timestamp < chain[j].timestamp
    BY <1>p DEF CustodySound
  <2> SUFFICES ASSUME NEW i \in DOMAIN longer, NEW j \in DOMAIN longer, i < j
               PROVE  longer[i].timestamp < longer[j].timestamp
    OBVIOUS
  <2>2. i \in 1..Len(chain)
    BY <1>1, <1>7
  <2>3. CASE j \in 1..Len(chain)
    BY <2>1, <2>2, <2>3, <1>1, <1>7
  <2>4. CASE j = Len(chain) + 1
    BY <2>2, <2>4, <1>1, <1>5, <1>7
  <2> QED BY <2>3, <2>4, <1>1, <1>7
<1> QED BY <1>6, <1>8, <1>9, <1>10, <1>11, <1>q DEF CustodySound

(* evidence.rs, privilege.rs: only a transfer changes a chain of custody. *)
LEMMA CustodyInv == ASSUME LegalInv, CustodyStep PROVE LegalInv'
<1>0. LegalTypeOK /\ (\A e \in DOMAIN evidence : CustodySound(evidence[e]))
      /\ evidence \in Seq(EvidenceItem) /\ privileges \subseteq PrivilegeAssertion
  BY DEF LegalInv, LegalTypeOK
<1>r. Len(evidence) \in Nat /\ DOMAIN evidence = 1..Len(evidence)
  BY <1>0, LenProperties
<1>1. ASSUME UNCHANGED <<policy, record, duty, txn>>, evidence' \in Seq(EvidenceItem),
             \A e \in DOMAIN evidence' : CustodySound(evidence'[e]),
             privileges' \subseteq PrivilegeAssertion
      PROVE  LegalInv'
  BY <1>0, <1>1 DEF LegalInv, LegalTypeOK, HarborInv, SafeHarborSound, Approving
<1>2. ASSUME NEW p \in Parties, NEW t \in Tags, NEW at \in Days, create_evidence(p, t, at)
      PROVE  LegalInv'
  <2> DEFINE ev == [type_tag |-> t, creator |-> p, timestamp |-> at,
                    chain_of_custody |-> <<>>, status |-> "Pending"]
  <2>1. evidence' = Append(<<>>, ev) /\ UNCHANGED <<privileges, policy, record, duty, txn>>
    BY <1>2 DEF create_evidence
  <2>2. ev \in EvidenceItem
    BY DEF EvidenceItem, AdmissibilityStatus
  <2>3. CustodySound(ev)
    BY DEF CustodySound, verify_chain_of_custody
  <2>p. PICK item : item = ev
    OBVIOUS
  <2> HIDE DEF ev
  <2>4. evidence' = <<item>> /\ item \in EvidenceItem /\ CustodySound(item)
    BY <2>1, <2>2, <2>3, <2>p
  <2>5. evidence' \in Seq(EvidenceItem) /\ \A e \in DOMAIN evidence' : evidence'[e] = item
    BY <2>4
  <2> QED BY <2>1, <2>4, <2>5, <1>0, <1>1
<1>3. ASSUME NEW e \in DOMAIN evidence, NEW from \in Parties, NEW to \in Parties,
             transfer_custody(e, from, to)
      PROVE  LegalInv'
  <2>p. PICK ev, new : /\ ev = evidence[e]
                       /\ new = [ev EXCEPT !.chain_of_custody =
                                   Append(@, [from |-> from, to |-> to, timestamp |-> NextTransferAt(ev)])]
    OBVIOUS
  <2>1. ev \in EvidenceItem /\ CustodySound(ev) /\ from = Custodian(ev)
    BY <1>0, <1>r, <1>3, <2>p, ElementOfSeq DEF transfer_custody
  <2>2. new \in EvidenceItem /\ CustodySound(new)
    BY <2>1, <2>p, LegalAssumption, TransferKeeps
  <2>3. evidence' = [evidence EXCEPT ![e] = new] /\ UNCHANGED <<privileges, policy, record, duty, txn>>
    BY <1>3, <2>p DEF transfer_custody
  <2>4. evidence' \in Seq(EvidenceItem) /\ DOMAIN evidence' = DOMAIN evidence
        /\ \A i \in DOMAIN evidence : evidence'[i] = IF i = e THEN new ELSE evidence[i]
    BY <2>2, <2>3, <1>0, <1>r, ExceptSeq
  <2> QED BY <2>2, <2>3, <2>4, <1>0, <1>1
<1>4. ASSUME NEW e \in DOMAIN evidence, NEW type \in PrivilegeType, NEW p \in Parties,
             assert_privilege(e, type, p)
      PROVE  LegalInv'
  <2>1. privileges' \subseteq PrivilegeAssertion
    BY <1>0, <1>r, <1>4 DEF assert_privilege, PrivilegeAssertion, PrivilegeChallengeStatus
  <2> QED BY <2>1, <1>0, <1>1, <1>4 DEF assert_privilege
<1>5. ASSUME NEW p \in privileges, challenge_privilege(p) PROVE LegalInv'
  <2>1. privileges' \subseteq PrivilegeAssertion
    BY <1>0, <1>5 DEF challenge_privilege, PrivilegeAssertion, PrivilegeChallengeStatus
  <2> QED BY <2>1, <1>0, <1>1, <1>5 DEF challenge_privilege
<1> QED BY <1>2, <1>3, <1>4, <1>5 DEF CustodyStep

(* records.rs: a record on hold is exempt from every rule. *)
LEMMA RecordInv == ASSUME LegalInv, RecordStep PROVE LegalInv'
<1>0. record \in Record /\ (record.held => record.disposition = "RetentionHold")
  BY DEF LegalInv, LegalTypeOK
<1>1. UNCHANGED <<evidence, privileges, duty, txn>>
  BY DEF RecordStep, add_rule, apply_retention, Hold
<1>2. record' \in Record /\ (record'.held => record'.disposition = "RetentionHold")
  <2>1. CASE record' = record
    BY <2>1, <1>0
  <2>2. ASSUME NEW now \in Days, apply_retention(now)
        PROVE  record' \in Record /\ (record'.held => record'.disposition = "RetentionHold")
    BY <2>2, <1>0 DEF apply_retention, Retained, Exempt, Record, Disposition
  <2>3. CASE Hold
    BY <2>3, <1>0 DEF Hold, Record, Disposition
  <2> QED BY <2>1, <2>2, <2>3 DEF RecordStep, add_rule
<1> QED BY <1>1, <1>2 DEF LegalInv, LegalTypeOK, HarborInv, SafeHarborSound, Approving

(* fiduciary.rs: a duty and its audited actions are of their types. *)
LEMMA DutyInv == ASSUME LegalInv, DutyStep PROVE LegalInv'
<1>0. duty.type # "None" => duty \in FiduciaryDuty
  BY DEF LegalInv, LegalTypeOK
<1>1. UNCHANGED <<evidence, privileges, policy, record, txn>>
  BY DEF DutyStep, create_duty, Act
<1>2. duty' \in FiduciaryDuty
  <2>1. ASSUME NEW p \in Parties, NEW f \in Parties, NEW type \in DutyType, create_duty(p, f, type)
        PROVE  duty' \in FiduciaryDuty
    BY <2>1 DEF create_duty, FiduciaryDuty
  <2>2. ASSUME NEW a \in AuditedAction, Act(a) PROVE duty' \in FiduciaryDuty
    BY <2>2, <1>0 DEF Act, FiduciaryDuty
  <2> QED BY <2>1, <2>2 DEF DutyStep
<1> QED BY <1>1, <1>2 DEF LegalInv, LegalTypeOK, HarborInv, SafeHarborSound, Approving

-----------------------------------------------------------------------------
(* The votes that approve are some of the votes. *)
LEMMA ApprovingCounts ==
    ASSUME NEW t \in InterestedTransaction
    PROVE  Approving(t) \in Nat /\ Len(t.votes) \in Nat
<1>1. t.votes \in Seq(Parties \X BOOLEAN)
  BY DEF InterestedTransaction
<1>2. Len(t.votes) \in Nat /\ DOMAIN t.votes = 1..Len(t.votes)
  BY <1>1, LenProperties
<1>3. IsFiniteSet(1..Len(t.votes))
  BY <1>2, FS_Interval
<1>4. IsFiniteSet({i \in DOMAIN t.votes : t.votes[i][2]})
  BY <1>2, <1>3, FS_Subset
<1> QED BY <1>2, <1>4, FS_CardinalityType DEF Approving

(* What is left to show of a step of the transaction. *)
HarborOf(t) ==
    /\ t # NoTxn =>
          /\ t \in InterestedTransaction
          /\ t.status # "PendingDisclosure" => t.disclosed
          /\ \A i \in DOMAIN t.votes : t.votes[i][1] # t.interested_party
    /\ t.status = "Verified" => \/ t.path = "FairnessProof" /\ t.fairness
                               \/ Len(t.votes) - Approving(t) < Approving(t)
    /\ t.status = "Failed" => Approving(t) <= Len(t.votes) - Approving(t)

(* What SafeHarborSound says of the later statuses. *)
LEMMA HarborHolds ==
    ASSUME NEW t, HarborOf(t), NoTxn.status = "None"
    PROVE  t.status \in {"Verified", "Failed", "VotingInProgress"} =>
              t.disclosed /\ \A i \in DOMAIN t.votes : t.votes[i][1] # t.interested_party
BY DEF HarborOf

(* dgcl144.rs: disclosure, votes, evidence and verification, in any order and
   repeated. *)
LEMMA HarborStepInv ==
    ASSUME LegalInv, HarborStep
    PROVE  HarborOf(txn') /\ UNCHANGED <<evidence, privileges, policy, record, duty>>
<1>0. HarborOf(txn)
  BY DEF LegalInv, HarborInv, SafeHarborSound, HarborOf
<1>n. NoTxn.status = "None" /\ \A t \in InterestedTransaction : t # NoTxn
  BY DEF NoTxn, InterestedTransaction, SafeHarborStatus
<1>1. UNCHANGED <<evidence, privileges, policy, record, duty>>
  BY DEF HarborStep, initiate_safe_harbor, complete_disclosure, AddFairnessEvidence,
         verify_safe_harbor, record_disinterested_vote, TxnStep
<1>2. ASSUME NEW p \in Parties, NEW path \in SafeHarborPath, NEW now \in Days,
             initiate_safe_harbor(p, path, now)
      PROVE  HarborOf(txn')
  <2>1. txn' = [interested_party |-> p, path |-> path, status |-> "PendingDisclosure",
                disclosed |-> FALSE, votes |-> <<>>, fairness |-> FALSE]
    BY <1>2 DEF initiate_safe_harbor, TxnStep
  <2>2. txn' \in InterestedTransaction
    BY <2>1 DEF InterestedTransaction, SafeHarborStatus
  <2> QED BY <2>1, <2>2 DEF HarborOf
<1>4. CASE complete_disclosure
  <2>1. txn # NoTxn /\ txn' = [txn EXCEPT !.disclosed = TRUE, !.status = "DisclosureMade"]
    BY <1>4, <1>n DEF complete_disclosure, TxnStep
  <2>2. txn \in InterestedTransaction /\ \A i \in DOMAIN txn.votes : txn.votes[i][1] # txn.interested_party
    BY <2>1, <1>0 DEF HarborOf
  <2>3. txn' \in InterestedTransaction
    BY <2>1, <2>2 DEF InterestedTransaction, SafeHarborStatus
  <2>4. txn'.disclosed /\ txn'.status = "DisclosureMade" /\ txn'.votes = txn.votes
        /\ txn'.interested_party = txn.interested_party
    BY <2>1, <2>2 DEF InterestedTransaction
  <2>5. \A i \in DOMAIN txn'.votes : txn'.votes[i][1] # txn'.interested_party
    BY <2>2, <2>4
  <2>6. txn'.status # "Verified" /\ txn'.status # "Failed"
    BY <2>4
  <2> QED BY <1>1, <2>3, <2>4, <2>5, <2>6, Zenon DEF HarborOf
<1>5. CASE AddFairnessEvidence
  <2>1. txn # NoTxn /\ txn' = [txn EXCEPT !.fairness = TRUE]
    BY <1>5 DEF AddFairnessEvidence, TxnStep
  <2>2. txn \in InterestedTransaction
    BY <2>1, <1>0 DEF HarborOf
  <2>3. txn' \in InterestedTransaction
    BY <2>1, <2>2 DEF InterestedTransaction
  <2>4. txn'.fairness /\ txn'.disclosed = txn.disclosed /\ txn'.status = txn.status /\ txn'.votes = txn.votes
        /\ txn'.interested_party = txn.interested_party /\ txn'.path = txn.path
    BY <2>1, <2>2 DEF InterestedTransaction
  <2>5. Approving(txn') = Approving(txn)
    BY <2>4 DEF Approving
  <2>6. /\ txn'.status # "PendingDisclosure" => txn'.disclosed
        /\ \A i \in DOMAIN txn'.votes : txn'.votes[i][1] # txn'.interested_party
    BY <2>1, <2>4, <1>0, Zenon DEF HarborOf
  <2>7. /\ txn'.status = "Verified" => \/ txn'.path = "FairnessProof" /\ txn'.fairness
                                      \/ Len(txn'.votes) - Approving(txn') < Approving(txn')
        /\ txn'.status = "Failed" => Approving(txn') <= Len(txn'.votes) - Approving(txn')
    BY <2>4, <2>5, <1>0, Zenon DEF HarborOf
  <2> QED BY <1>1, <2>3, <2>6, <2>7, Zenon DEF HarborOf
<1>6. ASSUME NEW p \in Parties, NEW approved \in BOOLEAN, record_disinterested_vote(p, approved)
      PROVE  HarborOf(txn')
  <2>0. txn.status \in {"DisclosureMade", "VotingInProgress"} /\ p # txn.interested_party
        /\ txn' = [txn EXCEPT !.votes = Append(@, <<p, approved>>), !.status = "VotingInProgress"]
    BY <1>6 DEF record_disinterested_vote, MayBallot, Balloted, TxnStep
  <2>1. txn # NoTxn
    BY <2>0, <1>n
  <2>2. txn \in InterestedTransaction /\ txn.disclosed
        /\ \A i \in DOMAIN txn.votes : txn.votes[i][1] # txn.interested_party
    BY <2>0, <2>1, <1>0 DEF HarborOf
  <2>p. PICK votes, ballot : votes = txn.votes /\ ballot = <<p, approved>>
    OBVIOUS
  <2>3. votes \in Seq(Parties \X BOOLEAN) /\ ballot \in Parties \X BOOLEAN /\ ballot[1] = p
    BY <2>2, <2>p DEF InterestedTransaction
  <2>q. PICK longer : longer = Append(votes, ballot)
    OBVIOUS
  <2>4. /\ longer \in Seq(Parties \X BOOLEAN) /\ DOMAIN longer = 1..(Len(votes) + 1)
        /\ longer[Len(votes) + 1] = ballot /\ \A i \in 1..Len(votes) : longer[i] = votes[i]
        /\ Len(votes) \in Nat /\ DOMAIN votes = 1..Len(votes)
    BY <2>3, <2>q, AppendProperties, LenProperties
  <2>5. txn' = [txn EXCEPT !.votes = longer, !.status = "VotingInProgress"]
    BY <2>0, <2>p, <2>q
  <2>6. txn' \in InterestedTransaction
    BY <2>2, <2>4, <2>5 DEF InterestedTransaction, SafeHarborStatus
  <2>7. txn'.votes = longer /\ txn'.disclosed = txn.disclosed /\ txn'.status = "VotingInProgress"
        /\ txn'.interested_party = txn.interested_party
    BY <2>2, <2>5 DEF InterestedTransaction
  <2>8. \A i \in DOMAIN longer : longer[i][1] # txn.interested_party
    <3> TAKE i \in DOMAIN longer
    <3>1. CASE i \in 1..Len(votes)
      BY <3>1, <2>2, <2>4, <2>p
    <3>2. CASE i = Len(votes) + 1
      BY <3>2, <2>0, <2>3, <2>4
    <3> QED BY <3>1, <3>2, <2>4
  <2> QED BY <2>2, <2>6, <2>7, <2>8 DEF HarborOf
<1>7. CASE verify_safe_harbor
  <2>1. txn # NoTxn /\ txn.disclosed
    BY <1>7 DEF verify_safe_harbor
  <2>2. txn \in InterestedTransaction
        /\ \A i \in DOMAIN txn.votes : txn.votes[i][1] # txn.interested_party
    BY <2>1, <1>0 DEF HarborOf
  <2>3. PICK s \in {"Verified", "Failed"} :
           /\ txn' = [txn EXCEPT !.status = s]
           /\ s = "Verified" => (txn.path = "FairnessProof" /\ txn.fairness) \/ Carried(txn)
           /\ s = "Failed" => ~Carried(txn)
    BY <1>7 DEF verify_safe_harbor, TxnStep
  <2>4. Approving(txn) \in Nat /\ Len(txn.votes) \in Nat
    <3>p. PICK t : t = txn
      OBVIOUS
    <3> QED BY <3>p, <2>2, ApprovingCounts
  <2>5. txn' \in InterestedTransaction
    BY <2>2, <2>3 DEF InterestedTransaction, SafeHarborStatus
  <2>6. txn'.votes = txn.votes /\ txn'.disclosed = txn.disclosed /\ txn'.status = s
        /\ txn'.interested_party = txn.interested_party /\ txn'.path = txn.path /\ txn'.fairness = txn.fairness
    BY <2>2, <2>3 DEF InterestedTransaction
  <2>7. Approving(txn') = Approving(txn)
    BY <2>6 DEF Approving
  <2>8. Carried(txn) <=> Len(txn.votes) - Approving(txn) < Approving(txn)
    BY <2>4 DEF Carried
  <2>9. /\ txn'.status # "PendingDisclosure" => txn'.disclosed
        /\ \A i \in DOMAIN txn'.votes : txn'.votes[i][1] # txn'.interested_party
    BY <2>1, <2>2, <2>6, Zenon
  <2>10. s = "Verified" => \/ txn'.path = "FairnessProof" /\ txn'.fairness
                          \/ Len(txn'.votes) - Approving(txn') < Approving(txn')
    BY <2>3, <2>6, <2>7, <2>8, Zenon
  <2>11. s = "Failed" => Approving(txn') <= Len(txn'.votes) - Approving(txn')
    <3>1. s = "Failed" => Approving(txn) <= Len(txn.votes) - Approving(txn)
      BY <2>3, <2>4, <2>8
    <3> QED BY <3>1, <2>6, <2>7, Zenon
  <2>12. txn'.status = s
    BY <2>6
  <2> QED BY <1>1, <2>5, <2>9, <2>10, <2>11, <2>12, Zenon DEF HarborOf
<1> QED BY <1>1, <1>2, <1>4, <1>5, <1>6, <1>7 DEF HarborStep

(* dgcl144.rs: every step of the transaction keeps the invariant. *)
LEMMA HarborKept == ASSUME LegalInv, HarborStep PROVE LegalInv'
<1>1. HarborOf(txn') /\ UNCHANGED <<evidence, privileges, policy, record, duty>>
  BY HarborStepInv
<1>2. NoTxn.status = "None"
  BY DEF NoTxn
<1>3. HarborInv' /\ (txn' # NoTxn => txn' \in InterestedTransaction)
  BY <1>1 DEF HarborOf, HarborInv
<1>4. SafeHarborSound'
  BY <1>1, <1>2, HarborHolds DEF HarborOf, SafeHarborSound
<1> QED BY <1>1, <1>3, <1>4 DEF LegalInv, LegalTypeOK

(* The invariant holds under every operation of exo-legal. *)
THEOREM LegalInvariant == LegalSpec => []LegalInv
<1>1. LegalInv /\ [LegalNext]_legalVars => LegalInv'
  <2> SUFFICES ASSUME LegalInv, [LegalNext]_legalVars PROVE LegalInv'
    OBVIOUS
  <2>1. CASE UNCHANGED legalVars
    BY <2>1 DEF legalVars, LegalInv, LegalTypeOK, HarborInv, SafeHarborSound, Approving
  <2> QED BY <2>1, CustodyInv, RecordInv, DutyInv, HarborKept DEF LegalNext
<1> QED BY LegalInitInv, <1>1, PTL DEF LegalSpec

(* evidence.rs, records.rs, dgcl144.rs, for any parties, times and numbers of
   votes: custody has no gap and goes forward, a hold is never lifted by a rule,
   and a safe harbour rests on disclosure and disinterested votes or fairness. *)
THEOREM LegalIsSound == LegalSpec => []LegalSound
<1>1. LegalInv => LegalSound
  <2> SUFFICES ASSUME LegalInv PROVE EvidenceKept
    BY DEF LegalInv, LegalSound
  <2>1. \A e \in DOMAIN evidence : CustodySound(evidence[e])
    BY DEF LegalInv
  <2> QED BY <2>1 DEF LegalInv, EvidenceKept, CustodySound
<1> QED BY <1>1, LegalInvariant, PTL

-----------------------------------------------------------------------------
(***************************************************************************)
(* Escalation: the board, signals and triage.                               *)
(***************************************************************************)
(* detector.rs: one more signal never lowers what the others say. *)
LEMMA EvaluationMonotone ==
    ASSUME NEW log \in Seq(DetectionSignal), NEW s \in DetectionSignal
    PROVE  /\ evaluate_signals(log) \in 1..4
           /\ evaluate_signals(Append(log, s)) \in 1..4
           /\ evaluate_signals(Append(log, s)) >= evaluate_signals(log)
<1> DEFINE after == Append(log, s)
<1>1. /\ Len(after) = Len(log) + 1 /\ Len(log) \in Nat
      /\ DOMAIN log \subseteq DOMAIN after
      /\ \A i \in DOMAIN log : after[i] = log[i]
  OBVIOUS
<1> HIDE DEF after
<1>2. \A type : Some(log, type) => Some(after, type)
  BY <1>1 DEF Some
<1>3. \A c : Above(log, c) => Above(after, c)
  BY <1>1 DEF Above
<1>4. Len(log) >= 3 => Len(after) >= 3
  BY <1>1
<1>5. \A z : evaluate_signals(z) \in 1..4
  BY DEF evaluate_signals
<1>6. evaluate_signals(after) >= evaluate_signals(log)
  BY <1>2, <1>3, <1>4 DEF evaluate_signals
<1> QED BY <1>5, <1>6 DEF after

(* triage.rs: a higher severity has a higher level and a shorter timeout. *)
LEMMA TriageMonotone ==
    ASSUME NEW a \in 1..4, NEW b \in 1..4, a <= b
    PROVE  triage(b).level >= triage(a).level /\ triage(b).timeout <= triage(a).timeout
<1>1. triage(a).level = a /\ triage(b).level = b
  BY DEF triage
<1>2. \A x : triage(x).timeout = <<3600000, 1800000, 900000, 300000>>[x]
  BY DEF triage
<1>3. /\ triage(1).timeout = 3600000 /\ triage(2).timeout = 1800000
      /\ triage(3).timeout = 900000 /\ triage(4).timeout = 300000
  BY <1>2
<1>4. a \in {1, 2, 3, 4} /\ b \in {1, 2, 3, 4}
  OBVIOUS
<1> QED BY <1>1, <1>3, <1>4

(* detector.rs against escalation.rs, for one signal. *)
LEMMA PriorityAlwaysFollows == PriorityFollowsTriage
<1> SUFFICES ASSUME NEW type \in SignalType \ {"EmergencyCondition"}, NEW c \in 0..255,
                    NEW path \in EscalationPath
    PROVE  LET signal == [signal_type |-> type, confidence |-> c]
           IN  triage(evaluate_signals(<<signal>>)).level <= escalate(signal, path).priority
  BY DEF PriorityFollowsTriage
<1> DEFINE signal == [signal_type |-> type, confidence |-> c]
           it == <<signal>>
<1>1. Len(it) = 1 /\ DOMAIN it = {1} /\ it[1].signal_type = type /\ it[1].confidence = c
  OBVIOUS
<1>2. signal.confidence = c
  OBVIOUS
<1> HIDE DEF signal, it
<1>3. triage(evaluate_signals(it)).level = evaluate_signals(it)
  BY DEF triage
<1>4. /\ ~Some(it, "EmergencyCondition")
      /\ \A t \in Nat : Above(it, t) <=> c >= t
  BY <1>1 DEF Some, Above
<1>5. evaluate_signals(it) <= IF c >= 90 THEN 4 ELSE IF c >= 70 THEN 3 ELSE IF c >= 50 THEN 2 ELSE 1
  BY <1>1, <1>4 DEF evaluate_signals
<1>6. escalate(signal, path).priority = IF c <= 30 THEN 1 ELSE IF c <= 60 THEN 2 ELSE IF c <= 85 THEN 3 ELSE 4
  BY <1>2 DEF escalate
<1>7. evaluate_signals(it) \in 1..4
  BY DEF evaluate_signals
<1>8. evaluate_signals(it) <= escalate(signal, path).priority
  BY <1>5, <1>6, <1>7
<1> QED BY <1>3, <1>8 DEF signal, it

(* A case as it is opened. *)
LEMMA EscalateTyped ==
    ASSUME NEW signal \in DetectionSignal, NEW path \in EscalationPath
    PROVE  escalate(signal, path) \in EscalationCase
<1>1. InitialStage(path) \in SybilStage \cup {"intake", "emergency_activated", "constitutional_review"}
  BY DEF InitialStage, EscalationPath, SybilStage
<1>2. escalate(signal, path).priority \in 1..4
  BY DEF escalate
<1>3. DOMAIN CasePriority = 1..4
  BY DEF CasePriority
<1>4. \E p \in 1..4 : escalate(signal, path) =
         [path |-> path, status |-> "Open", assignee |-> Nobody,
          stages_completed |-> {InitialStage(path)}, priority |-> p]
  BY <1>2 DEF escalate
<1> QED BY <1>1, <1>3, <1>4 DEF EscalationCase, CaseStatus

(* The board is a list of columns, each of cases opened, and a case is opened
   where it is put. *)
EscInv == EscTypeOK /\ OnBoardOnce

Columns == DOMAIN KanbanColumn

(* The board has five columns. *)
LEMMA ColumnsAre == Columns = 1..5
BY DEF Columns, KanbanColumn

(* An empty board. *)
LEMMA EscInitInv == EscInit => EscInv
<1> SUFFICES ASSUME EscInit PROVE EscInv
  OBVIOUS
<1>1. cases = <<>> /\ DOMAIN cases = {}
  BY DEF EscInit
<1>2. EscTypeOK
  BY DEF EscInit, EscTypeOK
<1> QED BY <1>1, <1>2 DEF EscInv, OnBoardOnce

(* A case is at one place of a board; a case is nowhere on it. *)
OnceIn(b, c) ==
    \E col \in DOMAIN b : \E i \in DOMAIN b[col] :
       /\ b[col][i] = c
       /\ \A other \in DOMAIN b : \A j \in DOMAIN b[other] : b[other][j] = c => other = col /\ j = i
NowhereIn(b, c) == \A col \in DOMAIN b : \A i \in DOMAIN b[col] : b[col][i] # c

(* A board of cases; one with a case taken out, and with one put in. *)
Boards(S) == [Columns -> Seq(S)]
Takes(b, from, pos, t) ==
    /\ DOMAIN t = Columns /\ t[from] = RemoveAt(b[from], pos)
    /\ \A col \in Columns : col # from => t[col] = b[col]
Puts(t, to, c, u) ==
    /\ DOMAIN u = Columns /\ u[to] = Append(t[to], c)
    /\ \A col \in Columns : col # to => u[col] = t[col]

(* Taking a case out of its column leaves every other where it was once. *)
LEMMA TakenOut ==
    ASSUME NEW S, NEW b \in Boards(S), NEW from \in Columns, NEW pos \in DOMAIN b[from],
           NEW c, b[from][pos] = c, OnceIn(b, c), NEW t, Takes(b, from, pos, t)
    PROVE  /\ t[from] \in Seq(S)
           /\ NowhereIn(t, c)
           /\ \A d : d # c /\ OnceIn(b, d) => OnceIn(t, d)
<1> DEFINE C == Columns
<1>0. /\ b \in [C -> Seq(S)]
      /\ DOMAIN t = C /\ t[from] = RemoveAt(b[from], pos)
      /\ \A col \in C : col # from => t[col] = b[col]
  BY DEF Boards, Takes
<1> HIDE DEF C
<1>f. from \in C
  BY DEF C
<1> USE <1>0, <1>f
<1>1. PICK s, n : s = b[from] /\ n = Len(s)
  OBVIOUS
<1>2. s \in Seq(S) /\ n \in Nat /\ DOMAIN s = 1..n /\ pos \in 1..n /\ s[pos] = c
  BY <1>1
<1>3. PICK r : r = RemoveAt(s, pos)
  OBVIOUS
<1>4. /\ IsSeq(r) /\ Len(r) = n - 1
      /\ \A i \in 1..(pos - 1) : r[i] = s[i]
      /\ \A i \in pos..(n - 1) : r[i] = s[i + 1]
  BY <1>1, <1>2, <1>3, RemovedFacts DEF IsSeq
<1>5. DOMAIN r = 1..(n - 1) /\ t[from] = r
  BY <1>1, <1>3, <1>4, SeqFacts
<1>6. r \in Seq(S)
  <2>1. \A i \in 1..(n - 1) : r[i] \in S
    BY <1>2, <1>4
  <2>2. PICK R : r \in Seq(R)
    BY <1>4 DEF IsSeq
  <2>3. r \in [1..(n - 1) -> S]
    BY <1>5, <2>1, <2>2
  <2>4. PICK m \in Nat : m = n - 1
    BY <1>2
  <2>5. r \in [1..m -> S]
    BY <2>3, <2>4
  <2> QED BY <2>5, SeqDef
<1>7. \A other \in C : \A j \in DOMAIN b[other] : b[other][j] = c => other = from /\ j = pos
  BY <1>1, <1>2 DEF OnceIn
<1>8. NowhereIn(t, c)
  <2> SUFFICES ASSUME NEW col \in C, NEW i \in DOMAIN t[col], t[col][i] = c PROVE FALSE
    BY DEF NowhereIn
  <2>1. CASE col # from
    BY <1>7, <2>1
  <2>2. CASE col = from
    <3>1. i \in 1..(n - 1) /\ r[i] = c
      BY <1>5, <2>2
    <3>2. CASE i < pos
      BY <1>1, <1>2, <1>4, <1>7, <3>1, <3>2
    <3>3. CASE i >= pos
      <4>1. r[i] = s[i + 1] /\ i + 1 \in 1..n
        BY <1>2, <1>4, <3>1, <3>3
      <4>2. i + 1 = pos
        BY <1>1, <1>2, <1>7, <3>1, <4>1
      <4> QED BY <1>2, <3>1, <3>3, <4>2
    <3> QED BY <1>2, <3>1, <3>2, <3>3
  <2> QED BY <2>1, <2>2
<1>9. ASSUME NEW d, d # c, OnceIn(b, d) PROVE OnceIn(t, d)
  <2>c. PICK col \in C : \E i \in DOMAIN b[col] :
           /\ b[col][i] = d
           /\ \A other \in C : \A j \in DOMAIN b[other] : b[other][j] = d => other = col /\ j = i
    BY <1>9 DEF OnceIn
  <2>1. PICK i \in DOMAIN b[col] :
           /\ b[col][i] = d
           /\ \A other \in C : \A j \in DOMAIN b[other] : b[other][j] = d => other = col /\ j = i
    BY <2>c
  <2>2. \A other \in C : \A j \in DOMAIN t[other] : t[other][j] = d /\ other # from => other = col /\ j = i
    BY <2>1
  <2>3. \A j \in 1..(n - 1) : r[j] = d =>
           from = col /\ j = IF j < pos THEN i ELSE i - 1
    <3> TAKE j \in 1..(n - 1)
    <3> HAVE r[j] = d
    <3>1. CASE j < pos
      <4>1. r[j] = s[j] /\ j \in 1..n
        BY <1>2, <1>4, <3>1
      <4>2. from = col /\ j = i
        BY <1>1, <1>2, <2>1, <4>1
      <4> QED BY <3>1, <4>2
    <3>2. CASE j >= pos
      <4>1. r[j] = s[j + 1] /\ j + 1 \in 1..n
        BY <1>2, <1>4, <3>2
      <4>2. from = col /\ j + 1 = i
        BY <1>1, <1>2, <2>1, <4>1
      <4> QED BY <1>2, <3>2, <4>2
    <3> QED BY <1>2, <3>1, <3>2
  <2>4. CASE col # from
    <3>1. i \in DOMAIN t[col] /\ t[col][i] = d
      BY <2>1, <2>4
    <3>2. \A other \in C : \A j \in DOMAIN t[other] : t[other][j] = d => other = col /\ j = i
      BY <1>5, <2>2, <2>3, <2>4
    <3> QED BY <3>1, <3>2 DEF OnceIn
  <2>5. CASE col = from /\ i < pos
    <3>1. i \in DOMAIN t[from] /\ t[from][i] = d
      BY <1>1, <1>2, <1>4, <1>5, <2>1, <2>5
    <3>2. \A j \in 1..(n - 1) : r[j] = d => j = i
      BY <1>1, <1>2, <2>1, <2>3, <2>5
    <3>3. \A other \in C : \A j \in DOMAIN t[other] : t[other][j] = d => other = from /\ j = i
      BY <1>5, <2>2, <2>5, <3>2
    <3> QED BY <3>1, <3>3 DEF OnceIn
  <2>6. CASE col = from /\ i > pos
    <3>0. i \in 1..n
      BY <1>1, <1>2, <2>1, <2>6
    <3>1. i - 1 \in DOMAIN t[from] /\ t[from][i - 1] = d
      <4>1. i - 1 \in pos..(n - 1) /\ (i - 1) + 1 = i
        BY <1>2, <2>6, <3>0
      <4>2. r[i - 1] = s[i]
        BY <1>4, <4>1
      <4> QED BY <1>1, <1>2, <1>5, <2>1, <2>6, <4>1, <4>2
    <3>2. \A j \in 1..(n - 1) : r[j] = d => j = i - 1
      BY <1>1, <1>2, <2>1, <2>3, <2>6, <3>0
    <3>3. \A other \in C : \A j \in DOMAIN t[other] : t[other][j] = d => other = from /\ j = i - 1
      BY <1>5, <2>2, <2>6, <3>2
    <3> QED BY <3>1, <3>3 DEF OnceIn
  <2>7. col # from \/ (col = from /\ i < pos) \/ (col = from /\ i > pos)
    BY <1>1, <1>2, <1>9, <2>1
  <2> QED BY <2>4, <2>5, <2>6, <2>7
<1> QED BY <1>5, <1>6, <1>8, <1>9

(* Putting a case that is nowhere at the end of a column. *)
LEMMA PutIn ==
    ASSUME NEW S, NEW t \in Boards(S), NEW to \in Columns, NEW c \in S, NowhereIn(t, c),
           NEW u, Puts(t, to, c, u)
    PROVE  OnceIn(u, c) /\ \A d : d # c /\ OnceIn(t, d) => OnceIn(u, d)
<1> DEFINE C == Columns
<1>0. /\ t \in [C -> Seq(S)]
      /\ DOMAIN u = C /\ u[to] = Append(t[to], c)
      /\ \A col \in C : col # to => u[col] = t[col]
  BY DEF Boards, Puts
<1> HIDE DEF C
<1>f. to \in C
  BY DEF C
<1> USE <1>0, <1>f
<1>1. PICK n : n = Len(t[to])
  OBVIOUS
<1>2. /\ n \in Nat /\ DOMAIN t[to] = 1..n /\ DOMAIN u[to] = 1..(n + 1) /\ u[to][n + 1] = c
      /\ \A i \in 1..n : u[to][i] = t[to][i]
  BY <1>1
<1>3. OnceIn(u, c)
  <2>1. \A other \in C : \A j \in DOMAIN u[other] : u[other][j] = c => other = to /\ j = n + 1
    BY <1>2 DEF NowhereIn
  <2> QED BY <1>2, <2>1 DEF OnceIn
<1>4. ASSUME NEW d, d # c, OnceIn(t, d) PROVE OnceIn(u, d)
  <2>c. PICK col \in C : \E i \in DOMAIN t[col] :
           /\ t[col][i] = d
           /\ \A other \in C : \A j \in DOMAIN t[other] : t[other][j] = d => other = col /\ j = i
    BY <1>4 DEF OnceIn
  <2>1. PICK i \in DOMAIN t[col] :
           /\ t[col][i] = d
           /\ \A other \in C : \A j \in DOMAIN t[other] : t[other][j] = d => other = col /\ j = i
    BY <2>c
  <2>2. i \in DOMAIN u[col] /\ u[col][i] = d
    BY <1>2, <2>1
  <2>3. \A other \in C : \A j \in DOMAIN u[other] : u[other][j] = d => other = col /\ j = i
    <3> TAKE other \in C
    <3> TAKE j \in DOMAIN u[other]
    <3> HAVE u[other][j] = d
    <3>1. other # to => j \in DOMAIN t[other] /\ t[other][j] = d
      OBVIOUS
    <3>2. other = to => j \in 1..n /\ t[other][j] = d
      BY <1>2, <1>4
    <3> QED BY <1>2, <2>1, <3>1, <3>2
  <2> QED BY <2>2, <2>3 DEF OnceIn
<1> QED BY <1>3, <1>4

(* What OnBoardOnce says of each case. *)
LEMMA OnceIsOnce == OnBoardOnce <=> \A c \in DOMAIN cases : OnceIn(board, c)
BY DEF OnBoardOnce, OnceIn

(* The case opened is put at the end of the backlog, where it was not. *)
LEMMA AddCaseInv ==
    ASSUME EscInv, NEW signal \in DetectionSignal, NEW path \in EscalationPath, add_case(signal, path)
    PROVE  EscInv'
<1>1. PICK n \in Nat : n = Len(cases)
  BY DEF EscInv, EscTypeOK
<1>2. cases \in Seq(EscalationCase) /\ board \in [Columns -> Seq(1..n)] /\ DOMAIN cases = 1..n
  BY <1>1 DEF EscInv, EscTypeOK, Columns
<1>3. cases' \in Seq(EscalationCase) /\ DOMAIN cases' = 1..(n + 1)
  BY <1>1, <1>2, EscalateTyped DEF add_case
<1>4. 1 \in Columns
  BY ColumnsAre
<1>5. board' = [board EXCEPT ![1] = Append(@, n + 1)]
  BY <1>1 DEF add_case
<1>6. \A s \in Seq(1..n) : s \in Seq(1..(n + 1))
  <2>1. 1..n \subseteq 1..(n + 1)
    OBVIOUS
  <2> QED BY <2>1, SeqMonotonic
<1>7. board \in [Columns -> Seq(1..(n + 1))]
  BY <1>2, <1>6
<1>8. /\ DOMAIN board' = Columns /\ board'[1] = Append(board[1], n + 1)
      /\ \A col \in Columns : col # 1 => board'[col] = board[col]
  BY <1>4, <1>5, <1>7
<1>9. board' \in [Columns -> Seq(1..(n + 1))]
  <2>1. board'[1] \in Seq(1..(n + 1))
    BY <1>4, <1>7, <1>8
  <2>2. \A col \in Columns : board'[col] \in Seq(1..(n + 1))
    BY <1>7, <1>8, <2>1
  <2> QED BY <1>5, <1>7, <2>2
<1>10. NowhereIn(board, n + 1)
  <2>1. \A col \in Columns : \A i \in DOMAIN board[col] : board[col][i] \in 1..n
    BY <1>2
  <2> QED BY <1>2, <2>1 DEF NowhereIn
<1>11. OnceIn(board', n + 1) /\ \A d : d # n + 1 /\ OnceIn(board, d) => OnceIn(board', d)
  <2>1. PICK c, t, u : c = n + 1 /\ t = board /\ u = board'
    OBVIOUS
  <2>2. c \in 1..(n + 1) /\ 1 \in Columns /\ t \in Boards(1..(n + 1)) /\ NowhereIn(t, c)
    BY <1>4, <1>7, <1>10, <2>1 DEF Boards
  <2>3. Puts(t, 1, c, u)
    BY <1>8, <2>1 DEF Puts
  <2>4. OnceIn(u, c) /\ \A d : d # c /\ OnceIn(t, d) => OnceIn(u, d)
    BY <2>2, <2>3, PutIn
  <2> QED BY <2>1, <2>4
<1>12. \A c \in DOMAIN cases : OnceIn(board, c)
  BY OnceIsOnce DEF EscInv
<1>13. \A c \in DOMAIN cases' : OnceIn(board', c)
  BY <1>2, <1>3, <1>11, <1>12
<1>14. OnBoardOnce'
  BY <1>13 DEF OnBoardOnce, OnceIn
<1>15. UNCHANGED <<signals, feedback>>
  BY DEF add_case
<1> QED BY <1>3, <1>9, <1>14, <1>15 DEF EscInv, EscTypeOK, Columns

(* A case that is moved is out of its column before it is in the next. *)
LEMMA MoveCaseInv ==
    ASSUME EscInv, NEW c \in DOMAIN cases, NEW to \in DOMAIN KanbanColumn, move_case(c, to)
    PROVE  EscInv'
<1>1. PICK S : S = DOMAIN cases
  OBVIOUS
<1>2. board \in [Columns -> Seq(S)] /\ c \in S /\ to \in Columns
  BY <1>1 DEF EscInv, EscTypeOK, Columns
<1>m. PICK from \in Columns : \E pos \in DOMAIN board[from] :
         /\ board[from][pos] = c
         /\ board' = [[board EXCEPT ![from] = RemoveAt(@, pos)] EXCEPT ![to] = Append(@, c)]
  BY <1>2 DEF move_case
<1>3. PICK pos \in DOMAIN board[from] :
         /\ board[from][pos] = c
         /\ board' = [[board EXCEPT ![from] = RemoveAt(@, pos)] EXCEPT ![to] = Append(@, c)]
  BY <1>m
<1>4. PICK b : b = board
  OBVIOUS
<1>5. PICK t : t = [board EXCEPT ![from] = RemoveAt(@, pos)]
  OBVIOUS
<1>6. /\ DOMAIN t = Columns /\ t[from] = RemoveAt(b[from], pos)
      /\ \A col \in Columns : col # from => t[col] = b[col]
  BY <1>2, <1>4, <1>5
<1>7. \A d \in S : OnceIn(b, d)
  BY <1>1, <1>4, OnceIsOnce DEF EscInv
<1>8. /\ t[from] \in Seq(S) /\ NowhereIn(t, c)
      /\ \A d : d # c /\ OnceIn(b, d) => OnceIn(t, d)
  <2>1. b \in Boards(S) /\ from \in Columns /\ pos \in DOMAIN b[from] /\ b[from][pos] = c
    BY <1>2, <1>3, <1>4 DEF Boards
  <2>2. Takes(b, from, pos, t) /\ OnceIn(b, c)
    BY <1>2, <1>6, <1>7 DEF Takes
  <2> QED BY <2>1, <2>2, TakenOut
<1>9. t \in [Columns -> Seq(S)]
  <2>1. \A col \in Columns : t[col] \in Seq(S)
    BY <1>2, <1>4, <1>6, <1>8
  <2>2. t = [col \in Columns |-> t[col]]
    BY <1>2, <1>5
  <2> QED BY <2>1, <2>2
<1>10. PICK u : u = board'
  OBVIOUS
<1>11. u = [t EXCEPT ![to] = Append(@, c)]
  BY <1>3, <1>5, <1>10
<1>12. /\ DOMAIN u = Columns /\ u[to] = Append(t[to], c)
       /\ \A col \in Columns : col # to => u[col] = t[col]
  BY <1>2, <1>9, <1>11
<1>13. OnceIn(u, c) /\ \A d : d # c /\ OnceIn(t, d) => OnceIn(u, d)
  <2>1. t \in Boards(S) /\ Puts(t, to, c, u)
    BY <1>9, <1>12 DEF Boards, Puts
  <2> QED BY <1>2, <1>8, <2>1, PutIn
<1>14. u \in [Columns -> Seq(S)]
  <2>1. u[to] \in Seq(S)
    BY <1>2, <1>9, <1>12
  <2>2. \A col \in Columns : u[col] \in Seq(S)
    BY <1>9, <1>12, <2>1
  <2>3. u = [col \in Columns |-> u[col]]
    BY <1>9, <1>11
  <2> QED BY <2>2, <2>3
<1>15. UNCHANGED <<signals, cases, feedback>>
  BY DEF move_case
<1>16. \A d \in S : OnceIn(u, d)
  BY <1>7, <1>8, <1>13
<1>17. OnBoardOnce'
  BY <1>1, <1>10, <1>15, <1>16 DEF OnBoardOnce, OnceIn
<1> QED BY <1>1, <1>10, <1>14, <1>15, <1>17 DEF EscInv, EscTypeOK, Columns

(* Every other step leaves the board and the number of cases alone. *)
LEMMA EscStepInv == EscInv /\ [EscNext]_escVars => EscInv'
<1> SUFFICES ASSUME EscInv, [EscNext]_escVars PROVE EscInv'
  OBVIOUS
<1>1. ASSUME NEW signal \in DetectionSignal, Gather(signal) PROVE EscInv'
  BY <1>1 DEF Gather, EscInv, EscTypeOK, OnBoardOnce
<1>2. ASSUME NEW signal \in DetectionSignal, NEW path \in EscalationPath, add_case(signal, path)
      PROVE  EscInv'
  BY <1>2, AddCaseInv
<1>3. ASSUME NEW c \in DOMAIN cases, NEW stage \in SybilStage, advance_sybil_stage(c, stage)
      PROVE  EscInv'
  <2>1. cases[c] \in EscalationCase /\ cases \in Seq(EscalationCase)
    BY <1>3 DEF EscInv, EscTypeOK
  <2>2. PICK st \in CaseStatus :
           cases' = [cases EXCEPT ![c].stages_completed = @ \cup {stage}, ![c].status = st]
    BY <1>3 DEF advance_sybil_stage, CaseStatus
  <2>3. [cases[c] EXCEPT !.stages_completed = @ \cup {stage}, !.status = st] \in EscalationCase
    BY <1>3, <2>1 DEF EscalationCase
  <2>4. cases' = [cases EXCEPT ![c] = [cases[c] EXCEPT !.stages_completed = @ \cup {stage}, !.status = st]]
    BY <2>1, <2>2
  <2>5. cases' \in Seq(EscalationCase) /\ DOMAIN cases' = DOMAIN cases
    BY <1>3, <2>1, <2>3, <2>4
  <2> QED BY <1>3, <2>5 DEF advance_sybil_stage, EscInv, EscTypeOK, OnBoardOnce
<1>4. ASSUME NEW c \in DOMAIN cases, NEW agent \in Agents, Assign(c, agent) PROVE EscInv'
  <2>1. cases[c] \in EscalationCase /\ cases \in Seq(EscalationCase)
    BY <1>4 DEF EscInv, EscTypeOK
  <2>2. [cases[c] EXCEPT !.assignee = agent] \in EscalationCase
    BY <1>4, <2>1 DEF EscalationCase
  <2>3. cases' = [cases EXCEPT ![c] = [cases[c] EXCEPT !.assignee = agent]]
    BY <1>4 DEF Assign
  <2>4. cases' \in Seq(EscalationCase) /\ DOMAIN cases' = DOMAIN cases
    BY <1>4, <2>1, <2>2, <2>3
  <2> QED BY <1>4, <2>4 DEF Assign, EscInv, EscTypeOK, OnBoardOnce
<1>5. ASSUME NEW c \in DOMAIN cases, NEW to \in DOMAIN KanbanColumn, move_case(c, to) PROVE EscInv'
  BY <1>5, MoveCaseInv
<1>6. ASSUME NEW entry \in FeedbackEntry, record_feedback(entry) PROVE EscInv'
  BY <1>6 DEF record_feedback, EscInv, EscTypeOK, OnBoardOnce
<1>7. CASE UNCHANGED escVars
  BY <1>7 DEF escVars, EscInv, EscTypeOK, OnBoardOnce
<1> QED BY <1>1, <1>2, <1>3, <1>4, <1>5, <1>6, <1>7 DEF EscNext

(* detector.rs, triage.rs: for any log of signals. *)
LEMMA MoreSignalsFromType == EscTypeOK => MoreSignalsNeverCalmer
<1> SUFFICES ASSUME EscTypeOK, NEW s \in DetectionSignal
    PROVE  LET before == triage(evaluate_signals(signals))
               after == triage(evaluate_signals(Append(signals, s)))
           IN  after.level >= before.level /\ after.timeout <= before.timeout
  BY DEF MoreSignalsNeverCalmer
<1>1. PICK log : log = signals
  OBVIOUS
<1>2. log \in Seq(DetectionSignal)
  BY <1>1 DEF EscTypeOK
<1>3. /\ evaluate_signals(log) \in 1..4 /\ evaluate_signals(Append(log, s)) \in 1..4
      /\ evaluate_signals(log) <= evaluate_signals(Append(log, s))
  BY <1>2, EvaluationMonotone
<1> QED BY <1>1, <1>3, TriageMonotone

(* detector.rs, triage.rs, escalation.rs, kanban.rs: for any confidences, and any
   number of signals, cases, moves and stages. *)
THEOREM EscalationIsSound == EscSpec => []EscalationSound
<1>1. EscSpec => []EscInv
  BY EscInitInv, EscStepInv, PTL DEF EscSpec
<1>2. EscInv => EscalationSound
  BY MoreSignalsFromType, PriorityAlwaysFollows DEF EscInv, EscalationSound
<1> QED BY <1>1, <1>2, PTL

=============================================================================
