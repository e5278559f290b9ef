--------------------------- MODULE GatewayProofs ---------------------------
(* Proofs about Gateway (audit trails and subscriptions), GatewayDb (races   *)
(* on the tables), Edge (tenants) and Gatekeeper (kernel, holons, monitor,    *)
(* attestations).                                                            *)
EXTENDS Edge, SequenceTheorems, FiniteSetTheorems, TLAPS

(* Receipts nest, so no fixed set holds them all. *)
IsSeq(s) == \E S : s \in Seq(S)

(* The length, domain and last element of a sequence. *)
LEMMA SeqFacts ==
    ASSUME NEW s, IsSeq(s)
    PROVE  /\ Len(s) \in Nat /\ DOMAIN s = 1..Len(s)
           /\ s = <<>> <=> Len(s) = 0
           /\ s # <<>> => Len(s) \in DOMAIN s /\ Last(s) = s[Len(s)]
<1>1. PICK S : s \in Seq(S)
  BY DEF IsSeq
<1> QED
  BY <1>1, LenProperties, EmptySeq DEF Last

(* What an append does to a sequence. *)
LEMMA AppendFacts ==
    ASSUME NEW s, IsSeq(s), NEW e
    PROVE  /\ IsSeq(Append(s, e))
           /\ Len(Append(s, e)) = Len(s) + 1
           /\ DOMAIN Append(s, e) = 1..(Len(s) + 1)
           /\ \A i \in 1..Len(s) : Append(s, e)[i] = s[i]
           /\ Append(s, e)[Len(s) + 1] = e
<1>1. PICK S : s \in Seq(S)
  BY DEF IsSeq
<1> DEFINE T == S \cup {e}
<1>2. s \in Seq(T)
  BY <1>1, SeqMonotonic
<1>3. e \in T
  OBVIOUS
<1>4. Append(s, e) \in Seq(T)
  BY <1>2, <1>3
<1> HIDE DEF T
<1> QED
  BY <1>2, <1>3, <1>4 DEF IsSeq

(* Places counted before and after one more is added. *)
LEMMA CountOneMore ==
    ASSUME NEW n \in Nat, NEW A \in SUBSET (1..n)
    PROVE  /\ IsFiniteSet(A) /\ Cardinality(A) \in Nat
           /\ Cardinality(A \cup {n + 1}) = Cardinality(A) + 1
<1>1. IsFiniteSet(1..n)
  BY FS_Interval
<1>2. IsFiniteSet(A)
  BY <1>1, FS_Subset
<1>3. n + 1 \notin A
  OBVIOUS
<1> QED BY <1>2, <1>3, FS_AddElement, FS_CardinalityType

-----------------------------------------------------------------------------
(* Trails.  What is said of the records is said of a function f from ids. *)
Trail(f, id) == IF id \in DOMAIN f THEN f[id].audit_trail ELSE <<>>

(* The entry append_audit writes behind a trail. *)
Entry(tr, event, actor, n) ==
    [sequence |-> n, event_type |-> event, actor |-> actor,
     receipt_hash |-> receipt(IF tr = <<>> THEN <<>> ELSE Last(tr).receipt_hash, event, actor, n)]

(* A record of a decision, with the fields the code gives it. *)
GoodRecord(id, r) ==
    /\ r = [decision |-> r.decision, audit_trail |-> r.audit_trail]
    /\ r.decision = [id |-> id, tenant_id |-> r.decision.tenant_id, status |-> r.decision.status,
                     body |-> r.decision.body, votes |-> r.decision.votes,
                     challenges |-> r.decision.challenges,
                     content_hash |-> r.decision.content_hash]
    /\ IsDecision(r.decision)
    /\ IsSeq(r.audit_trail)

GoodRecords(f) ==
    /\ f = [id \in DOMAIN f |-> f[id]] /\ DOMAIN f \subseteq Ids
    /\ \A id \in DOMAIN f : GoodRecord(id, f[id])

(* The trails hold every number below n once. *)
Numbered(f, n) ==
    /\ \A a \in Ids : \A i \in DOMAIN Trail(f, a) : Trail(f, a)[i].sequence \in 1..(n - 1)
    /\ \A k \in 1..(n - 1) : \E a \in Ids : \E i \in DOMAIN Trail(f, a) : Trail(f, a)[i].sequence = k
    /\ \A a, b \in Ids : \A i \in DOMAIN Trail(f, a), j \in DOMAIN Trail(f, b) :
          Trail(f, a)[i].sequence = Trail(f, b)[j].sequence => a = b /\ i = j

(* A trail is chained and goes up. *)
Chained(tr) ==
    \A i \in DOMAIN tr :
       /\ tr[i].receipt_hash =
             receipt(IF i = 1 THEN <<>> ELSE tr[i - 1].receipt_hash,
                     tr[i].event_type, tr[i].actor, tr[i].sequence)
       /\ i > 1 => tr[i - 1].sequence < tr[i].sequence

Of(tr, kind) == {i \in DOMAIN tr : tr[i].event_type[1] = kind}
ActionsOn(acts, id) == {i \in DOMAIN acts : acts[i].decision_id = id}

(* A trail has an entry for each vote, challenge and emergency action. *)
Counted(id, r, acts) ==
    /\ Cardinality(Of(r.audit_trail, "VoteCast")) = Len(r.decision.votes)
    /\ Cardinality(Of(r.audit_trail, "ChallengeRaised")) = Len(r.decision.challenges)
    /\ Cardinality(Of(r.audit_trail, "EmergencyAction")) = Cardinality(ActionsOn(acts, id))

(* The inductive invariant of the trails.  No emergency action is on a decision *)
(* that does not exist.                                                        *)
Records(f, n, acts) ==
    /\ GoodRecords(f)
    /\ Numbered(f, n)
    /\ \A id \in DOMAIN f : Chained(f[id].audit_trail) /\ Counted(id, f[id], acts)
    /\ IsSeq(acts) /\ \A i \in DOMAIN acts : acts[i].decision_id \in DOMAIN f

(* One record gets a new decision and one more entry. *)
Grown(f, id, d, e) ==
    [x \in DOMAIN f \cup {id} |->
        IF x = id THEN [decision |-> d, audit_trail |-> Append(Trail(f, id), e)] ELSE f[x]]

(* Only that trail grows. *)
LEMMA GrownTrails ==
    ASSUME NEW f, GoodRecords(f), NEW id \in Ids, NEW d, NEW e
    PROVE  LET g == Grown(f, id, d, e)
           IN  /\ IsSeq(Trail(f, id))
               /\ Trail(g, id) = Append(Trail(f, id), e)
               /\ \A x \in Ids \ {id} : Trail(g, x) = Trail(f, x)
<1>1. IsSeq(<<>>)
  BY DEF IsSeq
<1>2. IsSeq(Trail(f, id))
  BY <1>1 DEF Trail, GoodRecords, GoodRecord
<1> QED BY <1>2 DEF Trail, Grown

(* append_audit hands out the next number once. *)
LEMMA GrownNumbered ==
    ASSUME NEW f, GoodRecords(f), NEW id \in Ids, NEW d, NEW e,
           NEW n \in Nat \ {0}, Numbered(f, n), e.sequence = n
    PROVE  Numbered(Grown(f, id, d, e), n + 1)
<1> DEFINE g == Grown(f, id, d, e)
<1>1. PICK t : t = Trail(f, id)
  OBVIOUS
<1>2. /\ IsSeq(t)
      /\ Trail(g, id) = Append(t, e)
      /\ \A x \in Ids \ {id} : Trail(g, x) = Trail(f, x)
  BY <1>1, GrownTrails
<1>3. Len(t) \in Nat /\ DOMAIN t = 1..Len(t)
  BY <1>2, SeqFacts
<1>4. /\ DOMAIN Append(t, e) = 1..(Len(t) + 1)
      /\ \A i \in 1..Len(t) : Append(t, e)[i] = t[i]
      /\ Append(t, e)[Len(t) + 1] = e
  BY <1>2, AppendFacts
<1> HIDE DEF g
(* An entry of g is one of f, or the new one. *)
<1>5. ASSUME NEW a \in Ids, NEW i \in DOMAIN Trail(g, a)
      PROVE  \/ i \in DOMAIN Trail(f, a) /\ Trail(g, a)[i] = Trail(f, a)[i]
             \/ a = id /\ i = Len(t) + 1 /\ Trail(g, a)[i] = e
  <2>1. CASE a = id
    BY <2>1, <1>1, <1>2, <1>3, <1>4
  <2>2. CASE a # id
    BY <2>2, <1>2
  <2> QED BY <2>1, <2>2
<1>6. ASSUME NEW a \in Ids, NEW i \in DOMAIN Trail(f, a)
      PROVE  i \in DOMAIN Trail(g, a) /\ Trail(g, a)[i] = Trail(f, a)[i]
  <2>1. CASE a = id
    BY <2>1, <1>1, <1>2, <1>3, <1>4
  <2>2. CASE a # id
    BY <2>2, <1>2
  <2> QED BY <2>1, <2>2
<1>7. Len(t) + 1 \in DOMAIN Trail(g, id) /\ Trail(g, id)[Len(t) + 1] = e
  BY <1>2, <1>3, <1>4
<1>8. \A a \in Ids : \A i \in DOMAIN Trail(f, a) : Trail(f, a)[i].sequence \in 1..(n - 1)
  BY DEF Numbered
<1>9. ASSUME NEW a \in Ids, NEW i \in DOMAIN Trail(g, a)
      PROVE  Trail(g, a)[i].sequence \in 1..(n + 1 - 1)
  BY <1>5, <1>8
<1>10. ASSUME NEW k \in 1..(n + 1 - 1)
       PROVE  \E a \in Ids : \E i \in DOMAIN Trail(g, a) : Trail(g, a)[i].sequence = k
  <2>1. CASE k = n
    BY <2>1, <1>7
  <2>2. CASE k # n
    <3>1. PICK a \in Ids : \E i \in DOMAIN Trail(f, a) : Trail(f, a)[i].sequence = k
      BY <2>2 DEF Numbered
    <3>2. PICK i \in DOMAIN Trail(f, a) : Trail(f, a)[i].sequence = k
      BY <3>1
    <3> QED BY <3>2, <1>6
  <2> QED BY <2>1, <2>2
<1>11. ASSUME NEW a \in Ids, NEW b \in Ids, NEW i \in DOMAIN Trail(g, a), NEW j \in DOMAIN Trail(g, b),
              Trail(g, a)[i].sequence = Trail(g, b)[j].sequence
       PROVE  a = b /\ i = j
  <2>1. CASE i \in DOMAIN Trail(f, a) /\ Trail(g, a)[i] = Trail(f, a)[i]
    <3>1. Trail(f, a)[i].sequence # n
      BY <2>1, <1>8
    <3>2. j \in DOMAIN Trail(f, b) /\ Trail(g, b)[j] = Trail(f, b)[j]
      BY <2>1, <3>1, <1>5, <1>11
    <3> QED BY <2>1, <3>2, <1>11 DEF Numbered
  <2>2. CASE a = id /\ i = Len(t) + 1 /\ Trail(g, a)[i] = e
    <3>1. ~(j \in DOMAIN Trail(f, b) /\ Trail(g, b)[j] = Trail(f, b)[j])
      BY <2>2, <1>8, <1>11
    <3> QED BY <2>2, <3>1, <1>5
  <2> QED BY <2>1, <2>2, <1>5
<1> QED BY <1>9, <1>10, <1>11 DEF Numbered, g

(* The new entry follows the last one of its own decision. *)
LEMMA GrownChained ==
    ASSUME NEW f, GoodRecords(f), NEW id \in Ids, NEW n \in Nat \ {0}, Numbered(f, n),
           NEW event, NEW actor,
           id \in DOMAIN f => Chained(f[id].audit_trail)
    PROVE  Chained(Append(Trail(f, id), Entry(Trail(f, id), event, actor, n)))
<1>1. PICK t : t = Trail(f, id)
  OBVIOUS
<1>2. PICK e : e = Entry(t, event, actor, n)
  OBVIOUS
<1>3. IsSeq(t)
  BY <1>1, GrownTrails
<1>4. /\ Len(t) \in Nat /\ DOMAIN t = 1..Len(t)
      /\ t = <<>> <=> Len(t) = 0
      /\ t # <<>> => Last(t) = t[Len(t)]
  BY <1>3, SeqFacts
<1>5. /\ DOMAIN Append(t, e) = 1..(Len(t) + 1)
      /\ \A i \in 1..Len(t) : Append(t, e)[i] = t[i]
      /\ Append(t, e)[Len(t) + 1] = e
  BY <1>3, AppendFacts
<1>6. Chained(t)
  BY <1>1, <1>4 DEF Trail, Chained
<1>7. \A i \in 1..Len(t) : t[i].sequence \in 1..(n - 1)
  BY <1>1, <1>4 DEF Numbered
<1>8. PICK u : u = Append(t, e)
  OBVIOUS
<1>9. /\ DOMAIN u = 1..(Len(t) + 1)
      /\ \A i \in 1..Len(t) : u[i] = t[i]
      /\ u[Len(t) + 1] = e
  BY <1>5, <1>8
<1>10. ASSUME NEW i \in DOMAIN u
       PROVE  /\ u[i].receipt_hash =
                    receipt(IF i = 1 THEN <<>> ELSE u[i - 1].receipt_hash,
                            u[i].event_type, u[i].actor, u[i].sequence)
              /\ i > 1 => u[i - 1].sequence < u[i].sequence
  <2>1. CASE i \in 1..Len(t)
    <3>1. u[i] = t[i] /\ (i # 1 => u[i - 1] = t[i - 1])
      BY <2>1, <1>4, <1>9
    <3> QED BY <2>1, <3>1, <1>4, <1>6 DEF Chained
  <2>2. CASE i = Len(t) + 1
    <3>1. /\ e.sequence = n /\ e.event_type = event /\ e.actor = actor
          /\ e.receipt_hash = receipt(IF t = <<>> THEN <<>> ELSE Last(t).receipt_hash, event, actor, n)
      BY <1>2 DEF Entry
    <3>2. CASE Len(t) = 0
      BY <2>2, <3>1, <3>2, <1>4, <1>9
    <3>3. CASE Len(t) # 0
      <4>1. u[i - 1] = t[Len(t)] /\ Last(t) = t[Len(t)] /\ i # 1
        BY <2>2, <3>3, <1>4, <1>9
      <4>2. t[Len(t)].sequence \in 1..(n - 1)
        BY <3>3, <1>4, <1>7
      <4> QED BY <2>2, <3>1, <3>3, <4>1, <4>2, <1>4, <1>9
    <3> QED BY <3>2, <3>3
  <2> QED BY <2>1, <2>2, <1>4, <1>9
<1> QED BY <1>1, <1>2, <1>8, <1>10 DEF Chained

(* One more entry of a kind counts for that kind, and for no other. *)
LEMMA GrownCount ==
    ASSUME NEW t, IsSeq(t), NEW e, NEW kind
    PROVE  Cardinality(Of(Append(t, e), kind)) =
              Cardinality(Of(t, kind)) + (IF e.event_type[1] = kind THEN 1 ELSE 0)
<1>1. PICK n : n = Len(t)
  OBVIOUS
<1>2. n \in Nat /\ DOMAIN t = 1..n
  BY <1>1, SeqFacts
<1>3. /\ DOMAIN Append(t, e) = 1..(n + 1)
      /\ \A i \in 1..n : Append(t, e)[i] = t[i]
      /\ Append(t, e)[n + 1] = e
  BY <1>1, AppendFacts
<1>4. PICK A : A = Of(t, kind)
  OBVIOUS
<1>5. A \subseteq 1..n
  BY <1>2, <1>4 DEF Of
<1>6. Of(Append(t, e), kind) = IF e.event_type[1] = kind THEN A \cup {n + 1} ELSE A
  BY <1>2, <1>3, <1>4 DEF Of
<1>7. Cardinality(A) \in Nat /\ Cardinality(A \cup {n + 1}) = Cardinality(A) + 1
  BY <1>2, <1>5, CountOneMore
<1>8. CASE e.event_type[1] = kind
  BY <1>4, <1>6, <1>7, <1>8
<1>9. CASE e.event_type[1] # kind
  BY <1>4, <1>6, <1>7, <1>9
<1> QED BY <1>8, <1>9

(* What an entry of kind k adds to the count of k. *)
One(kind, k) == IF kind = k THEN 1 ELSE 0

(* A mutation that gives a decision one entry for what it did to it keeps the *)
(* trails exact.                                                              *)
LEMMA GrownRecords ==
    ASSUME NEW f, NEW n \in Nat \ {0}, NEW acts, NEW after, Records(f, n, acts),
           NEW id \in Ids, NEW d, NEW kind, NEW detail, NEW actor, IsDecision(d),
           d = [id |-> id, tenant_id |-> d.tenant_id, status |-> d.status, body |-> d.body,
                votes |-> d.votes, challenges |-> d.challenges, content_hash |-> d.content_hash],
           id \in DOMAIN f =>
              /\ Len(d.votes) = Len(f[id].decision.votes) + One(kind, "VoteCast")
              /\ Len(d.challenges) = Len(f[id].decision.challenges) + One(kind, "ChallengeRaised"),
           id \notin DOMAIN f =>
              /\ Len(d.votes) = 0 /\ Len(d.challenges) = 0
              /\ kind \notin {"VoteCast", "ChallengeRaised", "EmergencyAction"},
           IsSeq(after),
           Cardinality(ActionsOn(after, id)) =
              Cardinality(ActionsOn(acts, id)) + One(kind, "EmergencyAction"),
           \A x \in Ids \ {id} : ActionsOn(after, x) = ActionsOn(acts, x),
           \A i \in DOMAIN after : after[i].decision_id \in DOMAIN f \cup {id}
    PROVE  Records(Grown(f, id, d, Entry(Trail(f, id), <<kind, detail>>, actor, n)), n + 1, after)
<1>1. PICK t : t = Trail(f, id)
  OBVIOUS
<1>2. PICK e : e = Entry(t, <<kind, detail>>, actor, n)
  OBVIOUS
<1>3. PICK g : g = Grown(f, id, d, e)
  OBVIOUS
<1>4. /\ DOMAIN g = DOMAIN f \cup {id} /\ g = [x \in DOMAIN g |-> g[x]]
      /\ g[id] = [decision |-> d, audit_trail |-> Append(t, e)]
      /\ \A x \in DOMAIN f \ {id} : g[x] = f[x]
  BY <1>1, <1>3 DEF Grown
<1>5. GoodRecords(f) /\ Numbered(f, n)
  BY DEF Records
<1>6. IsSeq(t) /\ IsSeq(Append(t, e))
  <2>1. IsSeq(t)
    BY <1>1, <1>5, GrownTrails
  <2> QED BY <2>1, AppendFacts
<1>7. GoodRecords(g)
  <2>1. GoodRecord(id, g[id])
    BY <1>4, <1>6 DEF GoodRecord
  <2>2. \A x \in DOMAIN f \ {id} : GoodRecord(x, g[x])
    BY <1>4, <1>5 DEF GoodRecords
  <2>3. DOMAIN g \subseteq Ids
    BY <1>4, <1>5 DEF GoodRecords
  <2> QED BY <1>4, <2>1, <2>2, <2>3 DEF GoodRecords
<1>8. Numbered(g, n + 1)
  <2>1. e.sequence = n
    BY <1>2 DEF Entry
  <2> QED BY <1>3, <1>5, <2>1, GrownNumbered
<1>9. Chained(Append(t, e))
  <2>1. id \in DOMAIN f => Chained(f[id].audit_trail)
    BY DEF Records
  <2> QED BY <1>1, <1>2, <1>5, <2>1, GrownChained
<1>10. e.event_type[1] = kind
  BY <1>2 DEF Entry
<1>11. Counted(id, g[id], after)
  <2>1. /\ Cardinality(Of(Append(t, e), "VoteCast")) = Cardinality(Of(t, "VoteCast")) + One(kind, "VoteCast")
        /\ Cardinality(Of(Append(t, e), "ChallengeRaised")) =
              Cardinality(Of(t, "ChallengeRaised")) + One(kind, "ChallengeRaised")
        /\ Cardinality(Of(Append(t, e), "EmergencyAction")) =
              Cardinality(Of(t, "EmergencyAction")) + One(kind, "EmergencyAction")
    BY <1>6, <1>10, GrownCount DEF One
  <2>2. CASE id \in DOMAIN f
    <3>1. t = f[id].audit_trail
      BY <1>1, <2>2 DEF Trail
    <3>2. Counted(id, f[id], acts)
      BY <2>2 DEF Records
    <3> QED BY <1>4, <2>1, <2>2, <3>1, <3>2 DEF Counted
  <2>3. CASE id \notin DOMAIN f
    <3>1. t = <<>>
      BY <1>1, <2>3 DEF Trail
    <3>2. Of(t, "VoteCast") = {} /\ Of(t, "ChallengeRaised") = {} /\ Of(t, "EmergencyAction") = {}
      BY <3>1 DEF Of
    <3>3. ActionsOn(acts, id) = {}
      BY <2>3 DEF Records, ActionsOn
    <3>4. Cardinality({}) = 0
      BY FS_EmptySet
    <3>5. /\ One(kind, "VoteCast") = 0 /\ One(kind, "ChallengeRaised") = 0
          /\ One(kind, "EmergencyAction") = 0
      BY <2>3 DEF One
    <3>6. g[id].decision = d /\ g[id].audit_trail = Append(t, e)
      BY <1>4
    <3>7. /\ Cardinality(Of(Append(t, e), "VoteCast")) = 0
          /\ Cardinality(Of(Append(t, e), "ChallengeRaised")) = 0
          /\ Cardinality(Of(Append(t, e), "EmergencyAction")) = 0
      <4>1. /\ Cardinality(Of(t, "VoteCast")) = 0 /\ Cardinality(Of(t, "ChallengeRaised")) = 0
            /\ Cardinality(Of(t, "EmergencyAction")) = 0
        BY <3>2, <3>4, Zenon
      <4> QED BY <2>1, <3>5, <4>1
    <3>8. Cardinality(ActionsOn(after, id)) = 0
      BY <3>3, <3>4, <3>5
    <3>9. Len(d.votes) = 0 /\ Len(d.challenges) = 0
      BY <2>3
    <3> QED BY <3>6, <3>7, <3>8, <3>9 DEF Counted
  <2> QED BY <2>2, <2>3
<1>12. \A x \in DOMAIN f \ {id} : Chained(g[x].audit_trail) /\ Counted(x, g[x], after)
  BY <1>4, <1>5 DEF Records, Counted, GoodRecords
<1>13. \A x \in DOMAIN g : Chained(g[x].audit_trail) /\ Counted(x, g[x], after)
  <2>1. g[id].audit_trail = Append(t, e)
    BY <1>4
  <2> QED BY <1>4, <1>9, <1>11, <1>12, <2>1
<1> QED BY <1>1, <1>2, <1>3, <1>4, <1>7, <1>8, <1>13 DEF Records
-----------------------------------------------------------------------------
(* Events.  What is said of the channel is said of the list tx of the events   *)
(* sent, and of a stream st that reads it.                                     *)
Tells(e, id) == e.kind = "DecisionUpdated" /\ e.decision.id = id
Alarms(e, t) == e.kind = "EmergencyActionCreated" /\ e.action.tenant_id = t

(* The last event about a decision carries it as it stands, and the emergency  *)
(* actions of a tenant were all sent.                                          *)
Current(f, acts, tx) ==
    /\ IsSeq(tx)
    /\ \A id \in DOMAIN f : \E p \in DOMAIN tx :
          /\ Tells(tx[p], id) /\ tx[p].decision = f[id].decision
          /\ \A q \in DOMAIN tx : q > p => ~Tells(tx[q], id)
    /\ \A id : \A p \in DOMAIN tx : Tells(tx[p], id) => id \in DOMAIN f
    /\ \A t : Cardinality({p \in DOMAIN tx : Alarms(tx[p], t)}) =
               Cardinality({i \in DOMAIN acts : acts[i].tenant_id = t})

(* What a stream has yielded is what it wanted of the events it has read.      *)
GoodStream(st, tx) ==
    /\ st = [open |-> st.open, kind |-> st.kind, of |-> st.of,
             from |-> st.from, read |-> st.read, got |-> st.got]
    /\ st.read \in 0..Len(tx)
    /\ IsSeq(st.got)
    /\ st.kind = "decision_updated" /\ st.got # <<>> =>
          \E p \in 1..st.read :
             /\ tx[p] = Last(st.got) /\ Wanted(st, tx[p])
             /\ \A q \in 1..st.read : q > p => ~Wanted(st, tx[q])
    /\ st.kind = "emergency_action" /\ st.from = 0 =>
          Len(st.got) = Cardinality({p \in 1..st.read : Wanted(st, tx[p])})

(* An event sent later changes nothing for what a stream has read. *)
LEMMA SentLater ==
    ASSUME NEW tx, IsSeq(tx), NEW e, NEW st, GoodStream(st, tx)
    PROVE  GoodStream(st, Append(tx, e))
<1>1. PICK u : u = Append(tx, e)
  OBVIOUS
<1>2. Len(tx) \in Nat
  BY SeqFacts
<1>3. Len(u) = Len(tx) + 1 /\ \A i \in 1..Len(tx) : u[i] = tx[i]
  BY <1>1, AppendFacts
<1>4. st.read \in 0..Len(tx) /\ st.read \in 0..Len(u)
  BY <1>2, <1>3 DEF GoodStream
<1>5. \A i \in 1..st.read : u[i] = tx[i]
  BY <1>2, <1>3, <1>4
<1>6. {p \in 1..st.read : Wanted(st, u[p])} = {p \in 1..st.read : Wanted(st, tx[p])}
  BY <1>5
<1>7. st.kind = "decision_updated" /\ st.got # <<>> =>
        \E p \in 1..st.read :
           /\ u[p] = Last(st.got) /\ Wanted(st, u[p])
           /\ \A q \in 1..st.read : q > p => ~Wanted(st, u[q])
  <2>1. HAVE st.kind = "decision_updated" /\ st.got # <<>>
  <2>2. PICK p \in 1..st.read :
           /\ tx[p] = Last(st.got) /\ Wanted(st, tx[p])
           /\ \A q \in 1..st.read : q > p => ~Wanted(st, tx[q])
    BY <2>1 DEF GoodStream
  <2> QED BY <2>2, <1>5
<1> QED BY <1>1, <1>4, <1>6, <1>7 DEF GoodStream

(* recv: an event that is wanted is yielded, another is skipped. *)
LEMMA Received ==
    ASSUME NEW tx, IsSeq(tx), NEW st, GoodStream(st, tx), st.read < Len(tx),
           NEW e, e = tx[st.read + 1]
    PROVE  GoodStream([st EXCEPT !.read = st.read + 1,
                                 !.got = IF Wanted(st, e) THEN Append(st.got, e) ELSE st.got], tx)
<1>1. PICK n : n = st.read
  OBVIOUS
<1>2. PICK got : got = IF Wanted(st, e) THEN Append(st.got, e) ELSE st.got
  OBVIOUS
<1>3. PICK new : new = [st EXCEPT !.read = n + 1, !.got = got]
  OBVIOUS
<1>4. st = [open |-> st.open, kind |-> st.kind, of |-> st.of,
            from |-> st.from, read |-> st.read, got |-> st.got]
  BY DEF GoodStream
<1>5. new = [open |-> st.open, kind |-> st.kind, of |-> st.of,
             from |-> st.from, read |-> n + 1, got |-> got]
  BY <1>3, <1>4
<1>6. /\ new.open = st.open /\ new.kind = st.kind /\ new.of = st.of
      /\ new.from = st.from /\ new.read = n + 1 /\ new.got = got
  BY <1>5
<1>7. Len(tx) \in Nat /\ n \in 0..Len(tx) /\ n + 1 \in 0..Len(tx) /\ n \in Nat
  <2>1. Len(tx) \in Nat
    BY SeqFacts
  <2> QED BY <2>1, <1>1 DEF GoodStream
<1>8. \A x : Wanted(new, x) <=> Wanted(st, x)
  BY <1>6 DEF Wanted
<1>9. IsSeq(st.got)
  BY DEF GoodStream
<1>10. Wanted(st, e) => /\ IsSeq(got) /\ Len(got) = Len(st.got) + 1 /\ got # <<>> /\ Last(got) = e
  <2>1. HAVE Wanted(st, e)
  <2>2. got = Append(st.got, e)
    BY <2>1, <1>2
  <2>3. IsSeq(got) /\ Len(got) = Len(st.got) + 1 /\ got[Len(st.got) + 1] = e
    BY <2>2, <1>9, AppendFacts
  <2>4. Len(st.got) \in Nat
    BY <1>9, SeqFacts
  <2> QED BY <2>3, <2>4, SeqFacts
<1>11. ~Wanted(st, e) => got = st.got
  BY <1>2
<1>12. IsSeq(got)
  BY <1>9, <1>10, <1>11
<1>13. ASSUME st.kind = "decision_updated", got # <<>>
       PROVE  \E p \in 1..(n + 1) :
                 /\ tx[p] = Last(got) /\ Wanted(st, tx[p])
                 /\ \A q \in 1..(n + 1) : q > p => ~Wanted(st, tx[q])
  <2>1. CASE Wanted(st, e)
    BY <2>1, <1>1, <1>7, <1>10
  <2>2. CASE ~Wanted(st, e)
    <3>1. PICK p \in 1..n :
             /\ tx[p] = Last(got) /\ Wanted(st, tx[p])
             /\ \A q \in 1..n : q > p => ~Wanted(st, tx[q])
      BY <2>2, <1>1, <1>11, <1>13 DEF GoodStream
    <3>2. ~Wanted(st, tx[n + 1])
      BY <2>2, <1>1
    <3> QED BY <3>1, <3>2, <1>7
  <2> QED BY <2>1, <2>2
<1>14. ASSUME st.kind = "emergency_action", st.from = 0
       PROVE  Len(got) = Cardinality({p \in 1..(n + 1) : Wanted(st, tx[p])})
  <2>1. PICK A : A = {p \in 1..n : Wanted(st, tx[p])}
    OBVIOUS
  <2>2. Len(st.got) = Cardinality(A)
    BY <2>1, <1>1, <1>14 DEF GoodStream
  <2>3. Cardinality(A \cup {n + 1}) = Cardinality(A) + 1
    BY <2>1, <1>7, CountOneMore
  <2>4. CASE Wanted(st, e)
    <3>1. {p \in 1..(n + 1) : Wanted(st, tx[p])} = A \cup {n + 1}
      BY <2>1, <2>4, <1>1, <1>7
    <3> QED BY <2>2, <2>3, <2>4, <3>1, <1>10
  <2>5. CASE ~Wanted(st, e)
    <3>1. {p \in 1..(n + 1) : Wanted(st, tx[p])} = A
      BY <2>1, <2>5, <1>1, <1>7
    <3> QED BY <2>2, <2>5, <3>1, <1>11
  <2> QED BY <2>4, <2>5
<1>15. GoodStream(new, tx)
  BY <1>5, <1>6, <1>7, <1>8, <1>12, <1>13, <1>14 DEF GoodStream
<1> QED BY <1>1, <1>2, <1>3, <1>4, <1>15

(* A mutation that sends the decision as it has stored it. *)
LEMMA TellsNew ==
    ASSUME NEW f, NEW acts, NEW tx, Current(f, acts, tx), NEW id, NEW d, d.id = id,
           NEW g, DOMAIN g = DOMAIN f \cup {id}, g[id].decision = d,
           \A x \in DOMAIN f \ {id} : g[x].decision = f[x].decision
    PROVE  Current(g, acts, Append(tx, DecisionUpdated(d)))
<1>1. PICK e : e = DecisionUpdated(d)
  OBVIOUS
<1>2. PICK u : u = Append(tx, e)
  OBVIOUS
<1>3. PICK n : n = Len(tx)
  OBVIOUS
<1>4. IsSeq(tx) /\ n \in Nat /\ DOMAIN tx = 1..n
  BY <1>3, SeqFacts DEF Current
<1>5. /\ IsSeq(u) /\ DOMAIN u = 1..(n + 1)
      /\ \A i \in 1..n : u[i] = tx[i]
      /\ u[n + 1] = e
  BY <1>2, <1>3, <1>4, AppendFacts
<1>6. /\ Tells(e, id) /\ e.decision = d
      /\ \A x : x # id => ~Tells(e, x)
      /\ \A t : ~Alarms(e, t)
  BY <1>1 DEF DecisionUpdated, Tells, Alarms
<1>7. ASSUME NEW x \in DOMAIN g
      PROVE  \E p \in DOMAIN u : /\ Tells(u[p], x) /\ u[p].decision = g[x].decision
                                 /\ \A q \in DOMAIN u : q > p => ~Tells(u[q], x)
  <2>1. CASE x = id
    BY <2>1, <1>4, <1>5, <1>6
  <2>2. CASE x # id
    <3>1. PICK p \in DOMAIN tx : /\ Tells(tx[p], x) /\ tx[p].decision = f[x].decision
                                /\ \A q \in DOMAIN tx : q > p => ~Tells(tx[q], x)
      BY <2>2 DEF Current
    <3> QED BY <2>2, <3>1, <1>4, <1>5, <1>6
  <2> QED BY <2>1, <2>2
<1>8. ASSUME NEW x, NEW p \in DOMAIN u, Tells(u[p], x)
      PROVE  x \in DOMAIN g
  BY <1>4, <1>5, <1>6, <1>8 DEF Current
<1>9. ASSUME NEW t
      PROVE  Cardinality({p \in DOMAIN u : Alarms(u[p], t)}) =
             Cardinality({i \in DOMAIN acts : acts[i].tenant_id = t})
  <2>1. {p \in DOMAIN u : Alarms(u[p], t)} = {p \in DOMAIN tx : Alarms(tx[p], t)}
    BY <1>4, <1>5, <1>6
  <2> QED BY <2>1 DEF Current
<1>10. Current(g, acts, u)
  BY <1>5, <1>7, <1>8, <1>9, Zenon DEF Current
<1> QED BY <1>1, <1>2, <1>10

(* An emergency action is sent as it is stored. *)
LEMMA AlarmsNew ==
    ASSUME NEW f, NEW acts, NEW tx, IsSeq(acts), Current(f, acts, tx), NEW a,
           NEW g, DOMAIN g = DOMAIN f,
           \A x \in DOMAIN f : g[x].decision = f[x].decision
    PROVE  Current(g, Append(acts, a), Append(tx, EmergencyActionCreated(a)))
<1>1. PICK e : e = EmergencyActionCreated(a)
  OBVIOUS
<1>2. PICK u : u = Append(tx, e)
  OBVIOUS
<1>3. PICK n : n = Len(tx)
  OBVIOUS
<1>4. IsSeq(tx) /\ n \in Nat /\ DOMAIN tx = 1..n
  BY <1>3, SeqFacts DEF Current
<1>5. /\ IsSeq(u) /\ DOMAIN u = 1..(n + 1)
      /\ \A i \in 1..n : u[i] = tx[i]
      /\ u[n + 1] = e
  BY <1>2, <1>3, <1>4, AppendFacts
<1>6. /\ \A x : ~Tells(e, x)
      /\ \A t : Alarms(e, t) <=> a.tenant_id = t
  BY <1>1 DEF EmergencyActionCreated, Tells, Alarms
<1>7. ASSUME NEW x \in DOMAIN g
      PROVE  \E p \in DOMAIN u : /\ Tells(u[p], x) /\ u[p].decision = g[x].decision
                                 /\ \A q \in DOMAIN u : q > p => ~Tells(u[q], x)
  <2>1. PICK p \in DOMAIN tx : /\ Tells(tx[p], x) /\ tx[p].decision = f[x].decision
                              /\ \A q \in DOMAIN tx : q > p => ~Tells(tx[q], x)
    BY DEF Current
  <2> QED BY <2>1, <1>4, <1>5, <1>6
<1>8. ASSUME NEW x, NEW p \in DOMAIN u, Tells(u[p], x)
      PROVE  x \in DOMAIN g
  BY <1>4, <1>5, <1>6, <1>8 DEF Current
<1>9. ASSUME NEW t
      PROVE  Cardinality({p \in DOMAIN u : Alarms(u[p], t)}) =
             Cardinality({i \in DOMAIN Append(acts, a) : Append(acts, a)[i].tenant_id = t})
  <2>1. PICK m : m = Len(acts)
    OBVIOUS
  <2>2. m \in Nat /\ DOMAIN acts = 1..m
    BY <2>1, SeqFacts
  <2>3. /\ DOMAIN Append(acts, a) = 1..(m + 1)
        /\ \A i \in 1..m : Append(acts, a)[i] = acts[i]
        /\ Append(acts, a)[m + 1] = a
    BY <2>1, AppendFacts
  <2>4. PICK A : A = {p \in DOMAIN tx : Alarms(tx[p], t)}
    OBVIOUS
  <2>5. PICK B : B = {i \in DOMAIN acts : acts[i].tenant_id = t}
    OBVIOUS
  <2>6. Cardinality(A) = Cardinality(B)
    BY <2>4, <2>5 DEF Current
  <2>7. Cardinality(A \cup {n + 1}) = Cardinality(A) + 1
    BY <2>4, <1>4, CountOneMore
  <2>8. Cardinality(B \cup {m + 1}) = Cardinality(B) + 1
    BY <2>5, <2>2, CountOneMore
  <2>9. CASE a.tenant_id = t
    <3>1. {p \in DOMAIN u : Alarms(u[p], t)} = A \cup {n + 1}
      BY <2>4, <2>9, <1>4, <1>5, <1>6
    <3>2. {i \in DOMAIN Append(acts, a) : Append(acts, a)[i].tenant_id = t} = B \cup {m + 1}
      BY <2>2, <2>3, <2>5, <2>9
    <3> QED BY <2>6, <2>7, <2>8, <3>1, <3>2
  <2>10. CASE a.tenant_id # t
    <3>1. {p \in DOMAIN u : Alarms(u[p], t)} = A
      BY <2>4, <2>10, <1>4, <1>5, <1>6
    <3>2. {i \in DOMAIN Append(acts, a) : Append(acts, a)[i].tenant_id = t} = B
      BY <2>2, <2>3, <2>5, <2>10
    <3> QED BY <2>6, <3>1, <3>2
  <2> QED BY <2>9, <2>10
<1>10. Current(g, Append(acts, a), u)
  BY <1>5, <1>7, <1>8, <1>9, Zenon DEF Current
<1> QED BY <1>1, <1>2, <1>10
-----------------------------------------------------------------------------
StreamsGood ==
    /\ streams = [s \in Streams |-> streams[s]]
    /\ \A s \in Streams : GoodStream(streams[s], event_tx)

RestTyped ==
    /\ gql_delegations \in Seq(GqlDelegation)
    /\ emergency_actions \in Seq(GqlEmergencyAction)
    /\ gql_constitution \in GqlConstitution
    /\ next_audit_seq \in 1..(MaxAudit + 1)

(* The inductive invariant of the GraphQL state. *)
GqlInv ==
    /\ RestTyped
    /\ Records(gql_decisions, next_audit_seq, emergency_actions)
    /\ Current(gql_decisions, emergency_actions, event_tx)
    /\ StreamsGood

(* The empty state has no trails, no events and no open stream. *)
LEMMA GqlInitInv == GqlInit => GqlInv
<1> SUFFICES ASSUME GqlInit PROVE GqlInv
  OBVIOUS
<1>1. gql_decisions = <<>> /\ emergency_actions = <<>> /\ event_tx = <<>> /\ next_audit_seq = 1
  BY DEF GqlInit
<1>2. IsSeq(<<>>) /\ DOMAIN <<>> = {} /\ Len(<<>>) = 0 /\ Cardinality({}) = 0
  BY FS_EmptySet DEF IsSeq
<1>3. <<>> = [x \in DOMAIN <<>> |-> <<>>[x]]
  OBVIOUS
<1>4. RestTyped
  BY <1>1, GatewayAssumption DEF GqlInit, RestTyped, GqlConstitution
<1>5. Records(<<>>, 1, <<>>)
  <2>1. GoodRecords(<<>>)
    BY <1>2, <1>3 DEF GoodRecords
  <2>2. Numbered(<<>>, 1)
    BY <1>2 DEF Numbered, Trail
  <2> QED BY <2>1, <2>2, <1>2 DEF Records
<1>6. Current(<<>>, <<>>, <<>>)
  <2>1. \A t : /\ {p \in DOMAIN <<>> : Alarms(<<>>[p], t)} = {}
              /\ {i \in DOMAIN <<>> : <<>>[i].tenant_id = t} = {}
    BY <1>2
  <2> QED BY <2>1, <1>2 DEF Current
<1>7. StreamsGood
  <2>1. PICK st : st = NoStream
    OBVIOUS
  <2>2. /\ st = [open |-> st.open, kind |-> st.kind, of |-> st.of,
                 from |-> st.from, read |-> st.read, got |-> st.got]
        /\ st.kind = "none" /\ st.read = 0 /\ st.got = <<>>
    BY <2>1 DEF NoStream
  <2>3. GoodStream(st, <<>>)
    BY <2>2, <1>2 DEF GoodStream
  <2> QED BY <2>1, <2>3, <1>1 DEF GqlInit, StreamsGood
<1> QED BY <1>1, <1>4, <1>5, <1>6, <1>7 DEF GqlInv

(* Streams that have not moved are as good after one more event. *)
LEMMA StreamsKept ==
    ASSUME GqlInv, NEW e, event_tx' = Append(event_tx, e), streams' = streams
    PROVE  StreamsGood'
<1>1. IsSeq(event_tx)
  BY DEF GqlInv, Current
<1>2. StreamsGood
  BY DEF GqlInv
<1>3. ASSUME NEW s \in Streams
      PROVE  GoodStream(streams'[s], event_tx')
  <2>1. PICK st, tx : st = streams[s] /\ tx = event_tx
    OBVIOUS
  <2>2. GoodStream(st, tx)
    BY <2>1, <1>2 DEF StreamsGood
  <2>3. GoodStream(st, Append(tx, e))
    BY <1>1, <2>1, <2>2, SentLater
  <2> QED BY <2>1, <2>3
<1> QED BY <1>2, <1>3 DEF StreamsGood

(* The actions on a decision are counted. *)
LEMMA ActionsCount ==
    ASSUME NEW acts, IsSeq(acts), NEW id
    PROVE  Cardinality(ActionsOn(acts, id)) \in Nat
<1>1. Len(acts) \in Nat /\ ActionsOn(acts, id) \subseteq 1..Len(acts)
  BY SeqFacts DEF ActionsOn
<1> QED BY <1>1, CountOneMore

(* append_audit on a record writes the entry of its trail. *)
LEMMA AuditWrites ==
    ASSUME NEW r, NEW d, NEW tr, r = [decision |-> d, audit_trail |-> tr], NEW event, NEW actor
    PROVE  append_audit(r, event, actor) =
              [decision |-> d, audit_trail |-> Append(tr, Entry(tr, event, actor, next_audit_seq))]
BY DEF append_audit, Entry

(* A decision before its digest is refreshed. *)
Draft(id, d) ==
    /\ d = [id |-> id, tenant_id |-> d.tenant_id, status |-> d.status, body |-> d.body,
            votes |-> d.votes, challenges |-> d.challenges, content_hash |-> d.content_hash]
    /\ id \in Ids /\ d.tenant_id \in GqlTenants /\ d.body \in Bodies
    /\ d.status \in Advances \cup {"CREATED", "CONTESTED"}
    /\ d.votes \in Seq(GqlVote) /\ d.challenges \in Seq(GqlChallenge)

(* Rehash makes a draft a decision. *)
LEMMA RehashedDraft ==
    ASSUME NEW id, NEW d, Draft(id, d)
    PROVE  LET r == Rehash(d)
           IN  /\ r = [id |-> id, tenant_id |-> d.tenant_id, status |-> d.status, body |-> d.body,
                       votes |-> d.votes, challenges |-> d.challenges,
                       content_hash |-> <<id, d.status, Len(d.votes)>>]
               /\ IsDecision(r)
<1>1. PICK r : r = Rehash(d)
  OBVIOUS
<1>2. r = [id |-> id, tenant_id |-> d.tenant_id, status |-> d.status, body |-> d.body,
           votes |-> d.votes, challenges |-> d.challenges,
           content_hash |-> <<id, d.status, Len(d.votes)>>]
  BY <1>1 DEF Draft, Rehash, compute_decision_hash
<1>3. /\ r.id = id /\ r.tenant_id = d.tenant_id /\ r.status = d.status /\ r.body = d.body
      /\ r.votes = d.votes /\ r.challenges = d.challenges
      /\ r.content_hash = <<id, d.status, Len(d.votes)>>
  BY <1>2
<1>4. IsDecision(r)
  BY <1>3 DEF IsDecision, Draft, Digests
<1> QED BY <1>1, <1>2, <1>4

(* The mutations that change a decision. *)
LEMMA ChangeKeeps ==
    ASSUME GqlInv, NEW id \in DOMAIN gql_decisions, NEW d, NEW kind, NEW detail, NEW actor,
           Draft(id, d), Change(id, d, <<kind, detail>>, actor), kind # "EmergencyAction",
           Len(d.votes) = Len(gql_decisions[id].decision.votes) + One(kind, "VoteCast"),
           Len(d.challenges) = Len(gql_decisions[id].decision.challenges) + One(kind, "ChallengeRaised")
    PROVE  GqlInv'
<1>1. PICK f, n, acts, tx : f = gql_decisions /\ n = next_audit_seq /\ acts = emergency_actions /\ tx = event_tx
  OBVIOUS
<1>2. Records(f, n, acts) /\ Current(f, acts, tx) /\ GoodRecords(f) /\ IsSeq(acts) /\ n \in Nat \ {0}
  BY <1>1, GatewayAssumption DEF GqlInv, Records, RestTyped
<1>3. PICK r : r = Rehash(d)
  OBVIOUS
<1>4. /\ r = [id |-> id, tenant_id |-> d.tenant_id, status |-> d.status, body |-> d.body,
              votes |-> d.votes, challenges |-> d.challenges,
              content_hash |-> <<id, d.status, Len(d.votes)>>]
      /\ IsDecision(r)
  BY <1>3, RehashedDraft
<1>5. PICK t : t = Trail(f, id)
  OBVIOUS
<1>6. PICK e : e = Entry(t, <<kind, detail>>, actor, n)
  OBVIOUS
<1>7. PICK g : g = Grown(f, id, r, e)
  OBVIOUS
<1>8. gql_decisions' = g
  <2>1. GoodRecord(id, f[id]) /\ f = [x \in DOMAIN f |-> f[x]] /\ id \in DOMAIN f
    BY <1>1, <1>2 DEF GoodRecords
  <2>2. t = f[id].audit_trail /\ f[id] = [decision |-> f[id].decision, audit_trail |-> t]
    BY <1>5, <2>1 DEF Trail, GoodRecord
  <2>3. [f[id] EXCEPT !.decision = r] = [decision |-> r, audit_trail |-> t]
    BY <2>2
  <2>4. append_audit([f[id] EXCEPT !.decision = r], <<kind, detail>>, actor) =
           [decision |-> r, audit_trail |-> Append(t, Entry(t, <<kind, detail>>, actor, next_audit_seq))]
    <3>1. PICK q, ev : q = [f[id] EXCEPT !.decision = r] /\ ev = <<kind, detail>>
      OBVIOUS
    <3>2. q = [decision |-> r, audit_trail |-> t]
      BY <2>3, <3>1
    <3>3. append_audit(q, ev, actor) =
             [decision |-> r, audit_trail |-> Append(t, Entry(t, ev, actor, next_audit_seq))]
      BY <3>2, AuditWrites
    <3> QED BY <3>1, <3>3
  <2>5. gql_decisions' = [f EXCEPT ![id] = append_audit([@ EXCEPT !.decision = r], <<kind, detail>>, actor)]
    BY <1>1, <1>3 DEF Change
  <2>6. gql_decisions' = [f EXCEPT ![id] = [decision |-> r, audit_trail |-> Append(t, e)]]
    BY <1>1, <1>6, <2>4, <2>5
  <2>7. DOMAIN f \cup {id} = DOMAIN f
    BY <2>1
  <2> QED BY <1>5, <1>7, <2>1, <2>6, <2>7 DEF Grown
<1>9. /\ event_tx' = Append(tx, DecisionUpdated(r)) /\ next_audit_seq' = n + 1 /\ n <= MaxAudit
      /\ UNCHANGED <<gql_delegations, emergency_actions, gql_constitution, streams>>
  BY <1>1, <1>3 DEF Change, CountAudit
<1>10. Records(g, n + 1, acts)
  <2>1. /\ r = [id |-> id, tenant_id |-> r.tenant_id, status |-> r.status, body |-> r.body,
                votes |-> r.votes, challenges |-> r.challenges, content_hash |-> r.content_hash]
        /\ r.votes = d.votes /\ r.challenges = d.challenges
    BY <1>4
  <2>2. Cardinality(ActionsOn(acts, id)) = Cardinality(ActionsOn(acts, id)) + One(kind, "EmergencyAction")
    BY <1>2, ActionsCount DEF One
  <2>3. \A i \in DOMAIN acts : acts[i].decision_id \in DOMAIN f \cup {id}
    BY <1>2 DEF Records
  <2>4. id \in DOMAIN f /\ id \in Ids
    BY <1>1, <1>2 DEF GoodRecords
  <2> QED BY <1>1, <1>2, <1>4, <1>5, <1>6, <1>7, <2>1, <2>2, <2>3, <2>4, GrownRecords
<1>11. Current(g, acts, Append(tx, DecisionUpdated(r)))
  <2>1. r.id = id
    BY <1>4
  <2>2. /\ DOMAIN g = DOMAIN f \cup {id} /\ g[id].decision = r
        /\ \A x \in DOMAIN f \ {id} : g[x].decision = f[x].decision
    BY <1>7 DEF Grown
  <2> QED BY <1>2, <2>1, <2>2, TellsNew
<1>12. StreamsGood'
  BY <1>1, <1>9, StreamsKept
<1>13. RestTyped'
  BY <1>1, <1>2, <1>9, GatewayAssumption DEF GqlInv, RestTyped
<1> QED BY <1>1, <1>8, <1>9, <1>10, <1>11, <1>12, <1>13 DEF GqlInv
(* A decision that is stored is a draft of its next version. *)
LEMMA StoredDraft ==
    ASSUME GqlInv, NEW id \in DOMAIN gql_decisions
    PROVE  Draft(id, gql_decisions[id].decision)
<1>1. GoodRecord(id, gql_decisions[id])
  BY DEF GqlInv, Records, GoodRecords
<1>2. id \in Ids
  BY DEF GqlInv, Records, GoodRecords
<1> QED BY <1>1, <1>2 DEF GoodRecord, IsDecision, Draft

(* advance_decision stores a draft with another status. *)
LEMMA AdvanceKeeps ==
    ASSUME GqlInv, NEW id \in Ids, NEW st \in Advances, NEW r, advance_decision(id, st, r)
    PROVE  GqlInv'
<1>1. id \in DOMAIN gql_decisions
  BY DEF advance_decision
<1>2. PICK o : o = gql_decisions[id].decision
  OBVIOUS
<1>3. Draft(id, o)
  BY <1>1, <1>2, StoredDraft
<1>4. PICK d : d = [o EXCEPT !.status = st]
  OBVIOUS
<1>5. d = [id |-> id, tenant_id |-> o.tenant_id, status |-> st, body |-> o.body,
           votes |-> o.votes, challenges |-> o.challenges, content_hash |-> o.content_hash]
  BY <1>3, <1>4 DEF Draft
<1>6. Draft(id, d) /\ d.votes = o.votes /\ d.challenges = o.challenges
  BY <1>3, <1>5 DEF Draft
<1>7. Change(id, d, <<"StatusAdvanced", st>>, r)
  BY <1>2, <1>4 DEF advance_decision
<1>8. /\ Len(d.votes) = Len(o.votes) + One("StatusAdvanced", "VoteCast")
      /\ Len(d.challenges) = Len(o.challenges) + One("StatusAdvanced", "ChallengeRaised")
  BY <1>3, <1>6, LenProperties DEF One, Draft
<1> QED BY <1>1, <1>2, <1>6, <1>7, <1>8, ChangeKeeps

(* cast_vote: one more vote, one more entry for it. *)
LEMMA VoteKeeps ==
    ASSUME GqlInv, NEW id \in Ids, NEW c, cast_vote(id, c)
    PROVE  GqlInv'
<1>1. id \in DOMAIN gql_decisions /\ c \in VoteChoices
  BY DEF cast_vote
<1>2. PICK o : o = gql_decisions[id].decision
  OBVIOUS
<1>3. Draft(id, o)
  BY <1>1, <1>2, StoredDraft
<1>4. PICK v : v = [voter |-> Caller, choice |-> c]
  OBVIOUS
<1>5. PICK d : d = [o EXCEPT !.votes = Append(@, v)]
  OBVIOUS
<1>6. d = [id |-> id, tenant_id |-> o.tenant_id, status |-> o.status, body |-> o.body,
           votes |-> Append(o.votes, v), challenges |-> o.challenges, content_hash |-> o.content_hash]
  <2>1. PICK w : w = Append(o.votes, v)
    OBVIOUS
  <2>2. d = [o EXCEPT !.votes = w]
    BY <1>5, <2>1
  <2>3. o = [id |-> id, tenant_id |-> o.tenant_id, status |-> o.status, body |-> o.body,
             votes |-> o.votes, challenges |-> o.challenges, content_hash |-> o.content_hash]
    BY <1>3 DEF Draft
  <2>4. d = [id |-> id, tenant_id |-> o.tenant_id, status |-> o.status, body |-> o.body,
             votes |-> w, challenges |-> o.challenges, content_hash |-> o.content_hash]
    BY <2>2, <2>3
  <2> QED BY <2>1, <2>4
<1>7. PICK vs : vs = o.votes
  OBVIOUS
<1>8. vs \in Seq(GqlVote) /\ v \in GqlVote
  BY <1>1, <1>3, <1>4, <1>7 DEF Draft, GqlVote
<1>9. Append(vs, v) \in Seq(GqlVote) /\ Len(Append(vs, v)) = Len(vs) + 1
  BY <1>8, AppendProperties
<1>10. Draft(id, d) /\ d.votes = Append(vs, v) /\ d.challenges = o.challenges
  BY <1>3, <1>6, <1>7, <1>9 DEF Draft
<1>11. Change(id, d, <<"VoteCast", "">>, Caller)
  BY <1>2, <1>4, <1>5 DEF cast_vote
<1>12. /\ Len(d.votes) = Len(o.votes) + One("VoteCast", "VoteCast")
       /\ Len(d.challenges) = Len(o.challenges) + One("VoteCast", "ChallengeRaised")
  BY <1>3, <1>7, <1>9, <1>10, LenProperties DEF One, Draft
<1> QED BY <1>1, <1>2, <1>10, <1>11, <1>12, ChangeKeeps

(* raise_challenge: one more challenge, one more entry, another status. *)
LEMMA ChallengeKeeps ==
    ASSUME GqlInv, NEW id \in Ids, raise_challenge(id)
    PROVE  GqlInv'
<1>1. id \in DOMAIN gql_decisions
  BY DEF raise_challenge
<1>2. PICK o : o = gql_decisions[id].decision
  OBVIOUS
<1>3. Draft(id, o)
  BY <1>1, <1>2, StoredDraft
<1>4. PICK v : v = [status |-> "OPEN"]
  OBVIOUS
<1>5. PICK d : d = [o EXCEPT !.challenges = Append(@, v), !.status = "CONTESTED"]
  OBVIOUS
<1>6. d = [id |-> id, tenant_id |-> o.tenant_id, status |-> "CONTESTED", body |-> o.body,
           votes |-> o.votes, challenges |-> Append(o.challenges, v), content_hash |-> o.content_hash]
  <2>1. PICK w : w = Append(o.challenges, v)
    OBVIOUS
  <2>2. d = [o EXCEPT !.challenges = w, !.status = "CONTESTED"]
    BY <1>5, <2>1
  <2>3. o = [id |-> id, tenant_id |-> o.tenant_id, status |-> o.status, body |-> o.body,
             votes |-> o.votes, challenges |-> o.challenges, content_hash |-> o.content_hash]
    BY <1>3 DEF Draft
  <2>4. d = [id |-> id, tenant_id |-> o.tenant_id, status |-> "CONTESTED", body |-> o.body,
             votes |-> o.votes, challenges |-> w, content_hash |-> o.content_hash]
    <3>1. PICK x : x = [o EXCEPT !.challenges = w]
      OBVIOUS
    <3>2. x = [id |-> id, tenant_id |-> o.tenant_id, status |-> o.status, body |-> o.body,
               votes |-> o.votes, challenges |-> w, content_hash |-> o.content_hash]
      BY <2>3, <3>1
    <3>3. d = [x EXCEPT !.status = "CONTESTED"]
      BY <2>2, <3>1
    <3> QED BY <3>2, <3>3
  <2> QED BY <2>1, <2>4
<1>7. PICK cs : cs = o.challenges
  OBVIOUS
<1>8. cs \in Seq(GqlChallenge) /\ v \in GqlChallenge
  BY <1>3, <1>4, <1>7 DEF Draft, GqlChallenge
<1>9. Append(cs, v) \in Seq(GqlChallenge) /\ Len(Append(cs, v)) = Len(cs) + 1
  BY <1>8, AppendProperties
<1>10. Draft(id, d) /\ d.votes = o.votes /\ d.challenges = Append(cs, v)
  BY <1>3, <1>6, <1>7, <1>9 DEF Draft
<1>11. Change(id, d, <<"ChallengeRaised", "">>, Caller)
  BY <1>2, <1>4, <1>5 DEF raise_challenge
<1>12. /\ Len(d.votes) = Len(o.votes) + One("ChallengeRaised", "VoteCast")
       /\ Len(d.challenges) = Len(o.challenges) + One("ChallengeRaised", "ChallengeRaised")
  BY <1>3, <1>7, <1>9, <1>10, LenProperties DEF One, Draft
<1> QED BY <1>1, <1>2, <1>10, <1>11, <1>12, ChangeKeeps

(* create_decision: a first record, its first entry and a first event. *)
LEMMA CreateKeeps ==
    ASSUME GqlInv, NEW id \in Ids, NEW t \in GqlTenants, NEW b \in Bodies, create_decision(id, t, b)
    PROVE  GqlInv'
<1>1. PICK f, n, acts, tx : f = gql_decisions /\ n = next_audit_seq /\ acts = emergency_actions /\ tx = event_tx
  OBVIOUS
<1>2. Records(f, n, acts) /\ Current(f, acts, tx) /\ IsSeq(acts) /\ n \in Nat \ {0}
  BY <1>1, GatewayAssumption DEF GqlInv, Records, RestTyped
<1>3. PICK d : d = [id |-> id, tenant_id |-> t, status |-> "CREATED", body |-> b,
                    votes |-> <<>>, challenges |-> <<>>, content_hash |-> <<"body", b>>]
  OBVIOUS
<1>4. /\ d = [id |-> id, tenant_id |-> d.tenant_id, status |-> d.status, body |-> d.body,
              votes |-> d.votes, challenges |-> d.challenges, content_hash |-> d.content_hash]
      /\ Len(d.votes) = 0 /\ Len(d.challenges) = 0
  BY <1>3
<1>5. IsDecision(d)
  BY <1>3 DEF IsDecision, Digests
<1>6. id \notin DOMAIN f /\ Trail(f, id) = <<>>
  BY <1>1 DEF create_decision, Trail
<1>7. PICK ev, sys : ev = <<"DecisionCreated", "">> /\ sys = "system"
  OBVIOUS
<1>8. PICK e : e = Entry(<<>>, ev, sys, n)
  OBVIOUS
<1>9. PICK g : g = Grown(f, id, d, e)
  OBVIOUS
<1>10. gql_decisions' = g
  <2>1. PICK q, tr : q = [decision |-> d, audit_trail |-> <<>>] /\ tr = <<>>
    OBVIOUS
  <2>2. append_audit(q, ev, sys) =
          [decision |-> d, audit_trail |-> Append(tr, Entry(tr, ev, sys, next_audit_seq))]
    BY <2>1, AuditWrites
  <2>3. gql_decisions' = [x \in DOMAIN f \cup {id} |->
                             IF x = id THEN append_audit(q, ev, sys) ELSE f[x]]
    BY <1>1, <1>3, <1>7, <2>1 DEF create_decision
  <2>4. append_audit(q, ev, sys) = [decision |-> d, audit_trail |-> Append(Trail(f, id), e)]
    BY <1>1, <1>6, <1>8, <2>1, <2>2
  <2> QED BY <1>9, <2>3, <2>4 DEF Grown
<1>11. /\ event_tx' = Append(tx, DecisionUpdated(d)) /\ next_audit_seq' = n + 1 /\ n <= MaxAudit
       /\ UNCHANGED <<gql_delegations, emergency_actions, gql_constitution, streams>>
  BY <1>1, <1>3 DEF create_decision, CountAudit
<1>12. Records(g, n + 1, acts)
  <2>1. PICK kind : kind = "DecisionCreated"
    OBVIOUS
  <2>2. Cardinality(ActionsOn(acts, id)) = Cardinality(ActionsOn(acts, id)) + One(kind, "EmergencyAction")
    BY <1>2, <2>1, ActionsCount DEF One
  <2>3. \A i \in DOMAIN acts : acts[i].decision_id \in DOMAIN f \cup {id}
    BY <1>2 DEF Records
  <2>4. kind \notin {"VoteCast", "ChallengeRaised", "EmergencyAction"}
    BY <2>1
  <2>5. g = Grown(f, id, d, Entry(Trail(f, id), <<kind, "">>, sys, n))
    BY <1>6, <1>7, <1>8, <1>9, <2>1
  <2> QED BY <1>2, <1>4, <1>5, <1>6, <2>2, <2>3, <2>4, <2>5, GrownRecords
<1>13. Current(g, acts, Append(tx, DecisionUpdated(d)))
  <2>1. d.id = id
    BY <1>3
  <2>2. /\ DOMAIN g = DOMAIN f \cup {id} /\ g[id].decision = d
        /\ \A x \in DOMAIN f \ {id} : g[x].decision = f[x].decision
    BY <1>9 DEF Grown
  <2> QED BY <1>2, <2>1, <2>2, TellsNew
<1>14. StreamsGood'
  BY <1>1, <1>11, StreamsKept
<1>15. RestTyped'
  BY <1>1, <1>2, <1>11, GatewayAssumption DEF GqlInv, RestTyped
<1> QED BY <1>1, <1>10, <1>11, <1>12, <1>13, <1>14, <1>15 DEF GqlInv

(* A mutation that only writes an entry leaves the decision as it is. *)
LEMMA OnlyAudited ==
    ASSUME GqlInv, NEW id \in DOMAIN gql_decisions, NEW ev, NEW actor,
           gql_decisions' = [gql_decisions EXCEPT ![id] = append_audit(@, ev, actor)]
    PROVE  gql_decisions' = Grown(gql_decisions, id, gql_decisions[id].decision,
                                  Entry(Trail(gql_decisions, id), ev, actor, next_audit_seq))
<1>1. PICK f, n : f = gql_decisions /\ n = next_audit_seq
  OBVIOUS
<1>2. GoodRecord(id, f[id]) /\ f = [x \in DOMAIN f |-> f[x]] /\ id \in DOMAIN f
  BY <1>1 DEF GqlInv, Records, GoodRecords
<1>3. PICK d, t, q : d = f[id].decision /\ t = f[id].audit_trail /\ q = f[id]
  OBVIOUS
<1>4. q = [decision |-> d, audit_trail |-> t] /\ t = Trail(f, id)
  BY <1>2, <1>3 DEF GoodRecord, Trail
<1>5. append_audit(q, ev, actor) = [decision |-> d, audit_trail |-> Append(t, Entry(t, ev, actor, n))]
  BY <1>1, <1>4, AuditWrites
<1>6. DOMAIN f \cup {id} = DOMAIN f
  BY <1>2
<1>7. gql_decisions' = [f EXCEPT ![id] = append_audit(q, ev, actor)]
  BY <1>1, <1>3
<1>8. gql_decisions' = Grown(f, id, d, Entry(t, ev, actor, n))
  BY <1>2, <1>4, <1>5, <1>6, <1>7 DEF Grown
<1> QED BY <1>1, <1>3, <1>4, <1>8

(* disclose_conflict only writes an entry. *)
LEMMA DiscloseKeeps ==
    ASSUME GqlInv, NEW id \in Ids, disclose_conflict(id)
    PROVE  GqlInv'
<1>1. PICK f, n, acts, tx : f = gql_decisions /\ n = next_audit_seq /\ acts = emergency_actions /\ tx = event_tx
  OBVIOUS
<1>2. Records(f, n, acts) /\ Current(f, acts, tx) /\ GoodRecords(f) /\ IsSeq(acts) /\ n \in Nat \ {0}
  BY <1>1, GatewayAssumption DEF GqlInv, Records, RestTyped
<1>3. id \in DOMAIN f /\ GoodRecord(id, f[id])
  BY <1>1, <1>2 DEF disclose_conflict, GoodRecords
<1>4. PICK d, kind, ev, actor : /\ d = f[id].decision /\ kind = "ConflictDisclosed"
                               /\ ev = <<kind, "">> /\ actor = Caller
  OBVIOUS
<1>5. PICK g : g = Grown(f, id, d, Entry(Trail(f, id), ev, actor, n))
  OBVIOUS
<1>6. gql_decisions' = g
  BY <1>1, <1>3, <1>4, <1>5, OnlyAudited DEF disclose_conflict
<1>7. /\ next_audit_seq' = n + 1 /\ n <= MaxAudit
      /\ UNCHANGED <<gql_delegations, emergency_actions, gql_constitution, event_tx, streams>>
  BY <1>1 DEF disclose_conflict, CountAudit
<1>8. Records(g, n + 1, acts)
  <2>1. Draft(id, d) /\ IsDecision(d)
    BY <1>1, <1>3, <1>4, StoredDraft DEF GoodRecord
  <2>2. d = [id |-> id, tenant_id |-> d.tenant_id, status |-> d.status, body |-> d.body,
             votes |-> d.votes, challenges |-> d.challenges, content_hash |-> d.content_hash]
    BY <2>1 DEF Draft
  <2>o. One(kind, "EmergencyAction") = 0 /\ One(kind, "VoteCast") = 0 /\ One(kind, "ChallengeRaised") = 0
    BY <1>4 DEF One
  <2>3. Cardinality(ActionsOn(acts, id)) = Cardinality(ActionsOn(acts, id)) + One(kind, "EmergencyAction")
    BY <1>2, <2>o, ActionsCount
  <2>4. /\ Len(d.votes) = Len(f[id].decision.votes) + One(kind, "VoteCast")
        /\ Len(d.challenges) = Len(f[id].decision.challenges) + One(kind, "ChallengeRaised")
    <3>1. d.votes \in Seq(GqlVote) /\ d.challenges \in Seq(GqlChallenge)
      BY <2>1 DEF Draft
    <3>2. Len(d.votes) \in Nat /\ Len(d.challenges) \in Nat
      BY <3>1, LenProperties
    <3>3. f[id].decision = d
      BY <1>4
    <3> QED BY <2>o, <3>2, <3>3
  <2>5. \A i \in DOMAIN acts : acts[i].decision_id \in DOMAIN f \cup {id}
    BY <1>2 DEF Records
  <2> QED BY <1>2, <1>3, <1>4, <1>5, <2>1, <2>2, <2>3, <2>4, <2>5, GrownRecords
<1>9. Current(g, acts, tx)
  <2>1. DOMAIN g = DOMAIN f /\ \A x \in DOMAIN f : g[x].decision = f[x].decision
    BY <1>3, <1>4, <1>5 DEF Grown
  <2> QED BY <1>2, <2>1 DEF Current
<1>10. StreamsGood'
  BY <1>7 DEF GqlInv, StreamsGood
<1>11. RestTyped'
  BY <1>1, <1>2, <1>7, GatewayAssumption DEF GqlInv, RestTyped
<1> QED BY <1>1, <1>6, <1>7, <1>8, <1>9, <1>10, <1>11 DEF GqlInv

(* take_emergency_action: an action, its event and its entry; the decision stays. *)
LEMMA EmergencyKeeps ==
    ASSUME GqlInv, NEW id \in Ids, take_emergency_action(id)
    PROVE  GqlInv'
<1>1. PICK f, n, acts, tx : f = gql_decisions /\ n = next_audit_seq /\ acts = emergency_actions /\ tx = event_tx
  OBVIOUS
<1>2. Records(f, n, acts) /\ Current(f, acts, tx) /\ GoodRecords(f) /\ IsSeq(acts) /\ n \in Nat \ {0}
  BY <1>1, GatewayAssumption DEF GqlInv, Records, RestTyped
<1>3. id \in DOMAIN f /\ GoodRecord(id, f[id])
  BY <1>1, <1>2 DEF take_emergency_action, GoodRecords
<1>4. PICK d, actor : d = f[id].decision /\ actor = Caller
  OBVIOUS
<1>5. PICK kind : kind = "EmergencyAction"
  OBVIOUS
<1>6. PICK ev : ev = <<kind, "">>
  OBVIOUS
<1>7. PICK g : g = Grown(f, id, d, Entry(Trail(f, id), ev, actor, n))
  OBVIOUS
<1>8. gql_decisions' = g
  BY <1>1, <1>3, <1>4, <1>5, <1>6, <1>7, OnlyAudited DEF take_emergency_action
<1>9. PICK a : a = [decision_id |-> id, tenant_id |-> d.tenant_id]
  OBVIOUS
<1>10. /\ next_audit_seq' = n + 1 /\ n <= MaxAudit
       /\ emergency_actions' = Append(acts, a) /\ event_tx' = Append(tx, EmergencyActionCreated(a))
       /\ UNCHANGED <<gql_delegations, gql_constitution, streams>>
  BY <1>1, <1>4, <1>9 DEF take_emergency_action, CountAudit
<1>11. Draft(id, d) /\ IsDecision(d)
  BY <1>1, <1>3, <1>4, StoredDraft DEF GoodRecord
<1>12. PICK after : after = Append(acts, a)
  OBVIOUS
<1>13. Records(g, n + 1, after)
  <2>1. d = [id |-> id, tenant_id |-> d.tenant_id, status |-> d.status, body |-> d.body,
             votes |-> d.votes, challenges |-> d.challenges, content_hash |-> d.content_hash]
    BY <1>11 DEF Draft
  <2>2. One(kind, "EmergencyAction") = 1 /\ One(kind, "VoteCast") = 0 /\ One(kind, "ChallengeRaised") = 0
    BY <1>5 DEF One
  <2>3. PICK m : m = Len(acts)
    OBVIOUS
  <2>4. m \in Nat /\ DOMAIN acts = 1..m
    BY <1>2, <2>3, SeqFacts
  <2>5. /\ IsSeq(after) /\ DOMAIN after = 1..(m + 1)
        /\ \A i \in 1..m : after[i] = acts[i]
        /\ after[m + 1] = a
    BY <1>2, <1>12, <2>3, AppendFacts
  <2>6. a.decision_id = id
    BY <1>9
  <2>7. Cardinality(ActionsOn(after, id)) = Cardinality(ActionsOn(acts, id)) + One(kind, "EmergencyAction")
    <3>1. PICK A : A = ActionsOn(acts, id)
      OBVIOUS
    <3>2. A \subseteq 1..m /\ ActionsOn(after, id) = A \cup {m + 1}
      BY <2>4, <2>5, <2>6, <3>1 DEF ActionsOn
    <3>3. Cardinality(A \cup {m + 1}) = Cardinality(A) + 1
      BY <2>4, <3>2, CountOneMore
    <3> QED BY <2>2, <3>1, <3>2, <3>3
  <2>8. \A x \in Ids \ {id} : ActionsOn(after, x) = ActionsOn(acts, x)
    BY <2>4, <2>5, <2>6 DEF ActionsOn
  <2>9. \A i \in DOMAIN after : after[i].decision_id \in DOMAIN f \cup {id}
    BY <1>2, <2>4, <2>5, <2>6 DEF Records
  <2>10. /\ Len(d.votes) = Len(f[id].decision.votes) + One(kind, "VoteCast")
         /\ Len(d.challenges) = Len(f[id].decision.challenges) + One(kind, "ChallengeRaised")
    <3>1. d.votes \in Seq(GqlVote) /\ d.challenges \in Seq(GqlChallenge)
      BY <1>11 DEF Draft
    <3>2. Len(d.votes) \in Nat /\ Len(d.challenges) \in Nat
      BY <3>1, LenProperties
    <3>3. f[id].decision = d
      BY <1>4
    <3> QED BY <2>2, <3>2, <3>3
  <2> QED BY <1>2, <1>3, <1>6, <1>7, <1>11, <2>1, <2>5, <2>7, <2>8, <2>9, <2>10, GrownRecords
<1>14. Current(g, after, Append(tx, EmergencyActionCreated(a)))
  <2>1. DOMAIN g = DOMAIN f /\ \A x \in DOMAIN f : g[x].decision = f[x].decision
    BY <1>3, <1>4, <1>7 DEF Grown
  <2> QED BY <1>2, <1>12, <2>1, AlarmsNew
<1>15. StreamsGood'
  BY <1>1, <1>10, StreamsKept
<1>16. RestTyped'
  <2>1. a \in GqlEmergencyAction
    BY <1>9, <1>11 DEF Draft, GqlEmergencyAction
  <2>2. acts \in Seq(GqlEmergencyAction)
    BY <1>1 DEF GqlInv, RestTyped
  <2>3. Append(acts, a) \in Seq(GqlEmergencyAction)
    BY <2>1, <2>2, AppendProperties
  <2> QED BY <1>1, <1>2, <1>10, <2>3, GatewayAssumption DEF GqlInv, RestTyped
<1> QED BY <1>1, <1>8, <1>10, <1>12, <1>13, <1>14, <1>15, <1>16 DEF GqlInv

(* Delegations and the constitution are no part of a decision. *)
LEMMA GrantsKeep ==
    ASSUME GqlInv,
           \/ \E g \in Grantees, hr \in Hours : grant_delegation(g, hr)
           \/ \E i \in 1..MaxGrants : revoke_delegation(i)
           \/ \E t \in GqlTenants : amend_constitution(t)
    PROVE  GqlInv'
<1>1. RestTyped
  BY DEF GqlInv
<1>2. CASE \E g \in Grantees, hr \in Hours : grant_delegation(g, hr)
  <2>1. PICK g \in Grantees, hr \in Hours : grant_delegation(g, hr)
    BY <1>2
  <2>2. PICK x : x = [delegator |-> Caller, delegatee |-> g, hours |-> hr, active |-> TRUE]
    OBVIOUS
  <2>3. x \in GqlDelegation
    BY <2>2 DEF GqlDelegation
  <2>4. Append(gql_delegations, x) \in Seq(GqlDelegation)
    BY <1>1, <2>3 DEF RestTyped
  <2> QED BY <1>1, <2>1, <2>2, <2>4 DEF grant_delegation, GqlInv, RestTyped, StreamsGood
<1>3. CASE \E i \in 1..MaxGrants : revoke_delegation(i)
  <2>1. PICK i \in 1..MaxGrants : revoke_delegation(i)
    BY <1>3
  <2>2. i \in DOMAIN gql_delegations /\ gql_delegations \in Seq(GqlDelegation)
    BY <1>1, <2>1 DEF revoke_delegation, RestTyped
  <2>3. PICK o : o = gql_delegations[i]
    OBVIOUS
  <2>4. o \in GqlDelegation
    BY <2>2, <2>3
  <2>5. [o EXCEPT !.active = FALSE] \in GqlDelegation
    BY <2>4 DEF GqlDelegation
  <2>6. gql_delegations' = [gql_delegations EXCEPT ![i] = [o EXCEPT !.active = FALSE]]
    BY <2>1, <2>3 DEF revoke_delegation
  <2>7. gql_delegations' \in Seq(GqlDelegation)
    BY <2>2, <2>5, <2>6
  <2> QED BY <1>1, <2>1, <2>7 DEF revoke_delegation, GqlInv, RestTyped, StreamsGood
<1>4. CASE \E t \in GqlTenants : amend_constitution(t)
  <2>1. PICK t \in GqlTenants : amend_constitution(t)
    BY <1>4
  <2>2. PICK c : c = gql_constitution
    OBVIOUS
  <2>3. c.version \in Nat /\ c.hash \in Seq(GqlTenants)
    BY <1>1, <2>2 DEF RestTyped, GqlConstitution
  <2>4. Append(c.hash, t) \in Seq(GqlTenants)
    BY <2>3
  <2>5. gql_constitution' = [tenant_id |-> t, version |-> c.version + 1, hash |-> Append(c.hash, t)]
    BY <2>1, <2>2 DEF amend_constitution, bump_version
  <2>6. gql_constitution' \in GqlConstitution
    BY <2>3, <2>4, <2>5 DEF GqlConstitution
  <2> QED BY <1>1, <2>1, <2>6 DEF amend_constitution, GqlInv, RestTyped, StreamsGood
<1> QED BY <1>2, <1>3, <1>4

(* A new stream starts behind the last event. *)
LEMMA SubscribeKeeps ==
    ASSUME GqlInv, NEW s \in Streams, NEW kind, NEW of, Subscribe(s, kind, of),
           kind \in {"decision_updated", "emergency_action", "delegation_expiring"}
    PROVE  GqlInv'
<1>1. PICK tx, n : tx = event_tx /\ n = Len(tx)
  OBVIOUS
<1>2. IsSeq(tx) /\ n \in Nat /\ DOMAIN tx = 1..n
  BY <1>1, SeqFacts DEF GqlInv, Current
<1>3. PICK st : st = [open |-> TRUE, kind |-> kind, of |-> of, from |-> n, read |-> n, got |-> <<>>]
  OBVIOUS
<1>4. /\ st = [open |-> st.open, kind |-> st.kind, of |-> st.of,
               from |-> st.from, read |-> st.read, got |-> st.got]
      /\ st.read = n /\ st.from = n /\ st.got = <<>>
  BY <1>3
<1>5. IsSeq(<<>>) /\ Len(<<>>) = 0 /\ Cardinality({}) = 0
  BY FS_EmptySet DEF IsSeq
<1>6. n = 0 => {p \in 1..n : Wanted(st, tx[p])} = {}
  OBVIOUS
<1>7. GoodStream(st, tx)
  <2>1. st.kind = "emergency_action" /\ st.from = 0 =>
           Len(st.got) = Cardinality({p \in 1..st.read : Wanted(st, tx[p])})
    BY <1>4, <1>5, <1>6
  <2> QED BY <1>1, <1>2, <1>4, <1>5, <2>1 DEF GoodStream
<1>8. streams' = [streams EXCEPT ![s] = st]
  BY <1>1, <1>3 DEF Subscribe
<1>9. StreamsGood'
  <2>1. event_tx' = event_tx
    BY DEF Subscribe
  <2>2. StreamsGood
    BY DEF GqlInv
  <2> QED BY <1>1, <1>7, <1>8, <2>1, <2>2 DEF StreamsGood
<1> QED BY <1>9 DEF Subscribe, GqlInv, RestTyped

(* A stream that is behind takes one event, or ends. *)
LEMMA RecvKeeps ==
    ASSUME GqlInv, NEW s \in Streams, recv(s)
    PROVE  GqlInv'
<1>1. PICK tx, st : tx = event_tx /\ st = streams[s]
  OBVIOUS
<1>2. IsSeq(tx) /\ GoodStream(st, tx) /\ st.read < Len(tx)
  BY <1>1 DEF GqlInv, Current, StreamsGood, recv, Behind
<1>3. PICK e : e = tx[st.read + 1]
  OBVIOUS
<1>4. PICK ended : ended = [st EXCEPT !.open = FALSE]
  OBVIOUS
<1>5. PICK read : read = [st EXCEPT !.read = st.read + 1,
                               !.got = IF Wanted(st, e) THEN Append(st.got, e) ELSE st.got]
  OBVIOUS
<1>6. GoodStream(read, tx)
  BY <1>2, <1>3, <1>5, Received
<1>7. GoodStream(ended, tx)
  <2>1. st = [open |-> st.open, kind |-> st.kind, of |-> st.of,
              from |-> st.from, read |-> st.read, got |-> st.got]
    BY <1>2 DEF GoodStream
  <2>2. ended = [open |-> FALSE, kind |-> st.kind, of |-> st.of,
                 from |-> st.from, read |-> st.read, got |-> st.got]
    BY <1>4, <2>1
  <2>3. /\ ended.open = FALSE /\ ended.kind = st.kind /\ ended.of = st.of
        /\ ended.from = st.from /\ ended.read = st.read /\ ended.got = st.got
    BY <2>2
  <2>4. \A x : Wanted(ended, x) <=> Wanted(st, x)
    BY <2>3 DEF Wanted
  <2> QED BY <1>2, <2>2, <2>3, <2>4 DEF GoodStream
<1>8. streams' = [streams EXCEPT ![s] = IF Overtaken(s) THEN ended ELSE read]
  <2>1. CASE Overtaken(s)
    BY <1>1, <1>4, <2>1 DEF recv
  <2>2. CASE ~Overtaken(s)
    BY <1>1, <1>3, <1>5, <2>2 DEF recv
  <2> QED BY <2>1, <2>2
<1>9. StreamsGood'
  <2>1. event_tx' = event_tx
    BY DEF recv
  <2>2. StreamsGood
    BY DEF GqlInv
  <2> QED BY <1>1, <1>6, <1>7, <1>8, <2>1, <2>2 DEF StreamsGood
<1> QED BY <1>9 DEF recv, GqlInv, RestTyped

(* Every mutation and every stream's step keeps the invariant. *)
LEMMA GqlStepInv == GqlInv /\ [GqlNext]_gqlVars => GqlInv'
<1> SUFFICES ASSUME GqlInv, [GqlNext]_gqlVars PROVE GqlInv'
  OBVIOUS
<1>1. CASE UNCHANGED gqlVars
  BY <1>1 DEF gqlVars, GqlInv, RestTyped, StreamsGood
<1>2. CASE GqlNext
  <2>1. ASSUME NEW s \in Streams,
               \/ \E id \in Ids : decision_updated(s, id)
               \/ \E t \in GqlTenants : emergency_action(s, t)
               \/ \E g \in Grantees : delegation_expiring(s, g)
        PROVE  GqlInv'
    <3>1. PICK kind, of : /\ Subscribe(s, kind, of)
                          /\ kind \in {"decision_updated", "emergency_action", "delegation_expiring"}
      BY <2>1 DEF decision_updated, emergency_action, delegation_expiring
    <3> QED BY <3>1, SubscribeKeeps
  <2> QED
    BY <1>2, <2>1, CreateKeeps, AdvanceKeeps, VoteKeeps, ChallengeKeeps, EmergencyKeeps,
       DiscloseKeeps, GrantsKeep, RecvKeeps DEF GqlNext
<1> QED BY <1>1, <1>2

(* The invariant holds whatever the clients do and however slowly they read. *)
THEOREM GatewayInvariant == GqlSpec => []GqlInv
<1> QED BY GqlInitInv, GqlStepInv, PTL DEF GqlSpec

(* graphql.rs `append_audit', for any tenants, decisions and numbers of entries: *)
(* the trails hold every number once and in order, each receipt follows the one  *)
(* before, and there is an entry for every vote, challenge and emergency action. *)
THEOREM TrailsAreExact == GqlSpec => []TrailsExact
<1>1. GqlInv => TrailsExact
  <2> SUFFICES ASSUME GqlInv PROVE TrailsExact
    OBVIOUS
  <2>1. \A id : audit_trail(id) = Trail(gql_decisions, id)
    BY DEF audit_trail, Trail
  <2>2. Numbered(gql_decisions, next_audit_seq)
    BY DEF GqlInv, Records
  <2>3. UNION {{audit_trail(id)[i].sequence : i \in DOMAIN audit_trail(id)} : id \in Ids}
          = 1..(next_audit_seq - 1)
    BY <2>1, <2>2 DEF Numbered
  <2>4. \A a, b \in Ids : \A i \in DOMAIN audit_trail(a), j \in DOMAIN audit_trail(b) :
          audit_trail(a)[i].sequence = audit_trail(b)[j].sequence => a = b /\ i = j
    BY <2>1, <2>2 DEF Numbered
  <2>5. ASSUME NEW id \in DOMAIN gql_decisions
        PROVE  /\ audit_trail(id) = gql_decisions[id].audit_trail
               /\ Chained(gql_decisions[id].audit_trail)
               /\ Counted(id, gql_decisions[id], emergency_actions)
    BY DEF audit_trail, GqlInv, Records
  <2>6. GqlTypeOK
    BY DEF GqlInv, RestTyped, GqlTypeOK, Records, GoodRecords, GoodRecord, StreamsGood, GoodStream
  <2>7. ASSUME NEW id \in DOMAIN gql_decisions
        PROVE  LET trail == audit_trail(id)
                   d == gql_decisions[id].decision
               IN /\ \A i \in DOMAIN trail :
                        /\ trail[i].receipt_hash =
                             receipt(IF i = 1 THEN <<>> ELSE trail[i - 1].receipt_hash,
                                     trail[i].event_type, trail[i].actor, trail[i].sequence)
                        /\ i > 1 => trail[i - 1].sequence < trail[i].sequence
                  /\ Cardinality(Entries(id, "VoteCast")) = Len(d.votes)
                  /\ Cardinality(Entries(id, "ChallengeRaised")) = Len(d.challenges)
                  /\ Cardinality(Entries(id, "EmergencyAction")) =
                       Cardinality({i \in DOMAIN emergency_actions : emergency_actions[i].decision_id = id})
    <3>1. PICK r, t : r = gql_decisions[id] /\ t = r.audit_trail
      OBVIOUS
    <3>2. audit_trail(id) = t /\ Chained(t) /\ Counted(id, r, emergency_actions)
      BY <2>5, <3>1
    <3>3. \A kind : Entries(id, kind) = Of(t, kind)
      BY <3>2 DEF Entries, Of
    <3>4. ActionsOn(emergency_actions, id) =
             {i \in DOMAIN emergency_actions : emergency_actions[i].decision_id = id}
      BY DEF ActionsOn
    <3>5. /\ Cardinality(Entries(id, "VoteCast")) = Len(r.decision.votes)
          /\ Cardinality(Entries(id, "ChallengeRaised")) = Len(r.decision.challenges)
          /\ Cardinality(Entries(id, "EmergencyAction")) = Cardinality(ActionsOn(emergency_actions, id))
      BY <3>1, <3>2, <3>3 DEF Counted
    <3>6. \A i \in DOMAIN t :
             /\ t[i].receipt_hash = receipt(IF i = 1 THEN <<>> ELSE t[i - 1].receipt_hash,
                                           t[i].event_type, t[i].actor, t[i].sequence)
             /\ i > 1 => t[i - 1].sequence < t[i].sequence
      BY <3>2 DEF Chained
    <3> QED BY <3>1, <3>2, <3>4, <3>5, <3>6
  <2> QED BY <2>3, <2>4, <2>6, <2>7, Zenon DEF TrailsExact
<1> QED BY <1>1, GatewayInvariant, PTL

(* graphql.rs:697-756, for any subscribers and any interleaving of mutations and *)
(* reads: who has read all the channel holds was last given the decision as it   *)
(* stands, and has every emergency action of its tenant since it subscribed.     *)
THEOREM SubscribersAreCurrent == GqlSpec => []SubscribersCurrent
<1>1. GqlInv => SubscribersCurrent
  <2> SUFFICES ASSUME GqlInv, NEW s \in Streams, streams[s].open, ~Behind(s)
               PROVE  /\ streams[s].kind = "decision_updated" /\ streams[s].got # <<>> =>
                            decision(streams[s].of) = {Last(streams[s].got).decision}
                      /\ streams[s].kind = "emergency_action" /\ streams[s].from = 0 =>
                            Len(streams[s].got) = Cardinality({i \in DOMAIN emergency_actions :
                                              emergency_actions[i].tenant_id = streams[s].of})
    BY DEF SubscribersCurrent
  <2>1. PICK st, tx, f, n : st = streams[s] /\ tx = event_tx /\ f = gql_decisions /\ n = Len(tx)
    OBVIOUS
  <2>2. GoodStream(st, tx) /\ Current(f, emergency_actions, tx)
    BY <2>1 DEF GqlInv, StreamsGood
  <2>3. n \in Nat /\ DOMAIN tx = 1..n
    BY <2>1, <2>2, SeqFacts DEF Current
  <2>4. st.read = n
    BY <2>1, <2>2, <2>3 DEF GoodStream, Behind
  <2>5. ASSUME st.kind = "decision_updated", st.got # <<>>
        PROVE  decision(st.of) = {Last(st.got).decision}
    <3>1. PICK p \in 1..n : /\ tx[p] = Last(st.got) /\ Wanted(st, tx[p])
                            /\ \A q \in 1..n : q > p => ~Wanted(st, tx[q])
      BY <2>2, <2>4, <2>5 DEF GoodStream
    <3>2. \A x : Wanted(st, x) <=> Tells(x, st.of)
      BY <2>5 DEF Wanted, Tells
    <3>3. st.of \in DOMAIN f
      BY <2>2, <2>3, <3>1, <3>2 DEF Current
    <3>4. PICK q \in 1..n : /\ Tells(tx[q], st.of) /\ tx[q].decision = f[st.of].decision
                            /\ \A r \in 1..n : r > q => ~Tells(tx[r], st.of)
      BY <2>2, <2>3, <3>3 DEF Current
    <3>5. p = q
      BY <2>3, <3>1, <3>2, <3>4
    <3> QED BY <2>1, <3>1, <3>3, <3>4, <3>5 DEF decision
  <2>6. ASSUME st.kind = "emergency_action", st.from = 0
        PROVE  Len(st.got) = Cardinality({i \in DOMAIN emergency_actions :
                                             emergency_actions[i].tenant_id = st.of})
    <3>1. \A x : Wanted(st, x) <=> Alarms(x, st.of)
      BY <2>6 DEF Wanted, Alarms
    <3>2. {p \in 1..st.read : Wanted(st, tx[p])} = {p \in DOMAIN tx : Alarms(tx[p], st.of)}
      BY <2>3, <2>4, <3>1
    <3>3. Len(st.got) = Cardinality({p \in DOMAIN tx : Alarms(tx[p], st.of)})
      BY <2>2, <2>6, <3>2 DEF GoodStream
    <3> QED BY <2>2, <3>3 DEF Current
  <2> QED BY <2>1, <2>5, <2>6
<1> QED BY <1>1, GatewayInvariant, PTL

-----------------------------------------------------------------------------
(* The database: tasks that race on its tables. *)
(* What the audit table makes a task hold that has read its last entry: a place *)
(* of the chain and the digest there.                                           *)
HeldFrom(h) ==
    /\ h.sequence \in 0..Len(audit)
    /\ h.entry_hash = IF h.sequence = 0 THEN Genesis ELSE audit[h.sequence].entry_hash

(* The tables as functions; one e-mail, one user. *)
TablesGood ==
    /\ tables = [t \in KeyTables |-> tables[t]]
    /\ \A t \in KeyTables : DOMAIN tables[t] \subseteq Keys /\ \A k \in DOMAIN tables[t] : tables[t][k] \in KeyRow
    /\ \A k, l \in DOMAIN tables["users"] :
          tables["users"][k].email = tables["users"][l].email => k = l

AuditGood ==
    /\ audit \in Seq(AuditRow)
    /\ AuditTableChained
    /\ DOMAIN held = Tasks
    /\ \A c \in Tasks : held[c] # <<>> => HeldFrom(held[c][1])

(* Every value of the counter was given to one task. *)
CounterGood ==
    /\ counter \in Nat
    /\ issued \in [Tasks -> SUBSET (1..counter)]
    /\ \A n \in 1..counter : \E c \in Tasks : n \in issued[c]
    /\ \A c, d \in Tasks : c # d => issued[c] \cap issued[d] = {}

DbInv ==
    /\ TablesGood /\ AuditGood /\ CounterGood
    /\ serials \in [SerialTables -> Seq(Tokens)]
    /\ writes \in 0..MaxWrites

(* Empty tables and a counter nobody has read. *)
LEMMA DbInitInv == DbInit => DbInv
<1> SUFFICES ASSUME DbInit PROVE DbInv
  OBVIOUS
<1>1. TablesGood
  BY DEF DbInit, TablesGood, KeyTables, KeepFirst
<1>2. AuditGood
  BY DEF DbInit, AuditGood, AuditTableChained
<1>3. CounterGood
  BY DEF DbInit, CounterGood
<1> QED BY <1>1, <1>2, <1>3, DbAssumption DEF DbInit, DbInv

(* A statement that sets one row: the row is of its type, and unless it is new *)
(* has the e-mail it had; a new row's e-mail is nobody's.                      *)
LEMMA RowWritten ==
    ASSUME DbInv, NEW t \in KeyTables, NEW key \in Keys, NEW row \in KeyRow,
           SetTable(t, key, row), UNCHANGED RestOfDb,
           t = "users" =>
              IF key \in DOMAIN tables[t] THEN row.email = tables[t][key].email
              ELSE \A k \in DOMAIN tables[t] : tables[t][k].email # row.email
    PROVE  DbInv'
<1>1. PICK f, old : f = tables /\ old = tables[t]
  OBVIOUS
<1>2. PICK new : new = PutRow(old, key, row)
  OBVIOUS
<1>3. /\ f = [x \in KeyTables |-> f[x]]
      /\ \A x \in KeyTables : DOMAIN f[x] \subseteq Keys /\ \A k \in DOMAIN f[x] : f[x][k] \in KeyRow
      /\ \A k, l \in DOMAIN f["users"] : f["users"][k].email = f["users"][l].email => k = l
  BY <1>1 DEF DbInv, TablesGood
<1>4. /\ DOMAIN new = DOMAIN old \cup {key} /\ new[key] = row
      /\ \A k \in DOMAIN old : k # key => new[k] = old[k]
  BY <1>2 DEF PutRow
<1>5. DOMAIN new \subseteq Keys /\ \A k \in DOMAIN new : new[k] \in KeyRow
  BY <1>1, <1>3, <1>4
<1>6. tables' = [f EXCEPT ![t] = new]
  BY <1>1, <1>2 DEF SetTable
<1>7. /\ \A x \in KeyTables : tables'[x] = IF x = t THEN new ELSE f[x]
      /\ tables' = [x \in KeyTables |-> tables'[x]]
  BY <1>3, <1>6
<1>8. t = "users" => \A k, l \in DOMAIN new : new[k].email = new[l].email => k = l
  <2> SUFFICES ASSUME t = "users", NEW k \in DOMAIN new, NEW l \in DOMAIN new,
                      new[k].email = new[l].email
               PROVE  k = l
    OBVIOUS
  <2>1. \A a, b \in DOMAIN old : old[a].email = old[b].email => a = b
    BY <1>1, <1>3
  <2>2. CASE key \in DOMAIN old
    <3>1. row.email = old[key].email
      BY <1>1, <2>2
    <3>2. \A a \in DOMAIN new : a \in DOMAIN old /\ new[a].email = old[a].email
      BY <1>4, <2>2, <3>1
    <3> QED BY <2>1, <3>2
  <2>3. CASE key \notin DOMAIN old
    <3>1. \A a \in DOMAIN old : old[a].email # row.email
      BY <1>1, <2>3
    <3> QED BY <1>4, <2>1, <2>3, <3>1
  <2> QED BY <2>2, <2>3
<1>9. TablesGood'
  <2>1. \A k, l \in DOMAIN tables'["users"] :
           tables'["users"][k].email = tables'["users"][l].email => k = l
    <3>1. "users" \in KeyTables
      BY DEF KeyTables, KeepFirst
    <3> QED BY <1>3, <1>7, <1>8, <3>1
  <2>2. \A x \in KeyTables : DOMAIN tables'[x] \subseteq Keys /\ \A k \in DOMAIN tables'[x] : tables'[x][k] \in KeyRow
    BY <1>3, <1>5, <1>7
  <2> QED BY <1>7, <2>1, <2>2 DEF TablesGood
<1>10. writes' \in 0..MaxWrites
  BY DbAssumption DEF DbInv, SetTable, Write
<1> QED
  BY <1>9, <1>10 DEF DbInv, AuditGood, AuditTableChained, HeldFrom, CounterGood, RestOfDb

(* The rows that are written: a new one, or an old one with one column set. *)
LEMMA NewRow ==
    ASSUME DbInv, NEW c \in Tasks
    PROVE  /\ Row(c) \in KeyRow /\ Token(c) \in Tokens
           /\ \A e \in Emails : [Row(c) EXCEPT !.email = e] \in KeyRow /\ [Row(c) EXCEPT !.email = e].email = e
<1>1. PICK tk : tk = Token(c)
  OBVIOUS
<1>2. tk \in Tokens
  BY <1>1 DEF Token, Tokens, DbInv
<1>3. Row(c) = [cols |-> tk, upd |-> tk, email |-> "none"]
  BY <1>1 DEF Row
<1> QED BY <1>1, <1>2, <1>3 DEF KeyRow

(* An UPDATE leaves the first columns and the e-mail. *)
LEMMA ChangedRow ==
    ASSUME DbInv, NEW c \in Tasks, NEW t \in KeyTables, NEW key \in DOMAIN tables[t]
    PROVE  /\ [tables[t][key] EXCEPT !.upd = Token(c)] \in KeyRow
           /\ [tables[t][key] EXCEPT !.upd = Token(c)].email = tables[t][key].email
           /\ [tables[t][key] EXCEPT !.upd = Token(c)].cols = tables[t][key].cols
<1>1. PICK tk, r : tk = Token(c) /\ r = tables[t][key]
  OBVIOUS
<1>2. tk \in Tokens
  BY <1>1, NewRow
<1>3. r \in KeyRow
  BY <1>1 DEF DbInv, TablesGood
<1>4. /\ [r EXCEPT !.upd = tk] \in KeyRow /\ [r EXCEPT !.upd = tk].email = r.email
      /\ [r EXCEPT !.upd = tk].cols = r.cols
  BY <1>2, <1>3 DEF KeyRow
<1> QED BY <1>1, <1>4
(* Every statement on a table with a primary key sets one row, and of a row that *)
(* exists neither the first columns nor the e-mail.                              *)
WritesRow(t, key, row) ==
    /\ SetTable(t, key, row) /\ UNCHANGED RestOfDb
    /\ key \in DOMAIN tables[t] => row.email = tables[t][key].email /\ row.cols = tables[t][key].cols
    /\ t = "users" /\ key \notin DOMAIN tables[t] =>
          \A k \in DOMAIN tables[t] : tables[t][k].email # row.email

(* UPDATE ... WHERE key. *)
LEMMA UpdateWrites ==
    ASSUME DbInv, NEW c \in Tasks, NEW t \in KeyTables, NEW key \in Keys, Update(c, t, key)
    PROVE  \E row \in KeyRow : WritesRow(t, key, row)
<1>1. key \in DOMAIN tables[t] /\ UNCHANGED RestOfDb
      /\ SetTable(t, key, [tables[t][key] EXCEPT !.upd = Token(c)])
  BY DEF Update
<1>2. PICK row : row = [tables[t][key] EXCEPT !.upd = Token(c)]
  OBVIOUS
<1>3. row \in KeyRow /\ row.email = tables[t][key].email /\ row.cols = tables[t][key].cols
  BY <1>1, <1>2, ChangedRow
<1> QED BY <1>1, <1>2, <1>3 DEF WritesRow

(* A first insertion into a table other than the users'. *)
LEMMA InsertWrites ==
    ASSUME DbInv, NEW c \in Tasks, NEW t \in KeyTables, NEW key \in Keys,
           t # "users", key \notin DOMAIN tables[t], SetTable(t, key, Row(c)), UNCHANGED RestOfDb
    PROVE  \E row \in KeyRow : WritesRow(t, key, row)
<1>1. Row(c) \in KeyRow
  BY NewRow
<1> QED BY <1>1 DEF WritesRow

(* ON CONFLICT DO UPDATE. *)
LEMMA UpsertWrites ==
    ASSUME DbInv, NEW c \in Tasks, NEW t \in KeyTables, NEW key \in Keys,
           t # "users", Upsert(c, t, key)
    PROVE  \E row \in KeyRow : WritesRow(t, key, row)
<1>1. CASE key \in DOMAIN tables[t]
  <2>1. PICK row : row = [tables[t][key] EXCEPT !.upd = Token(c)]
    OBVIOUS
  <2>2. row \in KeyRow /\ row.email = tables[t][key].email /\ row.cols = tables[t][key].cols
    BY <1>1, <2>1, ChangedRow
  <2>3. SetTable(t, key, row) /\ UNCHANGED RestOfDb
    BY <1>1, <2>1 DEF Upsert
  <2> QED BY <1>1, <2>2, <2>3 DEF WritesRow
<1>2. CASE key \notin DOMAIN tables[t]
  <2>1. SetTable(t, key, Row(c)) /\ UNCHANGED RestOfDb
    BY <1>2 DEF Upsert
  <2> QED BY <1>2, <2>1, InsertWrites
<1> QED BY <1>1, <1>2

(* insert_user: the UNIQUE constraint keeps e-mails apart. *)
LEMMA UserWrites ==
    ASSUME DbInv, NEW c \in Tasks, NEW key \in Keys, NEW e \in Emails, insert_user(c, key, e)
    PROVE  \E row \in KeyRow : WritesRow("users", key, row)
<1>1. PICK row : row = [Row(c) EXCEPT !.email = e]
  OBVIOUS
<1>2. row \in KeyRow /\ row.email = e
  BY <1>1, NewRow
<1>3. /\ key \notin DOMAIN tables["users"]
      /\ \A k \in DOMAIN tables["users"] : tables["users"][k].email # e
      /\ SetTable("users", key, row) /\ UNCHANGED RestOfDb
  BY <1>1 DEF insert_user
<1> QED BY <1>2, <1>3 DEF WritesRow

(* All the statements on tables with a primary key are of these kinds. *)
LEMMA KeyStatements ==
    ASSUME DbInv, NEW t \in KeyTables, DbNext(t)
    PROVE  \E key \in Keys, row \in KeyRow : WritesRow(t, key, row)
<1>1. PICK c \in Tasks, k \in Keys :
         \/ t = "users" /\ (update_user_pace(c, k) \/ \E e \in Emails : insert_user(c, k, e))
         \/ t = "agents" /\ (insert_agent(c, k) \/ update_agent_pace(c, k))
         \/ t = "delegations" /\ insert_delegation(c, k)
         \/ t = "decisions" /\ (upsert_decision(c, k) \/ update_decision(c, k))
         \/ t = "constitutions" /\ upsert_constitution(c, k)
         \/ t = "identity_scores" /\ upsert_identity_score(c, k)
         \/ t = "livesafe_identities" /\ insert_livesafe_identity(c, k)
         \/ t = "scan_receipts" /\ insert_scan_receipt(c, k)
         \/ t = "consent_anchors" /\ insert_consent_anchor(c, k)
  BY DEF DbNext, KeyTables, KeepFirst, Replace, Refuse
<1>2. CASE Update(c, t, k)
  BY <1>2, UpdateWrites
<1>3. CASE t # "users" /\ Upsert(c, t, k)
  BY <1>3, UpsertWrites
<1>4. CASE t = "users" /\ \E e \in Emails : insert_user(c, k, e)
  BY <1>4, UserWrites
<1>5. CASE t # "users" /\ k \notin DOMAIN tables[t] /\ SetTable(t, k, Row(c)) /\ UNCHANGED RestOfDb
  BY <1>5, InsertWrites
<1>6. \/ Update(c, t, k)
      \/ t # "users" /\ Upsert(c, t, k)
      \/ t = "users" /\ \E e \in Emails : insert_user(c, k, e)
      \/ t # "users" /\ k \notin DOMAIN tables[t] /\ SetTable(t, k, Row(c)) /\ UNCHANGED RestOfDb
  <2>1. CASE t = "users"
    <3>1. update_user_pace(c, k) \/ \E e \in Emails : insert_user(c, k, e)
      BY <1>1, <2>1
    <3>2. update_user_pace(c, k) => Update(c, t, k)
      BY <2>1, Zenon DEF update_user_pace
    <3> QED BY <2>1, <3>1, <3>2, Zenon
  <2>2. CASE t = "agents"
    <3>1. insert_agent(c, k) \/ update_agent_pace(c, k)
      BY <1>1, <2>2
    <3>2. update_agent_pace(c, k) => Update(c, t, k)
      BY <2>2, Zenon DEF update_agent_pace
    <3>3. insert_agent(c, k) =>
             t # "users" /\ k \notin DOMAIN tables[t] /\ SetTable(t, k, Row(c)) /\ UNCHANGED RestOfDb
      BY <2>2 DEF insert_agent
    <3> QED BY <3>1, <3>2, <3>3, Zenon
  <2>3. CASE t = "delegations"
    BY <1>1, <2>3 DEF insert_delegation
  <2>4. CASE t = "decisions"
    BY <1>1, <2>4 DEF upsert_decision, insert_decision, update_decision, Update, Upsert
  <2>5. CASE t \in {"constitutions", "identity_scores", "livesafe_identities"}
    BY <1>1, <2>5 DEF upsert_constitution, upsert_identity_score, insert_livesafe_identity
  <2>6. CASE t \in {"scan_receipts", "consent_anchors"}
    BY <1>1, <2>6 DEF insert_scan_receipt, insert_consent_anchor, Strict
  <2> QED BY <2>1, <2>2, <2>3, <2>4, <2>5, <2>6 DEF KeyTables, KeepFirst, Replace, Refuse
<1> QED BY <1>2, <1>3, <1>4, <1>5, <1>6

(* next_hlc: the new value is larger than any that was given. *)
LEMMA NextHlcKeeps ==
    ASSUME DbInv, NEW c \in Tasks, next_hlc(c)
    PROVE  DbInv'
<1>1. PICK n, f : n = counter /\ f = issued
  OBVIOUS
<1>2. /\ n \in Nat /\ f \in [Tasks -> SUBSET (1..n)]
      /\ \A m \in 1..n : \E d \in Tasks : m \in f[d]
      /\ \A d, e \in Tasks : d # e => f[d] \cap f[e] = {}
  BY <1>1 DEF DbInv, CounterGood
<1>3. counter' = n + 1 /\ issued' = [f EXCEPT ![c] = f[c] \cup {n + 1}]
  BY <1>1 DEF next_hlc
<1>4. \A d \in Tasks : issued'[d] = IF d = c THEN f[c] \cup {n + 1} ELSE f[d]
  BY <1>2, <1>3
<1>5. issued' \in [Tasks -> SUBSET (1..(n + 1))]
  <2>1. \A d \in Tasks : issued'[d] \subseteq 1..(n + 1)
    BY <1>2, <1>4
  <2>2. issued' = [d \in Tasks |-> issued'[d]]
    BY <1>2, <1>3
  <2> QED BY <2>1, <2>2
<1>6. \A m \in 1..(n + 1) : \E d \in Tasks : m \in issued'[d]
  <2> TAKE m \in 1..(n + 1)
  <2>1. CASE m = n + 1
    BY <1>4, <2>1
  <2>2. CASE m # n + 1
    <3>1. PICK d \in Tasks : m \in f[d]
      BY <1>2, <2>2
    <3> QED BY <1>4, <3>1
  <2> QED BY <2>1, <2>2
<1>7. \A d, e \in Tasks : d # e => issued'[d] \cap issued'[e] = {}
  <2>1. \A d \in Tasks : n + 1 \notin f[d]
    BY <1>2
  <2> QED BY <1>2, <1>4, <2>1
<1>8. CounterGood'
  BY <1>2, <1>3, <1>5, <1>6, <1>7 DEF CounterGood
<1>9. writes' \in 0..MaxWrites
  BY DbAssumption DEF next_hlc, Write, DbInv
<1>10. UNCHANGED <<tables, serials, audit, held>>
  BY DEF next_hlc
<1> QED
  BY <1>8, <1>9, <1>10 DEF DbInv, TablesGood, AuditGood, AuditTableChained, HeldFrom

(* An insertion into a table with a serial key. *)
LEMMA LogKeeps ==
    ASSUME DbInv, NEW c \in Tasks, NEW t \in SerialTables, Log(c, t)
    PROVE  DbInv'
<1>1. PICK s, tk : s = serials[t] /\ tk = Token(c)
  OBVIOUS
<1>2. s \in Seq(Tokens) /\ tk \in Tokens
  BY <1>1, NewRow DEF DbInv
<1>3. Append(s, tk) \in Seq(Tokens)
  BY <1>2
<1>4. serials' \in [SerialTables -> Seq(Tokens)]
  BY <1>1, <1>3 DEF Log, DbInv
<1>5. writes' \in 0..MaxWrites
  BY DbAssumption DEF Log, Write, DbInv
<1>6. UNCHANGED <<tables, audit, counter, issued, held>>
  BY DEF Log
<1> QED
  BY <1>4, <1>5, <1>6
  DEF DbInv, TablesGood, AuditGood, AuditTableChained, HeldFrom, CounterGood
(* A task reads the end of the chain. *)
LEMMA ReadKeeps ==
    ASSUME DbInv, NEW c \in Tasks, get_last_audit_entry(c)
    PROVE  DbInv'
<1>1. PICK a, n : a = audit /\ n = Len(audit)
  OBVIOUS
<1>2. n \in Nat /\ (a = <<>> <=> n = 0)
  BY <1>1, LenProperties, EmptySeq DEF DbInv, AuditGood
<1>3. PICK h : h = IF a = <<>> THEN [sequence |-> 0, entry_hash |-> Genesis]
                   ELSE [sequence |-> n, entry_hash |-> a[n].entry_hash]
  OBVIOUS
<1>4. HeldFrom(h)
  BY <1>1, <1>2, <1>3 DEF HeldFrom
<1>5. held' = [held EXCEPT ![c] = <<h>>] /\ audit' = audit
  BY <1>1, <1>3 DEF get_last_audit_entry
<1>6. \A d \in Tasks : held'[d] # <<>> => HeldFrom(held'[d][1])
  BY <1>4, <1>5 DEF DbInv, AuditGood
<1>7. AuditGood'
  BY <1>5, <1>6 DEF DbInv, AuditGood, AuditTableChained, HeldFrom
<1> QED BY <1>7 DEF get_last_audit_entry, DbInv, TablesGood, CounterGood

(* The insertion finds the place taken, or is the next of the chain. *)
InsertsAudit ==
    \/ audit' = audit
    \/ \E row \in AuditRow :
          /\ row.sequence = Len(audit) + 1
          /\ row.prev_hash = IF audit = <<>> THEN Genesis ELSE audit[Len(audit)].entry_hash
          /\ audit' = Append(audit, row)

(* Whoever was overtaken writes nothing; otherwise what was read is still the last entry. *)
LEMMA InsertIsAppend ==
    ASSUME DbInv, NEW c \in Tasks, insert_audit_entry(c)
    PROVE  InsertsAudit
<1>1. PICK a, n, h : a = audit /\ n = Len(audit) /\ h = held[c][1]
  OBVIOUS
<1>2. /\ a \in Seq(AuditRow) /\ n \in Nat /\ DOMAIN a = 1..n /\ (a = <<>> <=> n = 0)
  BY <1>1, LenProperties, EmptySeq DEF DbInv, AuditGood
<1>3. h.sequence \in 0..n /\ h.entry_hash = IF h.sequence = 0 THEN Genesis ELSE a[h.sequence].entry_hash
  BY <1>1 DEF DbInv, AuditGood, HeldFrom, insert_audit_entry
<1>4. PICK seq : seq = h.sequence + 1
  OBVIOUS
<1>5. PICK row : row = [sequence |-> seq, prev_hash |-> h.entry_hash, entry_hash |-> <<seq, c>>]
  OBVIOUS
<1>6. audit' = IF seq \in DOMAIN a THEN a ELSE PutRow(a, seq, row)
  BY <1>1, <1>4, <1>5 DEF insert_audit_entry
<1>7. CASE seq \in DOMAIN a
  BY <1>1, <1>6, <1>7 DEF InsertsAudit
<1>8. CASE seq \notin DOMAIN a
  <2>1. seq = n + 1 /\ h.sequence = n
    BY <1>2, <1>3, <1>4, <1>8
  <2>2. h.entry_hash = IF a = <<>> THEN Genesis ELSE a[n].entry_hash
    BY <1>2, <1>3, <2>1
  <2>3. n # 0 => a[n] \in AuditRow
    BY <1>2
  <2>4. h.entry_hash \in Digest
    BY <1>2, <2>2, <2>3 DEF AuditRow, Digest
  <2>5. <<seq, c>> \in Nat \X Tasks /\ seq \in Nat
    BY <1>2, <2>1
  <2>6. row \in AuditRow
    BY <1>5, <2>4, <2>5 DEF AuditRow
  <2>7. PutRow(a, seq, row) = Append(a, row)
    <3>1. PICK p, q : p = Append(a, row) /\ q = PutRow(a, seq, row)
      OBVIOUS
    <3>2. /\ p \in Seq(AuditRow) /\ Len(p) = n + 1
          /\ p[n + 1] = row /\ \A i \in 1..n : p[i] = a[i]
      BY <1>1, <1>2, <2>6, <3>1, AppendProperties
    <3>3. 1..(n + 1) = DOMAIN a \cup {seq}
      BY <1>2, <2>1
    <3>4. q = [i \in 1..(n + 1) |-> IF i = seq THEN row ELSE a[i]]
      BY <3>1, <3>3 DEF PutRow
    <3>5. \A i \in 1..(n + 1) : q[i] = p[i] /\ q[i] \in AuditRow
      BY <1>2, <2>1, <2>6, <3>2, <3>4
    <3>6. q \in Seq(AuditRow) /\ Len(q) = n + 1
      BY <1>2, <3>4, <3>5
    <3>7. p = q
      BY <3>2, <3>5, <3>6, SeqEqual
    <3> QED BY <3>1, <3>7
  <2>8. row.sequence = n + 1 /\ row.prev_hash = IF a = <<>> THEN Genesis ELSE a[n].entry_hash
    BY <1>5, <2>1, <2>2
  <2> QED BY <1>1, <1>6, <1>8, <2>6, <2>7, <2>8 DEF InsertsAudit
<1> QED BY <1>7, <1>8

(* The chain grows at its end, and what other tasks hold stays a place in it. *)
LEMMA InsertKeeps ==
    ASSUME DbInv, NEW c \in Tasks, insert_audit_entry(c)
    PROVE  DbInv'
<1>1. PICK a, n : a = audit /\ n = Len(audit)
  OBVIOUS
<1>2. /\ a \in Seq(AuditRow) /\ n \in Nat /\ DOMAIN a = 1..n /\ (a = <<>> <=> n = 0)
  BY <1>1, LenProperties, EmptySeq DEF DbInv, AuditGood
<1>3. PICK b, m : b = audit' /\ m = Len(b)
  OBVIOUS
<1>4. /\ b \in Seq(AuditRow) /\ m \in Nat /\ m >= n /\ DOMAIN b = 1..m
      /\ \A i \in 1..n : b[i] = a[i]
      /\ \A i \in 1..m : /\ b[i].sequence = i
                         /\ b[i].prev_hash = (IF i = 1 THEN Genesis ELSE b[i - 1].entry_hash)
  <2>1. \A i \in 1..n : /\ a[i].sequence = i
                        /\ a[i].prev_hash = (IF i = 1 THEN Genesis ELSE a[i - 1].entry_hash)
    BY <1>1, <1>2 DEF DbInv, AuditGood, AuditTableChained
  <2>2. CASE b = a
    BY <1>1, <1>2, <1>3, <2>1, <2>2
  <2>3. ASSUME NEW row \in AuditRow, row.sequence = n + 1,
               row.prev_hash = IF a = <<>> THEN Genesis ELSE a[n].entry_hash,
               b = Append(a, row)
        PROVE  <1>4!:
    <3>1. b \in Seq(AuditRow) /\ m = n + 1 /\ DOMAIN b = 1..(n + 1)
          /\ b[n + 1] = row /\ \A i \in 1..n : b[i] = a[i]
      BY <1>1, <1>2, <1>3, <2>3, AppendProperties
    <3>2. ASSUME NEW i \in 1..m
          PROVE  /\ b[i].sequence = i
                 /\ b[i].prev_hash = (IF i = 1 THEN Genesis ELSE b[i - 1].entry_hash)
      <4>1. CASE i = n + 1
        BY <1>2, <2>3, <3>1, <4>1
      <4>2. CASE i \in 1..n
        BY <1>2, <2>1, <3>1, <4>2
      <4> QED BY <1>2, <3>1, <4>1, <4>2
    <3> QED BY <1>2, <3>1, <3>2
  <2>4. InsertsAudit
    BY InsertIsAppend
  <2> QED BY <1>1, <1>3, <2>2, <2>3, <2>4 DEF InsertsAudit
<1>5. held' = [held EXCEPT ![c] = <<>>]
  BY DEF insert_audit_entry
<1>6. \A d \in Tasks : held'[d] # <<>> =>
         /\ held'[d][1].sequence \in 0..m
         /\ held'[d][1].entry_hash =
               IF held'[d][1].sequence = 0 THEN Genesis ELSE b[held'[d][1].sequence].entry_hash
  <2> SUFFICES ASSUME NEW d \in Tasks, held'[d] # <<>>
               PROVE  /\ held'[d][1].sequence \in 0..m
                      /\ held'[d][1].entry_hash =
                           IF held'[d][1].sequence = 0 THEN Genesis
                           ELSE b[held'[d][1].sequence].entry_hash
    OBVIOUS
  <2>1. d # c /\ held'[d] = held[d]
    BY <1>5 DEF DbInv, AuditGood
  <2>2. PICK h : h = held[d][1]
    OBVIOUS
  <2>3. h.sequence \in 0..n /\ h.entry_hash = IF h.sequence = 0 THEN Genesis ELSE a[h.sequence].entry_hash
    BY <1>1, <2>1, <2>2 DEF DbInv, AuditGood, HeldFrom
  <2>4. h.sequence \in 0..m /\ h.entry_hash = IF h.sequence = 0 THEN Genesis ELSE b[h.sequence].entry_hash
    BY <1>2, <1>4, <2>3
  <2> QED BY <2>1, <2>2, <2>4
<1>7. DOMAIN held' = Tasks
  BY <1>5 DEF DbInv, AuditGood
<1>8. AuditGood'
  BY <1>3, <1>4, <1>6, <1>7 DEF AuditGood, AuditTableChained, HeldFrom
<1> QED
  BY <1>8, DbAssumption DEF insert_audit_entry, Write, DbInv, TablesGood, CounterGood

(* Every statement of every task keeps the invariant. *)
LEMMA DbStepInv == DbInv /\ [\E t \in DbTables : DbNext(t)]_dbVars => DbInv'
<1> SUFFICES ASSUME DbInv, [\E t \in DbTables : DbNext(t)]_dbVars PROVE DbInv'
  OBVIOUS
<1>1. CASE UNCHANGED dbVars
  BY <1>1 DEF dbVars, DbInv, TablesGood, AuditGood, AuditTableChained, HeldFrom, CounterGood
<1>2. CASE \E t \in DbTables : DbNext(t)
  <2>1. PICK t \in DbTables : DbNext(t)
    BY <1>2
  <2>2. CASE t \in KeyTables
    <3>1. PICK key \in Keys, row \in KeyRow : WritesRow(t, key, row)
      BY <2>1, <2>2, KeyStatements
    <3> QED BY <2>2, <3>1, RowWritten DEF WritesRow
  <2>3. CASE t \in SerialTables
    <3>1. PICK c \in Tasks : Log(c, t)
      BY <2>1, <2>3 DEF DbNext, SerialTables, insert_enrollment, insert_trustee_shard
    <3> QED BY <2>3, <3>1, LogKeeps
  <2>4. CASE t = "hlc_state"
    BY <2>1, <2>4, NextHlcKeeps DEF DbNext
  <2>5. CASE t = "audit_entries"
    BY <2>1, <2>5, ReadKeeps, InsertKeeps DEF DbNext
  <2> QED BY <2>2, <2>3, <2>4, <2>5 DEF DbTables
<1> QED BY <1>1, <1>2

(* The invariant holds however the tasks' statements interleave. *)
THEOREM DatabaseInvariant == DbSpec => []DbInv
<1> QED BY DbInitInv, DbStepInv, PTL DEF DbSpec

(* db.rs:392-440, for any tasks, keys and number of statements: the audit table  *)
(* is one chain from the genesis digest whoever loses the race for a sequence,   *)
(* next_hlc gives no value twice, and an e-mail leads to one account.            *)
THEOREM RacesAreHarmless == DbSpec => []RacesHarmless
<1>1. DbInv => RacesHarmless
  <2> SUFFICES ASSUME DbInv PROVE RacesHarmless
    OBVIOUS
  <2>1. DbTypeOK
    BY DEF DbInv, DbTypeOK, TablesGood, AuditGood, CounterGood
  <2>2. AuditTableChained
    BY DEF DbInv, AuditGood
  <2>3. Cardinality(UNION {issued[c] : c \in Tasks}) = counter
    <3>1. UNION {issued[c] : c \in Tasks} = 1..counter
      BY DEF DbInv, CounterGood
    <3>2. Cardinality(1..counter) = counter
      BY FS_Interval DEF DbInv, CounterGood
    <3> QED BY <3>1, <3>2
  <2>4. ASSUME NEW e \in Emails PROVE Cardinality(find_user_by_email(e)) <= 1
    <3>1. CASE find_user_by_email(e) = {}
      BY <3>1, FS_EmptySet
    <3>2. CASE find_user_by_email(e) # {}
      <4>1. PICK r : r \in find_user_by_email(e)
        BY <3>2
      <4>2. \A x \in find_user_by_email(e) : x = r
        BY <4>1 DEF find_user_by_email, Rows, DbInv, TablesGood
      <4>3. find_user_by_email(e) = {r}
        BY <4>1, <4>2
      <4> QED BY <4>3, FS_Singleton
    <3> QED BY <3>1, <3>2
  <2> QED BY <2>1, <2>2, <2>3, <2>4 DEF RacesHarmless, RowsUnique, DbInv, CounterGood
<1> QED BY <1>1, DatabaseInvariant, PTL

(* No statement changes the columns of a row's first insertion, removes a row or *)
(* rewrites an audit entry, whatever it races with.                              *)
THEOREM FirstWritesStand == DbSpec => [][FirstWriteStands]_dbVars
<1>1. ASSUME DbInv, \E t \in DbTables : DbNext(t)
      PROVE  FirstWriteStands
  <2>1. PICK t \in DbTables : DbNext(t)
    BY <1>1
  <2>2. CASE t \in KeyTables
    <3>1. PICK key \in Keys, row \in KeyRow : WritesRow(t, key, row)
      BY <1>1, <2>1, <2>2, KeyStatements
    <3>2. audit' = audit
      BY <3>1 DEF WritesRow, RestOfDb
    <3>3. \A x \in KeyTables : tables'[x] = IF x = t THEN PutRow(tables[t], key, row) ELSE tables[x]
      BY <1>1, <2>2, <3>1 DEF WritesRow, SetTable, DbInv, TablesGood
    <3>4. \A k \in DOMAIN tables[t] :
             /\ k \in DOMAIN tables'[t]
             /\ tables'[t][k].cols = tables[t][k].cols /\ tables'[t][k].email = tables[t][k].email
      BY <2>2, <3>1, <3>3 DEF WritesRow, PutRow
    <3> QED BY <3>2, <3>3, <3>4 DEF FirstWriteStands
  <2>3. CASE t \notin KeyTables
    <3>1. tables' = tables /\ \E c \in Tasks : audit' = audit \/ insert_audit_entry(c)
      <4>1. t \in {"enrollment_log", "trustee_shard_status", "hlc_state", "audit_entries"}
        BY <2>3 DEF DbTables, SerialTables
      <4> QED
        BY <2>1, <4>1 DEF DbNext, next_hlc, get_last_audit_entry, insert_audit_entry,
                          insert_enrollment, insert_trustee_shard, Log
    <3>2. \A i \in DOMAIN audit : i \in DOMAIN audit' /\ audit'[i] = audit[i]
      <4>1. CASE audit' = audit
        BY <4>1
      <4>2. ASSUME NEW c \in Tasks, insert_audit_entry(c) PROVE <3>2!:
        <5>1. audit \in Seq(AuditRow)
          BY <1>1 DEF DbInv, AuditGood
        <5>2. audit' = audit \/ \E row \in AuditRow : audit' = Append(audit, row)
          BY <1>1, <4>2, InsertIsAppend DEF InsertsAudit
        <5> QED BY <5>1, <5>2, AppendProperties
      <4> QED BY <3>1, <4>1, <4>2
    <3> QED BY <3>1, <3>2 DEF FirstWriteStands
  <2> QED BY <2>2, <2>3
<1> QED BY <1>1, DatabaseInvariant, PTL DEF DbSpec

-----------------------------------------------------------------------------
(* Tenants: the registry, the items and the tiers. *)
(* Maps of the registries, and what setting and dropping a key leaves. *)
LEMMA PartialMaps ==
    ASSUME NEW S, NEW T, NEW f \in Partial(S, T), NEW k \in S, NEW v \in T
    PROVE  /\ SetKey(f, k, v) \in Partial(S, T) /\ DropKey(f, k) \in Partial(S, T)
           /\ k \in DOMAIN f => [f EXCEPT ![k] = v] \in Partial(S, T)
           /\ DOMAIN f \subseteq S /\ \A x \in DOMAIN f : f[x] \in T
<1>1. PICK D \in SUBSET S : f \in [D -> T]
  BY DEF Partial
<1>2. SetKey(f, k, v) \in [D \cup {k} -> T]
  BY <1>1 DEF SetKey
<1>3. DropKey(f, k) \in [D \ {k} -> T]
  BY <1>1 DEF DropKey
<1>4. k \in DOMAIN f => [f EXCEPT ![k] = v] \in [D -> T]
  BY <1>1
<1> QED BY <1>1, <1>2, <1>3, <1>4 DEF Partial

(* The maps start empty. *)
LEMMA EmptyMap == ASSUME NEW S, NEW T PROVE <<>> \in Partial(S, T)
<1>1. <<>> \in [{} -> T]
  OBVIOUS
<1> QED BY <1>1 DEF Partial

(* The type of the maps, and every item under its own tenant and id. *)
TenantsInv ==
    /\ TenantsTypeOK
    /\ \A t \in DOMAIN store : \A i \in DOMAIN store[t] :
          store[t][i].id = i /\ store[t][i].tenant_id = t

(* There are no items at first. *)
LEMMA TenantsInitInv == TenantsInit => TenantsInv
BY EmptyMap DEF TenantsInit, TenantsInv, TenantsTypeOK

(* Items are put under the tenant they name. *)
LEMMA PutKeeps ==
    ASSUME TenantsInv, NEW t \in TenantIds, NEW item \in TenantData, put(t, item)
    PROVE  TenantsInv'
<1>1. PICK f : f = store
  OBVIOUS
<1>2. PICK old : old = IF t \in DOMAIN f THEN f[t] ELSE <<>>
  OBVIOUS
<1>3. f \in Partial(TenantIds, Partial(ItemIds, TenantData))
  BY <1>1 DEF TenantsInv, TenantsTypeOK
<1>4. old \in Partial(ItemIds, TenantData)
  BY <1>2, <1>3, EmptyMap, PartialMaps
<1>5. item.id \in ItemIds /\ item.tenant_id = t
  BY DEF TenantData, put
<1>6. PICK new : new = SetKey(old, item.id, item)
  OBVIOUS
<1>7. new \in Partial(ItemIds, TenantData)
  BY <1>4, <1>5, <1>6, PartialMaps
<1>8. store' = SetKey(f, t, new)
  BY <1>1, <1>2, <1>6 DEF put
<1>9. store' \in Partial(TenantIds, Partial(ItemIds, TenantData))
  BY <1>3, <1>7, <1>8, PartialMaps
<1>10. \A i \in DOMAIN new : new[i].id = i /\ new[i].tenant_id = t
  <2>1. \A i \in DOMAIN old : old[i].id = i /\ old[i].tenant_id = t
    BY <1>1, <1>2 DEF TenantsInv
  <2> QED BY <1>5, <1>6, <2>1 DEF SetKey
<1>11. \A u \in DOMAIN store' : \A i \in DOMAIN store'[u] :
          store'[u][i].id = i /\ store'[u][i].tenant_id = u
  BY <1>1, <1>8, <1>10 DEF TenantsInv, SetKey
<1> QED BY <1>9, <1>11 DEF TenantsInv, TenantsTypeOK, put

(* Dropping an item leaves the others where they were put. *)
LEMMA DeleteKeeps ==
    ASSUME TenantsInv, NEW t \in TenantIds, NEW i \in ItemIds, delete_item(t, i)
    PROVE  TenantsInv'
<1>1. PICK f, old : f = store /\ old = f[t]
  OBVIOUS
<1>2. f \in Partial(TenantIds, Partial(ItemIds, TenantData)) /\ t \in DOMAIN f
  BY <1>1 DEF TenantsInv, TenantsTypeOK, delete_item
<1>3. old \in Partial(ItemIds, TenantData)
  <2>1. PICK D \in SUBSET TenantIds : f \in [D -> Partial(ItemIds, TenantData)]
    BY <1>2 DEF Partial
  <2> QED BY <1>1, <1>2, <2>1
<1>4. PICK new : new = DropKey(old, i)
  OBVIOUS
<1>5. new \in Partial(ItemIds, TenantData)
  <2>1. PICK D \in SUBSET ItemIds : old \in [D -> TenantData]
    BY <1>3 DEF Partial
  <2>2. new \in [D \ {i} -> TenantData]
    BY <1>4, <2>1 DEF DropKey
  <2> QED BY <2>1, <2>2 DEF Partial
<1>6. store' = [f EXCEPT ![t] = new]
  BY <1>1, <1>4 DEF delete_item
<1>7. store' \in Partial(TenantIds, Partial(ItemIds, TenantData))
  BY <1>2, <1>5, <1>6, PartialMaps
<1>8. DOMAIN store' = DOMAIN f /\ \A u \in DOMAIN f : store'[u] = IF u = t THEN new ELSE f[u]
  BY <1>6
<1>9. \A u \in DOMAIN store' : \A j \in DOMAIN store'[u] :
         store'[u][j].id = j /\ store'[u][j].tenant_id = u
  BY <1>1, <1>2, <1>4, <1>8 DEF TenantsInv, DropKey
<1> QED BY <1>7, <1>9 DEF TenantsInv, TenantsTypeOK, delete_item

(* The registry and the tiers. *)
LEMMA RegistryKeeps ==
    ASSUME TenantsInv, NEW t \in TenantIds,
           create(t) \/ delete_tenant(t) \/ \E s \in TenantStatus : update_status(t, s) \/ get_mut(t, s)
    PROVE  TenantsInv'
<1>1. PICK f : f = tenants
  OBVIOUS
<1>2. f \in Partial(TenantIds, TenantStatus) /\ DOMAIN f \subseteq drawn /\ handed \subseteq drawn
  BY <1>1 DEF TenantsInv, TenantsTypeOK
<1>3. "Active" \in TenantStatus
  BY DEF TenantStatus
<1>4. /\ tenants' \in Partial(TenantIds, TenantStatus) /\ DOMAIN tenants' \subseteq drawn'
      /\ handed' \subseteq drawn'
  <2>1. CASE create(t)
    <3>1. tenants' = SetKey(f, t, "Active") /\ drawn' = drawn \cup {t} /\ handed' = handed
      BY <1>1, <2>1 DEF create
    <3>2. DOMAIN SetKey(f, t, "Active") = DOMAIN f \cup {t}
      BY DEF SetKey
    <3> QED BY <1>2, <1>3, <3>1, <3>2, PartialMaps
  <2>2. CASE delete_tenant(t)
    <3>1. tenants' = DropKey(f, t) /\ drawn' = drawn /\ handed' = handed
      BY <1>1, <2>2 DEF delete_tenant
    <3>2. DOMAIN DropKey(f, t) \subseteq DOMAIN f
      BY DEF DropKey
    <3> QED BY <1>2, <1>3, <3>1, <3>2, PartialMaps
  <2>3. ASSUME NEW s \in TenantStatus, update_status(t, s) \/ get_mut(t, s)
        PROVE  /\ tenants' \in Partial(TenantIds, TenantStatus) /\ DOMAIN tenants' \subseteq drawn'
               /\ handed' \subseteq drawn'
    <3>1. /\ tenants' = [f EXCEPT ![t] = s] /\ drawn' = drawn /\ t \in DOMAIN f
          /\ handed' = handed \/ handed' = handed \cup {t}
      BY <1>1, <2>3 DEF update_status, get_mut
    <3> QED BY <1>2, <3>1, PartialMaps
  <2> QED BY <2>1, <2>2, <2>3
<1>5. UNCHANGED <<store, tiers>>
  BY DEF create, delete_tenant, update_status, get_mut
<1> QED BY <1>4, <1>5 DEF TenantsInv, TenantsTypeOK

(* Tiers are a map of their own. *)
LEMMA TiersKeep ==
    ASSUME TenantsInv, NEW i \in ItemIds, NEW a \in DOMAIN StorageTier, NEW b \in DOMAIN StorageTier,
           register_record(i, a) \/ migrate(i, a, b)
    PROVE  TenantsInv'
<1>1. PICK f : f = tiers
  OBVIOUS
<1>2. f \in Partial(ItemIds, DOMAIN StorageTier)
  BY <1>1 DEF TenantsInv, TenantsTypeOK
<1>3. tiers' = SetKey(f, i, a) \/ (i \in DOMAIN f /\ tiers' = [f EXCEPT ![i] = b])
  BY <1>1 DEF register_record, migrate
<1>4. tiers' \in Partial(ItemIds, DOMAIN StorageTier)
  <2>1. PICK T : T = DOMAIN StorageTier
    OBVIOUS
  <2>2. f \in Partial(ItemIds, T) /\ a \in T /\ b \in T
    BY <1>2, <2>1
  <2>3. SetKey(f, i, a) \in Partial(ItemIds, T)
    BY <2>2, PartialMaps
  <2>4. i \in DOMAIN f => [f EXCEPT ![i] = b] \in Partial(ItemIds, T)
    BY <2>2, PartialMaps
  <2> QED BY <1>3, <2>1, <2>3, <2>4
<1>5. UNCHANGED <<tenants, drawn, handed, store>>
  BY DEF register_record, migrate
<1> QED BY <1>4, <1>5 DEF TenantsInv, TenantsTypeOK

(* Every operation of the crate keeps the invariant. *)
LEMMA TenantsStepInv == TenantsInv /\ [TenantsNext]_tenantVars => TenantsInv'
<1> SUFFICES ASSUME TenantsInv, [TenantsNext]_tenantVars PROVE TenantsInv'
  OBVIOUS
<1>1. CASE UNCHANGED tenantVars
  BY <1>1 DEF tenantVars, TenantsInv, TenantsTypeOK
<1>2. CASE TenantsNext
  BY <1>2, RegistryKeeps, PutKeeps, DeleteKeeps, TiersKeep DEF TenantsNext
<1> QED BY <1>1, <1>2

(* exo-tenant, for any tenants and items: the maps keep their types, and whatever *)
(* is stored under a tenant and an id is that tenant's item of that id.           *)
THEOREM TenantsAreIsolated == TenantsSpec => [](TenantsTypeOK /\ TenantsIsolated)
<1>1. TenantsInv => TenantsTypeOK /\ TenantsIsolated
  BY DEF TenantsInv, TenantsIsolated, get_item, get_isolated
<1>2. TenantsSpec => []TenantsInv
  BY TenantsInitInv, TenantsStepInv, PTL DEF TenantsSpec
<1> QED BY <1>1, <1>2, PTL

(* tenant.rs:71-100: an archived tenant stays archived unless its status was *)
(* written through get_mut, a deleted one stays away.                        *)
THEOREM ArchivedStaysArchived == TenantsSpec => [][ArchivedForGood]_tenantVars
<1>1. ASSUME TenantsInv, TenantsNext PROVE ArchivedForGood
  <2>1. \/ tenants' = tenants
        \/ \E t \in TenantIds : create(t) \/ delete_tenant(t)
                                \/ \E s \in TenantStatus : update_status(t, s) \/ get_mut(t, s)
    BY <1>1 DEF TenantsNext, put, delete_item, register_record, migrate
  <2>2. CASE tenants' = tenants
    BY <2>2 DEF ArchivedForGood
  <2>3. ASSUME NEW t \in TenantIds, create(t) PROVE ArchivedForGood
    <3>1. DOMAIN tenants \subseteq drawn /\ t \notin drawn
      BY <1>1, <2>3 DEF TenantsInv, TenantsTypeOK, create
    <3> QED BY <2>3, <3>1 DEF ArchivedForGood, create, SetKey
  <2>4. ASSUME NEW t \in TenantIds, delete_tenant(t) PROVE ArchivedForGood
    BY <2>4 DEF ArchivedForGood, delete_tenant, DropKey
  <2>5. ASSUME NEW t \in TenantIds, NEW s \in TenantStatus, update_status(t, s) PROVE ArchivedForGood
    <3>1. tenants[t] # "Archived"
      BY <2>5 DEF update_status, StatusChanges
    <3> QED BY <2>5, <3>1 DEF ArchivedForGood, update_status
  <2>6. ASSUME NEW t \in TenantIds, NEW s \in TenantStatus, get_mut(t, s) PROVE ArchivedForGood
    BY <2>6 DEF ArchivedForGood, get_mut
  <2> QED BY <2>1, <2>2, <2>3, <2>4, <2>5, <2>6
<1>2. TenantsSpec => []TenantsInv
  BY TenantsInitInv, TenantsStepInv, PTL DEF TenantsSpec
<1> QED BY <1>1, <1>2, PTL DEF TenantsSpec

-----------------------------------------------------------------------------
(***************************************************************************)
(* Gatekeeper.                                                              *)
(***************************************************************************)
(* What a check reads of a context: whatever it asks, a context one of whose
   fields was taken from one in order passes it if both do. *)
LEMMA RepairKeeps ==
    ASSUME NEW ctx \in InvariantContext, NEW good \in InvariantContext, ctx.actor = good.actor,
           NEW f \in DOMAIN ctx, NEW inv \in ConstitutionalInvariant,
           check_invariant(inv, ctx), check_invariant(inv, good)
    PROVE  check_invariant(inv, Repair(ctx, good, f))
<1> DEFINE new == Repair(ctx, good, f)
<1>0. DOMAIN ctx = {"actor", "actor_branches", "bailment_state", "consent_records",
           "authority_chain", "is_self_grant", "human_override_preserved",
           "kernel_modification_attempted", "quorum_evidence", "provenance"}
  BY DEF InvariantContext
<1>1. new.actor = ctx.actor
  BY <1>0 DEF Repair
<1>2. \A g \in DOMAIN ctx : new[g] = ctx[g] \/ new[g] = good[g]
  BY DEF Repair
<1>3. /\ new.actor_branches \in {ctx.actor_branches, good.actor_branches}
      /\ new.bailment_state \in {ctx.bailment_state, good.bailment_state}
      /\ new.consent_records \in {ctx.consent_records, good.consent_records}
      /\ new.authority_chain \in {ctx.authority_chain, good.authority_chain}
      /\ new.is_self_grant \in {ctx.is_self_grant, good.is_self_grant}
      /\ new.human_override_preserved \in {ctx.human_override_preserved, good.human_override_preserved}
      /\ new.kernel_modification_attempted \in
            {ctx.kernel_modification_attempted, good.kernel_modification_attempted}
      /\ new.quorum_evidence \in {ctx.quorum_evidence, good.quorum_evidence}
      /\ new.provenance \in {ctx.provenance, good.provenance}
  BY <1>0, <1>2
<1> HIDE DEF new
<1>4. CASE inv = "SeparationOfPowers"
  BY <1>3, <1>4 DEF check_invariant, check_separation_of_powers, new
<1>5. CASE inv = "ConsentRequired"
  BY <1>1, <1>3, <1>5 DEF check_invariant, check_consent_required, new
<1>6. CASE inv = "NoSelfGrant"
  BY <1>3, <1>6 DEF check_invariant, check_no_self_grant, new
<1>7. CASE inv = "HumanOverride"
  BY <1>3, <1>7 DEF check_invariant, check_human_override, new
<1>8. CASE inv = "KernelImmutability"
  BY <1>3, <1>8 DEF check_invariant, check_kernel_immutability, new
<1>9. CASE inv = "AuthorityChainValid"
  BY <1>1, <1>3, <1>9 DEF check_invariant, check_authority_chain_valid, new
<1>10. CASE inv = "QuorumLegitimate"
  BY <1>3, <1>10 DEF check_invariant, check_quorum_legitimate, new
<1>11. CASE inv = "ProvenanceVerifiable"
  BY <1>1, <1>3, <1>11 DEF check_invariant, check_provenance_verifiable, new
<1> QED BY <1>4, <1>5, <1>6, <1>7, <1>8, <1>9, <1>10, <1>11 DEF ConstitutionalInvariant

(* The verdict on a set of violations. *)
Judge(violations) ==
    CASE violations = {} -> "Permitted"
      [] \E v \in {"QuorumLegitimate", "AuthorityChainValid"} : violations = {v} -> "Escalated"
      [] OTHER -> "Denied"

(* Fewer violations are never judged more severely. *)
LEMMA FewerIsMilder ==
    ASSUME NEW V, NEW W, V \subseteq W
    PROVE  Severity[Judge(V)] <= Severity[Judge(W)]
<1> DEFINE Mild(X) == \E v \in {"QuorumLegitimate", "AuthorityChainValid"} : X = {v}
<1>1. \A X : /\ X = {} => Judge(X) = "Permitted"
             /\ X # {} /\ Mild(X) => Judge(X) = "Escalated"
             /\ X # {} /\ ~Mild(X) => Judge(X) = "Denied"
  BY DEF Judge
<1>2. Mild(W) => V = {} \/ Mild(V)
  OBVIOUS
<1>3. W = {} => V = {}
  OBVIOUS
<1>4. Severity["Permitted"] = 0 /\ Severity["Escalated"] = 1 /\ Severity["Denied"] = 2
  BY DEF Severity
<1> HIDE DEF Mild
<1> QED BY <1>1, <1>2, <1>3, <1>4

(* The verdict on a context is the judgement of all the invariants. *)
LEMMA VerdictIsJudge ==
    ASSUME NEW engine, NEW ctx
    PROVE  adjudicate(engine, ctx) = Judge(enforce_all(engine, ctx))
BY DEF adjudicate, Judge

(* A context is permitted when it breaks no invariant. *)
LEMMA PermittedIsClean ==
    ASSUME NEW ctx
    PROVE  verdict_of(ctx) = "Permitted" <=> enforce_all(ConstitutionalInvariant, ctx) = {}
BY DEF verdict_of, adjudicate

(* kernel.rs: repairing a field only takes violations away. *)
LEMMA RepairsAreMilder ==
    ASSUME NEW ctx \in InvariantContext, NEW good \in InvariantContext, ctx.actor = good.actor,
           verdict_of(good) = "Permitted", NEW f \in DOMAIN ctx
    PROVE  Severity[verdict_of(Repair(ctx, good, f))] <= Severity[verdict_of(ctx)]
<1>1. \A inv \in ConstitutionalInvariant : check_invariant(inv, good)
  BY PermittedIsClean DEF enforce_all
<1>2. \A inv \in ConstitutionalInvariant :
         check_invariant(inv, ctx) => check_invariant(inv, Repair(ctx, good, f))
  BY <1>1, RepairKeeps
<1>3. enforce_all(ConstitutionalInvariant, Repair(ctx, good, f))
         \subseteq enforce_all(ConstitutionalInvariant, ctx)
  BY <1>2 DEF enforce_all
<1> QED BY <1>3, FewerIsMilder, VerdictIsJudge DEF verdict_of

(* The papers of one actor are nobody else's: the chain ends with the actor. *)
LEMMA PapersArePersonal ==
    ASSUME NEW ctx \in InvariantContext, NEW other, other # ctx.actor,
           verdict_of(ctx) = "Permitted"
    PROVE  verdict_of([ctx EXCEPT !.actor = other]) # "Permitted"
<1> DEFINE new == [ctx EXCEPT !.actor = other]
<1>1. new.actor = other /\ new.authority_chain = ctx.authority_chain
  BY DEF InvariantContext
<1>2. check_invariant("AuthorityChainValid", ctx) <=> check_authority_chain_valid(ctx)
  BY DEF check_invariant
<1>3. check_invariant("AuthorityChainValid", new) <=> check_authority_chain_valid(new)
  BY DEF check_invariant
<1>4. check_authority_chain_valid(ctx)
  BY <1>2, PermittedIsClean DEF enforce_all, ConstitutionalInvariant
<1>5. ~check_authority_chain_valid(new)
  BY <1>1, <1>4 DEF check_authority_chain_valid
<1>6. enforce_all(ConstitutionalInvariant, new) # {}
  BY <1>3, <1>5 DEF enforce_all, ConstitutionalInvariant
<1> QED BY <1>6, PermittedIsClean

(* kernel.rs adjudicate: of every set of contexts of one actor. *)
LEMMA FixingAlwaysHelps ==
    ASSUME NEW good \in InvariantContext, verdict_of(good) = "Permitted",
           NEW ctxs, ctxs \subseteq {ctx \in InvariantContext : ctx.actor = good.actor}
    PROVE  FixingHelps(ctxs, good)
<1> SUFFICES ASSUME NEW ctx \in ctxs
    PROVE /\ \A f \in DOMAIN ctx : Severity[verdict_of(Repair(ctx, good, f))] <= Severity[verdict_of(ctx)]
          /\ \A inv \in ConstitutionalInvariant :
               Severity[adjudicate(ConstitutionalInvariant \ {inv}, ctx)] <= Severity[verdict_of(ctx)]
          /\ \A other \in Actors \ {ctx.actor} :
               verdict_of(ctx) = "Permitted" => verdict_of([ctx EXCEPT !.actor = other]) # "Permitted"
  BY DEF FixingHelps
<1>0. ctx \in InvariantContext /\ ctx.actor = good.actor
  OBVIOUS
<1>1. \A f \in DOMAIN ctx : Severity[verdict_of(Repair(ctx, good, f))] <= Severity[verdict_of(ctx)]
  BY <1>0, RepairsAreMilder
<1>2. ASSUME NEW inv \in ConstitutionalInvariant
      PROVE  Severity[adjudicate(ConstitutionalInvariant \ {inv}, ctx)] <= Severity[verdict_of(ctx)]
  <2>1. enforce_all(ConstitutionalInvariant \ {inv}, ctx) \subseteq enforce_all(ConstitutionalInvariant, ctx)
    BY DEF enforce_all
  <2> QED BY <2>1, FewerIsMilder, VerdictIsJudge DEF verdict_of
<1>3. \A other \in Actors \ {ctx.actor} :
         verdict_of(ctx) = "Permitted" => verdict_of([ctx EXCEPT !.actor = other]) # "Permitted"
  BY <1>0, PapersArePersonal
<1> QED BY <1>1, <1>2, <1>3

-----------------------------------------------------------------------------
(* gatekeeper_bindings.rs: a context with all its fields is taken as it is. *)
ContextFields == {"actor", "actor_branches", "bailment_state", "consent_records",
                  "authority_chain", "is_self_grant", "human_override_preserved",
                  "kernel_modification_attempted", "quorum_evidence", "provenance"}

(* What serde makes of a request that lacks the fields F. *)
LEMMA RequestFields ==
    ASSUME NEW ctx \in InvariantContext, NEW F \in SUBSET Optional
    PROVE  LET r == WasmInvariantRequest(LeavingOut(ctx, F))
           IN  \A g \in ContextFields : r[g] = IF g \in F THEN Defaults[g] ELSE ctx[g]
<1>1. DOMAIN ctx = ContextFields /\ Optional \subseteq ContextFields
  BY DEF InvariantContext, ContextFields, Optional
<1>2. DOMAIN LeavingOut(ctx, F) = ContextFields \ F
  BY <1>1 DEF LeavingOut
<1>3. (ContextFields \ F) \cup Optional = ContextFields
  BY <1>1
<1> QED BY <1>2, <1>3 DEF WasmInvariantRequest, LeavingOut

(* A field left out hides what it would have shown. *)
LEMMA LeavingOutHides ==
    ASSUME NEW ctx \in InvariantContext, NEW F \in SUBSET Optional,
           NEW inv \in ConstitutionalInvariant, check_invariant(inv, ctx),
           inv = "ProvenanceVerifiable" => "provenance" \notin F
    PROVE  check_invariant(inv, WasmInvariantRequest(LeavingOut(ctx, F)))
<1> DEFINE r == WasmInvariantRequest(LeavingOut(ctx, F))
<1>1. \A g \in ContextFields : r[g] = IF g \in F THEN Defaults[g] ELSE ctx[g]
  BY RequestFields
<1> HIDE DEF r
<1>2. /\ r.actor = ctx.actor /\ r.actor_branches = ctx.actor_branches
      /\ r.bailment_state = ctx.bailment_state /\ r.consent_records = ctx.consent_records
      /\ r.authority_chain = ctx.authority_chain
  BY <1>1 DEF ContextFields, Optional
<1>3. /\ r.is_self_grant \in {ctx.is_self_grant, FALSE}
      /\ r.human_override_preserved \in {ctx.human_override_preserved, TRUE}
      /\ r.kernel_modification_attempted \in {ctx.kernel_modification_attempted, FALSE}
      /\ r.quorum_evidence \in {ctx.quorum_evidence, {}}
      /\ "provenance" \notin F => r.provenance = ctx.provenance
  BY <1>1 DEF ContextFields, Defaults
<1>4. CASE inv = "SeparationOfPowers"
  BY <1>2, <1>4 DEF check_invariant, check_separation_of_powers, r
<1>5. CASE inv = "ConsentRequired"
  BY <1>2, <1>5 DEF check_invariant, check_consent_required, r
<1>6. CASE inv = "NoSelfGrant"
  BY <1>3, <1>6 DEF check_invariant, check_no_self_grant, r
<1>7. CASE inv = "HumanOverride"
  BY <1>3, <1>7 DEF check_invariant, check_human_override, r
<1>8. CASE inv = "KernelImmutability"
  BY <1>3, <1>8 DEF check_invariant, check_kernel_immutability, r
<1>9. CASE inv = "AuthorityChainValid"
  BY <1>2, <1>9 DEF check_invariant, check_authority_chain_valid, r
<1>10. CASE inv = "QuorumLegitimate"
  BY <1>3, <1>10 DEF check_invariant, check_quorum_legitimate, r
<1>11. CASE inv = "ProvenanceVerifiable"
  BY <1>2, <1>3, <1>11 DEF check_invariant, check_provenance_verifiable, r
<1> QED BY <1>4, <1>5, <1>6, <1>7, <1>8, <1>9, <1>10, <1>11 DEF ConstitutionalInvariant

(* The bindings and the kernel judge alike. *)
LEMMA BindingsAlwaysAgree ==
    ASSUME NEW ctxs, ctxs \subseteq InvariantContext
    PROVE  BindingsAgree(ctxs)
<1> SUFFICES ASSUME NEW ctx \in ctxs
    PROVE /\ wasm_enforce_invariants(ctx).passed <=> verdict_of(ctx) = "Permitted"
          /\ \A F \in SUBSET Optional :
               wasm_enforce_invariants(LeavingOut(ctx, F)).violations \subseteq
                  wasm_enforce_invariants(ctx).violations \cup
                     (IF "provenance" \in F THEN {"ProvenanceVerifiable"} ELSE {})
  BY DEF BindingsAgree
<1>0. ctx \in InvariantContext
  OBVIOUS
<1>1. WasmInvariantRequest(ctx) = ctx
  <2>1. DOMAIN ctx \cup Optional = DOMAIN ctx /\ ctx = [g \in DOMAIN ctx |-> ctx[g]]
    BY <1>0 DEF InvariantContext, Optional
  <2> QED BY <2>1 DEF WasmInvariantRequest
<1>2. /\ wasm_enforce_invariants(ctx).passed = (enforce_all(ConstitutionalInvariant, ctx) = {})
      /\ wasm_enforce_invariants(ctx).violations = enforce_all(ConstitutionalInvariant, ctx)
  BY <1>1 DEF wasm_enforce_invariants
<1>3. ASSUME NEW F \in SUBSET Optional
      PROVE  wasm_enforce_invariants(LeavingOut(ctx, F)).violations \subseteq
                wasm_enforce_invariants(ctx).violations \cup
                   (IF "provenance" \in F THEN {"ProvenanceVerifiable"} ELSE {})
  <2> DEFINE r == WasmInvariantRequest(LeavingOut(ctx, F))
  <2>1. wasm_enforce_invariants(LeavingOut(ctx, F)).violations = enforce_all(ConstitutionalInvariant, r)
    BY DEF wasm_enforce_invariants
  <2>2. \A inv \in ConstitutionalInvariant :
           /\ check_invariant(inv, ctx)
           /\ inv = "ProvenanceVerifiable" => "provenance" \notin F
           => check_invariant(inv, r)
    BY <1>0, LeavingOutHides
  <2> HIDE DEF r
  <2> QED BY <1>2, <2>1, <2>2 DEF enforce_all
<1> QED BY <1>2, <1>3, PermittedIsClean

(* Kernel and bindings: any contexts. *)
LEMMA KernelIsSound == KernelSound
<1>1. ASSUME NEW good \in Contexts, verdict_of(good) = "Permitted"
      PROVE  FixingHelps({ctx \in Contexts : ctx.actor = good.actor}, good)
  BY <1>1, HolonAssumption, FixingAlwaysHelps
<1> QED BY <1>1, HolonAssumption, BindingsAlwaysAgree DEF KernelSound

-----------------------------------------------------------------------------
(* tee.rs: attestations age, whatever the bound of the clock. *)
LEMMA AttestationsAlwaysAge == AttestationsAge
<1> SUFFICES ASSUME NEW platform \in TeePlatform, NEW m \in Measurements,
                    NEW policy \in {production, testing}, NEW made \in 0..MaxTime,
                    NEW max_age \in 0..MaxTime, NEW required \in SUBSET Measurements
    PROVE LET p == [policy EXCEPT !.max_age_ms = max_age, !.required_measurements = required]
              att == generate_attestation(platform, m, made)
          IN  /\ \A now \in made..MaxTime :
                /\ platform = "Simulated" /\ policy = production => ~verify_attestation(att, p, now)
                /\ verify_attestation(att, p, now + 1) => verify_attestation(att, p, now)
                /\ max_age > 0 /\ now - made > max_age => ~verify_attestation(att, p, now)
              /\ \A other \in TeePlatform, n \in Measurements, at, now \in 0..MaxTime :
                   verify_attestation([att EXCEPT !.platform = other, !.measurement_hash = n,
                                                  !.timestamp = at], p, now)
                   => other = platform /\ n = m /\ at = made
  BY DEF AttestationsAge
<1> DEFINE p == [policy EXCEPT !.max_age_ms = max_age, !.required_measurements = required]
           att == generate_attestation(platform, m, made)
<1>1. MaxTime \in Nat
  BY MonitorAssumption
<1>2. /\ p.max_age_ms = max_age /\ p.required_measurements = required
      /\ p.accepted_platforms = policy.accepted_platforms /\ p.environment = policy.environment
  BY DEF production, testing
<1>3. /\ att.platform = platform /\ att.measurement_hash = m /\ att.timestamp = made
      /\ att.signature = <<m, made, platform>>
  BY DEF generate_attestation, Quote
<1>4. policy = production => "Simulated" \notin policy.accepted_platforms
  BY DEF production
<1>5. \A other, n, at :
         LET it == [att EXCEPT !.platform = other, !.measurement_hash = n, !.timestamp = at]
         IN  /\ it.platform = other /\ it.measurement_hash = n /\ it.timestamp = at
             /\ it.signature = <<m, made, platform>>
  BY DEF generate_attestation, Quote
<1> HIDE DEF p, att
<1>6. ASSUME NEW now \in made..MaxTime
      PROVE  /\ platform = "Simulated" /\ policy = production => ~verify_attestation(att, p, now)
             /\ verify_attestation(att, p, now + 1) => verify_attestation(att, p, now)
             /\ max_age > 0 /\ now - made > max_age => ~verify_attestation(att, p, now)
  <2>1. now \in Int /\ made \in Int /\ max_age \in Int
    BY <1>1
  <2>2. platform = "Simulated" /\ policy = production => ~verify_attestation(att, p, now)
    BY <1>2, <1>3, <1>4 DEF verify_attestation, is_platform_allowed
  <2>3. verify_attestation(att, p, now + 1) => verify_attestation(att, p, now)
    BY <1>2, <1>3, <2>1 DEF verify_attestation
  <2>4. max_age > 0 /\ now - made > max_age => ~verify_attestation(att, p, now)
    BY <1>2, <1>3, <2>1 DEF verify_attestation
  <2> QED BY <2>2, <2>3, <2>4
<1>7. ASSUME NEW other \in TeePlatform, NEW n \in Measurements, NEW at \in 0..MaxTime,
             NEW now \in 0..MaxTime,
             verify_attestation([att EXCEPT !.platform = other, !.measurement_hash = n,
                                            !.timestamp = at], p, now)
      PROVE  other = platform /\ n = m /\ at = made
  BY <1>5, <1>7 DEF verify_attestation, Quote
<1> QED BY <1>6, <1>7 DEF p, att

-----------------------------------------------------------------------------
(* The monitor: what was evicted lies before every window to come, and the
   gate stands where the last human put it. *)
MonInv ==
    /\ clock \in Nat
    /\ critical \subseteq all_found
    /\ \A f \in all_found : f[1] \in Nat
    /\ \A f \in all_found \ critical : f[1] < clock - Window
    /\ \E S : decisions \in Seq(S)
    /\ (\A i \in DOMAIN decisions : ~ByHuman(i)) => gate = "Pending"
    /\ \A i \in DOMAIN decisions :
          ByHuman(i) /\ (\A j \in DOMAIN decisions : j > i => ~ByHuman(j)) => gate = decisions[i][1]

(* A fresh monitor. *)
LEMMA MonInitInv == MonInit => MonInv
<1> SUFFICES ASSUME MonInit PROVE MonInv
  OBVIOUS
<1>1. decisions \in Seq({})
  BY DEF MonInit
<1> QED BY <1>1 DEF MonInit, MonInv

(* One more decision: a human's moves the gate, and no other. *)
LEMMA DecideInv ==
    ASSUME MonInv, NEW status, NEW signer_type, Decide(status, signer_type)
    PROVE  MonInv'
<1>1. PICK S : decisions \in Seq(S)
  BY DEF MonInv
<1> DEFINE e == <<status, signer_type>>
           T == S \cup {e}
<1>2. decisions \in Seq(T) /\ e \in T
  BY <1>1
<1>3. decisions' = Append(decisions, e)
  BY DEF Decide
<1>n. PICK n \in Nat : n = Len(decisions)
  BY <1>1
<1>4. /\ DOMAIN decisions = 1..n
      /\ decisions' \in Seq(T) /\ DOMAIN decisions' = 1..(n + 1)
      /\ decisions'[n + 1] = e
      /\ \A i \in 1..n : decisions'[i] = decisions[i]
  BY <1>2, <1>3, <1>n
<1>5. decisions'[n + 1][1] = status /\ decisions'[n + 1][2] = signer_type
  BY <1>4
<1> HIDE DEF e, T
<1>6. gate' = IF signer_type = "Human" THEN status ELSE gate
  BY DEF Decide
<1>7. (\A i \in 1..n : decisions[i][2] # "Human") => gate = "Pending"
  BY <1>4 DEF MonInv, ByHuman
<1>8. \A i \in 1..n :
          decisions[i][2] = "Human" /\ (\A j \in 1..n : j > i => decisions[j][2] # "Human")
             => gate = decisions[i][1]
  BY <1>4 DEF MonInv, ByHuman
<1>9. (\A i \in 1..(n + 1) : decisions'[i][2] # "Human") => gate' = "Pending"
  BY <1>4, <1>5, <1>6, <1>7
<1>10. ASSUME NEW i \in 1..(n + 1), decisions'[i][2] = "Human",
              \A j \in 1..(n + 1) : j > i => decisions'[j][2] # "Human"
       PROVE  gate' = decisions'[i][1]
  <2>1. CASE i = n + 1
    BY <1>5, <1>6, <1>10, <2>1
  <2>2. CASE i \in 1..n
    <3>1. decisions'[n + 1][2] # "Human"
      BY <1>10, <2>2
    <3>2. gate' = gate
      BY <1>5, <1>6, <3>1
    <3>3. \A j \in 1..n : j > i => decisions[j][2] # "Human"
      BY <1>4, <1>10
    <3> QED BY <1>4, <1>8, <1>10, <2>2, <3>2, <3>3
  <2> QED BY <2>1, <2>2
<1>11. /\ (\A i \in DOMAIN decisions' : ~ByHuman(i)') => gate' = "Pending"
       /\ \A i \in DOMAIN decisions' :
             ByHuman(i)' /\ (\A j \in DOMAIN decisions' : j > i => ~ByHuman(j)')
                => gate' = decisions'[i][1]
  BY <1>4, <1>9, <1>10 DEF ByHuman
<1>12. UNCHANGED <<clock, critical, all_found>>
  BY DEF Decide
<1>13. \E R : decisions' \in Seq(R)
  BY <1>4
<1> QED BY <1>11, <1>12, <1>13 DEF MonInv

(* What the monitor and its approvers do keeps the invariant. *)
LEMMA MonStepInv == MonInv /\ [MonNext]_monVars => MonInv'
<1> SUFFICES ASSUME MonInv, [MonNext]_monVars PROVE MonInv'
  OBVIOUS
<1> USE MonitorAssumption
<1>1. ASSUME NEW n \in 1..(Threshold + 1), record_critical_findings(n) PROVE MonInv'
  <2> DEFINE new == {clock} \X ((Cardinality(all_found) + 1)..(Cardinality(all_found) + n))
  <2>1. critical' = critical \cup new /\ all_found' = all_found \cup new
    BY <1>1 DEF record_critical_findings
  <2>2. \A f \in new : f[1] = clock
    OBVIOUS
  <2>3. UNCHANGED <<clock, gate, decisions>>
    BY <1>1 DEF record_critical_findings
  <2> HIDE DEF new
  <2> QED BY <2>1, <2>2, <2>3 DEF MonInv, ByHuman
<1>2. CASE evict_expired
  BY <1>2 DEF evict_expired, Kept, MonInv, ByHuman
<1>3. CASE Tick
  BY <1>3 DEF Tick, MonInv, ByHuman
<1>4. ASSUME NEW signer_type \in {"Human", "Ai"}, approve(signer_type) \/ reject(signer_type)
      PROVE  MonInv'
  BY <1>4, DecideInv DEF approve, reject
<1>5. CASE UNCHANGED monVars
  BY <1>5 DEF monVars, MonInv, ByHuman
<1> QED BY <1>1, <1>2, <1>3, <1>4, <1>5 DEF MonNext

(* What was evicted lies outside every window still to come. *)
LEMMA BreakerFromInv == MonInv => BreakerExact
<1> SUFFICES ASSUME MonInv PROVE BreakerExact
  OBVIOUS
<1>1. ASSUME NEW now \in clock..MaxTime
      PROVE  Recent(critical, now) = Recent(all_found, now)
  BY MonitorAssumption DEF MonInv, Recent
<1> QED BY <1>1 DEF BreakerExact, MonInv, check

-----------------------------------------------------------------------------
(* Holons: what a holon holds, and what its checkpoints hold, its program
   made of some input, or a checkpoint from elsewhere brought in. *)
Outputs == {{}} \cup {Reduction(p, in) : p \in Programs, in \in Inputs} \cup Foreign
MadeBy(output, program) == output = {} \/ \E in \in Inputs : output = Reduction(program, in)
Accounted(x, output, program, brought) ==
    MadeBy(output, program) \/ (output \in Foreign /\ CheckpointOf(x, output) \in brought)

HolonInv ==
    /\ holons \in [Holons -> [state : HolonState, program : Programs, last_output : Outputs]]
    /\ saved \subseteq [holon_id : Holons, last_output : Outputs]
    /\ verdict \in [Holons -> Verdict \cup {"None"}]
    /\ \A x \in Holons : Accounted(x, holons[x].last_output, holons[x].program, presented)
    /\ \A c \in saved : Accounted(c.holon_id, c.last_output, holons[c.holon_id].program, presented)
    /\ \A x \in Holons : verdict[x] = "None" /\ saved = {} => holons[x].state = "Idle"

(* Freshly spawned holons. *)
LEMMA HolonInitInv == HolonInit => HolonInv
BY DEF HolonInit, HolonInv, spawn, HolonState, Outputs, Accounted, MadeBy, Verdict

(* Every context gets a verdict. *)
LEMMA VerdictTyped == ASSUME NEW ctx PROVE verdict_of(ctx) \in Verdict /\ verdict_of(ctx) # "None"
BY DEF verdict_of, adjudicate, Verdict

(* Stepping, suspending and resuming a holon keep its outputs its program's. *)
LEMMA HolonStepInv == HolonInv /\ [HolonNext]_holonVars => HolonInv'
<1> SUFFICES ASSUME HolonInv, [HolonNext]_holonVars PROVE HolonInv'
  OBVIOUS
<1>1. ASSUME NEW x \in Holons, NEW input \in Inputs, NEW ctx \in Contexts, step(x, input, ctx)
      PROVE  HolonInv'
  <2> DEFINE v == verdict_of(StepContext(x, ctx))
             output == Reduction(holons[x].program, input)
  <2>1. v \in {"Permitted", "Denied", "Escalated"}
    BY VerdictTyped DEF Verdict
  <2>2. output \in Outputs /\ MadeBy(output, holons[x].program)
    BY DEF HolonInv, Outputs, MadeBy
  <2>3. verdict' = [verdict EXCEPT ![x] = v] /\ saved' = saved /\ presented' = presented
    BY <1>1 DEF step
  <2>4. PICK st \in HolonState, out \in {output, holons[x].last_output} :
           holons' = [holons EXCEPT ![x].state = st, ![x].last_output = out]
    BY <1>1, <2>1 DEF step, HolonState
  <2>5. \A y \in Holons : holons[y] \in [state : HolonState, program : Programs, last_output : Outputs]
    BY DEF HolonInv
  <2>6. /\ DOMAIN holons' = Holons
        /\ \A y \in Holons : y # x => holons'[y] = holons[y]
        /\ holons'[x] = [state |-> st, program |-> holons[x].program, last_output |-> out]
    BY <2>4, <2>5 DEF HolonInv
  <2>7. out \in Outputs /\ Accounted(x, out, holons[x].program, presented)
    BY <2>2, <2>4, <2>5 DEF HolonInv, Accounted
  <2> HIDE DEF v, output
  <2>8. /\ verdict' \in [Holons -> Verdict \cup {"None"}]
        /\ \A y \in Holons : verdict'[y] = "None" => verdict[y] = "None" /\ y # x
    BY <2>1, <2>3 DEF HolonInv, Verdict
  <2>9. holons' \in [Holons -> [state : HolonState, program : Programs, last_output : Outputs]]
    <3>1. holons[x].program \in Programs
      BY <2>5
    <3>2. holons'[x] \in [state : HolonState, program : Programs, last_output : Outputs]
      BY <2>6, <2>7, <3>1
    <3>3. holons' = [y \in Holons |-> holons'[y]]
      BY <2>4 DEF HolonInv
    <3> QED BY <2>5, <2>6, <3>2, <3>3
  <2>10. \A y \in Holons : holons'[y].program = holons[y].program
    BY <2>6
  <2>11. \A y \in Holons : Accounted(y, holons'[y].last_output, holons'[y].program, presented')
    BY <2>3, <2>6, <2>7, <2>10 DEF HolonInv
  <2>12. \A c \in saved' : Accounted(c.holon_id, c.last_output, holons'[c.holon_id].program, presented')
    BY <2>3, <2>10 DEF HolonInv
  <2> QED BY <2>3, <2>6, <2>8, <2>9, <2>11, <2>12 DEF HolonInv
<1>2. ASSUME NEW x \in Holons, suspend(x) PROVE HolonInv'
  <2>1. /\ holons' = [holons EXCEPT ![x].state = "Suspended"]
        /\ verdict' = verdict /\ presented' = presented
        /\ saved' = saved \cup {CheckpointOf(x, holons[x].last_output)}
    BY <1>2 DEF suspend
  <2>2. \A y \in Holons : holons[y] \in [state : HolonState, program : Programs, last_output : Outputs]
    BY DEF HolonInv
  <2>3. holons' \in [Holons -> [state : HolonState, program : Programs, last_output : Outputs]]
    BY <2>1, <2>2 DEF HolonInv, HolonState
  <2>4. \A y \in Holons : /\ holons'[y].program = holons[y].program
                           /\ holons'[y].last_output = holons[y].last_output
    BY <2>1, <2>2 DEF HolonInv
  <2>5. CheckpointOf(x, holons[x].last_output) \in [holon_id : Holons, last_output : Outputs]
    BY <2>2 DEF CheckpointOf
  <2>6. CheckpointOf(x, holons[x].last_output).holon_id = x
        /\ CheckpointOf(x, holons[x].last_output).last_output = holons[x].last_output
    BY DEF CheckpointOf
  <2>7. \A c \in saved' : Accounted(c.holon_id, c.last_output, holons'[c.holon_id].program, presented')
    BY <2>1, <2>4, <2>6 DEF HolonInv
  <2>8. \A y \in Holons : Accounted(y, holons'[y].last_output, holons'[y].program, presented')
    BY <2>1, <2>4 DEF HolonInv
  <2> QED BY <2>1, <2>3, <2>5, <2>7, <2>8 DEF HolonInv
<1>3. ASSUME NEW x \in Holons, NEW c \in saved \cup [holon_id : Actors, last_output : Foreign],
             resume(x, c)
      PROVE  HolonInv'
  <2>1. PICK out : out = c.last_output
    OBVIOUS
  <2>2. /\ holons' = [holons EXCEPT ![x].state = "Idle", ![x].last_output = out]
        /\ presented' = presented \cup ({c} \ saved) /\ saved' = saved /\ verdict' = verdict
        /\ c.holon_id = x /\ holons[x].state = "Suspended"
    BY <1>3, <2>1 DEF resume
  <2>3. \A y \in Holons : holons[y] \in [state : HolonState, program : Programs, last_output : Outputs]
    BY DEF HolonInv
  <2>4. out \in Outputs /\ Accounted(x, out, holons[x].program, presented')
    <3>1. CASE c \in saved
      BY <2>1, <2>2, <3>1 DEF HolonInv, Accounted
    <3>2. CASE c \notin saved
      <4>1. c = CheckpointOf(x, out) /\ out \in Foreign
        BY <2>1, <2>2, <3>2 DEF CheckpointOf
      <4> QED BY <2>2, <3>2, <4>1 DEF Accounted, Outputs
    <3> QED BY <3>1, <3>2
  <2>5. /\ DOMAIN holons' = Holons
        /\ \A y \in Holons : y # x => holons'[y] = holons[y]
        /\ holons'[x] = [state |-> "Idle", program |-> holons[x].program, last_output |-> out]
    BY <2>2, <2>3 DEF HolonInv
  <2>6. holons' \in [Holons -> [state : HolonState, program : Programs, last_output : Outputs]]
    <3>1. holons'[x] \in [state : HolonState, program : Programs, last_output : Outputs]
      BY <2>3, <2>4, <2>5 DEF HolonState
    <3>2. holons' = [y \in Holons |-> holons'[y]]
      BY <2>2 DEF HolonInv
    <3> QED BY <2>3, <2>5, <3>1, <3>2
  <2>7. presented \subseteq presented'
    BY <2>2
  <2>8. \A y \in Holons : Accounted(y, holons'[y].last_output, holons'[y].program, presented')
    BY <2>4, <2>5, <2>7 DEF HolonInv, Accounted
  <2>9. \A d \in saved' : Accounted(d.holon_id, d.last_output, holons'[d.holon_id].program, presented')
    BY <2>2, <2>5, <2>7 DEF HolonInv, Accounted
  <2>10. \A y \in Holons : verdict'[y] = "None" /\ saved' = {} => holons'[y].state = "Idle"
    BY <2>2, <2>5 DEF HolonInv
  <2> QED BY <2>2, <2>6, <2>8, <2>9, <2>10 DEF HolonInv
<1>4. CASE UNCHANGED holonVars
  BY <1>4 DEF holonVars, HolonInv
<1> QED BY <1>1, <1>2, <1>3, <1>4 DEF HolonNext

(* A host that reduces the program gets the output the holon holds. *)
LEMMA OutputsFromInv == HolonInv => OutputsReproducible
<1> SUFFICES ASSUME HolonInv PROVE OutputsReproducible
  OBVIOUS
<1>1. ASSUME NEW x \in Holons, NEW out \in holons[x].last_output
      PROVE  \/ \E in \in Inputs : /\ wasm_step_combinator(holons[x].program, in) = {out}
                                  /\ wasm_reduce_combinator(holons[x].program, in) = {out}
             \/ CheckpointOf(x, {out}) \in presented
  <2>1. PICK p, outs : p = holons[x].program /\ outs = holons[x].last_output
    OBVIOUS
  <2>2. p \in Programs /\ out \in outs /\ Accounted(x, outs, p, presented)
    BY <1>1, <2>1 DEF HolonInv
  <2>3. CASE MadeBy(outs, p)
    <3>1. PICK in \in Inputs : outs = Reduction(p, in)
      BY <2>2, <2>3 DEF MadeBy
    <3>2. outs = {out}
      BY <2>2, <3>1, HolonAssumption
    <3> QED BY <2>1, <3>1, <3>2 DEF wasm_step_combinator, wasm_reduce_combinator
  <2>4. CASE outs \in Foreign /\ CheckpointOf(x, outs) \in presented
    <3>1. outs = {out}
      BY <2>2, <2>4, HolonAssumption
    <3> QED BY <2>4, <3>1
  <2> QED BY <2>2, <2>3, <2>4 DEF Accounted
<1>2. ASSUME NEW x \in Holons, verdict[x] = "None", saved = {}
      PROVE  wasm_spawn_holon(x, holons[x].program) = [id |-> x, state |-> holons[x].state]
  BY <1>2 DEF HolonInv, wasm_spawn_holon, spawn
<1> QED BY <1>1, <1>2 DEF OutputsReproducible

(* Every step of a holon is one the kernel or its owner governs. *)
LEMMA StepGoverned == HolonInv /\ [HolonNext]_holonVars => HolonsGoverned
<1> SUFFICES ASSUME HolonInv, [HolonNext]_holonVars PROVE HolonsGoverned
  OBVIOUS
<1>1. ASSUME NEW x \in Holons, NEW input \in Inputs, NEW ctx \in Contexts, step(x, input, ctx)
      PROVE  HolonsGoverned
  BY <1>1, VerdictTyped DEF step, CanStep, HolonInv, HolonsGoverned, Verdict
<1>2. ASSUME NEW x \in Holons, suspend(x) PROVE HolonsGoverned
  BY <1>2 DEF suspend, HolonInv, HolonsGoverned
<1>3. ASSUME NEW x \in Holons, NEW c \in saved \cup [holon_id : Actors, last_output : Foreign],
             resume(x, c)
      PROVE  HolonsGoverned
  <2>1. c = CheckpointOf(x, c.last_output)
    BY <1>3 DEF resume, HolonInv, CheckpointOf
  <2>2. c \in saved \cup presented'
    BY <1>3 DEF resume
  <2> QED BY <1>3, <2>1, <2>2 DEF resume, HolonInv, HolonsGoverned
<1>4. CASE UNCHANGED holonVars
  BY <1>4 DEF holonVars, HolonsGoverned
<1> QED BY <1>1, <1>2, <1>3, <1>4 DEF HolonNext

(* kernel.rs, holon.rs, governance_monitor.rs, tee.rs: for any actors, keys,
   contexts, programs and bounds. *)
THEOREM GatekeeperIsSound == HolonSpec /\ MonSpec => []GatekeeperSound
<1>1. HolonSpec => []HolonInv
  BY HolonInitInv, HolonStepInv, PTL DEF HolonSpec
<1>2. MonSpec => []MonInv
  BY MonInitInv, MonStepInv, PTL DEF MonSpec
<1>3. HolonInv /\ MonInv => GatekeeperSound
  BY KernelIsSound, AttestationsAlwaysAge, OutputsFromInv, BreakerFromInv DEF GatekeeperSound
<1> QED BY <1>1, <1>2, <1>3, PTL

(* holon.rs step, suspend and resume. *)
THEOREM HolonsAreGoverned == HolonSpec => [][HolonsGoverned]_holonVars
<1>1. HolonSpec => []HolonInv
  BY HolonInitInv, HolonStepInv, PTL DEF HolonSpec
<1>2. HolonInv /\ [HolonNext]_holonVars => [HolonsGoverned]_holonVars
  BY StepGoverned
<1> QED BY <1>1, <1>2, PTL DEF HolonSpec

-----------------------------------------------------------------------------
(***************************************************************************)
(* The request path.                                                        *)
(***************************************************************************)
Answers == [outcome : Outcomes, request : Request, consent : BOOLEAN, verdict : Verdicts, now : Times]

OkIn(ans) == {j \in DOMAIN ans : ans[j].outcome = "ok"}
Rank(S, j) == Cardinality({k \in S : k <= j})

(* One answer more: the successes are the earlier ones and, if it is one, the new one. *)
LEMMA OneMoreAnswer ==
    ASSUME NEW ans \in Seq(Answers), NEW a \in Answers
    PROVE  /\ OkIn(Append(ans, a)) = IF a.outcome = "ok" THEN OkIn(ans) \cup {Len(ans) + 1} ELSE OkIn(ans)
           /\ OkIn(ans) \subseteq 1..Len(ans)
<1>1. PICK n : n = Len(ans)
  OBVIOUS
<1>2. PICK bs : bs = Append(ans, a)
  OBVIOUS
<1>3. n \in Nat /\ DOMAIN ans = 1..n
  BY <1>1, LenProperties
<1>4. bs \in Seq(Answers) /\ Len(bs) = n + 1 /\ (\A k \in 1..n : bs[k] = ans[k]) /\ bs[n + 1] = a
  BY <1>1, <1>2, AppendProperties
<1>5. DOMAIN bs = 1..(n + 1)
  BY <1>4, LenProperties
<1>6. DOMAIN bs = 1..n \cup {n + 1}
  BY <1>3, <1>5
<1>7. ASSUME NEW j PROVE j \in OkIn(bs) <=> (j \in OkIn(ans) \/ (j = n + 1 /\ a.outcome = "ok"))
  <2>1. CASE j \in 1..n
    BY <1>3, <1>4, <1>6, <2>1 DEF OkIn
  <2>2. CASE j = n + 1
    BY <1>3, <1>4, <1>6, <2>2 DEF OkIn
  <2>3. CASE j \notin DOMAIN bs
    BY <1>3, <1>6, <2>3 DEF OkIn
  <2> QED BY <1>6, <2>1, <2>2, <2>3
<1>8. OkIn(bs) = IF a.outcome = "ok" THEN OkIn(ans) \cup {n + 1} ELSE OkIn(ans)
  BY <1>7
<1>9. OkIn(ans) \subseteq 1..n
  BY <1>3 DEF OkIn
<1> QED BY <1>1, <1>2, <1>8, <1>9

(* The rank of a member of a set of places, and of the place after them. *)
LEMMA Ranks ==
    ASSUME NEW n \in Nat, NEW S \in SUBSET (1..n)
    PROVE  /\ Cardinality(S) \in Nat
           /\ \A j \in S : Rank(S \cup {n + 1}, j) = Rank(S, j) /\ Rank(S, j) \in 1..Cardinality(S)
           /\ Cardinality(S \cup {n + 1}) = Cardinality(S) + 1
           /\ Rank(S \cup {n + 1}, n + 1) = Cardinality(S) + 1
<1>1. IsFiniteSet(S) /\ Cardinality(S) \in Nat
  <2>1. IsFiniteSet(1..n)
    BY FS_Interval
  <2> QED BY <2>1, FS_Subset, FS_CardinalityType
<1>2. ASSUME NEW j \in S
      PROVE  Rank(S \cup {n + 1}, j) = Rank(S, j) /\ Rank(S, j) \in 1..Cardinality(S)
  <2> DEFINE L == {k \in S : k <= j}
  <2>1. {k \in S \cup {n + 1} : k <= j} = L
    OBVIOUS
  <2>2. L \subseteq S /\ j \in L
    OBVIOUS
  <2> HIDE DEF L
  <2>3. IsFiniteSet(L) /\ Cardinality(L) \in Nat /\ Cardinality(L) <= Cardinality(S)
    BY <1>1, <2>2, FS_Subset, FS_CardinalityType
  <2>4. Cardinality(L) # 0
    BY <2>2, <2>3, FS_EmptySet
  <2>5. Cardinality(L) \in 1..Cardinality(S)
    BY <1>1, <2>3, <2>4
  <2> QED BY <2>1, <2>5 DEF Rank, L
<1>3. n + 1 \notin S
  OBVIOUS
<1>4. Cardinality(S \cup {n + 1}) = Cardinality(S) + 1
  BY <1>1, <1>3, FS_AddElement
<1>5. {k \in S \cup {n + 1} : k <= n + 1} = S \cup {n + 1}
  <2>1. \A k \in S \cup {n + 1} : k <= n + 1
    OBVIOUS
  <2> QED BY <2>1, Zenon
<1> QED BY <1>1, <1>2, <1>4, <1>5 DEF Rank

(* Only a request that passes every gate is answered with a success. *)
LEMMA OnlyThroughTheGates ==
    ASSUME NEW request \in Request, NEW consent \in BOOLEAN, NEW ruling \in Verdicts,
           NEW now \in Times, NEW later \in Times
    PROVE  /\ Outcome(request, consent, ruling, now, later) \in Outcomes
           /\ Outcome(request, consent, ruling, now, later) = "ok" =>
                 /\ consent /\ ruling = "Allow" /\ request.signed /\ later # 0
                 /\ request.did = "did:exo:a"
                 /\ now - request.timestamp \in -FRESHNESS_WINDOW..FRESHNESS_WINDOW
<1>1. Outcome(request, consent, ruling, now, later) \in Outcomes
  BY DEF Outcome, Outcomes, default_deny_check
<1>2. ASSUME Outcome(request, consent, ruling, now, later) = "ok"
      PROVE  /\ authenticate(request, now) /\ consent /\ ruling = "Allow" /\ later # 0
  BY <1>2 DEF Outcome, default_deny_check, consent_middleware, governance_middleware, audit_middleware
<1>3. ASSUME authenticate(request, now)
      PROVE  /\ request.signed /\ request.did = "did:exo:a"
             /\ now - request.timestamp \in -FRESHNESS_WINDOW..FRESHNESS_WINDOW
  <2>1. now \in Nat /\ request.timestamp \in Nat /\ FRESHNESS_WINDOW \in Nat
    BY RouteAssumption DEF Request
  <2> QED BY <1>3, <2>1 DEF authenticate, check_freshness
<1> QED BY <1>1, <1>2, <1>3

RoutesInv == RoutesTypeOK /\ LogIsSuccesses

(* A request that is answered keeps the log what it is. *)
LEMMA RequestKeeps ==
    ASSUME RoutesInv, NEW request \in Request, NEW consent \in BOOLEAN, NEW ruling \in Verdicts,
           NEW now \in Times, NEW later \in Times,
           process_request(request, consent, ruling, now, later)
    PROVE  RoutesInv'
<1>1. PICK ans, es, out, n :
         ans = answers /\ es = entries /\ out = Outcome(request, consent, ruling, now, later)
         /\ n = Cardinality(Successes)
  OBVIOUS
<1>2. PICK a : a = [outcome |-> out, request |-> request, consent |-> consent,
                    verdict |-> ruling, now |-> now]
  OBVIOUS
<1>3. PICK e : e = [actor |-> request.did, timestamp |-> later, outcome |-> "success"]
  OBVIOUS
<1>4. ans \in Seq(Answers) /\ es \in Seq(AuditEntries) /\ a \in Answers
  BY <1>1, <1>2, OnlyThroughTheGates DEF RoutesInv, RoutesTypeOK, Answers
<1>5. answers' = Append(ans, a) /\ entries' = IF out = "ok" THEN Append(es, e) ELSE es
  BY <1>1, <1>2, <1>3 DEF process_request
<1>6. out = "ok" => e \in AuditEntries
  BY <1>1, <1>3, OnlyThroughTheGates DEF AuditEntries
<1>7. RoutesTypeOK'
  <2>1. answers' \in Seq(Answers) /\ entries' \in Seq(AuditEntries)
    BY <1>4, <1>5, <1>6, AppendProperties
  <2> QED BY <2>1 DEF RoutesTypeOK, Answers
<1>8. /\ Successes' = IF out = "ok" THEN Successes \cup {Len(ans) + 1} ELSE Successes
      /\ Successes \subseteq 1..Len(ans)
      /\ n \in Nat /\ Len(es) = n
      /\ \A j \in Successes : Nth(j)' = Nth(j) /\ Nth(j) \in 1..n
      /\ out = "ok" => Cardinality(Successes') = n + 1 /\ Nth(Len(ans) + 1)' = n + 1
  <2>1. PICK S : S = Successes
    OBVIOUS
  <2>2. Successes = OkIn(ans) /\ Successes' = OkIn(Append(ans, a))
    BY <1>1, <1>5 DEF Successes, OkIn
  <2>3. /\ Successes' = IF out = "ok" THEN S \cup {Len(ans) + 1} ELSE S
        /\ S \subseteq 1..Len(ans)
    BY <1>2, <1>4, <2>1, <2>2, OneMoreAnswer
  <2>4. \A j : Nth(j) = Rank(S, j) /\ Nth(j)' = Rank(Successes', j)
    BY <2>1 DEF Nth, Rank
  <2>5. Len(ans) \in Nat /\ S \in SUBSET (1..Len(ans)) /\ Cardinality(S) = n
    BY <1>1, <1>4, <2>1, <2>3
  <2>6. n \in Nat /\ Len(es) = n
    BY <1>1, <2>5, Ranks DEF RoutesInv, LogIsSuccesses
  <2>7. \A j \in S : Rank(Successes', j) = Rank(S, j) /\ Rank(S, j) \in 1..n
    BY <2>3, <2>5, Ranks
  <2>8. out = "ok" => Cardinality(Successes') = n + 1 /\ Rank(Successes', Len(ans) + 1) = n + 1
    BY <2>3, <2>5, Ranks
  <2> QED BY <2>1, <2>3, <2>4, <2>6, <2>7, <2>8
<1>9. Len(entries') = Cardinality(Successes')
  <2>1. CASE out = "ok"
    BY <1>4, <1>5, <1>8, <2>1, <1>6, AppendProperties
  <2>2. CASE out # "ok"
    BY <1>1, <1>5, <1>8, <2>2
  <2> QED BY <2>1, <2>2
<1>10. ASSUME NEW j \in Successes
       PROVE  answers'[j] = answers[j] /\ entries'[Nth(j)'] = entries[Nth(j)]
  <2>1. answers'[j] = answers[j]
    BY <1>1, <1>4, <1>5, <1>8
  <2>2. PICK i \in 1..n : i = Nth(j) /\ Nth(j)' = i
    BY <1>8
  <2>3. entries'[i] = es[i]
    BY <1>4, <1>5, <1>8
  <2> QED BY <1>1, <2>1, <2>2, <2>3
<1>11. ASSUME out = "ok"
       PROVE  answers'[Len(ans) + 1] = a /\ entries'[Nth(Len(ans) + 1)'] = e
  <2>1. Append(ans, a)[Len(ans) + 1] = a /\ Append(es, e)[Len(es) + 1] = e
    BY <1>4, <1>6, <1>11, AppendProperties
  <2> QED BY <1>5, <1>8, <1>11, <2>1
<1>12. LogIsSuccesses'
  <2> SUFFICES ASSUME NEW j \in Successes'
               PROVE  LET b == answers'[j]
                          entry == entries'[Nth(j)']
                      IN /\ entry.actor = b.request.did /\ entry.timestamp # 0
                         /\ b.consent /\ b.verdict = "Allow" /\ b.request.signed
                         /\ b.now - b.request.timestamp \in -FRESHNESS_WINDOW..FRESHNESS_WINDOW
    BY <1>9 DEF LogIsSuccesses
  <2>1. CASE j \in Successes
    BY <2>1, <1>10 DEF RoutesInv, LogIsSuccesses
  <2>2. CASE j = Len(ans) + 1 /\ out = "ok"
    BY <2>2, <1>1, <1>2, <1>3, <1>11, OnlyThroughTheGates
  <2> QED BY <1>8, <2>1, <2>2
<1> QED BY <1>7, <1>12 DEF RoutesInv

(* routes.rs, for any clock and any number of requests: the log is the list *)
(* of the successes, and every success went through every gate.             *)
THEOREM LogIsTheSuccesses == RoutesSpec => [](RoutesTypeOK /\ LogIsSuccesses)
<1>1. RoutesInit => RoutesInv
  <2>1. RoutesInit => Successes = {}
    BY DEF RoutesInit, Successes
  <2> QED BY <2>1, FS_EmptySet DEF RoutesInit, RoutesInv, RoutesTypeOK, LogIsSuccesses
<1>2. RoutesInv /\ [RoutesNext]_routeVars => RoutesInv'
  <2> SUFFICES ASSUME RoutesInv, [RoutesNext]_routeVars PROVE RoutesInv'
    OBVIOUS
  <2>1. CASE RoutesNext
    BY <2>1, RequestKeeps DEF RoutesNext
  <2>2. CASE UNCHANGED routeVars
    <3>1. Successes' = Successes /\ \A j : Nth(j)' = Nth(j)
      BY <2>2 DEF routeVars, Successes, Nth
    <3> QED BY <2>2, <3>1 DEF routeVars, RoutesInv, RoutesTypeOK, LogIsSuccesses
  <2> QED BY <2>1, <2>2
<1> QED BY <1>1, <1>2, PTL DEF RoutesSpec, RoutesInv

-----------------------------------------------------------------------------
(***************************************************************************)
(* Peers and shards.                                                        *)
(***************************************************************************)
RatesInv ==
    /\ DOMAIN counts = DOMAIN passed
    /\ \A p \in DOMAIN counts : counts[p] \in 0..MAX_PER_WINDOW /\ passed[p] = counts[p]

(* p2p.rs, for any peers, candidates and limit: between two resets no peer  *)
(* is let through more often than the limit, whatever else the node does.   *)
THEOREM RatesHold == PeersSpec => []RateHolds
<1> DEFINE Step == \E candidates \in Seq(PeerMetadata), n \in Nat : PeersNext(candidates, n)
<1>1. PeersInit => RatesInv
  BY DEF PeersInit, RatesInv
<1>2. RatesInv /\ [Step]_peerVars => RatesInv'
  <2> SUFFICES ASSUME RatesInv, [Step]_peerVars PROVE RatesInv'
    OBVIOUS
  <2>1. CASE counts' = counts /\ passed' = passed
    BY <2>1 DEF RatesInv
  <2>2. CASE reset
    BY <2>2 DEF reset, RatesInv
  <2>3. ASSUME NEW p \in Addresses, check_and_increment(p) PROVE RatesInv'
    <3>1. At(counts, p, 0) \in 0..MAX_PER_WINDOW /\ At(passed, p, 0) = At(counts, p, 0)
      BY PeerBounds DEF RatesInv, At
    <3>2. PICK c : c = At(counts, p, 0) + 1
      OBVIOUS
    <3>3. counts' = SetKey(counts, p, c) /\ passed' = SetKey(passed, p, c)
      BY <2>3, <3>1, <3>2 DEF check_and_increment
    <3>4. c \in 0..MAX_PER_WINDOW
      BY <2>3, <3>1, <3>2, PeerBounds DEF check_and_increment
    <3> QED BY <3>3, <3>4 DEF RatesInv, SetKey
  <2>4. \/ counts' = counts /\ passed' = passed
        \/ reset
        \/ \E p \in Addresses : check_and_increment(p)
    BY DEF PeersNext, peerVars, register_peer, discover_peers, Connect, rotate_peers
  <2> QED BY <2>1, <2>2, <2>3, <2>4
<1>3. RatesInv => RateHolds
  BY PeerBounds DEF RatesInv, RateHolds, At
<1> QED BY <1>1, <1>2, <1>3, PTL DEF PeersSpec

(* Once around a ring of n places from p. *)
LEMMA OnceAround ==
    ASSUME NEW n \in Nat \ {0}, NEW p \in 0..(n - 1), NEW i \in 1..n
    PROVE  (p + i - 1) % n = (IF p + i - 1 < n THEN p + i - 1 ELSE p + i - 1 - n)
<1>1. CASE p + i - 1 < n
  <2>1. p + i - 1 \in 0..(n - 1)
    BY <1>1
  <2> QED BY <1>1, <2>1
<1>2. CASE ~(p + i - 1 < n)
  <2>1. PICK a \in n..(2 * n - 1) : a = p + i - 1
    BY <1>2
  <2>2. a % n = a - n
    OBVIOUS
  <2> QED BY <1>2, <2>1, <2>2
<1> QED BY <1>1, <1>2

(* Up to n places are as many as the steps taken. *)
LEMMA RingPlaces ==
    ASSUME NEW n \in Nat \ {0}, NEW p \in 0..(n - 1), NEW m \in Nat, m <= n
    PROVE  Cardinality({(p + i - 1) % n : i \in 1..m}) = m
<1> DEFINE place(i) == (p + i - 1) % n
           f == [i \in 1..m |-> place(i)]
           S == {place(i) : i \in 1..m}
<1>1. ASSUME NEW i \in 1..m
      PROVE  place(i) = (IF p + i - 1 < n THEN p + i - 1 ELSE p + i - 1 - n)
  <2>1. i \in 1..n
    OBVIOUS
  <2> QED BY <2>1, OnceAround
<1>2. \A i, j \in 1..m : place(i) = place(j) => i = j
  <2> HIDE DEF place
  <2> QED BY <1>1
<1>3. f \in Bijection(1..m, S)
  <2>1. f \in [1..m -> S] /\ \A y \in S : \E i \in 1..m : f[i] = y
    OBVIOUS
  <2>2. \A i, j \in 1..m : f[i] = f[j] => i = j
    BY <1>2
  <2> HIDE DEF f, S
  <2> QED BY <2>1, <2>2 DEF Bijection, Injection, Surjection, IsInjective
<1>4. IsFiniteSet(1..m) /\ Cardinality(1..m) = m
  BY FS_Interval
<1> HIDE DEF f, S
<1>5. Cardinality(1..m) = Cardinality(S)
  <2>1. ExistsBijection(1..m, S)
    BY <1>3 DEF ExistsBijection
  <2> QED BY <1>4, <2>1, FS_Bijection
<1> QED BY <1>4, <1>5 DEF S

(* shard.rs:22-37, for every key, number of shards and replication factor:   *)
(* the replicas are spread over as many shards as there can be.              *)
THEOREM ReplicasAreSpread == ReplicasSpread(Nat, Nat \ {0})
<1> SUFFICES ASSUME NEW v \in Nat, NEW n \in Nat \ {0}, NEW rf \in Nat \ {0}
             PROVE  LET r == replica_shards(assign_shard(v, n), n, rf)
                    IN /\ r[1] = assign_shard(v, n)
                       /\ Cardinality({r[i] : i \in 1..rf}) = (IF rf < n THEN rf ELSE n)
                       /\ \A i \in 1..rf : r[i] \in 0..(n - 1)
  BY DEF ReplicasSpread
<1>1. PICK p \in 0..(n - 1) : p = assign_shard(v, n)
  BY DEF assign_shard
<1>2. PICK r : r = replica_shards(p, n, rf)
  OBVIOUS
<1>3. \A i \in 1..rf : r[i] = (p + i - 1) % n
  BY <1>2 DEF replica_shards
<1>4. \A i \in 1..rf : r[i] \in 0..(n - 1)
  <2> TAKE i \in 1..rf
  <2>1. PICK a \in Nat : a = p + i - 1
    OBVIOUS
  <2>2. a % n \in 0..(n - 1)
    OBVIOUS
  <2> QED BY <1>3, <2>1, <2>2
<1>5. r[1] = p
  <2>1. (p + 1 - 1) % n = p
    BY OnceAround
  <2> QED BY <1>3, <2>1
<1>6. {r[i] : i \in 1..rf} = {(p + i - 1) % n : i \in 1..rf}
  BY <1>3
<1> DEFINE places(m) == {(p + i - 1) % n : i \in 1..m}
<1>7. ASSUME rf < n PROVE Cardinality({r[i] : i \in 1..rf}) = rf
  <2>1. rf \in Nat /\ rf <= n
    BY <1>7
  <2>2. Cardinality(places(rf)) = rf
    BY <2>1, RingPlaces
  <2> QED BY <1>6, <1>7, <2>2
<1>8. ASSUME ~(rf < n) PROVE Cardinality({r[i] : i \in 1..rf}) = n
  <2>1. 1..n \subseteq 1..rf
    BY <1>8
  <2>2. places(n) \subseteq places(rf)
    BY <2>1
  <2>3. Cardinality(places(n)) = n
    <3>1. n \in Nat /\ n <= n
      OBVIOUS
    <3> QED BY <3>1, RingPlaces
  <2>4. IsFiniteSet(0..(n - 1)) /\ Cardinality(0..(n - 1)) = n
    BY FS_Interval
  <2>5. places(rf) \subseteq 0..(n - 1)
    BY <1>3, <1>4
  <2> HIDE DEF places
  <2>6. places(n) = 0..(n - 1)
    BY <2>2, <2>3, <2>4, <2>5, FS_Subset
  <2>7. places(rf) = 0..(n - 1)
    BY <2>2, <2>5, <2>6
  <2> QED BY <1>6, <1>8, <2>4, <2>7 DEF places
<1> QED BY <1>1, <1>2, <1>4, <1>5, <1>7, <1>8

-----------------------------------------------------------------------------
(* Of the database, the tenants and the holons at once, each under its own  *)
(* specification and whatever the others do: nothing is rewritten.          *)
THEOREM NothingIsRewritten == DbSpec /\ TenantsSpec /\ HolonSpec => NothingRewritten
<1>1. UNCHANGED dbVars => FirstWriteStands
  BY DEF dbVars, FirstWriteStands
<1>2. UNCHANGED tenantVars => ArchivedForGood
  BY DEF tenantVars, ArchivedForGood
<1>3. UNCHANGED holonVars => HolonsGoverned
  BY DEF holonVars, HolonsGoverned
<1>4. [FirstWriteStands]_dbVars /\ [ArchivedForGood]_tenantVars /\ [HolonsGoverned]_holonVars
      => [FirstWriteStands /\ ArchivedForGood /\ HolonsGoverned]_<<dbVars, tenantVars, holonVars>>
  BY <1>1, <1>2, <1>3
<1> QED BY <1>4, FirstWritesStand, ArchivedStaysArchived, HolonsAreGoverned, PTL DEF NothingRewritten
=============================================================================
