------------------------------ MODULE BctsProofs -----------------------------
(***************************************************************************)
(* What holds of a transaction of crates/exo-core/src/bcts.rs for every    *)
(* set of actors and clock readings and every length of log, and then of   *)
(* one of crates/exo-bcts and its pipeline, for every number of runs.      *)
(***************************************************************************)
EXTENDS BctsCore, BctsPipeline, FiniteSetTheorems, TLAPS

(* How many gates stand behind a transaction in state s.  An escalation    *)
(* keeps the three gates before deliberation, a denial keeps none.         *)
GatesBehind(s) ==
    CASE s = "Submitted"        -> 1
      [] s = "IdentityResolved" -> 2
      [] s = "ConsentValidated" -> 3
      [] s = "Deliberated"      -> 4
      [] s = "Verified"         -> 5
      [] s = "Governed"         -> 6
      [] s = "Approved"         -> 7
      [] s = "Executed"         -> 7
      [] s = "Recorded"         -> 7
      [] s = "Closed"           -> 7
      [] s = "Escalated"        -> 3
      [] OTHER                  -> 0

(* Both logs are sequences; receipts nest, so no fixed set holds them all. *)
Sequences2(log, chain) ==
    \E S : log \in Seq(S) /\ chain \in Seq(S)

(* A logged change is a BctsTransition and nothing else. *)
IsEntry(e) == e = [from_state |-> e.from_state, to_state |-> e.to_state,
                   timestamp |-> e.timestamp, receipt_hash |-> e.receipt_hash,
                   actor_did |-> e.actor_did]

(* The inductive invariant. *)
IInv ==
    /\ Sequences2(transitions, receipt_chain)
    /\ TypeOK
    /\ LogVerifies
    /\ \A i \in 1..Len(transitions) :
          /\ receipt_chain[i] = transitions[i].receipt_hash
          /\ IsEntry(transitions[i])
    /\ Passed(transitions, Len(transitions), GatesBehind(current_state))
    /\ ExecutedThroughGates

-----------------------------------------------------------------------------
(* The logs after a step: one entry longer, the old entries in place. *)
LEMMA StepExtends ==
    ASSUME Sequences2(transitions, receipt_chain),
           Len(transitions) = Len(receipt_chain),
           NEW to, NEW actor, NEW time, transition(to, actor, time)
    PROVE  LET n == Len(transitions)
               r == compute_receipt(current_state, to, time, actor)
           IN  /\ n \in Nat
               /\ Sequences2(transitions', receipt_chain')
               /\ Len(transitions') = n + 1
               /\ Len(receipt_chain') = n + 1
               /\ \A i \in 1..n : /\ transitions'[i] = transitions[i]
                                  /\ receipt_chain'[i] = receipt_chain[i]
               /\ transitions'[n + 1] =
                     [from_state |-> current_state, to_state |-> to,
                      timestamp |-> time, receipt_hash |-> r,
                      actor_did |-> actor]
               /\ receipt_chain'[n + 1] = r
<1>1. PICK S : transitions \in Seq(S) /\ receipt_chain \in Seq(S)
  BY DEF Sequences2
<1> DEFINE r == compute_receipt(current_state, to, time, actor)
           e == [from_state |-> current_state, to_state |-> to,
                 timestamp |-> time, receipt_hash |-> r, actor_did |-> actor]
           T == S \cup {r, e}
<1>2. transitions' = Append(transitions, e) /\ receipt_chain' = Append(receipt_chain, r)
  BY DEF transition
<1>3. transitions \in Seq(T) /\ receipt_chain \in Seq(T) /\ e \in T /\ r \in T
  <2> HIDE DEF e, r
  <2> QED BY <1>1
<1> HIDE DEF e, r, T
<1>4. transitions' \in Seq(T) /\ receipt_chain' \in Seq(T)
  BY <1>2, <1>3
<1>5. Sequences2(transitions', receipt_chain')
  BY <1>4 DEF Sequences2
<1>6. /\ Len(transitions) \in Nat
      /\ Len(transitions') = Len(transitions) + 1
      /\ Len(receipt_chain') = Len(transitions) + 1
      /\ \A i \in 1..Len(transitions) : /\ transitions'[i] = transitions[i]
                                        /\ receipt_chain'[i] = receipt_chain[i]
      /\ transitions'[Len(transitions) + 1] = e
      /\ receipt_chain'[Len(transitions) + 1] = r
  BY <1>2, <1>3
<1> QED BY <1>5, <1>6 DEF e, r

(* Every legal change keeps the gates behind the new state behind it: the  *)
(* new state is the next gate, or needs no gate the old one did not.       *)
LEMMA TableRespectsGates ==
    ASSUME NEW s \in BctsState, NEW t \in BctsState, can_transition_to(s, t)
    PROVE  \/ /\ GatesBehind(t) \in 1..7
              /\ GatesBehind(t) <= GatesBehind(s) + 1
              /\ t = Gates[GatesBehind(t)]
           \/ /\ GatesBehind(t) \in 0..7
              /\ GatesBehind(t) <= GatesBehind(s)
              /\ \A g \in 1..7 : t # Gates[g]
<1>1. /\ Gates[1] = "Submitted" /\ Gates[2] = "IdentityResolved"
      /\ Gates[3] = "ConsentValidated" /\ Gates[4] = "Deliberated"
      /\ Gates[5] = "Verified" /\ Gates[6] = "Governed"
      /\ Gates[7] = "Approved"
  BY DEF Gates
<1>2. \A g \in 1..7 : g = 1 \/ g = 2 \/ g = 3 \/ g = 4 \/ g = 5 \/ g = 6 \/ g = 7
  OBVIOUS
<1>3. CASE t \in {"Submitted", "IdentityResolved", "ConsentValidated",
                  "Deliberated", "Verified", "Governed", "Approved"}
  <2>1. /\ GatesBehind(t) \in 1..7
        /\ t = Gates[GatesBehind(t)]
    BY <1>1, <1>3 DEF GatesBehind
  <2>2. GatesBehind(t) <= GatesBehind(s) + 1
    BY <1>3 DEF BctsState, can_transition_to, valid_transitions, GatesBehind
  <2> QED BY <2>1, <2>2
<1>4. CASE t \notin {"Submitted", "IdentityResolved", "ConsentValidated",
                     "Deliberated", "Verified", "Governed", "Approved"}
  <2>1. GatesBehind(t) \in 0..7 /\ GatesBehind(t) <= GatesBehind(s)
    BY <1>4 DEF BctsState, can_transition_to, valid_transitions, GatesBehind
  <2>2. \A g \in 1..7 : t # Gates[g]
    BY <1>1, <1>2, <1>4
  <2> QED BY <2>1, <2>2
<1> QED BY <1>3, <1>4

(* The gates are seven different states. *)
LEMMA GatesDistinct ==
    /\ Len(Gates) = 7
    /\ \A g, h \in 1..7 : Gates[g] = Gates[h] => g = h
  BY DEF Gates

(* A change that is legal keeps Passed, for the gates behind its target. *)
LEMMA PassedExtends ==
    ASSUME NEW log, NEW log2, NEW n \in Nat, NEW k \in 0..7, NEW m \in 0..7,
           Passed(log, n, k),
           \A i \in 1..n : log2[i] = log[i],
           \/ m >= 1 /\ m <= k + 1 /\ log2[n + 1].to_state = Gates[m]
           \/ m <= k /\ \A g \in 1..7 : log2[n + 1].to_state # Gates[g]
    PROVE  Passed(log2, n + 1, m)
<1> SUFFICES ASSUME NEW g \in 1..m
             PROVE  \E i \in 1..(n + 1) :
                       /\ log2[i].to_state = Gates[g]
                       /\ \A h \in 1..(g - 1), j \in 1..(n + 1) :
                             log2[j].to_state = Gates[h] => j < i
  BY DEF Passed
<1>1. CASE g <= k /\ (g < m \/ \A q \in 1..7 : log2[n + 1].to_state # Gates[q])
  <2>1. PICK i \in 1..n :
               /\ log[i].to_state = Gates[g]
               /\ \A h \in 1..(g - 1), j \in 1..n :
                     log[j].to_state = Gates[h] => j < i
    BY <1>1 DEF Passed
  <2>2. \A h \in 1..(g - 1) : log2[n + 1].to_state # Gates[h]
    BY <1>1, GatesDistinct
  <2>3. \A h \in 1..(g - 1), j \in 1..(n + 1) :
            log2[j].to_state = Gates[h] => j < i
    <3> SUFFICES ASSUME NEW h \in 1..(g - 1), NEW j \in 1..(n + 1),
                        log2[j].to_state = Gates[h]
                 PROVE  j < i
      OBVIOUS
    <3>1. j # n + 1
      BY <2>2
    <3> QED BY <3>1, <2>1
  <2> QED BY <2>1, <2>3
<1>2. CASE ~(g <= k /\ (g < m \/ \A q \in 1..7 : log2[n + 1].to_state # Gates[q]))
  <2>1. g = m /\ log2[n + 1].to_state = Gates[m]
    BY <1>2
  <2>2. \A h \in 1..(g - 1), j \in 1..(n + 1) :
            log2[j].to_state = Gates[h] => j < n + 1
    BY <2>1, GatesDistinct
  <2> QED BY <2>1, <2>2
<1> QED BY <1>1, <1>2

(* Passed reads only the entries it ranges over. *)
LEMMA PassedCopies ==
    ASSUME NEW log, NEW log2, NEW n, NEW k, Passed(log, n, k),
           \A i \in 1..n : log2[i] = log[i]
    PROVE  Passed(log2, n, k)
<1> SUFFICES ASSUME NEW g \in 1..k
             PROVE  \E i \in 1..n :
                       /\ log2[i].to_state = Gates[g]
                       /\ \A h \in 1..(g - 1), j \in 1..n :
                             log2[j].to_state = Gates[h] => j < i
  BY DEF Passed
<1>1. PICK i \in 1..n :
             /\ log[i].to_state = Gates[g]
             /\ \A h \in 1..(g - 1), j \in 1..n :
                   log[j].to_state = Gates[h] => j < i
  BY DEF Passed
<1> QED BY <1>1

-----------------------------------------------------------------------------
(* A new transaction satisfies the invariant. *)
LEMMA InitIInv == Init => IInv
<1> SUFFICES ASSUME Init PROVE IInv
  OBVIOUS
<1>1. transitions \in Seq({}) /\ receipt_chain \in Seq({}) /\ Len(transitions) = 0
      /\ Len(receipt_chain) = 0 /\ 1..0 = {}
  BY DEF Init
<1>2. Sequences2(transitions, receipt_chain)
  BY <1>1 DEF Sequences2
<1>3. TypeOK
  BY <1>1, MaxTransitionsAssumption DEF Init, TypeOK, BctsState
<1>4. LogVerifies /\ ExecutedThroughGates
  BY <1>1 DEF Init, LogVerifies, ExecutedThroughGates, verify_receipt_chain
<1>5. Passed(transitions, Len(transitions), GatesBehind(current_state))
  BY <1>1 DEF Init, Passed, GatesBehind
<1> QED BY <1>1, <1>2, <1>3, <1>4, <1>5 DEF IInv

(* Every change preserves the invariant. *)
LEMMA NextIInv == IInv /\ [Next]_vars => IInv'
<1> SUFFICES ASSUME IInv, [Next]_vars PROVE IInv'
  OBVIOUS
<1>1. CASE UNCHANGED vars
  <2>1. /\ current_state' = current_state
        /\ transitions' = transitions
        /\ receipt_chain' = receipt_chain
    BY <1>1 DEF vars
  <2>2. TypeOK'
    BY <2>1 DEF IInv, TypeOK
  <2>3. LogVerifies'
    BY <2>1 DEF IInv, LogVerifies, verify_receipt_chain, EntryVerifies
  <2>4. ExecutedThroughGates'
    BY <2>1 DEF IInv, ExecutedThroughGates
  <2>5. Passed(transitions, Len(transitions), GatesBehind(current_state))'
    BY <2>1 DEF IInv
  <2> QED BY <2>1, <2>2, <2>3, <2>4, <2>5 DEF IInv
<1>2. CASE Next
  <2>1. PICK to \in BctsState, actor \in Actors, time \in Times :
               transition(to, actor, time)
    BY <1>2 DEF Next
  <2> DEFINE n == Len(transitions)
             r == compute_receipt(current_state, to, time, actor)
  <2>2. /\ n \in Nat
        /\ Sequences2(transitions', receipt_chain')
        /\ Len(transitions') = n + 1
        /\ Len(receipt_chain') = n + 1
        /\ \A i \in 1..n : /\ transitions'[i] = transitions[i]
                           /\ receipt_chain'[i] = receipt_chain[i]
        /\ transitions'[n + 1] =
              [from_state |-> current_state, to_state |-> to,
               timestamp |-> time, receipt_hash |-> r, actor_did |-> actor]
        /\ receipt_chain'[n + 1] = r
    BY <2>1, StepExtends DEF IInv, TypeOK
  <2>3. /\ Len(receipt_chain) = n
        /\ current_state \in BctsState
        /\ current_state' = to
        /\ n < MaxTransitions
        /\ can_transition_to(current_state, to)
    BY <2>1 DEF IInv, TypeOK, transition
  <2>4. \A i \in 1..(n + 1) : i \in 1..n \/ i = n + 1
    BY <2>2
  <2> HIDE DEF r
  <2>5. TypeOK'
    <3>1. \A i \in 1..n : /\ transitions'[i].from_state \in BctsState
                          /\ transitions'[i].to_state \in BctsState
                          /\ transitions'[i].timestamp \in Times
                          /\ transitions'[i].actor_did \in Actors
      BY <2>2 DEF IInv, TypeOK
    <3>2. n + 1 <= MaxTransitions
      BY <2>2, <2>3, MaxTransitionsAssumption
    <3> QED BY <2>1, <2>2, <2>3, <2>4, <3>1, <3>2 DEF TypeOK
  <2>6. \A i \in 1..Len(transitions') :
            /\ receipt_chain'[i] = transitions'[i].receipt_hash
            /\ IsEntry(transitions'[i])
    <3>1. IsEntry(transitions'[n + 1])
      BY <2>2 DEF IsEntry
    <3> QED BY <2>2, <2>4, <3>1 DEF IInv
  <2>7. r = Receipt(current_state, to, time, actor,
                    IF n = 0 THEN ZERO ELSE transitions[n].receipt_hash)
    <3>1. receipt_chain = <<>> <=> n = 0
      <4>1. PICK S : receipt_chain \in Seq(S)
        BY DEF IInv, Sequences2
      <4> QED BY <4>1, <2>3
    <3>2. n # 0 => receipt_chain[n] = transitions[n].receipt_hash
      BY <2>2 DEF IInv
    <3> QED BY <3>1, <3>2, <2>3 DEF r, compute_receipt, Prev
  <2>8. LogVerifies'
    <3>1. ASSUME NEW i \in 1..(n + 1)
          PROVE  EntryVerifies(transitions', receipt_chain', i)
      <4>1. CASE i \in 1..n
        <5>1. EntryVerifies(transitions, receipt_chain, i)
          BY <4>1 DEF IInv, LogVerifies, verify_receipt_chain
        <5>2. i # 1 => transitions'[i - 1] = transitions[i - 1]
          BY <4>1, <2>2
        <5> QED BY <5>1, <5>2, <4>1, <2>2, <2>3 DEF EntryVerifies
      <4>2. CASE i = n + 1
        <5>1. n # 0 => transitions'[n] = transitions[n]
          BY <2>2
        <5> QED BY <4>2, <5>1, <2>2, <2>7 DEF EntryVerifies
      <4> QED BY <4>1, <4>2, <2>4
    <3>2. \A i \in 1..(n + 1) : transitions'[i].from_state =
                IF i = 1 THEN "Draft" ELSE transitions'[i - 1].to_state
      <4> SUFFICES ASSUME NEW i \in 1..(n + 1)
                   PROVE  transitions'[i].from_state =
                            IF i = 1 THEN "Draft" ELSE transitions'[i - 1].to_state
        OBVIOUS
      <4>1. i # 1 => i - 1 \in 1..n /\ transitions'[i - 1] = transitions[i - 1]
        BY <2>2
      <4>2. CASE i \in 1..n
        BY <4>1, <4>2, <2>2 DEF IInv, LogVerifies
      <4>3. CASE i = n + 1
        <5>1. current_state = IF n = 0 THEN "Draft" ELSE transitions[n].to_state
          <6>1. PICK S : transitions \in Seq(S)
            BY DEF IInv, Sequences2
          <6>2. transitions = <<>> <=> n = 0
            BY <6>1
          <6> QED BY <6>2 DEF IInv, LogVerifies
        <5> QED BY <4>1, <4>3, <5>1, <2>2
      <4> QED BY <4>2, <4>3, <2>4
    <3>3. current_state' = IF transitions' = <<>> THEN "Draft"
                           ELSE transitions'[Len(transitions')].to_state
      <4>1. transitions' # <<>>
        BY <2>2
      <4> QED BY <4>1, <2>2, <2>3
    <3> QED BY <3>1, <3>2, <3>3, <2>2 DEF LogVerifies, verify_receipt_chain
  <2>9. Passed(transitions', n + 1, GatesBehind(to))
    <3>1. GatesBehind(current_state) \in 0..7
      BY <2>3 DEF GatesBehind, BctsState
    <3>2. Passed(transitions, n, GatesBehind(current_state))
      BY DEF IInv
    <3>3. \/ /\ GatesBehind(to) \in 1..7
             /\ GatesBehind(to) <= GatesBehind(current_state) + 1
             /\ to = Gates[GatesBehind(to)]
          \/ /\ GatesBehind(to) \in 0..7
             /\ GatesBehind(to) <= GatesBehind(current_state)
             /\ \A g \in 1..7 : to # Gates[g]
      BY <2>3, TableRespectsGates
    <3>4. transitions'[n + 1].to_state = to
      BY <2>2
    <3>5. GatesBehind(to) \in 0..7
      BY <3>3
    <3>6. \A i \in 1..n : transitions'[i] = transitions[i]
      BY <2>2
    <3> DEFINE k == GatesBehind(current_state)
               m == GatesBehind(to)
    <3>7. \/ m >= 1 /\ m <= k + 1 /\ transitions'[n + 1].to_state = Gates[m]
          \/ m <= k /\ \A g \in 1..7 : transitions'[n + 1].to_state # Gates[g]
      BY <3>1, <3>3, <3>4
    <3> HIDE DEF k, m
    <3> QED BY <3>1, <3>2, <3>5, <3>6, <3>7, <2>2, PassedExtends DEF k, m
  <2>10. ExecutedThroughGates'
    <3> SUFFICES ASSUME NEW x \in 1..(n + 1),
                        transitions'[x].to_state = "Executed"
                 PROVE  Passed(transitions', x - 1, Len(Gates))
      BY <2>2 DEF ExecutedThroughGates
    <3>1. Passed(transitions, x - 1, Len(Gates))
      <4>1. CASE x \in 1..n
        BY <4>1, <2>2 DEF IInv, ExecutedThroughGates
      <4>2. CASE x = n + 1
        <5>1. to = "Executed"
          BY <4>2, <2>2
        <5>2. current_state = "Approved"
          BY <5>1, <2>3 DEF can_transition_to, valid_transitions, BctsState
        <5>3. GatesBehind(current_state) = 7
          BY <5>2 DEF GatesBehind
        <5> QED BY <4>2, <5>3, <2>2, GatesDistinct DEF IInv
      <4> QED BY <4>1, <4>2, <2>4
    <3>2. \A i \in 1..(x - 1) : transitions'[i] = transitions[i]
      BY <2>2
    <3> QED BY <3>1, <3>2, PassedCopies
  <2> QED BY <2>2, <2>3, <2>5, <2>6, <2>8, <2>9, <2>10 DEF IInv
<1> QED BY <1>1, <1>2

-----------------------------------------------------------------------------
(* The invariant holds in every reachable state of a transaction. *)
THEOREM TransactionInvariant == Spec => []IInv
  BY InitIInv, NextIInv, PTL DEF Spec

(* The state and the log of a transaction keep their types through every   *)
(* sequence of calls of transition.                                        *)
THEOREM TypeCorrect == Spec => []TypeOK
<1>1. IInv => TypeOK
  BY DEF IInv
<1> QED BY <1>1, TransactionInvariant, PTL

(* The log a transaction builds passes verify_receipt_chain and is a walk  *)
(* from Draft to the current state.                                        *)
THEOREM OwnLogVerifies == Spec => []LogVerifies
<1>1. IInv => LogVerifies
  BY DEF IInv
<1> QED BY <1>1, TransactionInvariant, PTL

(* No sequence of legal changes executes a transaction around a gate of    *)
(* valid_transitions.                                                      *)
THEOREM GatesHold == Spec => []ExecutedThroughGates
<1>1. IInv => ExecutedThroughGates
  BY DEF IInv
<1> QED BY <1>1, TransactionInvariant, PTL

(* An entry that verifies in place of entry i of a transaction's log is    *)
(* that entry: its receipt is the one the chain holds, and a receipt       *)
(* determines every field it was computed from.                            *)
LEMMA VerifiedEntryIsTheEntry ==
    ASSUME IInv, NEW i \in 1..Len(transitions),
           NEW f, NEW t, NEW ts, NEW a, NEW r,
           EntryVerifies([transitions EXCEPT ![i] =
                             [from_state |-> f, to_state |-> t, timestamp |-> ts,
                              receipt_hash |-> r, actor_did |-> a]],
                         receipt_chain, i)
    PROVE  /\ f = transitions[i].from_state
           /\ t = transitions[i].to_state
           /\ ts = transitions[i].timestamp
           /\ a = transitions[i].actor_did
           /\ r = transitions[i].receipt_hash
<1> DEFINE e == [from_state |-> f, to_state |-> t, timestamp |-> ts,
                 receipt_hash |-> r, actor_did |-> a]
           log == [transitions EXCEPT ![i] = e]
           prev == IF i = 1 THEN ZERO ELSE transitions[i - 1].receipt_hash
<1>1. PICK S : transitions \in Seq(S)
  BY DEF IInv, Sequences2
<1>2. log[i] = e /\ (i # 1 => log[i - 1] = transitions[i - 1])
  BY <1>1
<1>3. r = Receipt(f, t, ts, a, prev) /\ receipt_chain[i] = r
  <2>1. i <= Len(receipt_chain)
    BY <1>1 DEF IInv, TypeOK
  <2> QED BY <2>1, <1>2 DEF EntryVerifies
<1>4. transitions[i].receipt_hash = Receipt(transitions[i].from_state,
          transitions[i].to_state, transitions[i].timestamp,
          transitions[i].actor_did, prev)
  BY DEF IInv, LogVerifies, verify_receipt_chain, EntryVerifies
<1>5. r = transitions[i].receipt_hash
  BY <1>3 DEF IInv
<1> HIDE DEF prev
<1> QED BY <1>3, <1>4, <1>5 DEF Receipt

(* No entry of the log can be replaced by a different one, with its own    *)
(* receipt recomputed or not, without verify_receipt_chain noticing.       *)
THEOREM TamperEvident == Spec => []EditsAreDetected
<1>1. IInv => EditsAreDetected
  <2> SUFFICES ASSUME IInv, NEW i \in 1..Len(transitions), NEW e \in Edited(i),
                      verify_receipt_chain([transitions EXCEPT ![i] = e],
                                           receipt_chain)
               PROVE  e = transitions[i]
    BY DEF EditsAreDetected
  <2>1. PICK f, t, ts, a, r :
               e = [from_state |-> f, to_state |-> t, timestamp |-> ts,
                    receipt_hash |-> r, actor_did |-> a]
    BY DEF Edited
  <2>2. EntryVerifies([transitions EXCEPT ![i] = e], receipt_chain, i)
    <3>1. PICK S : transitions \in Seq(S)
      BY DEF IInv, Sequences2
    <3>2. Len([transitions EXCEPT ![i] = e]) = Len(transitions)
      BY <3>1
    <3> QED BY <3>2 DEF verify_receipt_chain
  <2>3. /\ f = transitions[i].from_state
        /\ t = transitions[i].to_state
        /\ ts = transitions[i].timestamp
        /\ a = transitions[i].actor_did
        /\ r = transitions[i].receipt_hash
    BY <2>1, <2>2, VerifiedEntryIsTheEntry
  <2>4. IsEntry(transitions[i])
    BY DEF IInv
  <2> QED BY <2>1, <2>3, <2>4 DEF IsEntry
<1> QED BY <1>1, TransactionInvariant, PTL

(* The log a transaction builds verifies and no edited log does, for logs  *)
(* of any length (verify_receipt_chain).                                   *)
THEOREM LogIsTamperEvident == Spec => []TamperEvidence
  BY OwnLogVerifies, TamperEvident, PTL DEF TamperEvidence

-----------------------------------------------------------------------------
(* Nothing follows an execution but its record and the close, and it is     *)
(* recorded once.                                                           *)
ExecutionIsLast ==
    /\ \A i, j \in 1..Len(ledger) :
          ledger[i].to_state = "Executed" /\ ledger[j].to_state = "Executed" => i = j
    /\ \A i \in 1..Len(ledger) :
          ledger[i].to_state = "Executed" => tx_state \in {"Executed", "Recorded", "Closed"}

(* The first n results of the run are successes, and the ledger has their   *)
(* changes from base on.                                                    *)
PassedStages(n) ==
    \A i \in 1..n : /\ stages[i] = TRUE
                    /\ ledger[base + i].to_state = PIPELINE_STAGES[i]

(* A run at stage n has passed the n - 1 stages before, which are all it    *)
(* has added to the ledger, and it has room for the rest.                   *)
InRun ==
    stage # 0 =>
        /\ base + 10 <= MaxLedger
        /\ failed_at = 0
        /\ Len(stages) = stage - 1
        /\ Len(ledger) = base + stage - 1
        /\ PassedStages(stage - 1)

(* A run that is over either passed all stages and closed the transaction,  *)
(* or passed those before failed_at; a denial is then all that follows.     *)
AfterRun ==
    stage = 0 /\ stages # <<>> =>
        \/ /\ failed_at = 0
           /\ Len(stages) = 9
           /\ Len(ledger) = base + 10
           /\ PassedStages(9)
           /\ tx_state = "Closed"
        \/ /\ failed_at \in 1..9
           /\ Len(stages) = failed_at
           /\ stages[failed_at] = FALSE
           /\ PassedStages(failed_at - 1)
           /\ \/ Len(ledger) = base + failed_at - 1
              \/ /\ Len(ledger) = base + failed_at
                 /\ ledger[base + failed_at].to_state = "Denied"

(* The inductive invariant. *)
TxInv ==
    /\ TxTypeOK
    /\ LedgerVerifies
    /\ ExecutionIsLast
    /\ InRun
    /\ AfterRun

-----------------------------------------------------------------------------
(* The nine stages, spelled out. *)
LEMMA StageNames ==
    /\ Len(PIPELINE_STAGES) = 9
    /\ \A i \in 1..9 : PIPELINE_STAGES[i] \in TxState \ {"Denied", "Closed", "Draft"}
    /\ \A i \in 1..9 : PIPELINE_STAGES[i] = "Executed" <=> i = 8
    /\ PIPELINE_STAGES[9] = "Recorded"
BY DEF PIPELINE_STAGES, TxState

(* An accepted move adds one event, from the old state to the new one. *)
LEMMA MoveExtends ==
    ASSUME TxTypeOK, NEW to \in TxState, Moved(to)
    PROVE  /\ Len(ledger) \in Nat
           /\ tx_state' = to
           /\ ledger' \in Seq([from_state : TxState, to_state : TxState])
           /\ Len(ledger') = Len(ledger) + 1
           /\ \A i \in 1..Len(ledger) : ledger'[i] = ledger[i]
           /\ ledger'[Len(ledger) + 1] = [from_state |-> tx_state, to_state |-> to]
BY DEF TxTypeOK, Moved

(* It keeps the ledger verified, and the execution last. *)
LEMMA MoveKeeps ==
    ASSUME TxTypeOK, LedgerVerifies, ExecutionIsLast,
           NEW to \in TxState, Accepts(tx_state, to), Moved(to)
    PROVE  LedgerVerifies' /\ ExecutionIsLast'
<1> DEFINE n == Len(ledger)
<1>1. /\ n \in Nat
      /\ tx_state' = to
      /\ Len(ledger') = n + 1
      /\ \A i \in 1..n : ledger'[i] = ledger[i]
      /\ ledger'[n + 1] = [from_state |-> tx_state, to_state |-> to]
  BY MoveExtends
<1>2. can_transition(tx_state, to)
  BY DEF Accepts
<1> HIDE DEF n
<1>3. LedgerVerifies'
  <2>1. ASSUME NEW i \in 1..Len(ledger')
        PROVE  /\ ledger'[i].from_state = IF i - 1 = 0 THEN "Draft" ELSE ledger'[i - 1].to_state
               /\ can_transition(ledger'[i].from_state, ledger'[i].to_state)
    <3>1. CASE i \in 1..n
      BY <3>1, <1>1 DEF LedgerVerifies, verify_ledger, n
    <3>2. CASE i = n + 1
      BY <3>2, <1>1, <1>2 DEF LedgerVerifies, verify_ledger, n
    <3> QED BY <3>1, <3>2, <1>1
  <2> QED BY <2>1, <1>1 DEF LedgerVerifies, verify_ledger
<1>4. /\ to = "Executed" => tx_state \notin {"Executed", "Recorded", "Closed"}
      /\ tx_state \in {"Executed", "Recorded", "Closed"} => to \in {"Executed", "Recorded", "Closed"}
  BY <1>2 DEF can_transition, tx_valid_transitions, TxTypeOK, TxState
<1>5. ExecutionIsLast'
  BY <1>1, <1>4 DEF ExecutionIsLast, n
<1> QED BY <1>3, <1>5

(* A new transaction satisfies the invariant (create_transaction). *)
LEMMA TxInitInv == TxInit => TxInv
BY MaxLedgerAssumption
   DEF TxInit, TxInv, TxTypeOK, TxState, LedgerVerifies, verify_ledger,
       ExecutionIsLast, InRun, AfterRun, PassedStages, PIPELINE_STAGES

(* A call of transition outside a run keeps it. *)
LEMMA TransitionInv ==
    ASSUME TxInv, NEW to \in TxState, tx_transition(to)
    PROVE  TxInv'
<1>1. /\ TxTypeOK /\ LedgerVerifies /\ ExecutionIsLast
      /\ Accepts(tx_state, to) /\ Moved(to)
  BY DEF TxInv, tx_transition
<1>2. LedgerVerifies' /\ ExecutionIsLast'
  BY <1>1, MoveKeeps
<1>3. TxTypeOK'
  <2>1. /\ tx_state' \in TxState
        /\ ledger' \in Seq([from_state : TxState, to_state : TxState])
        /\ Len(ledger') <= MaxLedger
    <3>1. /\ tx_state' = to
          /\ ledger' \in Seq([from_state : TxState, to_state : TxState])
          /\ Len(ledger') = Len(ledger) + 1
          /\ Len(ledger) \in Nat
      BY <1>1, MoveExtends
    <3> QED BY <3>1, MaxLedgerAssumption DEF tx_transition
  <2>2. stage' = stage /\ base' = 0 /\ stages' = <<>> /\ failed_at' = 0
    BY DEF tx_transition
  <2> QED BY <2>1, <2>2, <1>1, StageNames, MaxLedgerAssumption DEF TxTypeOK
<1>4. InRun' /\ AfterRun'
  BY DEF tx_transition, InRun, AfterRun
<1> QED BY <1>2, <1>3, <1>4 DEF TxInv

(* So does the start of a run, *)
LEMMA BeginInv == ASSUME TxInv, Begin PROVE TxInv'
<1>1. LedgerVerifies' /\ ExecutionIsLast'
  BY DEF TxInv, Begin, LedgerVerifies, ExecutionIsLast
<1>2. TxTypeOK'
  BY StageNames, MaxLedgerAssumption DEF TxInv, Begin, TxTypeOK
<1>3. InRun' /\ AfterRun'
  BY StageNames DEF TxInv, TxTypeOK, Begin, InRun, AfterRun, PassedStages
<1> QED BY <1>1, <1>2, <1>3 DEF TxInv

(* a stage that passes, *)
LEMMA PassInv == ASSUME TxInv, StagePasses PROVE TxInv'
<1>0. stage \in 1..9 /\ PIPELINE_STAGES[stage] \in TxState
  BY StageNames DEF StagePasses, Running
<1> PICK to \in TxState : to = PIPELINE_STAGES[stage]
  BY <1>0
<1>1. /\ TxTypeOK /\ LedgerVerifies /\ ExecutionIsLast /\ InRun
      /\ Accepts(tx_state, to) /\ Moved(to)
  BY DEF TxInv, StagePasses, Accepts, Moved
<1>2. LedgerVerifies' /\ ExecutionIsLast'
  BY <1>0, <1>1, MoveKeeps
<1>3. /\ Len(ledger') = Len(ledger) + 1
      /\ \A i \in 1..Len(ledger) : ledger'[i] = ledger[i]
      /\ ledger'[Len(ledger) + 1].to_state = to
      /\ ledger' \in Seq([from_state : TxState, to_state : TxState])
      /\ tx_state' = to
  <2>1. /\ Len(ledger') = Len(ledger) + 1
        /\ \A i \in 1..Len(ledger) : ledger'[i] = ledger[i]
        /\ ledger'[Len(ledger) + 1] = [from_state |-> tx_state, to_state |-> to]
        /\ ledger' \in Seq([from_state : TxState, to_state : TxState])
        /\ tx_state' = to
    BY <1>1, MoveExtends
  <2> QED BY <2>1
<1>4. /\ stages' \in Seq(BOOLEAN)
      /\ Len(stages') = Len(stages) + 1
      /\ \A i \in 1..Len(stages) : stages'[i] = stages[i]
      /\ stages'[Len(stages) + 1] = TRUE
  BY DEF StagePasses, TxInv, TxTypeOK
<1>5. stage' = stage + 1 /\ base' = base /\ failed_at' = failed_at
  BY DEF StagePasses
<1>6. TxTypeOK'
  BY <1>0, <1>1, <1>3, <1>4, <1>5, StageNames, MaxLedgerAssumption DEF InRun, TxTypeOK
<1>7. InRun'
  <2>1. base + 10 <= MaxLedger /\ failed_at = 0 /\ base \in Nat
        /\ Len(stages) = stage - 1 /\ Len(ledger) = base + stage - 1
    BY <1>0, <1>1 DEF InRun, TxTypeOK
  <2>2. ASSUME NEW i \in 1..stage
        PROVE  stages'[i] = TRUE /\ ledger'[base + i].to_state = PIPELINE_STAGES[i]
    <3>1. CASE i = stage
      BY <3>1, <2>1, <1>0, <1>3, <1>4
    <3>2. CASE i \in 1..(stage - 1)
      <4>1. stages[i] = TRUE /\ ledger[base + i].to_state = PIPELINE_STAGES[i]
        BY <3>2, <1>0, <1>1 DEF InRun, PassedStages
      <4> QED BY <4>1, <3>2, <2>1, <1>0, <1>3, <1>4
    <3>3. i = stage \/ i \in 1..(stage - 1)
      BY <1>0
    <3> QED BY <3>1, <3>2, <3>3, Zenon
  <2>3. PassedStages(stage - 1)'
    <3>1. stage' - 1 = stage
      BY <1>0, <1>5
    <3> QED BY <3>1, <2>2, <1>5, Zenon DEF PassedStages
  <2> QED BY <2>1, <2>3, <1>0, <1>3, <1>4, <1>5 DEF InRun
<1>8. AfterRun'
  BY <1>0, <1>5 DEF AfterRun
<1> QED BY <1>2, <1>6, <1>7, <1>8 DEF TxInv

(* a stage that fails, denied or not, *)
LEMMA FailInv ==
    ASSUME TxInv, Running, NEW ok \in BOOLEAN, StageFails(ok)
    PROVE  TxInv'
<1>0. stage \in 1..9 /\ "Denied" \in TxState
  BY StageNames DEF Running, TxState
<1>1. TxTypeOK /\ LedgerVerifies /\ ExecutionIsLast /\ InRun
  BY DEF TxInv
<1>2. /\ stages' \in Seq(BOOLEAN)
      /\ Len(stages') = Len(stages) + 1
      /\ \A i \in 1..Len(stages) : stages'[i] = stages[i]
      /\ stages'[Len(stages) + 1] = FALSE
  BY DEF StageFails, TxInv, TxTypeOK
<1>3. stage' = 0 /\ base' = base /\ failed_at' = stage
  BY DEF StageFails
<1>4. \/ Accepts(tx_state, "Denied") /\ Moved("Denied")
      \/ UNCHANGED <<tx_state, ledger>>
  BY DEF StageFails, TryMove, Stopped
<1>5. /\ LedgerVerifies' /\ ExecutionIsLast'
      /\ tx_state' \in TxState
      /\ ledger' \in Seq([from_state : TxState, to_state : TxState])
      /\ \A i \in 1..Len(ledger) : ledger'[i] = ledger[i]
      /\ \/ Len(ledger') = Len(ledger)
         \/ Len(ledger') = Len(ledger) + 1 /\ ledger'[Len(ledger) + 1].to_state = "Denied"
  <2>1. CASE Accepts(tx_state, "Denied") /\ Moved("Denied")
    <3>1. /\ tx_state' = "Denied"
          /\ ledger' \in Seq([from_state : TxState, to_state : TxState])
          /\ Len(ledger') = Len(ledger) + 1
          /\ \A i \in 1..Len(ledger) : ledger'[i] = ledger[i]
          /\ ledger'[Len(ledger) + 1] = [from_state |-> tx_state, to_state |-> "Denied"]
      BY <2>1, <1>0, <1>1, MoveExtends
    <3>2. LedgerVerifies' /\ ExecutionIsLast'
      BY <2>1, <1>0, <1>1, MoveKeeps
    <3> QED BY <3>1, <3>2, <1>0
  <2>2. CASE UNCHANGED <<tx_state, ledger>>
    BY <2>2, <1>1 DEF LedgerVerifies, ExecutionIsLast, TxTypeOK
  <2> QED BY <1>4, <2>1, <2>2
<1>6. TxTypeOK'
  BY <1>0, <1>1, <1>2, <1>3, <1>5, StageNames, MaxLedgerAssumption DEF InRun, TxTypeOK
<1>7. InRun'
  BY <1>3 DEF InRun
<1>8. AfterRun'
  <2>1. ASSUME NEW i \in 1..(stage - 1)
        PROVE  stages'[i] = TRUE /\ ledger'[base + i].to_state = PIPELINE_STAGES[i]
    <3>1. /\ stages[i] = TRUE /\ ledger[base + i].to_state = PIPELINE_STAGES[i]
          /\ i \in 1..Len(stages) /\ base + i \in 1..Len(ledger)
      BY <1>0, <1>1 DEF InRun, PassedStages, TxTypeOK
    <3> QED BY <3>1, <1>2, <1>5
  <2>2. /\ failed_at' \in 1..9
        /\ Len(stages') = failed_at'
        /\ stages'[failed_at'] = FALSE
    BY <1>0, <1>1, <1>2, <1>3 DEF InRun, TxTypeOK
  <2>3. \/ Len(ledger') = base' + failed_at' - 1
        \/ /\ Len(ledger') = base' + failed_at'
           /\ ledger'[base' + failed_at'].to_state = "Denied"
    BY <1>0, <1>1, <1>3, <1>5 DEF InRun, TxTypeOK
  <2>4. PassedStages(failed_at - 1)'
    BY <2>1, <1>3 DEF PassedStages
  <2> QED BY <2>2, <2>3, <2>4 DEF AfterRun
<1> QED BY <1>5, <1>6, <1>7, <1>8 DEF TxInv

(* and the close after the last stage, which is never refused. *)
LEMMA FinishInv == ASSUME TxInv, Finish PROVE TxInv'
<1>0. stage = 10 /\ "Closed" \in TxState
  BY StageNames DEF Finish, TxState
<1>1. TxTypeOK /\ LedgerVerifies /\ ExecutionIsLast /\ InRun
  BY DEF TxInv
<1>2. tx_state = "Recorded"
  <2>1. Len(ledger) = base + 9 /\ ledger[base + 9].to_state = "Recorded" /\ base \in Nat
    BY <1>0, <1>1, StageNames DEF InRun, PassedStages, TxTypeOK
  <2> QED BY <2>1, <1>1 DEF LedgerVerifies, verify_ledger
<1>3. Accepts(tx_state, "Closed") /\ Moved("Closed")
  BY <1>2 DEF Finish, TryMove, Accepts, is_terminal, can_transition, tx_valid_transitions
<1>4. LedgerVerifies' /\ ExecutionIsLast'
  BY <1>0, <1>1, <1>3, MoveKeeps
<1>5. /\ Len(ledger') = Len(ledger) + 1
      /\ \A i \in 1..Len(ledger) : ledger'[i] = ledger[i]
      /\ ledger' \in Seq([from_state : TxState, to_state : TxState])
      /\ tx_state' = "Closed"
  BY <1>0, <1>1, <1>3, MoveExtends
<1>6. stage' = 0 /\ base' = base /\ stages' = stages /\ failed_at' = failed_at
  BY DEF Finish
<1>7. TxTypeOK'
  BY <1>0, <1>1, <1>5, <1>6 DEF InRun, TxTypeOK, TxState
<1>8. InRun'
  BY <1>6 DEF InRun
<1>9. AfterRun'
  <2>1. PassedStages(9)'
    <3>1. ASSUME NEW i \in 1..9
          PROVE  stages'[i] = TRUE /\ ledger'[base + i].to_state = PIPELINE_STAGES[i]
      <4>1. /\ stages[i] = TRUE /\ ledger[base + i].to_state = PIPELINE_STAGES[i]
            /\ base + i \in 1..Len(ledger)
        <5>1. Len(ledger) = base + 9 /\ base \in Nat /\ i \in 1..(stage - 1)
          BY <1>0, <1>1 DEF InRun, TxTypeOK
        <5>2. stages[i] = TRUE /\ ledger[base + i].to_state = PIPELINE_STAGES[i]
          <6>1. PassedStages(stage - 1)
            BY <1>0, <1>1 DEF InRun
          <6> QED BY <5>1, <6>1, Zenon DEF PassedStages
        <5> QED BY <5>1, <5>2
      <4> QED BY <4>1, <1>5, <1>6
    <3> QED BY <3>1, <1>6 DEF PassedStages
  <2> QED BY <2>1, <1>0, <1>1, <1>5, <1>6 DEF InRun, AfterRun, TxTypeOK
<1> QED BY <1>4, <1>7, <1>8, <1>9 DEF TxInv

(* Every step of exo-bcts keeps the invariant. *)
LEMMA TxNextInv == TxInv /\ [TxNext]_tx_vars => TxInv'
<1> SUFFICES ASSUME TxInv, [TxNext]_tx_vars PROVE TxInv'
  OBVIOUS
<1>1. ASSUME NEW to \in TxState, tx_transition(to) PROVE TxInv'
  BY <1>1, TransitionInv
<1>2. CASE Begin
  BY <1>2, BeginInv
<1>3. CASE StagePasses
  BY <1>3, PassInv
<1>4. CASE StageRefused
  BY <1>4, FailInv DEF StageRefused
<1>5. CASE StageRejected
  BY <1>5, FailInv DEF StageRejected
<1>6. CASE Finish
  BY <1>6, FinishInv
<1>7. CASE UNCHANGED tx_vars
  BY <1>7 DEF tx_vars, TxInv, TxTypeOK, LedgerVerifies, ExecutionIsLast, InRun, AfterRun, PassedStages
<1> QED BY <1>1, <1>2, <1>3, <1>4, <1>5, <1>6, <1>7 DEF TxNext

(* The invariant holds in every state of a transaction of exo-bcts. *)
THEOREM PipelineInvariant == TxSpec => []TxInv
BY TxInitInv, TxNextInv, PTL DEF TxSpec

(* At most one event is an execution. *)
LEMMA InvOnce == TxInv => ExecutedAtMostOnce
<1> SUFFICES ASSUME TxInv PROVE ExecutedAtMostOnce
  OBVIOUS
<1> DEFINE S == {i \in 1..Len(ledger) : ledger[i].to_state = "Executed"}
<1>1. \A i, j \in S : i = j
  BY DEF TxInv, ExecutionIsLast
<1>2. CASE S = {}
  BY <1>2, FS_EmptySet DEF ExecutedAtMostOnce
<1>3. CASE S # {}
  <2>1. PICK x : S = {x}
    BY <1>1, <1>3
  <2>2. Cardinality(S) = 1
    BY <2>1, FS_Singleton
  <2> QED BY <2>2 DEF ExecutedAtMostOnce
<1> QED BY <1>2, <1>3

(* k successes, and perhaps a failure after them, are those of the ledger. *)
LEMMA ResultsMatch ==
    ASSUME TxTypeOK, NEW k \in 0..9, PassedStages(k), base + k <= Len(ledger),
           \/ Len(stages) = k /\ failed_at = 0
           \/ /\ Len(stages) = k + 1 /\ failed_at = k + 1 /\ k < 9
              /\ stages[k + 1] = FALSE
              /\ base + k + 1 <= Len(ledger) => ledger[base + k + 1].to_state = "Denied"
    PROVE  ReportMatchesLedger
<1>0. base \in Nat /\ Len(ledger) \in Nat /\ Len(stages) \in Nat
  BY DEF TxTypeOK
<1> SUFFICES ASSUME NEW i \in 1..Len(stages)
             PROVE  /\ stages[i] <=> /\ base + i <= Len(ledger)
                                     /\ ledger[base + i].to_state = PIPELINE_STAGES[i]
                    /\ ~stages[i] <=> i = failed_at
  BY DEF ReportMatchesLedger
<1>1. CASE i \in 1..k
  <2>1. /\ base + i <= Len(ledger)
        /\ ledger[base + i].to_state = PIPELINE_STAGES[i]
        /\ i # failed_at
    BY <1>0, <1>1 DEF PassedStages
  <2>2. stages[i] = TRUE
    BY <1>1 DEF PassedStages
  <2> QED BY <2>1, <2>2, Zenon
<1>2. CASE i = k + 1
  <2>1. i = failed_at /\ ~ (/\ base + i <= Len(ledger)
                            /\ ledger[base + i].to_state = PIPELINE_STAGES[i])
    BY <1>0, <1>2, StageNames
  <2>2. stages[i] = FALSE
    BY <1>0, <1>2
  <2> QED BY <2>1, <2>2, Zenon
<1> QED BY <1>0, <1>1, <1>2

(* The results of a run, in its course and afterwards, are true. *)
LEMMA InvReport == TxInv => ReportTruthful
<1> SUFFICES ASSUME TxInv PROVE ReportTruthful
  OBVIOUS
<1>0. /\ TxTypeOK
      /\ base \in Nat /\ Len(ledger) \in Nat /\ Len(stages) \in Nat /\ stage \in 0..10
      /\ stages = <<>> => Len(stages) = 0
  BY StageNames DEF TxInv, TxTypeOK
<1>1. CASE stage # 0
  <2> PICK k \in 0..9 : k = stage - 1
    BY <1>0, <1>1
  <2>1. PassedStages(k) /\ base + k <= Len(ledger) /\ Len(stages) = k /\ failed_at = 0
    BY <1>0, <1>1 DEF TxInv, InRun, PassedStages
  <2> QED BY <2>1, <1>0, <1>1, ResultsMatch DEF ReportTruthful, RunOutcome
<1>2. CASE stage = 0 /\ stages = <<>>
  BY <1>0, <1>2 DEF ReportTruthful, ReportMatchesLedger, RunOutcome
<1>3. CASE stage = 0 /\ stages # <<>> /\ failed_at = 0
  <2>1. /\ Len(stages) = 9 /\ Len(ledger) = base + 10 /\ PassedStages(9)
        /\ tx_state = "Closed"
    BY <1>3 DEF TxInv, AfterRun
  <2>2. ReportMatchesLedger
    BY <2>1, <1>0, <1>3, ResultsMatch
  <2> QED BY <2>1, <2>2, <1>3 DEF RunOutcome, ReportTruthful
<1>4. CASE stage = 0 /\ stages # <<>> /\ failed_at # 0
  <2>1. /\ failed_at \in 1..9
        /\ Len(stages) = failed_at
        /\ stages[failed_at] = FALSE
        /\ PassedStages(failed_at - 1)
        /\ \/ Len(ledger) = base + failed_at - 1
           \/ /\ Len(ledger) = base + failed_at
              /\ ledger[base + failed_at].to_state = "Denied"
    BY <1>4 DEF TxInv, AfterRun
  <2> PICK k \in 0..8 : k + 1 = failed_at
    BY <2>1
  <2>a. PassedStages(k)
    BY <2>1 DEF PassedStages
  <2>2. ReportMatchesLedger
    <3>1. /\ base + k <= Len(ledger) /\ Len(stages) = k + 1 /\ failed_at = k + 1 /\ k < 9
          /\ stages[k + 1] = FALSE
          /\ base + k + 1 <= Len(ledger) => ledger[base + k + 1].to_state = "Denied"
      BY <2>1, <1>0
    <3>2. k \in 0..9
      OBVIOUS
    <3> QED BY <3>1, <3>2, <2>a, <1>0, ResultsMatch, Zenon
  <2>3. ASSUME failed_at \in 1..8, NEW i \in (base + 1)..Len(ledger)
        PROVE  ledger[i].to_state # "Executed"
    <3>1. CASE i = base + failed_at
      BY <3>1, <2>1, <2>3, <1>0
    <3>2. CASE i # base + failed_at
      <4>1. i - base \in 1..(failed_at - 1) /\ i = base + (i - base)
        BY <3>2, <2>1, <2>3, <1>0
      <4> QED BY <4>1, <2>1, <2>3, StageNames DEF PassedStages
    <3> QED BY <3>1, <3>2
  <2> QED BY <1>4, <2>2, <2>3 DEF RunOutcome, ReportTruthful
<1> QED BY <1>1, <1>2, <1>3, <1>4

(* A validator never misses a change. *)
LEMMA InvAudit == TxInv => AuditComplete
<1> SUFFICES ASSUME TxInv, NEW env \in EventEnvelope, NEW ctx \in InvariantContext
             PROVE  LET failed == check_all_invariants(env, ctx)
                    IN  /\ "AuditCompleteness" \notin failed
                        /\ "TrainingConsentRequired" \in failed =>
                              "ConsentPrecedesAccess" \in failed
  BY DEF AuditComplete
<1>1. ledger = <<>> => tx_state = "Draft"
  BY DEF TxInv, LedgerVerifies, verify_ledger
<1>2. check_invariant("AuditCompleteness", env, ctx)
  BY <1>1 DEF check_invariant
<1>3. ctx.bailments => check_invariant("TrainingConsentRequired", env, ctx)
  BY DEF check_invariant
<1>4. check_invariant("ConsentPrecedesAccess", env, ctx) => ctx.bailments
  BY DEF check_invariant
<1> QED BY <1>2, <1>3, <1>4 DEF check_all_invariants, ConstitutionalInvariant

(* The ledger of transaction.rs verifies and records one execution at most, *)
(* run_pipeline reports what happened, and a validator finds every change   *)
(* recorded, for ledgers of any length and any verdicts of the stages.      *)
THEOREM PipelineIsSound == TxSpec => []PipelineSound
<1>1. TxInv => PipelineSound
  BY InvOnce, InvReport, InvAudit DEF TxInv, PipelineSound
<1> QED BY <1>1, PipelineInvariant, PTL
=============================================================================
