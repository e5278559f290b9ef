-------------------------- MODULE ConsensusProofs --------------------------
(***************************************************************************)
(* Proofs about Consensus for every set of validators, replicas and nodes  *)
(* and every number of rounds.                                             *)
(***************************************************************************)
EXTENDS Consensus, FiniteSetTheorems, TLAPS

(* Two quorums of quorum_size validators share more than fault_tolerance of
   them, because 2 * quorum_size exceeds the number of validators by more than
   that. *)
LEMMA QuorumsOverlap ==
    ASSUME NEW A \in SUBSET Validators, NEW B \in SUBSET Validators,
           quorum_size # 0,
           Cardinality(A) >= quorum_size, Cardinality(B) >= quorum_size
    PROVE  /\ IsFiniteSet(A \cap B)
           /\ Cardinality(A \cap B) \in Nat /\ fault_tolerance \in Nat
           /\ Cardinality(A \cap B) > fault_tolerance
<1> DEFINE n == Cardinality(Validators)
<1>1. /\ IsFiniteSet(A) /\ IsFiniteSet(B) /\ IsFiniteSet(A \cap B)
      /\ IsFiniteSet(A \cup B)
      /\ Cardinality(A \cup B) <= n
  BY ConsensusAssumption, FS_Subset
<1>2. /\ n \in Nat
      /\ Cardinality(A) \in Nat /\ Cardinality(B) \in Nat
      /\ Cardinality(A \cap B) \in Nat /\ Cardinality(A \cup B) \in Nat
  BY <1>1, ConsensusAssumption, FS_CardinalityType
<1>3. Cardinality(A \cup B) = Cardinality(A) + Cardinality(B) - Cardinality(A \cap B)
  BY <1>1, FS_Union
<1>4. 2 * quorum_size > n + fault_tolerance /\ quorum_size \in Nat /\ fault_tolerance \in Nat
  <2>1. n # 0
    BY DEF quorum_size
  <2>2. /\ quorum_size = ((2 * n) \div 3) + 1
        /\ fault_tolerance = (n - 1) \div 3
    BY <2>1 DEF quorum_size, fault_tolerance
  <2>3. \A m \in Nat : m # 0 => /\ 2 * (((2 * m) \div 3) + 1) > m + ((m - 1) \div 3)
                                /\ ((2 * m) \div 3) \in Nat
                                /\ ((m - 1) \div 3) \in Nat
    OBVIOUS
  <2> QED BY <1>2, <2>1, <2>2, <2>3
<1> QED BY <1>1, <1>2, <1>3, <1>4

(* A quorum of 2n/3 + 1, rounded down, is more than two thirds. *)
LEMMA QuorumIsTwoThirds ==
    quorum_size # 0 => /\ quorum_size \in Nat
                       /\ 3 * quorum_size > 2 * Cardinality(Validators)
<1>1. Cardinality(Validators) \in Nat
  BY ConsensusAssumption, FS_CardinalityType
<1> QED BY <1>1 DEF quorum_size

(* The entries that a replica stores for one round and node are at most as many
   as their voters: the length check_commit compares with the quorum counts no
   validator twice. *)
LEMMA EntriesCountVoters ==
    ASSUME OneStoredVotePerRound, TypeOK, NEW r \in Replicas, NEW n \in Nodes
    PROVE  LET S == VotesFor(r, n)
               T == {e.vote.voter : e \in S}
           IN  /\ T \subseteq Validators
               /\ IsFiniteSet(T) /\ IsFiniteSet(S)
               /\ Cardinality(S) <= Cardinality(T)
<1> DEFINE S == VotesFor(r, n)
           T == {e.vote.voter : e \in S}
           f == [e \in S |-> e.vote.voter]
<1>1. T \subseteq Validators
  <2> SUFFICES ASSUME NEW e \in S
               PROVE  e.vote.voter \in Validators
    OBVIOUS
  <2>1. e \in pending[r]
    BY DEF VotesFor
  <2>2. <<e.vote.round, e.vote.voter>> \in voted_in_round[r]
    BY <2>1 DEF OneStoredVotePerRound
  <2>3. voted_in_round[r] \subseteq Rounds \X Validators
    BY DEF TypeOK
  <2> QED BY <2>2, <2>3
<1>2. IsFiniteSet(T)
  BY <1>1, FS_Subset, ConsensusAssumption
<1>3. f \in Injection(S, T)
  BY DEF Injection, IsInjective, VotesFor, OneStoredVotePerRound
<1> QED BY <1>1, <1>2, <1>3, FS_Injection

(* Whatever commit is given is a CommitCertificate. *)
LEMMA PresentedAreCertificates == TypeOK => Presented \subseteq Certificate
BY ConsensusAssumption DEF TypeOK, Presented

LEMMA InitInv == Init => ConsensusInv
BY ConsensusAssumption
   DEF Init, ConsensusInv, TypeOK, OneStoredVotePerRound,
       CertifiedVotesStored, Rounds

LEMMA NextInv == ConsensusInv /\ [Next]_vars => ConsensusInv'
<1> SUFFICES ASSUME ConsensusInv, [Next]_vars
             PROVE  ConsensusInv'
  OBVIOUS
<1> USE DEF ConsensusInv
<1>2. ASSUME NEW r \in Replicas, advance_round(r)
      PROVE  ConsensusInv'
  <2>1. TypeOK'
    BY <1>2, ConsensusAssumption DEF advance_round, TypeOK, Rounds
  <2> QED BY <1>2, <2>1 DEF advance_round, OneStoredVotePerRound, CertifiedVotesStored, Voters
<1>3. ASSUME NEW r \in Replicas, NEW d \in Dids, NEW n \in Nodes, propose(r, d, n)
      PROVE  ConsensusInv'
  <2>1. TypeOK'
    BY <1>3 DEF propose, TypeOK
  <2> QED BY <1>3, <2>1 DEF propose, OneStoredVotePerRound, CertifiedVotesStored, Voters
<1>4. ASSUME NEW r \in Replicas, NEW v \in Vote, vote(r, v)
      PROVE  ConsensusInv'
  <2> DEFINE new == [vote |-> v, copy |-> 0]
  <2>1. Copies(r, v) = 0
    <3>1. {e \in pending[r] : e.vote = v} = {}
      BY <1>4 DEF vote, OneStoredVotePerRound
    <3> QED BY <3>1, FS_EmptySet DEF Copies
  <2>2. /\ pending' = [pending EXCEPT ![r] = @ \cup {new}]
        /\ new \in Entry
        /\ voted_in_round' = [voted_in_round EXCEPT ![r] = @ \cup {<<v.round, v.voter>>}]
        /\ <<v.round, v.voter>> \notin voted_in_round[r]
        /\ <<v.round, v.voter>> \in Rounds \X Validators
        /\ UNCHANGED <<current_round, proposed, committed, certificates, issued>>
    BY <1>4, <2>1 DEF vote, Store, Entry, Vote
  <2>3. TypeOK'
    BY <2>2 DEF TypeOK
  <2>4. OneStoredVotePerRound'
    <3> SUFFICES ASSUME NEW q \in Replicas
                 PROVE  /\ voted_in_round'[q] = {<<e.vote.round, e.vote.voter>> : e \in pending'[q]}
                        /\ \A e, f \in pending'[q] :
                              (e.vote.round = f.vote.round /\ e.vote.voter = f.vote.voter) => e = f
      BY DEF OneStoredVotePerRound
    <3>1. CASE q # r
      BY <2>2, <3>1 DEF OneStoredVotePerRound, TypeOK
    <3>2. CASE q = r
      <4>1. /\ pending'[q] = pending[r] \cup {new}
            /\ voted_in_round'[q] = voted_in_round[r] \cup {<<v.round, v.voter>>}
        BY <2>2, <3>2 DEF TypeOK
      <4>2. voted_in_round'[q] = {<<e.vote.round, e.vote.voter>> : e \in pending'[q]}
        <5>1. new.vote = v
          OBVIOUS
        <5>2. voted_in_round[r] = {<<e.vote.round, e.vote.voter>> : e \in pending[r]}
          BY DEF OneStoredVotePerRound
        <5> HIDE DEF new
        <5> QED BY <4>1, <5>1, <5>2
      <4>3. \A e \in pending[r] : ~ (e.vote.round = v.round /\ e.vote.voter = v.voter)
        BY <2>2 DEF OneStoredVotePerRound
      <4> QED BY <4>1, <4>2, <4>3 DEF OneStoredVotePerRound
    <3> QED BY <3>1, <3>2
  <2>5. CertifiedVotesStored'
    BY <2>2 DEF CertifiedVotesStored, Voters, TypeOK
  <2> QED BY <2>3, <2>4, <2>5
<1>5. ASSUME NEW r \in Replicas, NEW n \in Nodes, check_commit(r, n)
      PROVE  ConsensusInv'
  <2> DEFINE c == [node |-> n, round |-> current_round[r], votes |-> VotesFor(r, n)]
  <2>1. /\ issued' = [issued EXCEPT ![r] = @ \cup {c}]
        /\ UNCHANGED <<current_round, pending, proposed, voted_in_round, committed,
                       certificates>>
        /\ quorum_size # 0
        /\ Cardinality(VotesFor(r, n)) >= quorum_size
    BY <1>5 DEF check_commit
  <2>2. c \in Certificate
    BY DEF Certificate, TypeOK, VotesFor
  <2>3. TypeOK'
    BY <2>1, <2>2 DEF TypeOK
  <2>4. /\ Voters(c) \subseteq Validators
        /\ Cardinality(Voters(c)) >= quorum_size
    <3>1. Voters(c) = {e.vote.voter : e \in VotesFor(r, n)}
      BY DEF Voters
    <3>2. /\ Voters(c) \subseteq Validators
          /\ IsFiniteSet(Voters(c)) /\ IsFiniteSet(VotesFor(r, n))
          /\ Cardinality(VotesFor(r, n)) <= Cardinality(Voters(c))
      BY <3>1, EntriesCountVoters
    <3>3. Cardinality(VotesFor(r, n)) \in Nat /\ Cardinality(Voters(c)) \in Nat
      BY <3>2, FS_CardinalityType
    <3> QED BY <2>1, <3>2, <3>3, QuorumIsTwoThirds
  <2>5. /\ c.votes \subseteq pending[r]
        /\ \A e \in c.votes : e.vote.round = c.round /\ e.vote.node = c.node
    BY DEF VotesFor
  <2>6. CertifiedVotesStored'
    <3> HIDE DEF c
    <3> SUFFICES ASSUME NEW q \in Replicas, NEW d \in issued'[q]
                 PROVE  /\ quorum_size # 0
                        /\ d.votes \subseteq pending[q]
                        /\ Voters(d) \subseteq Validators
                        /\ Cardinality(Voters(d)) >= quorum_size
                        /\ \A e \in d.votes : e.vote.round = d.round /\ e.vote.node = d.node
      BY <2>1 DEF CertifiedVotesStored, Voters
    <3>1. d \in issued[q] \/ (q = r /\ d = c)
      BY <2>1 DEF TypeOK
    <3>2. CASE d \in issued[q]
      BY <3>2 DEF CertifiedVotesStored
    <3>3. CASE q = r /\ d = c
      BY <2>1, <2>4, <2>5, <3>3
    <3> QED BY <3>1, <3>2, <3>3
  <2>7. OneStoredVotePerRound'
    BY <2>1 DEF OneStoredVotePerRound
  <2> QED BY <2>3, <2>6, <2>7
<1>6. ASSUME NEW r \in Replicas, NEW c \in Presented, commit(r, c)
      PROVE  ConsensusInv'
  <2>1. TypeOK'
    <3>1. c \in Certificate /\ c.node \in Nodes
      BY PresentedAreCertificates DEF Certificate
    <3>2. committed' \in [Replicas -> Seq(Nodes)]
      BY <1>6, <3>1 DEF commit, TypeOK
    <3>3. certificates' \in [Replicas -> SUBSET Certificate]
      BY <1>6, <3>1 DEF commit, TypeOK
    <3> QED BY <1>6, <3>2, <3>3 DEF commit, TypeOK
  <2> QED BY <1>6, <2>1 DEF commit, OneStoredVotePerRound, CertifiedVotesStored, Voters
<1>7. CASE UNCHANGED vars
  BY <1>7 DEF vars, TypeOK, OneStoredVotePerRound, CertifiedVotesStored, Voters
<1> QED BY <1>2, <1>3, <1>4, <1>5, <1>6, <1>7 DEF Next

(* Every reachable state satisfies the inductive invariant, the type invariant
   and the double-vote bookkeeping included. *)
THEOREM ConsensusInvariant == Spec => []ConsensusInv
BY InitInv, NextInv, PTL DEF Spec

(* Every replica keeps its types under every call and delivery. *)
THEOREM TypeCorrect == Spec => []TypeOK
<1>1. ConsensusInv => TypeOK
  BY DEF ConsensusInv
<1> QED BY <1>1, ConsensusInvariant, PTL

(* At most one stored vote per validator and round, on every replica: the
   duplicate check of `vote' is complete. *)
THEOREM OneVote == Spec => []OneStoredVotePerRound
<1>1. ConsensusInv => OneStoredVotePerRound
  BY DEF ConsensusInv
<1> QED BY <1>1, ConsensusInvariant, PTL

(* Every certificate check_commit returns has the votes of more than two thirds
   of the validators, each counted once. *)
THEOREM CertificatesHaveQuorum == Spec => []CertificateQuorum
<1>1. ConsensusInv => CertificateQuorum
  <2> SUFFICES ASSUME ConsensusInv, NEW r \in Replicas, NEW c \in issued[r]
               PROVE  /\ Voters(c) \subseteq Validators
                      /\ 3 * Cardinality(Voters(c)) > 2 * Cardinality(Validators)
                      /\ \A e \in c.votes : e.vote.round = c.round /\ e.vote.node = c.node
    BY DEF CertificateQuorum
  <2>1. /\ Voters(c) \subseteq Validators
        /\ quorum_size # 0
        /\ Cardinality(Voters(c)) >= quorum_size
        /\ \A e \in c.votes : e.vote.round = c.round /\ e.vote.node = c.node
    BY DEF ConsensusInv, CertifiedVotesStored
  <2>2. Cardinality(Voters(c)) \in Nat /\ Cardinality(Validators) \in Nat
    BY <2>1, ConsensusAssumption, FS_Subset, FS_CardinalityType
  <2> QED BY <2>1, <2>2, QuorumIsTwoThirds
<1> QED BY <1>1, ConsensusInvariant, PTL

(* Certificates of one round for different nodes share more than f voters, and
   each of those voters has a vote in both. *)
LEMMA InvCulprits == ConsensusInv => DisagreementNamesCulprits
<1> SUFFICES ASSUME ConsensusInv, NEW q \in Replicas, NEW r \in Replicas,
                    NEW c \in issued[q], NEW d \in issued[r],
                    c.round = d.round, c.node # d.node
             PROVE  Cardinality(Equivocators(c, d)) > fault_tolerance
  BY DEF DisagreementNamesCulprits
<1>1. /\ quorum_size # 0
      /\ Voters(c) \in SUBSET Validators /\ Voters(d) \in SUBSET Validators
      /\ Cardinality(Voters(c)) >= quorum_size /\ Cardinality(Voters(d)) >= quorum_size
      /\ \A e \in c.votes : e.vote.round = c.round /\ e.vote.node = c.node
      /\ \A e \in d.votes : e.vote.round = d.round /\ e.vote.node = d.node
  BY DEF ConsensusInv, CertifiedVotesStored
<1>2. /\ Cardinality(Voters(c) \cap Voters(d)) \in Nat /\ fault_tolerance \in Nat
      /\ Cardinality(Voters(c) \cap Voters(d)) > fault_tolerance
  BY <1>1, QuorumsOverlap
<1>3. Voters(c) \cap Voters(d) \subseteq Equivocators(c, d)
  <2> SUFFICES ASSUME NEW v \in Voters(c) \cap Voters(d)
               PROVE  v \in Equivocators(c, d)
    OBVIOUS
  <2>1. PICK e \in c.votes : e.vote.voter = v
    BY DEF Voters
  <2>2. PICK f \in d.votes : f.vote.voter = v
    BY DEF Voters
  <2>3. /\ e.vote.round = f.vote.round /\ e.vote.node # f.vote.node
        /\ v \in Validators
    BY <1>1
  <2> QED BY <2>1, <2>2, <2>3 DEF Equivocators
<1>4. Equivocators(c, d) \subseteq Validators
  BY DEF Equivocators
<1>5. IsFiniteSet(Equivocators(c, d))
  BY <1>4, ConsensusAssumption, FS_Subset
<1>6. /\ Cardinality(Equivocators(c, d)) \in Nat
      /\ Cardinality(Voters(c) \cap Voters(d)) <= Cardinality(Equivocators(c, d))
  BY <1>3, <1>5, FS_Subset, FS_CardinalityType
<1> QED BY <1>2, <1>6

(* Accountable agreement: replicas that certify different nodes of one round do
   so on conflicting votes in the names of more than (n - 1) / 3 validators. *)
THEOREM DisagreementIsAccountable == Spec => []DisagreementNamesCulprits
BY InvCulprits, ConsensusInvariant, PTL

(* On one replica a round has one certified node. *)
ReplicaAgreement ==
    \A r \in Replicas : \A c, d \in issued[r] : c.round = d.round => c.node = d.node

(* Two certificates that one replica returns for one round name one node: their
   quorums share a validator, whose one stored vote of the round is in both. *)
LEMMA ReplicaAgrees == ConsensusInv => ReplicaAgreement
<1> SUFFICES ASSUME ConsensusInv, NEW r \in Replicas, NEW c \in issued[r],
                    NEW d \in issued[r], c.round = d.round
             PROVE  c.node = d.node
  BY DEF ReplicaAgreement
<1>1. /\ quorum_size # 0
      /\ Voters(c) \in SUBSET Validators /\ Voters(d) \in SUBSET Validators
      /\ Cardinality(Voters(c)) >= quorum_size /\ Cardinality(Voters(d)) >= quorum_size
      /\ c.votes \subseteq pending[r] /\ d.votes \subseteq pending[r]
      /\ \A e \in c.votes : e.vote.round = c.round /\ e.vote.node = c.node
      /\ \A e \in d.votes : e.vote.round = d.round /\ e.vote.node = d.node
  BY DEF ConsensusInv, CertifiedVotesStored
<1>2. /\ Cardinality(Voters(c) \cap Voters(d)) \in Nat /\ fault_tolerance \in Nat
      /\ Cardinality(Voters(c) \cap Voters(d)) > fault_tolerance
  BY <1>1, QuorumsOverlap
<1>3. Voters(c) \cap Voters(d) # {}
  BY <1>2, FS_EmptySet
<1>4. PICK v \in Voters(c) \cap Voters(d) : TRUE
  BY <1>3
<1>5. PICK e \in c.votes : e.vote.voter = v
  BY <1>4 DEF Voters
<1>6. PICK f \in d.votes : f.vote.voter = v
  BY <1>4 DEF Voters
<1>7. e = f
  BY <1>1, <1>5, <1>6 DEF ConsensusInv, OneStoredVotePerRound
<1> QED BY <1>1, <1>5, <1>6, <1>7

(* The finalized hashes are exactly the committed ones. *)
THEOREM CommittedAndFinalized == Spec => []FinalizedIsCommitted
<1>1. Init => FinalizedIsCommitted
  BY DEF Init, FinalizedIsCommitted, FinalizedNodes, Range
<1>2. ConsensusInv /\ FinalizedIsCommitted /\ [Next]_vars => FinalizedIsCommitted'
  <2> SUFFICES ASSUME ConsensusInv, FinalizedIsCommitted, [Next]_vars
               PROVE  FinalizedIsCommitted'
    OBVIOUS
  <2>1. ASSUME NEW r \in Replicas, NEW c \in Presented, commit(r, c)
        PROVE  FinalizedIsCommitted'
    <3>1. c.node \in Nodes /\ committed[r] \in Seq(Nodes)
      BY PresentedAreCertificates DEF ConsensusInv, TypeOK, Certificate
    <3>2. /\ committed' = [committed EXCEPT ![r] = Append(committed[r], c.node)]
          /\ certificates' = [certificates EXCEPT
                 ![r] = {d \in certificates[r] : d.node # c.node} \cup {c}]
          /\ DOMAIN committed = Replicas /\ DOMAIN certificates = Replicas
      BY <2>1 DEF commit, ConsensusInv, TypeOK
    <3> SUFFICES ASSUME NEW q \in Replicas
                 PROVE  /\ FinalizedNodes(certificates'[q]) = Range(committed'[q])
                        /\ \A d, g \in certificates'[q] : d.node = g.node => d = g
      BY DEF FinalizedIsCommitted
    <3>3. CASE q # r
      <4>1. /\ committed'[q] = committed[q]
            /\ certificates'[q] = certificates[q]
        BY <3>2, <3>3
      <4> QED BY <3>2, <4>1 DEF FinalizedIsCommitted
    <3>4. CASE q = r
      <4> DEFINE s == committed[r]
                 t == Append(s, c.node)
                 C == {d \in certificates[r] : d.node # c.node} \cup {c}
      <4>1. committed'[q] = t /\ certificates'[q] = C
        BY <3>2, <3>4
      <4>2. Range(t) = Range(s) \cup {c.node}
        <5>1. /\ DOMAIN t = (DOMAIN s) \cup {Len(s) + 1}
              /\ \A i \in DOMAIN s : t[i] = s[i]
              /\ t[Len(s) + 1] = c.node
          BY <3>1
        <5> HIDE DEF s, t
        <5> QED BY <5>1 DEF Range
      <4>3. FinalizedNodes(C) = FinalizedNodes(certificates[r]) \cup {c.node}
        BY DEF FinalizedNodes
      <4>4. FinalizedNodes(certificates[r]) = Range(s)
        BY DEF FinalizedIsCommitted
      <4>5. FinalizedNodes(C) = Range(t)
        BY <4>2, <4>3, <4>4
      <4>6. \A d, g \in C : d.node = g.node => d = g
        BY DEF FinalizedIsCommitted
      <4> HIDE DEF t, C
      <4> QED BY <3>2, <4>1, <4>5, <4>6
    <3> QED BY <3>3, <3>4
  <2>2. CASE UNCHANGED <<committed, certificates>>
    BY <2>2 DEF FinalizedIsCommitted
  <2> QED BY <2>1, <2>2
          DEF Next, vars, advance_round, propose, vote, Store, check_commit
<1> QED BY <1>1, <1>2, ConsensusInvariant, PTL DEF Spec

(* Every certificate that check_commit returns counts more than two thirds of the
   validators, and a replica has finalized exactly what was committed on it. *)
THEOREM CertificatesAreSound == Spec => []CertificatesSound
BY CertificatesHaveQuorum, CommittedAndFinalized, PTL DEF CertificatesSound

(* Each replica implements RoundDecision: what it certifies is, round by round, a
   register written at most once, whatever votes it is shown. *)
THEOREM ImplementsRoundDecision == Spec => DecidesOncePerRound
<1>1. Init => D!Init
  BY DEF Init, D!Init, Decisions
<1>2. ConsensusInv' => ReplicaAgreement'
  BY ReplicaAgrees, PTL
<1>3. ConsensusInv /\ ConsensusInv' /\ [Next]_vars => [D!Next]_Decisions
  <2> SUFFICES ASSUME ConsensusInv, ConsensusInv', [Next]_vars
               PROVE  [D!Next]_Decisions
    OBVIOUS
  <2>1. CASE issued' = issued
    BY <2>1 DEF Decisions
  <2>2. ASSUME NEW r \in Replicas, NEW n \in Nodes, check_commit(r, n)
        PROVE  [D!Next]_Decisions
    <3> DEFINE c == [node |-> n, round |-> current_round[r], votes |-> VotesFor(r, n)]
    <3>1. /\ issued' = [issued EXCEPT ![r] = issued[r] \cup {c}]
          /\ c.round \in Rounds /\ c.node = n
          /\ DOMAIN issued = Replicas
      BY <2>2 DEF check_commit, ConsensusInv, TypeOK
    <3> HIDE DEF c
    <3>2. Decisions' = Decisions \cup {<<r, c.round, n>>}
      BY <3>1 DEF Decisions
    <3>3. CASE D!Undecided(r, c.round)
      BY <3>1, <3>2, <3>3 DEF D!Next, D!Decide
    <3>4. CASE ~ D!Undecided(r, c.round)
      <4>1. PICK m \in Nodes : <<r, c.round, m>> \in Decisions
        BY <3>4 DEF D!Undecided
      <4>2. PICK d \in issued[r] : d.round = c.round /\ d.node = m
        BY <4>1 DEF Decisions
      <4>3. c \in issued'[r] /\ d \in issued'[r]
        BY <3>1
      <4>4. m = n
        BY <1>2, <3>1, <4>2, <4>3 DEF ReplicaAgreement
      <4> QED BY <3>2, <4>1, <4>4
    <3> QED BY <3>3, <3>4
  <2> QED BY <2>1, <2>2
          DEF Next, vars, advance_round, propose, vote, Store, commit
<1> QED BY <1>1, <1>3, ConsensusInvariant, PTL DEF Spec, DecidesOncePerRound, D!Spec
=============================================================================
