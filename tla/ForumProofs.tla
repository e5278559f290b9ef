---------------------------- MODULE ForumProofs -----------------------------
(***************************************************************************)
(* What holds of a decision of crates/decision-forum for every set of      *)
(* voters, actors and clock readings and for any number of receipts,       *)
(* votes, items and challenges; then of the powers of the forum, for any   *)
(* number of actions, delegations and amendments; then of what it reports  *)
(* about itself, for any number of records; and of the copies a host keeps *)
(* of all these, however it forks and drops them.                          *)
(***************************************************************************)
EXTENDS ForumBindings, FiniteSetTheorems, SequenceTheorems, WellFoundedInduction,
        TLAPS

(* Receipts nest, so no fixed set holds them all. *)
IsSequence(s) == \E S : s \in Seq(S)

Challenge == [decision_id : Decisions, status : ChallengeStatus,
              resolved_at : SUBSET Times]

DistinctVoters == \A v, w \in votes : v.voter_did = w.voter_did => v = w

(* The inductive invariant. *)
ForumInv ==
    /\ TypeOK
    /\ IsSequence(receipt_chain)
    /\ challenges \in Seq(Challenge)
    /\ IsFiniteSet(votes)
    /\ DistinctVoters
    /\ \A r \in reversals : r.challenge_id \in 1..Len(challenges)
    /\ ReversalsStand

-----------------------------------------------------------------------------
(* Integer division rounds down. *)
LEMMA DivisionRoundsDown ==
    ASSUME NEW x \in Nat, NEW n \in Nat \ {0}
    PROVE  x \div n \in Nat /\ n * (x \div n) <= x
  BY Z3

(* What check_quorum compares is what it should: a percentage reached      *)
(* after rounding down was reached before.                                 *)
LEMMA PercentageIsExact ==
    ASSUME NEW a \in Nat, NEW n \in Nat \ {0}, NEW p \in Nat,
           approve_pct(a, n) >= p
    PROVE  a * 100 >= p * n
<1> DEFINE q == (a * 100) \div n
<1>1. q \in Nat /\ n * q <= a * 100
  BY DivisionRoundsDown
<1>2. q >= p
  BY DEF approve_pct
<1> HIDE DEF q
<1>3. p * n <= n * q
  <2>1. PICK k \in Nat : q = p + k
    <3>1. q - p \in Nat /\ q = p + (q - p)
      BY <1>1, <1>2
    <3> QED BY <3>1
  <2>2. n * (p + k) = p * n + n * k /\ n * k \in Nat
    OBVIOUS
  <2> QED BY <2>1, <2>2
<1> QED BY <1>1, <1>3

(* ... and the other way round: a percentage reached is still reached      *)
(* after rounding down to an integer.                                      *)
LEMMA ExactReachesPercentage ==
    ASSUME NEW a \in Nat, NEW n \in Nat \ {0}, NEW p \in Nat,
           a * 100 >= p * n
    PROVE  approve_pct(a, n) >= p
<1> DEFINE q == (a * 100) \div n
<1>1. q \in Nat /\ a * 100 < n * (q + 1)
  BY Z3
<1> HIDE DEF q
<1>2. p < q + 1
  <2> SUFFICES ASSUME p >= q + 1 PROVE FALSE
    BY <1>1
  <2>1. PICK k \in Nat : p = q + 1 + k
    <3>1. p - (q + 1) \in Nat /\ p = q + 1 + (p - (q + 1))
      BY <1>1
    <3> QED BY <3>1
  <2>2. (q + 1 + k) * n = n * (q + 1) + k * n /\ k * n \in Nat
    BY <1>1
  <2>3. p * n >= n * (q + 1)
    BY <1>1, <2>1, <2>2
  <2> QED BY <1>1, <2>3
<1>3. approve_pct(a, n) = q
  BY DEF approve_pct, q
<1> QED BY <1>1, <1>2, <1>3

(* What a met quorum says of the tally, in numbers without division. *)
LEMMA MetTally ==
    ASSUME NEW c \in DecisionClass, NEW vs, IsFiniteSet(vs),
           check_quorum(with_defaults, c, vs) = "Met"
    PROVE  LET req == with_defaults[c]
               n   == Cardinality(vs)
               a   == Cardinality(Approvals(vs))
               h   == Cardinality(HumanVotes(vs))
           IN  /\ n \in Nat /\ a \in Nat /\ h \in Nat
               /\ req.min_votes \in Nat \ {0}
               /\ req.min_approve_pct \in Nat
               /\ req.min_human_votes \in Nat
               /\ n >= req.min_votes
               /\ h >= req.min_human_votes
               /\ a * 100 >= req.min_approve_pct * n
<1> DEFINE req == with_defaults[c]
           n   == Cardinality(vs)
           a   == Cardinality(Approvals(vs))
           h   == Cardinality(HumanVotes(vs))
<1>1. /\ req.min_votes \in Nat \ {0}
      /\ req.min_approve_pct \in Nat
      /\ req.min_human_votes \in Nat
      /\ c \in DOMAIN with_defaults
  BY DEF with_defaults, DecisionClass
<1>2. n \in Nat /\ a \in Nat /\ h \in Nat
  <2>1. Approvals(vs) \in SUBSET vs /\ HumanVotes(vs) \in SUBSET vs
    BY DEF Approvals, HumanVotes
  <2>2. IsFiniteSet(Approvals(vs)) /\ IsFiniteSet(HumanVotes(vs))
    BY <2>1, FS_Subset
  <2> QED BY <2>2, FS_CardinalityType
<1>3. Meets(req, n, a, h) = "Met"
  BY <1>1 DEF check_quorum
<1> HIDE DEF req, n, a, h
<1>4. n >= req.min_votes
  BY <1>1, <1>2, <1>3 DEF Meets
<1>5. /\ ~(h < req.min_human_votes)
      /\ ~(approve_pct(a, n) < req.min_approve_pct)
  BY <1>1, <1>2, <1>3, <1>4 DEF Meets
<1>6. approve_pct(a, n) >= req.min_approve_pct
  <2>1. n > 0 /\ approve_pct(a, n) = (a * 100) \div n
    BY <1>1, <1>2, <1>4 DEF approve_pct
  <2>2. (a * 100) \div n \in Nat
    BY <1>2, <2>1, DivisionRoundsDown
  <2> QED BY <1>1, <1>5, <2>1, <2>2
<1>7. a * 100 >= req.min_approve_pct * n
  BY <1>1, <1>2, <1>4, <1>6, PercentageIsExact
<1> QED BY <1>1, <1>2, <1>4, <1>5, <1>7 DEF req, n, a, h

(* Different votes come from different voters, so votes and voters are     *)
(* equally many.                                                           *)
LEMMA VotesCountVoters ==
    ASSUME ForumInv
    PROVE  Cardinality({v.voter_did : v \in votes}) = Cardinality(votes)
<1> DEFINE T == {v.voter_did : v \in votes}
           f == [v \in votes |-> v.voter_did]
<1>1. f \in Bijection(votes, T)
  <2>1. f \in [votes -> T]
    OBVIOUS
  <2>2. \A v, w \in votes : f[v] = f[w] => v = w
    BY DEF ForumInv, DistinctVoters
  <2>3. \A t \in T : \E v \in votes : f[v] = t
    OBVIOUS
  <2> QED BY <2>1, <2>2, <2>3 DEF Bijection, Injection, Surjection, IsInjective
<1>2. ExistsBijection(votes, T)
  BY <1>1 DEF ExistsBijection
<1> QED BY <1>2, FS_Bijection DEF ForumInv

-----------------------------------------------------------------------------
(* A new decision satisfies the invariant. *)
LEMMA InitForumInv == Init => ForumInv
<1> SUFFICES ASSUME Init PROVE ForumInv
  OBVIOUS
<1>1. PICK c \in DecisionClass : new(c)
  BY DEF Init
<1>2. /\ receipt_chain \in Seq({}) /\ Len(receipt_chain) = 0
      /\ challenges \in Seq(Challenge) /\ Len(challenges) = 0
      /\ 1..0 = {}
  BY <1>1 DEF new, Init
<1>3. TypeOK
  BY <1>1, <1>2, ForumAssumption DEF TypeOK, new, Core!BctsState
<1>4. IsFiniteSet(votes) /\ DistinctVoters
  BY <1>1, FS_EmptySet DEF new, DistinctVoters
<1>5. reversals = {}
  BY DEF Init
<1> QED BY <1>2, <1>3, <1>4, <1>5 DEF ForumInv, IsSequence, ReversalsStand

(* Updating or adding a challenge leaves a sequence of challenges. *)
LEMMA ChallengeSequences ==
    ASSUME challenges \in Seq(Challenge)
    PROVE  /\ Len(challenges) \in Nat
           /\ \A i \in 1..Len(challenges) : challenges[i] \in Challenge
           /\ \A c \in Challenge :
                 /\ Append(challenges, c) \in Seq(Challenge)
                 /\ Len(Append(challenges, c)) = Len(challenges) + 1
                 /\ Append(challenges, c)[Len(challenges) + 1] = c
                 /\ \A i \in 1..Len(challenges) :
                       Append(challenges, c)[i] = challenges[i]
                 /\ \A i \in 1..Len(challenges) :
                       /\ [challenges EXCEPT ![i] = c] \in Seq(Challenge)
                       /\ Len([challenges EXCEPT ![i] = c]) = Len(challenges)
                       /\ [challenges EXCEPT ![i] = c][i] = c
                       /\ \A j \in 1..Len(challenges) :
                             j # i => [challenges EXCEPT ![i] = c][j] = challenges[j]
  OBVIOUS

(* A step that replaces challenge i, unresolved so far, by another record  *)
(* of the same decision keeps the invariant.                               *)
LEMMA ReplaceUnresolved ==
    ASSUME ForumInv, NEW i \in 1..Len(challenges), NEW c \in Challenge,
           challenges[i].status \in Unresolved,
           c.resolved_at # None <=> c.status \in {"Sustained", "Overruled"},
           challenges' = [challenges EXCEPT ![i] = c],
           UNCHANGED <<decision, reversals>>
    PROVE  ForumInv'
<1>1. challenges \in Seq(Challenge)
  BY DEF ForumInv
<1>2. /\ challenges' \in Seq(Challenge)
      /\ Len(challenges') = Len(challenges)
      /\ challenges'[i] = c
      /\ \A j \in 1..Len(challenges) : j # i => challenges'[j] = challenges[j]
  BY <1>1, ChallengeSequences
<1>3. /\ class' = class /\ state' = state /\ votes' = votes
      /\ authority_chain' = authority_chain
      /\ evidence_bundle' = evidence_bundle
      /\ receipt_chain' = receipt_chain
      /\ reversals' = reversals
  BY DEF decision
<1>4. TypeOK'
  <2>1. c.decision_id \in Decisions /\ c.status \in ChallengeStatus
    BY DEF Challenge
  <2>2. \A j \in 1..Len(challenges') :
           /\ challenges'[j].decision_id \in Decisions
           /\ challenges'[j].status \in ChallengeStatus
           /\ challenges'[j].resolved_at # None <=>
                 challenges'[j].status \in {"Sustained", "Overruled"}
    BY <1>2, <2>1 DEF ForumInv, TypeOK
  <2> QED BY <1>2, <1>3, <2>2 DEF ForumInv, TypeOK
<1>5. ReversalsStand'
  <2>1. \A r \in reversals : r.challenge_id # i
    BY DEF ForumInv, ReversalsStand, Unresolved
  <2> QED BY <1>2, <1>3, <2>1 DEF ForumInv, ReversalsStand
<1> QED BY <1>2, <1>3, <1>4, <1>5 DEF ForumInv, DistinctVoters

(* A step that leaves the challenges and the reversals alone needs to      *)
(* account for the decision only.                                          *)
LEMMA DecisionStep ==
    ASSUME ForumInv, UNCHANGED <<class, challenges, reversals>>,
           state' \in Core!BctsState,
           authority_chain' \in 0..MaxItems, evidence_bundle' \in 0..MaxItems,
           votes' \subseteq Vote, IsFiniteSet(votes'), DistinctVoters',
           Len(receipt_chain') <= MaxReceipts, IsSequence(receipt_chain')
    PROVE  ForumInv'
<1>1. class' = class /\ challenges' = challenges /\ reversals' = reversals
  OBVIOUS
<1>2. TypeOK'
  BY <1>1 DEF ForumInv, TypeOK
<1>3. ReversalsStand'
  BY <1>1 DEF ForumInv, ReversalsStand
<1> QED BY <1>1, <1>2, <1>3 DEF ForumInv

(* A receipt appended to the chain, and the chain of hashes it makes. *)
LEMMA ReceiptAppended ==
    ASSUME IsSequence(receipt_chain), NEW e,
           receipt_chain' = Append(receipt_chain, e)
    PROVE  LET n == Len(receipt_chain)
           IN  /\ n \in Nat
               /\ IsSequence(receipt_chain')
               /\ Len(receipt_chain') = n + 1
               /\ [i \in 1..(n + 1) |-> receipt_chain'[i].receipt_hash] =
                     Append([i \in 1..n |-> receipt_chain[i].receipt_hash],
                            e.receipt_hash)
<1> DEFINE n == Len(receipt_chain)
<1>1. PICK S : receipt_chain \in Seq(S)
  BY DEF IsSequence
<1>2. /\ receipt_chain \in Seq(S \cup {e})
      /\ receipt_chain' \in Seq(S \cup {e})
      /\ n \in Nat
      /\ Len(receipt_chain') = n + 1
      /\ receipt_chain'[n + 1] = e
      /\ \A i \in 1..n : receipt_chain'[i] = receipt_chain[i]
  BY <1>1
<1>3. IsSequence(receipt_chain')
  BY <1>2 DEF IsSequence
<1> DEFINE h == [i \in 1..n |-> receipt_chain[i].receipt_hash]
           g == [i \in 1..(n + 1) |-> receipt_chain'[i].receipt_hash]
           T == {receipt_chain[i].receipt_hash : i \in 1..n} \cup {e.receipt_hash}
<1>4. h \in Seq(T) /\ Len(h) = n
  BY <1>2
<1>5. Append(h, e.receipt_hash) = [i \in 1..(n + 1) |->
                                     IF i = n + 1 THEN e.receipt_hash ELSE h[i]]
  BY <1>2, <1>4
<1>6. \A i \in 1..(n + 1) : g[i] = IF i = n + 1 THEN e.receipt_hash ELSE h[i]
  BY <1>2
<1>7. g = Append(h, e.receipt_hash)
  BY <1>5, <1>6
<1> QED BY <1>2, <1>3, <1>7

(* Every call preserves the invariant. *)
LEMMA NextForumInv == ForumInv /\ [Next]_vars => ForumInv'
<1> SUFFICES ASSUME ForumInv, [Next]_vars PROVE ForumInv'
  OBVIOUS
<1>t. /\ class \in DecisionClass /\ state \in Core!BctsState
      /\ authority_chain \in 0..MaxItems /\ evidence_bundle \in 0..MaxItems
      /\ votes \subseteq Vote /\ IsFiniteSet(votes) /\ DistinctVoters
      /\ Len(receipt_chain) <= MaxReceipts /\ IsSequence(receipt_chain)
      /\ challenges \in Seq(Challenge) /\ Len(challenges) <= MaxChallenges
      /\ MaxItems \in Nat /\ MaxReceipts \in Nat /\ MaxChallenges \in Nat
  BY ForumAssumption DEF ForumInv, TypeOK
<1>1. CASE UNCHANGED vars
  <2>1. /\ UNCHANGED <<class, challenges, reversals>>
        /\ state' = state /\ votes' = votes
        /\ authority_chain' = authority_chain
        /\ evidence_bundle' = evidence_bundle
        /\ receipt_chain' = receipt_chain
    BY <1>1 DEF vars
  <2>2. DistinctVoters'
    BY <1>t, <2>1 DEF DistinctVoters
  <2> QED BY <1>t, <2>1, <2>2, DecisionStep
<1>2. ASSUME NEW to \in Core!BctsState, NEW actor \in Actors, NEW time \in Times,
             transition(to, actor, time)
      PROVE  ForumInv'
  <2>1. /\ UNCHANGED <<class, challenges, reversals>>
        /\ state' = to /\ votes' = votes
        /\ authority_chain' = authority_chain
        /\ evidence_bundle' = evidence_bundle
        /\ Len(receipt_chain) < MaxReceipts
    BY <1>2 DEF transition
  <2>2. IsSequence(receipt_chain') /\ Len(receipt_chain') = Len(receipt_chain) + 1
        /\ Len(receipt_chain) \in Nat
    BY <1>2, <1>t, ReceiptAppended DEF transition
  <2>3. Len(receipt_chain') <= MaxReceipts
    BY <1>t, <2>1, <2>2
  <2>4. DistinctVoters'
    BY <1>t, <2>1 DEF DistinctVoters
  <2> QED BY <1>t, <2>1, <2>2, <2>3, <2>4, DecisionStep
<1>3. ASSUME NEW vote \in Vote, add_vote(vote)
      PROVE  ForumInv'
  <2>1. /\ UNCHANGED <<class, challenges, reversals>>
        /\ state' = state /\ votes' = votes \cup {vote}
        /\ authority_chain' = authority_chain
        /\ evidence_bundle' = evidence_bundle
        /\ receipt_chain' = receipt_chain
        /\ \A v \in votes : v.voter_did # vote.voter_did
    BY <1>3 DEF add_vote
  <2>2. IsFiniteSet(votes')
    BY <1>t, <2>1, FS_AddElement
  <2>3. DistinctVoters'
    BY <1>t, <2>1 DEF DistinctVoters
  <2> QED BY <1>t, <2>1, <2>2, <2>3, DecisionStep
<1>4. CASE add_evidence \/ add_authority_link
  <2>1. /\ UNCHANGED <<class, challenges, reversals>>
        /\ state' = state /\ votes' = votes
        /\ receipt_chain' = receipt_chain
    BY <1>4 DEF add_evidence, add_authority_link
  <2>2. authority_chain' \in 0..MaxItems /\ evidence_bundle' \in 0..MaxItems
    BY <1>4, <1>t DEF add_evidence, add_authority_link
  <2>3. DistinctVoters'
    BY <1>t, <2>1 DEF DistinctVoters
  <2> QED BY <1>t, <2>1, <2>2, <2>3, DecisionStep
<1>5. ASSUME NEW d \in Decisions, file_challenge(d)
      PROVE  ForumInv'
  <2> DEFINE c == [decision_id |-> d, status |-> "Filed", resolved_at |-> None]
             n == Len(challenges)
  <2>1. c \in Challenge
    BY DEF Challenge, ChallengeStatus, None
  <2>2. /\ class' = class /\ state' = state /\ votes' = votes
        /\ authority_chain' = authority_chain
        /\ evidence_bundle' = evidence_bundle
        /\ receipt_chain' = receipt_chain
        /\ reversals' = reversals
        /\ n < MaxChallenges
        /\ challenges' = Append(challenges, c)
    BY <1>5 DEF file_challenge, decision
  <2>3. /\ n \in Nat
        /\ challenges' \in Seq(Challenge)
        /\ Len(challenges') = n + 1
        /\ challenges'[n + 1] = c
        /\ \A i \in 1..n : challenges'[i] = challenges[i]
    BY <1>t, <2>1, <2>2, ChallengeSequences
  <2>4. TypeOK'
    <3>1. \A i \in 1..Len(challenges') :
             /\ challenges'[i].decision_id \in Decisions
             /\ challenges'[i].status \in ChallengeStatus
             /\ challenges'[i].resolved_at # None <=>
                   challenges'[i].status \in {"Sustained", "Overruled"}
      BY <2>3 DEF ForumInv, TypeOK, ChallengeStatus, None
    <3> QED BY <1>t, <2>2, <2>3, <3>1 DEF TypeOK
  <2>5. ReversalsStand'
    BY <2>2, <2>3 DEF ForumInv, ReversalsStand
  <2>6. \A r \in reversals' : r.challenge_id \in 1..Len(challenges')
    BY <2>2, <2>3 DEF ForumInv
  <2>7. DistinctVoters'
    BY <1>t, <2>2 DEF DistinctVoters
  <2> QED BY <1>t, <2>2, <2>3, <2>4, <2>5, <2>6, <2>7 DEF ForumInv
<1>6. ASSUME NEW i \in 1..Len(challenges), begin_review(i) \/ withdraw(i)
      PROVE  ForumInv'
  <2>1. PICK s \in {"UnderReview", "Withdrawn"} :
            /\ challenges[i].status \in Unresolved
            /\ challenges' = [challenges EXCEPT ![i].status = s]
            /\ UNCHANGED <<decision, reversals>>
    BY <1>6 DEF begin_review, withdraw, Unresolved
  <2> DEFINE c == [challenges[i] EXCEPT !.status = s]
  <2>2. challenges[i] \in Challenge /\ challenges[i].resolved_at = None
    BY <1>t, <2>1, ChallengeSequences DEF ForumInv, TypeOK, Unresolved
  <2>3. c \in Challenge
    BY <2>2 DEF Challenge, ChallengeStatus
  <2>4. c.resolved_at # None <=> c.status \in {"Sustained", "Overruled"}
    BY <2>2 DEF Challenge
  <2>5. challenges' = [challenges EXCEPT ![i] = c]
    BY <1>t, <2>1
  <2> QED BY <2>1, <2>3, <2>4, <2>5, ReplaceUnresolved
<1>7. ASSUME NEW i \in 1..Len(challenges), NEW verdict \in {"Sustain", "Overrule"},
             NEW time \in Times, adjudicate(i, verdict, time)
      PROVE  ForumInv'
  <2> DEFINE s == IF verdict = "Sustain" THEN "Sustained" ELSE "Overruled"
             c == [challenges[i] EXCEPT !.status = s, !.resolved_at = Some(time)]
  <2>1. /\ challenges[i].status \in Unresolved
        /\ challenges' = [challenges EXCEPT ![i].status = s,
                                            ![i].resolved_at = Some(time)]
        /\ UNCHANGED <<decision, reversals>>
    BY <1>7 DEF adjudicate
  <2>2. challenges[i] \in Challenge
    BY <1>t, ChallengeSequences
  <2>3. c \in Challenge /\ c.resolved_at # None /\ c.status \in {"Sustained", "Overruled"}
    BY <2>2 DEF Challenge, ChallengeStatus, Some, None
  <2>4. challenges' = [challenges EXCEPT ![i] = c]
    BY <1>t, <2>1, <2>2 DEF Challenge
  <2> QED BY <2>1, <2>3, <2>4, ReplaceUnresolved
<1>8. ASSUME NEW i \in 1..Len(challenges), NEW d \in Decisions, NEW time \in Times,
             create_reversal(i, d, time)
      PROVE  ForumInv'
  <2> DEFINE r == [original_decision_id |-> challenges[i].decision_id,
                   reversal_decision_id |-> d, challenge_id |-> i,
                   reversed_at |-> time]
  <2>1. /\ class' = class /\ state' = state /\ votes' = votes
        /\ authority_chain' = authority_chain
        /\ evidence_bundle' = evidence_bundle
        /\ receipt_chain' = receipt_chain
        /\ challenges' = challenges
        /\ challenges[i].status = "Sustained"
        /\ reversals' = reversals \cup {r}
    BY <1>8 DEF create_reversal, decision
  <2>2. TypeOK'
    BY <2>1 DEF ForumInv, TypeOK
  <2>3. ReversalsStand'
    BY <2>1 DEF ForumInv, ReversalsStand
  <2>4. \A q \in reversals' : q.challenge_id \in 1..Len(challenges')
    BY <2>1 DEF ForumInv
  <2>5. DistinctVoters'
    BY <1>t, <2>1 DEF DistinctVoters
  <2> QED BY <1>t, <2>1, <2>2, <2>3, <2>4, <2>5 DEF ForumInv
<1> QED BY <1>1, <1>2, <1>3, <1>4, <1>5, <1>6, <1>7, <1>8 DEF Next

-----------------------------------------------------------------------------
(* The invariant holds after any sequence of calls. *)
THEOREM ForumInvariant == Spec => []ForumInv
  BY InitForumInv, NextForumInv, PTL DEF Spec

(* The decision and its challenges keep their types, and a challenge has a *)
(* resolution time exactly when it was adjudicated.                        *)
THEOREM ForumTypeCorrect == Spec => []TypeOK
<1>1. ForumInv => TypeOK
  BY DEF ForumInv
<1> QED BY <1>1, ForumInvariant, PTL

(* However often and in whatever order votes are offered, a quorum is met  *)
(* by as many voters as the class demands and no fewer.                    *)
THEOREM QuorumOfVoters == Spec => []MetByDistinctVoters
<1>1. ForumInv => MetByDistinctVoters
  <2> SUFFICES ASSUME ForumInv, check_quorum(with_defaults, class, votes) = "Met"
               PROVE  verify_quorum_precondition(with_defaults, class,
                          Cardinality({v.voter_did : v \in votes}))
    BY DEF MetByDistinctVoters
  <2>1. class \in DecisionClass /\ IsFiniteSet(votes)
    BY DEF ForumInv, TypeOK
  <2>2. Cardinality(votes) >= with_defaults[class].min_votes
    BY <2>1, MetTally
  <2>3. class \in DOMAIN with_defaults
    BY <2>1 DEF with_defaults
  <2> QED BY <2>2, <2>3, VotesCountVoters DEF verify_quorum_precondition
<1> QED BY <1>1, ForumInvariant, PTL

(* The rounding of check_quorum passes no decision below its share, for    *)
(* any number of votes.                                                    *)
THEOREM QuorumShare == Spec => []MetIsSupermajority
<1>1. ForumInv => MetIsSupermajority
  <2> SUFFICES ASSUME ForumInv, check_quorum(with_defaults, class, votes) = "Met"
               PROVE  Cardinality(Approvals(votes)) * 100 >=
                        with_defaults[class].min_approve_pct * Cardinality(votes)
    BY DEF MetIsSupermajority
  <2>1. class \in DecisionClass /\ IsFiniteSet(votes)
    BY DEF ForumInv, TypeOK
  <2> QED BY <2>1, MetTally
<1> QED BY <1>1, ForumInvariant, PTL

(* A decision that meets its default quorum passes the default human gate, *)
(* for any number of votes.                                                *)
THEOREM QuorumPassesGate == Spec => []MetPassesHumanGate
<1>1. ForumInv => MetPassesHumanGate
  <2> SUFFICES ASSUME ForumInv, check_quorum(with_defaults, class, votes) = "Met"
               PROVE  enforce_human_gate(class, votes)
    BY DEF MetPassesHumanGate
  <2>1. class \in DecisionClass /\ IsFiniteSet(votes)
    BY DEF ForumInv, TypeOK
  <2>2. /\ Cardinality(HumanVotes(votes)) \in Nat
        /\ Cardinality(HumanVotes(votes)) >= with_defaults[class].min_human_votes
    BY <2>1, MetTally
  <2>3. class \in {"Strategic", "Constitutional"} => HumanVotes(votes) # {}
    <3>1. class \in {"Strategic", "Constitutional"} =>
             with_defaults[class].min_human_votes \in {3, 5}
      BY DEF with_defaults, DecisionClass
    <3>2. HumanVotes(votes) = {} => Cardinality(HumanVotes(votes)) = 0
      BY FS_EmptySet
    <3> QED BY <2>2, <3>1, <3>2
  <2>4. class \notin {"Strategic", "Constitutional"} => ~(Rank(class) > Rank(ai_ceiling))
    BY <2>1 DEF DecisionClass, Rank, ai_ceiling
  <2> QED BY <2>3, <2>4 DEF enforce_human_gate, human_required_classes
<1> QED BY <1>1, ForumInvariant, PTL

(* With fewer than ten votes the agents cannot carry a human-gated         *)
(* decision against every human: the humans a quorum needs would then be   *)
(* too large a part of the vote.                                           *)
THEOREM AgentsNeedAHuman == Spec => []AgentsAloneCannotCarry
<1>1. ForumInv => AgentsAloneCannotCarry
  <2> DEFINE A == Approvals(votes)
             H == HumanVotes(votes)
             n == Cardinality(votes)
             a == Cardinality(A)
             h == Cardinality(H)
  <2> SUFFICES ASSUME ForumInv, class \in human_required_classes, n < 10,
                      check_quorum(with_defaults, class, votes) = "Met",
                      H \cap A = {}
               PROVE  FALSE
    BY DEF AgentsAloneCannotCarry
  <2>1. class \in DecisionClass /\ IsFiniteSet(votes)
    BY DEF ForumInv, TypeOK
  <2>2. /\ n \in Nat /\ a \in Nat /\ h \in Nat
        /\ h >= with_defaults[class].min_human_votes
        /\ a * 100 >= with_defaults[class].min_approve_pct * n
    BY <2>1, MetTally
  <2>3. a <= n - h
    <3>1. A \in SUBSET (votes \ H) /\ H \in SUBSET votes
      BY DEF Approvals, HumanVotes
    <3>2. votes \cap H = H
      BY <3>1
    <3>3. IsFiniteSet(votes \ H) /\ Cardinality(votes \ H) = n - h
      BY <2>1, <3>2, FS_Difference
    <3> QED BY <3>1, <3>3, FS_Subset
  <2> HIDE DEF A, H, n, a, h
  <2>4. CASE class = "Strategic"
    <3>1. /\ with_defaults[class].min_human_votes = 3
          /\ with_defaults[class].min_approve_pct = 67
      BY <2>4 DEF with_defaults, DecisionClass
    <3> QED BY <2>2, <2>3, <3>1
  <2>5. CASE class = "Constitutional"
    <3>1. /\ with_defaults[class].min_human_votes = 5
          /\ with_defaults[class].min_approve_pct = 75
      BY <2>5 DEF with_defaults, DecisionClass
    <3> QED BY <2>2, <2>3, <3>1
  <2> QED BY <2>4, <2>5 DEF human_required_classes
<1> QED BY <1>1, ForumInvariant, PTL

(* One more approval never loses a quorum, whatever the numbers. *)
THEOREM ApprovalsAreMonotone == Spec => []ApprovalKeepsQuorum
<1>1. ForumInv => ApprovalKeepsQuorum
  <2> SUFFICES ASSUME ForumInv, check_quorum(with_defaults, class, votes) = "Met",
                      NEW u \in Voters, NEW k \in ActorKind,
                      \A v \in votes : v.voter_did # u
               PROVE  check_quorum(with_defaults, class, votes \cup
                        {[voter_did |-> u, choice |-> "Approve", actor_kind |-> k]})
                          = "Met"
    BY DEF ApprovalKeepsQuorum
  <2> DEFINE req == with_defaults[class]
             ballot == [voter_did |-> u, choice |-> "Approve", actor_kind |-> k]
             vs     == votes \cup {ballot}
             n   == Cardinality(votes)
             a   == Cardinality(Approvals(votes))
             h   == Cardinality(HumanVotes(votes))
             H   == Cardinality(HumanVotes(vs))
  <2>1. class \in DecisionClass /\ IsFiniteSet(votes)
    BY DEF ForumInv, TypeOK
  <2>2. /\ n \in Nat /\ a \in Nat /\ h \in Nat
        /\ req.min_votes \in Nat \ {0}
        /\ req.min_approve_pct \in Nat
        /\ req.min_human_votes \in Nat
        /\ n >= req.min_votes
        /\ h >= req.min_human_votes
        /\ a * 100 >= req.min_approve_pct * n
    BY <2>1, MetTally
  <2>3. req.min_approve_pct <= 100 /\ class \in DOMAIN with_defaults
    BY <2>1 DEF with_defaults, DecisionClass
  <2>4. ballot \notin votes
    OBVIOUS
  <2>5. IsFiniteSet(vs) /\ Cardinality(vs) = n + 1
    BY <2>1, <2>4, FS_AddElement
  <2>6. Cardinality(Approvals(vs)) = a + 1
    <3>1. Approvals(vs) = Approvals(votes) \cup {ballot}
      BY DEF Approvals
    <3>2. ballot \notin Approvals(votes) /\ Approvals(votes) \in SUBSET votes
      BY <2>4 DEF Approvals
    <3>3. IsFiniteSet(Approvals(votes))
      BY <2>1, <3>2, FS_Subset
    <3> QED BY <3>1, <3>2, <3>3, FS_AddElement
  <2>7. H \in Nat /\ H >= h
    <3>1. HumanVotes(votes) \in SUBSET HumanVotes(vs) /\ HumanVotes(vs) \in SUBSET vs
      BY DEF HumanVotes
    <3>2. IsFiniteSet(HumanVotes(vs))
      BY <2>5, <3>1, FS_Subset
    <3>3. H \in Nat /\ h <= H
      BY <3>1, <3>2, FS_Subset, FS_CardinalityType
    <3> QED BY <2>2, <3>3
  <2>8. check_quorum(with_defaults, class, vs) = Meets(req, n + 1, a + 1, H)
    BY <2>3, <2>5, <2>6 DEF check_quorum
  <2> HIDE DEF req, n, a, h, H, vs
  <2>9. (a + 1) * 100 >= req.min_approve_pct * (n + 1)
    <3>1. req.min_approve_pct * (n + 1) = req.min_approve_pct * n + req.min_approve_pct
          /\ req.min_approve_pct * n \in Nat
      BY <2>2
    <3> QED BY <2>2, <2>3, <3>1
  <2>10. approve_pct(a + 1, n + 1) >= req.min_approve_pct
    BY <2>2, <2>9, ExactReachesPercentage
  <2>11. approve_pct(a + 1, n + 1) \in Nat
    <3>1. approve_pct(a + 1, n + 1) = ((a + 1) * 100) \div (n + 1)
      BY <2>2 DEF approve_pct
    <3> QED BY <2>2, <3>1, DivisionRoundsDown
  <2>12. /\ n + 1 >= req.min_votes /\ ~(n + 1 < req.min_votes)
         /\ ~(H < req.min_human_votes)
         /\ ~(approve_pct(a + 1, n + 1) < req.min_approve_pct)
    BY <2>2, <2>7, <2>10, <2>11
  <2> QED BY <2>8, <2>12 DEF Meets, vs
<1> QED BY <1>1, ForumInvariant, PTL

(* Above Routine, controls passed with unverified ceilings mean a quorum   *)
(* of humans.                                                              *)
THEOREM UnverifiedAgentsDoNotCount == Spec => []UnverifiedNeedsHumanQuorum
<1>1. ForumInv => UnverifiedNeedsHumanQuorum
  <2> SUFFICES ASSUME ForumInv, class # "Routine", enforce_all(UnverifiedContext)
               PROVE  check_quorum(with_defaults, class, HumanVotes(votes)) = "Met"
    BY DEF UnverifiedNeedsHumanQuorum
  <2> DEFINE ctx == UnverifiedContext
  <2>1. /\ ctx["quorum_met"] = (check_quorum(with_defaults, class, votes) = "Met")
        /\ ctx["ai_ceilings_externally_verified"] = FALSE
    BY DEF UnverifiedContext, TncFlag
  <2>2. ctx["quorum_met"] /\ enforce_tnc_09(ctx)
    BY DEF enforce_all
  <2>3. class \in DecisionClass /\ ~(Rank(class) <= Rank("Routine"))
    BY DEF ForumInv, TypeOK, DecisionClass, Rank
  <2>4. \A v \in votes : is_human_vote(v)
    BY <2>1, <2>2, <2>3 DEF enforce_tnc_09
  <2>5. HumanVotes(votes) = votes
    BY <2>4 DEF HumanVotes
  <2> QED BY <2>1, <2>2, <2>5
<1> QED BY <1>1, ForumInvariant, PTL

(* Every reversal keeps resting on a sustained challenge. *)
THEOREM ReversalsRest == Spec => []ReversalsStand
<1>1. ForumInv => ReversalsStand
  BY DEF ForumInv
<1> QED BY <1>1, ForumInvariant, PTL

(* A closed decision never changes again. *)
THEOREM ClosedForGood == Spec => ClosedIsFinal
<1>1. ForumInv /\ [Next]_vars => [state = "Closed" => UNCHANGED decision]_vars
  <2> SUFFICES ASSUME Next, state = "Closed" PROVE UNCHANGED decision
    OBVIOUS
  <2>1. is_terminal(state)
    BY DEF is_terminal
  <2> QED BY <2>1 DEF Next, transition, add_vote, add_evidence, add_authority_link,
                     file_challenge, begin_review, adjudicate, withdraw,
                     create_reversal
<1> QED BY <1>1, ForumInvariant, PTL DEF Spec, ClosedIsFinal

(* A decision object implements the transaction of exo_core::bcts: its     *)
(* receipts are the log, their hashes the receipt chain, and every call    *)
(* that is not a transition leaves both alone.                             *)
THEOREM ImplementsTransaction == Spec => LifeCycle
<1>1. Init => Core!Init
  <2> SUFFICES ASSUME Init PROVE Core!Init
    OBVIOUS
  <2>1. state = "Draft" /\ receipt_chain = <<>>
    BY DEF Init, new
  <2>2. [i \in 1..Len(receipt_chain) |-> receipt_chain[i].receipt_hash] = <<>>
    BY <2>1
  <2> QED BY <2>1, <2>2 DEF Core!Init
<1>2. ForumInv /\ [Next]_vars => [Core!Next]_(Core!vars)
  <2> SUFFICES ASSUME ForumInv, [Next]_vars PROVE [Core!Next]_(Core!vars)
    OBVIOUS
  <2> DEFINE hashes == [i \in 1..Len(receipt_chain) |-> receipt_chain[i].receipt_hash]
  <2>1. CASE UNCHANGED <<state, receipt_chain>>
    BY <2>1 DEF Core!vars
  <2>2. ASSUME NEW to \in Core!BctsState, NEW actor \in Actors, NEW time \in Times,
               transition(to, actor, time)
        PROVE  Core!Next
    <3> DEFINE r == compute_receipt_hash(state, to, time, actor)
               e == [from_state |-> state, to_state |-> to, timestamp |-> time,
                     receipt_hash |-> r, actor_did |-> actor]
               n == Len(receipt_chain)
    <3>1. /\ Core!can_transition_to(state, to)
          /\ n < MaxReceipts
          /\ receipt_chain' = Append(receipt_chain, e)
          /\ state' = to
      BY <2>2 DEF transition
    <3>2. e.receipt_hash = r
      OBVIOUS
    <3>3. /\ n \in Nat /\ Len(receipt_chain') = n + 1
          /\ hashes' = Append(hashes, r)
      BY <3>1, <3>2, ReceiptAppended DEF ForumInv
    <3>4. r = Core!compute_receipt(state, to, time, actor)
      <4>1. PICK S : receipt_chain \in Seq(S)
        BY DEF ForumInv, IsSequence
      <4>2. receipt_chain = <<>> <=> n = 0
        BY <4>1
      <4>3. hashes = <<>> <=> n = 0
        BY <3>3
      <4>4. Len(hashes) = n
        BY <3>3
      <4>5. n # 0 => hashes[n] = receipt_chain[n].receipt_hash
        BY <3>3
      <4> QED BY <4>2, <4>3, <4>4, <4>5
              DEF compute_receipt_hash, Core!compute_receipt, Core!Prev
    <3> HIDE DEF r, hashes
    <3>5. Core!transition(to, actor, time)
      BY <3>1, <3>3, <3>4 DEF Core!transition, hashes
    <3> QED BY <3>5 DEF Core!Next
  <2>3. CASE UNCHANGED vars
    BY <2>1, <2>3 DEF vars
  <2>4. CASE \/ \E vote \in Vote : add_vote(vote)
             \/ add_evidence \/ add_authority_link
             \/ \E d \in Decisions : file_challenge(d)
             \/ \E i \in 1..Len(challenges) :
                   \/ begin_review(i) \/ withdraw(i)
                   \/ \E verdict \in {"Sustain", "Overrule"}, time \in Times :
                         adjudicate(i, verdict, time)
                   \/ \E d \in Decisions, time \in Times :
                         create_reversal(i, d, time)
    <3>1. UNCHANGED <<state, receipt_chain>>
      BY <2>4 DEF add_vote, add_evidence, add_authority_link, file_challenge,
                  begin_review, withdraw, adjudicate, create_reversal, decision
    <3> QED BY <2>1, <3>1
  <2> QED BY <2>2, <2>3, <2>4 DEF Next
<1> QED BY <1>1, <1>2, ForumInvariant, PTL DEF Spec, LifeCycle, Core!Spec

(* In every electorate a met quorum rests on enough voters and on their    *)
(* exact share (check_quorum).                                             *)
THEOREM QuorumIsSound == Spec => []QuorumSound
  BY QuorumOfVoters, QuorumShare, PTL DEF QuorumSound

(* In every electorate a met quorum passes the human gate, and one of fewer *)
(* than ten votes includes a human approval.                               *)
THEOREM HumansAreNeeded == Spec => []HumansCarry
  BY QuorumPassesGate, AgentsNeedAHuman, PTL DEF HumansCarry

(* check_quorum and add_vote: a quorum is met by the right voters, and more  *)
(* approvals do not lose it.                                                 *)
THEOREM QuorumsHold == Spec => []QuorumHolds
  BY QuorumIsSound, ApprovalsAreMonotone, PTL DEF QuorumHolds

(* enforce_human_gate and enforce_tnc_09: what is reserved for humans is     *)
(* decided by humans.                                                        *)
THEOREM HumansDecideAlways == Spec => []HumansDecide
  BY HumansAreNeeded, UnverifiedAgentsDoNotCount, PTL DEF HumansDecide
-----------------------------------------------------------------------------
(* A decision is where its last receipt says, or a draft without receipts. *)
AtLastReceipt ==
    IF receipt_chain = <<>> THEN state = "Draft"
    ELSE receipt_chain[Len(receipt_chain)].to_state = state

(* The receipts are a walk through the life cycle: the first leaves Draft, each *)
(* leaves the state its predecessor reached by a transition the table of        *)
(* exo_core::bcts allows, and the decision is where the last one leads.         *)
ReceiptsAreWalk ==
    /\ AtLastReceipt
    /\ \A i \in DOMAIN receipt_chain :
          /\ Core!can_transition_to(receipt_chain[i].from_state, receipt_chain[i].to_state)
          /\ receipt_chain[i].from_state = IF i = 1 THEN "Draft" ELSE receipt_chain[i - 1].to_state

(* Every change of the state comes with its receipt, and no change that the     *)
(* life cycle forbids gets one (decision_object.rs transition).                 *)
THEOREM ReceiptsFollow == Spec => []ReceiptsAreWalk
<1>1. Init => ReceiptsAreWalk
  BY DEF Init, new, AtLastReceipt, ReceiptsAreWalk
<1>2. ForumInv /\ ReceiptsAreWalk /\ [Next]_vars => ReceiptsAreWalk'
  <2> SUFFICES ASSUME ForumInv, ReceiptsAreWalk, [Next]_vars PROVE ReceiptsAreWalk'
    OBVIOUS
  <2>1. ASSUME NEW to \in Core!BctsState, NEW actor \in Actors, NEW time \in Times,
               transition(to, actor, time)
        PROVE  ReceiptsAreWalk'
    <3> DEFINE e == [from_state |-> state, to_state |-> to, timestamp |-> time,
                     receipt_hash |-> compute_receipt_hash(state, to, time, actor),
                     actor_did |-> actor]
    <3>1. receipt_chain' = Append(receipt_chain, e) /\ state' = to
      BY <2>1 DEF transition
    <3>2. PICK S : receipt_chain \in Seq(S)
      BY DEF ForumInv, IsSequence
    <3>3. e.to_state = to /\ e.from_state = state /\ Core!can_transition_to(state, to)
      BY <2>1 DEF transition
    <3> HIDE DEF e
    <3>4. receipt_chain \in Seq(S \cup {e})
      BY <3>2
    <3>5. receipt_chain' # <<>> /\ receipt_chain'[Len(receipt_chain')] = e
      BY <3>1, <3>4
    <3>6. AtLastReceipt'
      BY <3>1, <3>3, <3>5 DEF AtLastReceipt
    <3>7. PICK k, r : k = Len(receipt_chain) /\ r = receipt_chain
      OBVIOUS
    <3>8. /\ k \in Nat /\ DOMAIN r = 1..k /\ DOMAIN receipt_chain' = 1..(k + 1)
          /\ \A i \in 1..k : receipt_chain'[i] = r[i]
          /\ receipt_chain'[k + 1] = e
      BY <3>1, <3>4, <3>7
    <3>9. e.from_state = IF k = 0 THEN "Draft" ELSE r[k].to_state
      BY <3>2, <3>3, <3>7 DEF ReceiptsAreWalk, AtLastReceipt
    <3>10. ASSUME NEW i \in 1..(k + 1)
           PROVE  /\ Core!can_transition_to(receipt_chain'[i].from_state, receipt_chain'[i].to_state)
                  /\ receipt_chain'[i].from_state =
                        IF i = 1 THEN "Draft" ELSE receipt_chain'[i - 1].to_state
      <4>1. CASE i = k + 1
        <5>1. k # 0 => k \in 1..k /\ i - 1 = k
          BY <3>8, <4>1
        <5>2. i = 1 <=> k = 0
          BY <3>8, <4>1
        <5> QED BY <3>3, <3>8, <3>9, <4>1, <5>1, <5>2
      <4>2. CASE i # k + 1
        <5>1. i \in 1..k /\ (i # 1 => i - 1 \in 1..k)
          BY <3>8, <4>2
        <5>2. /\ Core!can_transition_to(r[i].from_state, r[i].to_state)
              /\ r[i].from_state = IF i = 1 THEN "Draft" ELSE r[i - 1].to_state
          BY <3>7, <3>8, <5>1 DEF ReceiptsAreWalk
        <5> QED BY <3>8, <5>1, <5>2
      <4> QED BY <4>1, <4>2
    <3> QED BY <3>6, <3>8, <3>10 DEF ReceiptsAreWalk
  <2>2. ASSUME UNCHANGED <<state, receipt_chain>> PROVE ReceiptsAreWalk'
    BY <2>2 DEF AtLastReceipt, ReceiptsAreWalk
  <2>3. (\E to \in Core!BctsState, actor \in Actors, time \in Times :
            transition(to, actor, time))
        \/ UNCHANGED <<state, receipt_chain>>
    BY DEF Next, vars, decision, add_vote, add_evidence, add_authority_link,
           file_challenge, begin_review, adjudicate, withdraw, create_reversal
  <2> QED BY <2>1, <2>2, <2>3
<1> QED BY <1>1, <1>2, ForumInvariant, PTL DEF Spec

(* The stages of the standard workflow are a path of the state table. *)
LEMMA StagesArePath ==
    ASSUME NEW i \in Stages, i + 1 \in Stages
    PROVE  Core!can_transition_to(standard_governance[i], standard_governance[i + 1])
<1>1. i \in 1..10
  BY DEF Stages, standard_governance
<1> QED BY <1>1 DEF standard_governance, Core!can_transition_to, Core!valid_transitions

(* A decision of any age follows the standard workflow, holds the receipt  *)
(* of the stage it is in, and its reversals rest on sustained challenges   *)
(* (workflow.rs, contestation.rs).                                         *)
THEOREM RecordsStand == Spec => []RecordStands
<1>1. AtLastReceipt => WorkflowFollowsLifeCycle
  <2> SUFFICES ASSUME AtLastReceipt PROVE WorkflowFollowsLifeCycle
    OBVIOUS
  <2>1. ASSUME NEW s \in next_stage(state) PROVE Core!can_transition_to(state, s)
    BY <2>1, StagesArePath DEF next_stage
  <2>2. ASSUME requires_receipt(state)
        PROVE  receipt_chain # <<>> /\ receipt_chain[Len(receipt_chain)].to_state = state
    <3>1. state # "Draft"
      BY <2>2 DEF requires_receipt, Stages, standard_governance
    <3> QED BY <3>1 DEF AtLastReceipt
  <2> QED BY <2>1, <2>2 DEF WorkflowFollowsLifeCycle
<1>2. ReceiptsAreWalk => AtLastReceipt
  BY DEF ReceiptsAreWalk
<1> QED BY <1>1, <1>2, ReversalsRest, ReceiptsFollow, PTL DEF RecordStands

-----------------------------------------------------------------------------
(* The records of the stores. *)
EmergencyAction ==
    [actor_did : Dids, ratification_status : {"Required", "Ratified", "Expired"},
     ratification_deadline : Nat, ratification_decision_id : BOOLEAN]

Sanction ==
    [action_type : SanctionType, status : {"Proposed", "DueProcess", "Enacted", "Reversed"},
     proposed_at : Nat, enacted_at : SUBSET Nat]

Granted == [id : DelegationIds, decision_classes : SUBSET RootScope, expires_at : Stamps,
            revoked : BOOLEAN, allows_sub_delegation : BOOLEAN]

Corpus == [articles : Seq(Article), version : Nat, ratified : BOOLEAN,
           hash : UNION {[1..n -> Texts \X ArticleIds] : n \in Nat}, amendment_count : Nat]

(* The inductive invariant, one part for each store. *)
EmergencyInv ==
    /\ emergencies \in Seq(EmergencyAction)
    /\ \A i \in 1..Len(emergencies) :
          emergencies[i].ratification_decision_id <=>
              emergencies[i].ratification_status = "Ratified"
    /\ EmergencyLimit

SanctionInv ==
    /\ sanctions \in Seq(Sanction)
    /\ \A i \in 1..Len(sanctions) :
          sanctions[i].enacted_at # {} <=> sanctions[i].status \in {"Enacted", "Reversed"}
    /\ SuspensionsPrompt

MatrixInv == delegations \in [Dids -> SUBSET (Nat \X Granted)]

CorpusInv == corpus \in Corpus /\ CorpusBinding(corpus)

PowersInv == EmergencyInv /\ SanctionInv /\ MatrixInv /\ CorpusInv

-----------------------------------------------------------------------------
(* The emergency actions of an actor that count against the limit. *)
Held(s, actor) == {i \in 1..Len(s) : s[i].actor_did = actor /\ s[i].ratification_status # "Expired"}

(* They are finitely many. *)
LEMMA HeldFinite ==
    ASSUME NEW s \in Seq(EmergencyAction), NEW actor
    PROVE  IsFiniteSet(Held(s, actor)) /\ Cardinality(Held(s, actor)) \in Nat
<1>1. IsFiniteSet(1..Len(s))
  BY FS_Interval
<1>2. IsFiniteSet(Held(s, actor))
  BY <1>1, FS_Subset DEF Held
<1> QED BY <1>2, FS_CardinalityType

(* A new action is within the limit its actor was checked for. *)
LEMMA CreateKeeps ==
    ASSUME EmergencyInv, NEW actor \in Dids, NEW t \in Stamps, create_emergency_action(actor, t)
    PROVE  EmergencyInv'
<1> DEFINE e == [actor_did |-> actor, ratification_status |-> "Required",
                 ratification_deadline |-> t + RATIFICATION_WINDOW,
                 ratification_decision_id |-> FALSE]
           n == Len(emergencies)
<1>1. e \in EmergencyAction /\ emergencies \in Seq(EmergencyAction) /\ n \in Nat
  BY PowersAssumption DEF EmergencyInv, EmergencyAction
<1>2. emergencies' = Append(emergencies, e)
  BY DEF create_emergency_action
<1>3. /\ e.actor_did = actor /\ e.ratification_status = "Required"
      /\ e.ratification_decision_id = FALSE
  OBVIOUS
<1> HIDE DEF e
<1>4. /\ emergencies' \in Seq(EmergencyAction) /\ Len(emergencies') = n + 1
      /\ emergencies'[n + 1] = e
      /\ \A i \in 1..n : emergencies'[i] = emergencies[i]
  BY <1>1, <1>2
<1>5. \A i \in 1..Len(emergencies') :
         emergencies'[i].ratification_decision_id <=>
             emergencies'[i].ratification_status = "Ratified"
  BY <1>1, <1>3, <1>4 DEF EmergencyInv
<1>6. ASSUME MAX_PER_ACTOR > 0, NEW a \in Dids
      PROVE  Cardinality(Held(emergencies', a)) <= MAX_PER_ACTOR
  <2>1. /\ IsFiniteSet(Held(emergencies, a)) /\ Cardinality(Held(emergencies, a)) \in Nat
        /\ MAX_PER_ACTOR \in Nat
    BY <1>1, HeldFinite, PowersAssumption
  <2>2. CASE a = actor
    <3>1. Held(emergencies', a) = Held(emergencies, a) \cup {n + 1}
      BY <2>2, <1>1, <1>3, <1>4 DEF Held
    <3>2. n + 1 \notin Held(emergencies, a)
      BY <1>1 DEF Held
    <3>3. Cardinality(Held(emergencies', a)) = Cardinality(Held(emergencies, a)) + 1
      BY <2>1, <3>1, <3>2, FS_AddElement
    <3>4. ActorCount(emergencies, actor) < MAX_PER_ACTOR
      BY <1>6, <2>1 DEF create_emergency_action, check_per_actor_limit
    <3>5. {i \in Pending(emergencies) : emergencies[i].actor_did = actor} = Held(emergencies, actor)
      BY DEF Pending, Held
    <3>6. ActorCount(emergencies, actor) = Cardinality(Held(emergencies, a))
      BY <2>2, <3>5 DEF ActorCount
    <3> QED BY <2>1, <3>3, <3>4, <3>6
  <2>3. CASE a # actor
    <3>1. Held(emergencies', a) = Held(emergencies, a)
      BY <2>3, <1>1, <1>3, <1>4 DEF Held
    <3> QED BY <3>1, <1>6 DEF EmergencyInv, EmergencyLimit, Held
  <2> QED BY <2>2, <2>3
<1>7. EmergencyLimit'
  BY <1>6 DEF EmergencyLimit, Held
<1> QED BY <1>4, <1>5, <1>7 DEF EmergencyInv

(* An action that is settled, and nothing else about it, keeps the part. *)
LEMMA SettleKeeps ==
    ASSUME EmergencyInv, NEW i \in 1..Len(emergencies), NEW e \in EmergencyAction,
           emergencies[i].ratification_status = "Required",
           e.actor_did = emergencies[i].actor_did,
           e.ratification_decision_id <=> e.ratification_status = "Ratified",
           emergencies' = [emergencies EXCEPT ![i] = e]
    PROVE  EmergencyInv'
<1>1. emergencies \in Seq(EmergencyAction)
  BY DEF EmergencyInv
<1>2. /\ emergencies' \in Seq(EmergencyAction) /\ Len(emergencies') = Len(emergencies)
      /\ emergencies'[i] = e
      /\ \A j \in 1..Len(emergencies) : j # i => emergencies'[j] = emergencies[j]
  BY <1>1
<1>3. \A j \in 1..Len(emergencies') :
         emergencies'[j].ratification_decision_id <=>
             emergencies'[j].ratification_status = "Ratified"
  BY <1>2 DEF EmergencyInv
<1>4. ASSUME MAX_PER_ACTOR > 0, NEW a \in Dids
      PROVE  Cardinality(Held(emergencies', a)) <= MAX_PER_ACTOR
  <2>1. Held(emergencies', a) \subseteq Held(emergencies, a)
    BY <1>2 DEF Held
  <2>2. IsFiniteSet(Held(emergencies, a)) /\ Cardinality(Held(emergencies, a)) \in Nat
    BY <1>1, HeldFinite
  <2>3. /\ Cardinality(Held(emergencies', a)) <= Cardinality(Held(emergencies, a))
        /\ Cardinality(Held(emergencies', a)) \in Nat
    BY <1>2, <2>1, <2>2, FS_Subset, HeldFinite
  <2> QED BY <2>2, <2>3, <1>4, PowersAssumption DEF EmergencyInv, EmergencyLimit, Held
<1>5. EmergencyLimit'
  BY <1>4 DEF EmergencyLimit, Held
<1> QED BY <1>2, <1>3, <1>5 DEF EmergencyInv

(* Whatever is done with emergency actions keeps their part. *)
LEMMA EmergencyStepKeeps == ASSUME EmergencyInv, EmergencyStep PROVE EmergencyInv'
<1>1. ASSUME NEW actor \in Dids, NEW t \in Stamps, create_emergency_action(actor, t)
      PROVE  EmergencyInv'
  BY <1>1, CreateKeeps
<1>2. ASSUME NEW i \in 1..Len(emergencies), NEW t \in Stamps,
             ratify_emergency(i, t) \/ check_expiry(i, t)
      PROVE  EmergencyInv'
  <2>0. emergencies[i] \in EmergencyAction
    BY DEF EmergencyInv
  <2>1. emergencies[i].ratification_status = "Required"
    BY <1>2 DEF ratify_emergency, check_expiry
  <2>2. CASE emergencies' = [emergencies EXCEPT ![i].ratification_status = "Expired"]
    <3> DEFINE e == [emergencies[i] EXCEPT !.ratification_status = "Expired"]
    <3>1. /\ e \in EmergencyAction /\ e.actor_did = emergencies[i].actor_did
          /\ e.ratification_status = "Expired"
          /\ e.ratification_decision_id = emergencies[i].ratification_decision_id
      BY <2>0 DEF EmergencyAction
    <3>2. emergencies' = [emergencies EXCEPT ![i] = e]
      BY <2>2
    <3>3. ~emergencies[i].ratification_decision_id
      BY <2>1 DEF EmergencyInv
    <3> HIDE DEF e
    <3> QED BY <2>1, <3>1, <3>2, <3>3, SettleKeeps
  <2>3. CASE emergencies' = [emergencies EXCEPT ![i].ratification_status = "Ratified",
                                               ![i].ratification_decision_id = TRUE]
    <3> DEFINE e == [emergencies[i] EXCEPT !.ratification_status = "Ratified",
                                           !.ratification_decision_id = TRUE]
    <3>1. /\ e \in EmergencyAction /\ e.actor_did = emergencies[i].actor_did
          /\ e.ratification_status = "Ratified"
          /\ e.ratification_decision_id = TRUE
      BY <2>0 DEF EmergencyAction
    <3>2. emergencies' = [emergencies EXCEPT ![i] = e]
      BY <2>3, <2>0 DEF EmergencyInv, EmergencyAction
    <3> HIDE DEF e
    <3> QED BY <2>1, <3>1, <3>2, SettleKeeps
  <2> QED BY <1>2, <2>2, <2>3 DEF ratify_emergency, check_expiry, Expire
<1> QED BY <1>1, <1>2 DEF EmergencyStep

-----------------------------------------------------------------------------
(* Whatever is done with sanctions keeps theirs: a suspension is enacted in time, or not at all. *)
LEMMA SanctionStepKeeps == ASSUME SanctionInv, SanctionStep PROVE SanctionInv'
<1>0. sanctions \in Seq(Sanction) /\ Stamps \subseteq Nat /\ SUSPENSION_LIMIT \in Nat
  BY PowersAssumption DEF SanctionInv
<1>1. ASSUME NEW type \in SanctionType, NEW t \in Stamps, propose(type, t)
      PROVE  SanctionInv'
  <2> DEFINE a == [action_type |-> type, status |-> "Proposed", proposed_at |-> t,
                   enacted_at |-> {}]
  <2>1. a \in Sanction /\ a.status = "Proposed" /\ a.enacted_at = {}
    BY <1>0 DEF Sanction
  <2>2. sanctions' = Append(sanctions, a)
    BY <1>1 DEF propose
  <2> HIDE DEF a
  <2>3. /\ sanctions' \in Seq(Sanction) /\ Len(sanctions') = Len(sanctions) + 1
        /\ sanctions'[Len(sanctions) + 1] = a
        /\ \A i \in 1..Len(sanctions) : sanctions'[i] = sanctions[i]
        /\ Len(sanctions) \in Nat
    BY <1>0, <2>1, <2>2
  <2> QED BY <2>1, <2>3 DEF SanctionInv, SuspensionsPrompt
<1>2. ASSUME NEW i \in 1..Len(sanctions), NEW a \in Sanction,
             sanctions' = [sanctions EXCEPT ![i] = a],
             a.enacted_at # {} <=> a.status \in {"Enacted", "Reversed"},
             a.action_type = "Suspension" =>
                 \A t \in a.enacted_at : t <= a.proposed_at + SUSPENSION_LIMIT
      PROVE  SanctionInv'
  <2>1. /\ sanctions' \in Seq(Sanction) /\ Len(sanctions') = Len(sanctions)
        /\ sanctions'[i] = a
        /\ \A j \in 1..Len(sanctions) : j # i => sanctions'[j] = sanctions[j]
    BY <1>0, <1>2
  <2> QED BY <1>2, <2>1 DEF SanctionInv, SuspensionsPrompt
<1>3. ASSUME NEW i \in 1..Len(sanctions) PROVE sanctions[i] \in Sanction
  BY <1>0
<1>4. ASSUME NEW i \in 1..Len(sanctions), begin_due_process(i)
      PROVE  SanctionInv'
  <2> DEFINE a == [sanctions[i] EXCEPT !.status = "DueProcess"]
  <2>1. /\ a \in Sanction /\ a.status = "DueProcess"
        /\ a.enacted_at = sanctions[i].enacted_at
    BY <1>3 DEF Sanction
  <2>2. sanctions[i].enacted_at = {}
    BY <1>4 DEF begin_due_process, SanctionInv
  <2>3. sanctions' = [sanctions EXCEPT ![i] = a]
    BY <1>4 DEF begin_due_process
  <2> HIDE DEF a
  <2> QED BY <1>2, <2>1, <2>2, <2>3
<1>5. ASSUME NEW i \in 1..Len(sanctions), NEW t \in Stamps, enact(i, t)
      PROVE  SanctionInv'
  <2> DEFINE a == [sanctions[i] EXCEPT !.status = "Enacted", !.enacted_at = {t}]
  <2>1. /\ a \in Sanction /\ a.status = "Enacted" /\ a.enacted_at = {t}
        /\ a.action_type = sanctions[i].action_type
        /\ a.proposed_at = sanctions[i].proposed_at
        /\ a.proposed_at \in Nat
    BY <1>0, <1>3 DEF Sanction
  <2>2. sanctions' = [sanctions EXCEPT ![i] = a]
    BY <1>5, <1>3, <1>0 DEF enact, Sanction
  <2>3. a.action_type = "Suspension" => t <= a.proposed_at + SUSPENSION_LIMIT
    BY <1>0, <1>5, <2>1 DEF enact, EnactInTime, Monus
  <2> HIDE DEF a
  <2> QED BY <1>2, <2>1, <2>2, <2>3
<1>6. ASSUME NEW i \in 1..Len(sanctions), reverse(i)
      PROVE  SanctionInv'
  <2> DEFINE a == [sanctions[i] EXCEPT !.status = "Reversed"]
  <2>1. /\ a \in Sanction /\ a.status = "Reversed"
        /\ a.enacted_at = sanctions[i].enacted_at
        /\ a.action_type = sanctions[i].action_type
        /\ a.proposed_at = sanctions[i].proposed_at
    BY <1>3 DEF Sanction
  <2>2. sanctions[i].enacted_at # {}
    BY <1>6 DEF reverse, SanctionInv
  <2>3. sanctions' = [sanctions EXCEPT ![i] = a]
    BY <1>6 DEF reverse
  <2>4. sanctions[i].action_type = "Suspension" =>
            \A t \in sanctions[i].enacted_at : t <= sanctions[i].proposed_at + SUSPENSION_LIMIT
    BY DEF SanctionInv, SuspensionsPrompt
  <2> HIDE DEF a
  <2> QED BY <1>2, <2>1, <2>2, <2>3, <2>4
<1> QED BY <1>1, <1>4, <1>5, <1>6 DEF SanctionStep

-----------------------------------------------------------------------------
(* A delegation of classes the tenant grants keeps the matrix. *)
LEMMA GrantKeeps ==
    ASSUME MatrixInv, NEW did \in Dids, NEW id \in DelegationIds,
           NEW scope \in SUBSET RootScope, NEW expires_at \in Stamps, NEW sub \in BOOLEAN,
           Grant(did, Delegation(id, scope, expires_at, sub))
    PROVE  MatrixInv'
<1>1. PICK n \in 1..MaxGrants :
         delegations' = [delegations EXCEPT ![did] =
                            @ \cup {<<n, Delegation(id, scope, expires_at, sub)>>}]
  BY DEF Grant
<1>2. Delegation(id, scope, expires_at, sub) \in Granted
  BY DEF Delegation, Granted
<1> QED BY <1>1, <1>2 DEF MatrixInv

(* So does every step of the matrix: a parent has no other classes to pass on. *)
LEMMA MatrixStepKeeps == ASSUME MatrixInv, MatrixStep PROVE MatrixInv'
<1>1. ASSUME NEW did \in Dids, NEW id \in DelegationIds, NEW scope \in SUBSET Classes,
             NEW expires_at \in Stamps, NEW sub \in BOOLEAN,
             grant(did, id, scope, expires_at, sub)
      PROVE  MatrixInv'
  BY <1>1, GrantKeeps DEF grant
<1>2. ASSUME NEW did \in Dids, NEW id \in DelegationIds, NEW scope \in SUBSET Classes,
             NEW expires_at \in Stamps, NEW sub \in BOOLEAN,
             NEW from \in Dids, NEW parent \in DelegationIds, NEW t \in Stamps,
             sub_delegate(from, parent, did, id, scope, expires_at, sub, t)
      PROVE  MatrixInv'
  <2>1. PICK e \in delegations[from] : /\ scope \subseteq e[2].decision_classes
                                       /\ Grant(did, Delegation(id, scope, expires_at, sub))
    BY <1>2 DEF sub_delegate, CoversScope
  <2>2. e[2].decision_classes \subseteq RootScope
    BY DEF MatrixInv, Granted
  <2> QED BY <2>1, <2>2, GrantKeeps
<1>3. ASSUME NEW did \in Dids, NEW id \in DelegationIds, revoke(did, id)
      PROVE  MatrixInv'
  <2> DEFINE f(e) == IF e[2].id = id THEN <<e[1], [e[2] EXCEPT !.revoked = TRUE]>> ELSE e
  <2>1. \A e \in Nat \X Granted : f(e) \in Nat \X Granted
    BY DEF Granted
  <2>2. delegations' = [delegations EXCEPT ![did] = {f(e) : e \in @}]
    BY <1>3 DEF revoke
  <2> HIDE DEF f
  <2>3. {f(e) : e \in delegations[did]} \subseteq Nat \X Granted
    BY <2>1 DEF MatrixInv
  <2> QED BY <2>2, <2>3 DEF MatrixInv
<1>4. ASSUME NEW t \in Stamps, purge_expired(t) PROVE MatrixInv'
  BY <1>4 DEF purge_expired, Purged, active_delegations, MatrixInv
<1> QED BY <1>1, <1>2, <1>3, <1>4 DEF MatrixStep

(* What is purged was inactive, and stays so. *)
LEMMA MatrixInvisible == MatrixInv => PurgeIsInvisible
<1> SUFFICES ASSUME MatrixInv, NEW t \in Stamps, NEW u \in Stamps, u >= t, NEW did \in Dids
             PROVE  /\ \A c \in Classes :
                          has_authority(delegations, did, c, u) <=>
                              has_authority(Purged(delegations, t), did, c, u)
                    /\ expiry_warnings(delegations, did, u) =
                          expiry_warnings(Purged(delegations, t), did, u)
  BY DEF PurgeIsInvisible
<1>1. \A e \in delegations[did] : is_active(e[2], u) => is_active(e[2], t)
  BY PowersAssumption DEF is_active, MatrixInv, Granted
<1>2. active_delegations(Purged(delegations, t), did, u) = active_delegations(delegations, did, u)
  BY <1>1 DEF active_delegations, Purged
<1> QED BY <1>2, Zenon DEF has_authority, expiry_warnings

-----------------------------------------------------------------------------
(* The hash covers the text and the id of every article. *)
LEMMA HashType ==
    ASSUME NEW s \in Seq(Article)
    PROVE  compute_corpus_hash(s) \in UNION {[1..n -> Texts \X ArticleIds] : n \in Nat}
<1>1. \A i \in 1..Len(s) : s[i] \in Article
  OBVIOUS
<1>2. \A i \in 1..Len(s) : s[i].text \in Texts /\ s[i].id \in ArticleIds
  BY <1>1 DEF Article
<1>3. compute_corpus_hash(s) \in [1..Len(s) -> Texts \X ArticleIds]
  BY <1>2 DEF compute_corpus_hash
<1>4. Len(s) \in Nat
  OBVIOUS
<1> QED BY <1>3, <1>4

(* A ratification or an amendment keeps the corpus bound to its hash. *)
LEMMA CorpusStepKeeps == ASSUME CorpusInv, CorpusStep PROVE CorpusInv'
<1>0. corpus \in Corpus /\ corpus.articles \in Seq(Article)
  BY DEF CorpusInv, Corpus
<1>1. ASSUME NEW signatures \in 0..REQUIRED_SIGNATURES, ratify(signatures)
      PROVE  CorpusInv'
  BY <1>0, <1>1 DEF ratify, CorpusInv, Corpus, CorpusBinding
<1>2. ASSUME NEW signatures \in 0..REQUIRED_SIGNATURES, NEW article \in Article,
             amend(article, signatures)
      PROVE  CorpusInv'
  <2> DEFINE s == Append(corpus.articles, article)
             h == compute_corpus_hash(s)
  <2>1. s \in Seq(Article)
    BY <1>0
  <2>2. h \in UNION {[1..n -> Texts \X ArticleIds] : n \in Nat}
    BY <2>1, HashType
  <2>3. corpus' = [corpus EXCEPT !.articles = s, !.version = @ + 1, !.hash = h,
                                 !.amendment_count = @ + 1]
        /\ corpus.ratified
    BY <1>2 DEF amend
  <2>a. h = compute_corpus_hash(s)
    OBVIOUS
  <2> HIDE DEF s, h
  <2>4. /\ corpus' \in Corpus
        /\ corpus'.articles = s /\ corpus'.hash = h
        /\ corpus'.version = corpus.version + 1
        /\ corpus'.amendment_count = corpus.amendment_count + 1
        /\ corpus'.ratified = corpus.ratified
    <3> DEFINE Hash == UNION {[1..n -> Texts \X ArticleIds] : n \in Nat}
    <3>1. h \in Hash
      BY <2>2
    <3>2. corpus \in [articles : Seq(Article), version : Nat, ratified : BOOLEAN,
                      hash : Hash, amendment_count : Nat]
      BY <1>0 DEF Corpus
    <3> HIDE DEF Hash
    <3>3. /\ corpus' \in [articles : Seq(Article), version : Nat, ratified : BOOLEAN,
                          hash : Hash, amendment_count : Nat]
          /\ corpus'.articles = s /\ corpus'.hash = h
          /\ corpus'.version = corpus.version + 1
          /\ corpus'.amendment_count = corpus.amendment_count + 1
          /\ corpus'.ratified = corpus.ratified
      <4>1. corpus' = [articles |-> s, version |-> corpus.version + 1,
                       ratified |-> corpus.ratified, hash |-> h,
                       amendment_count |-> corpus.amendment_count + 1]
        BY <3>2, <2>3
      <4>2. /\ corpus.version + 1 \in Nat /\ corpus.amendment_count + 1 \in Nat
            /\ corpus.ratified \in BOOLEAN
        BY <3>2
      <4> QED BY <4>1, <4>2, <3>1, <2>1
    <3> QED BY <3>3 DEF Corpus, Hash
  <2>5. corpus'.hash = compute_corpus_hash(corpus'.articles)
    BY <2>a, <2>4
  <2>6. corpus.version = corpus.amendment_count + 1 /\ corpus.amendment_count \in Nat
    BY <1>0 DEF CorpusInv, CorpusBinding, Corpus
  <2> QED BY <2>3, <2>4, <2>5, <2>6 DEF CorpusInv, CorpusBinding
<1> QED BY <1>1, <1>2 DEF CorpusStep

(* A set of natural numbers that is not empty has a least element. *)
LEMMA LeastNat ==
    ASSUME NEW T \in SUBSET Nat, T # {}
    PROVE  \E m \in T : \A k \in T : m <= k
<1> DEFINE R == {ss \in Nat \X Nat : ss[1] < ss[2]}
<1>1. IsWellFoundedOn(R, Nat)
  BY NatLessThanWellFounded DEF OpToRel
<1>2. PICK x \in T : \A y \in T : ~(<<y, x>> \in R)
  BY <1>1, WFMin, Zenon
<1>3. \A y \in T : x <= y
  <2> TAKE y \in T
  <2>1. x \in Nat /\ y \in Nat
    OBVIOUS
  <2>2. y < x => <<y, x>> \in R
    BY <2>1
  <2> QED BY <2>1, <2>2, <1>2
<1> QED BY <1>3

(* The first article with the id is the new one, or one out of force. *)
LEMMA AmendmentsFound == CorpusInv => AmendmentIsFound
<1> SUFFICES ASSUME CorpusInv, NEW article \in Article,
                    dry_run_amendment(corpus.articles, article) = {}
             PROVE  LET articles == Append(corpus.articles, article)
                        found    == find_article(articles, article.id)
                    IN  found = Len(articles) \/ articles[found].status # "Active"
  BY DEF AmendmentIsFound
<1> DEFINE s == Append(corpus.articles, article)
           at == {i \in 1..Len(s) : s[i].id = article.id}
           n == Len(corpus.articles)
<1>1. /\ corpus.articles \in Seq(Article) /\ n \in Nat /\ s \in Seq(Article) /\ Len(s) = n + 1
      /\ s[n + 1] = article /\ \A i \in 1..n : s[i] = corpus.articles[i]
  BY DEF CorpusInv, Corpus
<1> HIDE DEF s
<1>2. at \in SUBSET Nat /\ n + 1 \in at
  BY <1>1
<1>3. \E m \in at : \A k \in at : m <= k
  BY <1>2, LeastNat
<1>4. find_article(s, article.id) = CHOOSE i \in at : \A j \in at : i <= j
  BY <1>2 DEF find_article
<1>5. find_article(s, article.id) \in at
  BY <1>3, <1>4
<1>6. ASSUME NEW f \in at, f # n + 1 PROVE s[f].status # "Active"
  <2>1. f \in 1..n /\ s[f] = corpus.articles[f] /\ s[f].id = article.id
    BY <1>1, <1>6
  <2> QED BY <2>1 DEF dry_run_amendment
<1> QED BY <1>1, <1>5, <1>6 DEF s

-----------------------------------------------------------------------------
(* The stores begin within their bounds. *)
LEMMA PowersInitInv == PowersInit => PowersInv
<1> SUFFICES ASSUME PowersInit PROVE PowersInv
  OBVIOUS
<1>1. EmergencyInv
  <2>1. emergencies \in Seq(EmergencyAction) /\ Len(emergencies) = 0
    BY DEF PowersInit
  <2>2. ASSUME NEW actor \in Dids
        PROVE  {i \in 1..Len(emergencies) :
                  /\ emergencies[i].actor_did = actor
                  /\ emergencies[i].ratification_status # "Expired"} = {}
    BY <2>1
  <2>3. EmergencyLimit
    <3>1. Cardinality({}) = 0 /\ MAX_PER_ACTOR \in Nat
      BY FS_EmptySet, PowersAssumption
    <3>2. ASSUME NEW actor \in Dids
          PROVE  Cardinality({i \in 1..Len(emergencies) :
                    /\ emergencies[i].actor_did = actor
                    /\ emergencies[i].ratification_status # "Expired"}) = 0
      BY <2>2, <3>1
    <3> QED BY <3>1, <3>2 DEF EmergencyLimit
  <2> QED BY <2>1, <2>3 DEF EmergencyInv
<1>2. SanctionInv
  BY DEF PowersInit, SanctionInv, SuspensionsPrompt
<1>3. MatrixInv
  BY DEF PowersInit, MatrixInv
<1>4. CorpusInv
  <2>1. PICK article \in Article : corpus = new_corpus(<<article>>)
    BY DEF PowersInit
  <2>2. <<article>> \in Seq(Article)
    OBVIOUS
  <2>3. compute_corpus_hash(<<article>>) \in UNION {[1..n -> Texts \X ArticleIds] : n \in Nat}
    BY <2>2, HashType
  <2> QED BY <2>1, <2>2, <2>3 DEF new_corpus, CorpusInv, CorpusBinding, Corpus
<1> QED BY <1>1, <1>2, <1>3, <1>4 DEF PowersInv

(* Every step keeps the four parts. *)
LEMMA PowersNextInv == PowersInv /\ [PowersNext]_powers => PowersInv'
<1> SUFFICES ASSUME PowersInv, [PowersNext]_powers PROVE PowersInv'
  OBVIOUS
<1>1. EmergencyInv /\ SanctionInv /\ MatrixInv /\ CorpusInv
  BY DEF PowersInv
<1>2. /\ UNCHANGED emergencies => EmergencyInv'
      /\ UNCHANGED sanctions => SanctionInv'
      /\ UNCHANGED delegations => MatrixInv'
      /\ UNCHANGED corpus => CorpusInv'
  BY <1>1 DEF EmergencyInv, EmergencyLimit, SanctionInv, SuspensionsPrompt, MatrixInv,
              CorpusInv
<1>3. CASE EmergencyStep
  <2>1. UNCHANGED <<sanctions, delegations, corpus>>
    BY <1>3 DEF EmergencyStep, create_emergency_action, ratify_emergency, check_expiry, Expire
  <2> QED BY <1>1, <1>2, <1>3, <2>1, EmergencyStepKeeps DEF PowersInv
<1>4. CASE SanctionStep
  <2>1. UNCHANGED <<emergencies, delegations, corpus>>
    BY <1>4 DEF SanctionStep, propose, begin_due_process, enact, reverse
  <2> QED BY <1>1, <1>2, <1>4, <2>1, SanctionStepKeeps DEF PowersInv
<1>5. CASE MatrixStep
  <2>1. UNCHANGED <<emergencies, sanctions, corpus>>
    BY <1>5 DEF MatrixStep, grant, sub_delegate, Grant, revoke, purge_expired
  <2> QED BY <1>1, <1>2, <1>5, <2>1, MatrixStepKeeps DEF PowersInv
<1>6. CASE CorpusStep
  <2>1. UNCHANGED <<emergencies, sanctions, delegations>>
    BY <1>6 DEF CorpusStep, ratify, amend
  <2> QED BY <1>1, <1>2, <1>6, <2>1, CorpusStepKeeps DEF PowersInv
<1>7. CASE UNCHANGED powers
  BY <1>2, <1>7 DEF powers, PowersInv
<1> QED BY <1>3, <1>4, <1>5, <1>6, <1>7 DEF PowersNext

(* The invariant of the powers holds in every state. *)
THEOREM PowersInvariant == PowersSpec => []PowersInv
BY PowersInitInv, PowersNextInv, PTL DEF PowersSpec

(* No actor exceeds the emergency limit, no suspension is enacted late, no *)
(* delegation reaches past the tenant's classes, a purge changes no answer *)
(* and the corpus is what its hash says (emergency.rs, accountability.rs,  *)
(* authority_matrix.rs, constitution.rs).                                  *)
THEOREM PowersStayBounded == PowersSpec => []PowersBounded
<1>1. PowersInv => PowersBounded
  <2> SUFFICES ASSUME PowersInv PROVE PowersBounded
    OBVIOUS
  <2>1. PowersTypeOK
    <3>1. \A i \in 1..Len(emergencies) :
             /\ emergencies[i].actor_did \in Dids
             /\ emergencies[i].ratification_status \in {"Required", "Ratified", "Expired"}
             /\ emergencies[i].ratification_decision_id <=>
                   emergencies[i].ratification_status = "Ratified"
      <4>1. \A i \in 1..Len(emergencies) : emergencies[i] \in EmergencyAction
        BY DEF PowersInv, EmergencyInv
      <4> QED BY <4>1 DEF PowersInv, EmergencyInv, EmergencyAction
    <3>2. \A i \in 1..Len(sanctions) :
             /\ sanctions[i].action_type \in SanctionType
             /\ sanctions[i].status \in {"Proposed", "DueProcess", "Enacted", "Reversed"}
             /\ sanctions[i].enacted_at # {} <=>
                   sanctions[i].status \in {"Enacted", "Reversed"}
      <4>1. \A i \in 1..Len(sanctions) : sanctions[i] \in Sanction
        BY DEF PowersInv, SanctionInv
      <4> QED BY <4>1 DEF PowersInv, SanctionInv, Sanction
    <3>3. \A did \in Dids : \A e \in delegations[did] :
             e[2].id \in DelegationIds /\ e[2].expires_at \in Stamps
      BY DEF PowersInv, MatrixInv, Granted
    <3>4. corpus.articles \in Seq(Article)
      BY DEF PowersInv, CorpusInv, Corpus
    <3>5. \A i \in 1..Len(corpus.articles) : corpus.articles[i] \in Article
      BY <3>4
    <3> QED BY <3>1, <3>2, <3>3, <3>5 DEF PowersTypeOK
  <2>2. LimitsHold
    BY DEF PowersInv, EmergencyInv, SanctionInv, LimitsHold
  <2>3. ScopeNarrows
    BY DEF PowersInv, MatrixInv, Granted, ScopeNarrows
  <2>4. CorpusSound
    BY AmendmentsFound DEF PowersInv, CorpusInv, CorpusSound
  <2> QED BY <2>1, <2>2, <2>3, <2>4, MatrixInvisible DEF PowersInv, PowersBounded
<1> QED BY <1>1, PowersInvariant, PTL

(* Neither a call on the decision nor one on an emergency action changes   *)
(* what was settled before (is_terminal, ratify_emergency, check_expiry).  *)
THEOREM SettledForGood == Spec /\ PowersSpec => SettledStays
<1>1. [Next]_vars => (state = "Closed" => UNCHANGED decision)
  <2> SUFFICES ASSUME [Next]_vars, state = "Closed" PROVE UNCHANGED decision
    OBVIOUS
  <2>1. is_terminal(state)
    BY DEF is_terminal
  <2> QED BY <2>1 DEF Next, transition, add_vote, add_evidence, add_authority_link,
                     file_challenge, begin_review, adjudicate, withdraw,
                     create_reversal, vars, decision
<1>2. PowersInv /\ [PowersNext]_powers =>
         \A i \in DOMAIN emergencies :
             emergencies[i].ratification_status # "Required" =>
                 emergencies'[i] = emergencies[i]
  <2> SUFFICES ASSUME PowersInv, [PowersNext]_powers, NEW i \in DOMAIN emergencies,
                      emergencies[i].ratification_status # "Required"
               PROVE  emergencies'[i] = emergencies[i]
    OBVIOUS
  <2>1. emergencies \in Seq(EmergencyAction) /\ i \in 1..Len(emergencies)
    BY DEF PowersInv, EmergencyInv
  <2>2. ASSUME NEW actor \in Dids, NEW t \in Stamps, create_emergency_action(actor, t)
        PROVE  emergencies'[i] = emergencies[i]
    <3>1. [actor_did |-> actor, ratification_status |-> "Required",
           ratification_deadline |-> t + RATIFICATION_WINDOW,
           ratification_decision_id |-> FALSE] \in EmergencyAction
      BY PowersAssumption DEF EmergencyAction
    <3> QED BY <2>1, <2>2, <3>1 DEF create_emergency_action
  <2>3. ASSUME NEW j \in 1..Len(emergencies), NEW t \in Stamps,
               ratify_emergency(j, t) \/ check_expiry(j, t)
        PROVE  emergencies'[i] = emergencies[i]
    BY <2>1, <2>3 DEF ratify_emergency, check_expiry, Expire
  <2>4. CASE EmergencyStep
    BY <2>2, <2>3, <2>4 DEF EmergencyStep
  <2>5. CASE SanctionStep
    BY <2>5 DEF SanctionStep, propose, begin_due_process, enact, reverse
  <2>6. CASE MatrixStep
    BY <2>6 DEF MatrixStep, grant, sub_delegate, Grant, revoke, purge_expired
  <2>7. CASE CorpusStep
    BY <2>7 DEF CorpusStep, ratify, amend
  <2>8. CASE UNCHANGED powers
    BY <2>8 DEF powers
  <2> QED BY <2>4, <2>5, <2>6, <2>7, <2>8 DEF PowersNext
<1>3. PowersInv /\ [Next]_vars /\ [PowersNext]_powers =>
         [/\ state = "Closed" => UNCHANGED decision
          /\ \A i \in DOMAIN emergencies :
                emergencies[i].ratification_status # "Required" =>
                   emergencies'[i] = emergencies[i]]_<<vars, powers>>
  BY <1>1, <1>2
<1> QED BY <1>3, PowersInvariant, PTL DEF Spec, PowersSpec, SettledStays

-----------------------------------------------------------------------------
(***************************************************************************)
(* ForumRecords: reports and defence packages.                              *)
(***************************************************************************)
(* Integer division loses less than one. *)
LEMMA DivisionIsClose ==
    ASSUME NEW x \in Nat, NEW n \in Nat \ {0}
    PROVE  x < n * ((x \div n) + 1)
  BY Z3

(* A larger factor gives a larger product. *)
LEMMA ProductGrows ==
    ASSUME NEW a \in Nat, NEW b \in Nat, NEW n \in Nat, a <= b
    PROVE  n * a \in Nat /\ n * a <= n * b
<1>1. PICK k \in Nat : b = a + k
  <2>1. b - a \in Nat /\ b = a + (b - a)
    OBVIOUS
  <2> QED BY <2>1
<1>2. n * (a + k) = n * a + n * k /\ n * k \in Nat /\ n * a \in Nat
  OBVIOUS
<1> QED BY <1>1, <1>2

(* Division is monotone. *)
LEMMA DivisionGrows ==
    ASSUME NEW x \in Nat, NEW y \in Nat, x <= y, NEW n \in Nat \ {0}
    PROVE  x \div n <= y \div n
<1>1. PICK p \in Nat, q \in Nat : p = x \div n /\ q = y \div n
  BY DivisionRoundsDown
<1>2. n * p <= x /\ y < n * (q + 1)
  BY <1>1, DivisionRoundsDown, DivisionIsClose
<1>3. p >= q + 1 => n * (q + 1) <= n * p
  BY <1>1, ProductGrows
<1>4. n * (q + 1) \in Int /\ n * p \in Int
  OBVIOUS
<1> QED BY <1>1, <1>2, <1>3, <1>4

(* metrics.rs pct: for any number of checks. *)
LEMMA PctReadsFull ==
    ASSUME NEW d \in Nat, NEW n \in Nat, n <= d
    PROVE  pct(n, d) = 100 <=> n = d
<1>1. CASE d = 0
  BY <1>1 DEF pct
<1>2. CASE d # 0
  <2>1. PICK q \in Nat : q = (n * 100) \div d
    BY <1>2, DivisionRoundsDown
  <2>2. d * q <= n * 100 /\ n * 100 < d * (q + 1)
    BY <1>2, <2>1, DivisionRoundsDown, DivisionIsClose
  <2>3. q = 100 => n = d
    BY <2>2
  <2>4. ASSUME n = d PROVE q = 100
    <3>1. q >= 101 => d * 101 <= d * q
      BY ProductGrows
    <3>2. q <= 99 => d * (q + 1) <= d * 100
      BY ProductGrows
    <3>3. d * q \in Int /\ d * (q + 1) \in Int
      OBVIOUS
    <3> QED BY <1>2, <2>2, <2>4, <3>1, <3>2, <3>3
  <2> QED BY <1>2, <2>1, <2>3, <2>4 DEF pct
<1> QED BY <1>1, <1>2

(* The smaller of two numbers. *)
LEMMA MinOfTwo ==
    ASSUME NEW a \in Int, NEW b \in Int
    PROVE  Min({a, b}) = IF a <= b THEN a ELSE b
<1>1. \A x : (x \in {a, b} /\ \A y \in {a, b} : x <= y) <=> x = IF a <= b THEN a ELSE b
  OBVIOUS
<1> QED BY <1>1 DEF Min

(* Basis points. *)
Bps == 0..Full

(* A share is at most the whole and grows with what it is a share of. *)
LEMMA ShareBounded ==
    ASSUME NEW n \in Nat, NEW d \in Nat
    PROVE  /\ Share(n, d) \in Bps
           /\ Share(n, d) <= Share(n + 1, d)
<1>1. CASE d = 0
  BY <1>1 DEF Share, Bps, Full
<1>2. CASE d # 0
  <2>1. PICK p \in Nat, q \in Nat : p = (n * 10000) \div d /\ q = ((n + 1) * 10000) \div d
    BY <1>2, DivisionRoundsDown
  <2>2. p <= q
    BY <1>2, <2>1, DivisionGrows
  <2>3. Share(n, d) = Min({p, 10000}) /\ Share(n + 1, d) = Min({q, 10000})
    BY <1>2, <2>1 DEF Share, Full
  <2>4. /\ Share(n, d) = IF p <= 10000 THEN p ELSE 10000
        /\ Share(n + 1, d) = IF q <= 10000 THEN q ELSE 10000
    <3>1. \A x \in Nat : Min({x, 10000}) = IF x <= 10000 THEN x ELSE 10000
      BY MinOfTwo
    <3> QED BY <2>3, <3>1
  <2> QED BY <2>2, <2>4 DEF Bps, Full
<1> QED BY <1>1, <1>2

-----------------------------------------------------------------------------
(* Evidence of any size. *)
Evidence1(S) == [total_members : Nat, recused_count : Nat, disinterested_voters : Nat,
              majority_disinterested : BOOLEAN, disclosure_record_hashes : Seq(S)]
Evidence2(S) == [voters_who_reviewed : Nat, total_voters : Nat,
              materials_complete_before_vote : BOOLEAN, evidence_manifest_hashes : Seq(S)]
Evidence3(S) == [alternatives_count : Nat, dissent_records : Nat, process_compliant : BOOLEAN,
              deliberation_hashes : Seq(S)]
Evidence4(S) == [selected_rationale_hash : S, risk_assessment_hash : S,
              supporting_evidence_hashes : Seq(S)]

IsPackage(k) ==
    \E S : \E d \in S, p1 \in Evidence1(S), p2 \in Evidence2(S), p3 \in Evidence3(S), p4 \in Evidence4(S) :
       k = generate(d, p1, p2, p3, p4)

(* Two optional hashes are at most two. *)
LEMMA OptsAreFew ==
    ASSUME NEW g, NEW h
    PROVE  \E m \in Nat : m = Len(Opt(g) \o Opt(h)) /\ m <= 2
<1> DEFINE S == {g, h}
<1>1. PICK a, b : a = Opt(g) /\ b = Opt(h)
  OBVIOUS
<1>2. (a = <<>> \/ a = <<g>>) /\ (b = <<>> \/ b = <<h>>)
  BY <1>1, Zenon DEF Opt
<1>3. g \in S /\ h \in S
  OBVIOUS
<1> HIDE DEF S
<1>4. <<>> \in Seq(S) /\ Len(<<>>) = 0
  OBVIOUS
<1>5. \A e \in S : <<e>> \in Seq(S) /\ Len(<<e>>) = 1
  OBVIOUS
<1>6. /\ a \in Seq(S) /\ b \in Seq(S)
      /\ Len(a) = 0 \/ Len(a) = 1
      /\ Len(b) = 0 \/ Len(b) = 1
  BY <1>2, <1>3, <1>4, <1>5, Zenon
<1>7. Len(a \o b) \in Nat /\ Len(a \o b) <= 2
  <2>1. Len(a \o b) = Len(a) + Len(b)
    BY <1>6
  <2>2. PICK m, n : m = Len(a) /\ n = Len(b)
    OBVIOUS
  <2>3. (m = 0 \/ m = 1) /\ (n = 0 \/ n = 1)
    BY <1>6, <2>2, Zenon
  <2>4. m + n \in Nat /\ m + n <= 2
    BY <2>3
  <2> QED BY <2>1, <2>2, <2>4
<1> QED BY <1>1, <1>7, Zenon

(* The scores of the four prongs are in range. *)
LEMMA ProngsInRange ==
    ASSUME NEW S, NEW p1 \in Evidence1(S), NEW p2 \in Evidence2(S), NEW p3 \in Evidence3(S), NEW p4 \in Evidence4(S)
    PROVE  /\ score_disinterestedness(p1) \in Bps
           /\ score_informed_basis(p2) \in Bps
           /\ score_good_faith(p3) \in Bps
           /\ score_rational_basis(p4) \in Bps
<1>1. score_disinterestedness(p1) \in Bps
  <2>1. /\ p1.disinterested_voters \in Nat
        /\ (IF p1.recused_count > p1.total_members THEN 0
            ELSE p1.total_members - p1.recused_count) \in Nat
    BY DEF Evidence1
  <2>2. PICK n \in Nat, d \in Nat :
           /\ n = p1.disinterested_voters
           /\ d = IF p1.recused_count > p1.total_members THEN 0
                  ELSE p1.total_members - p1.recused_count
    BY <2>1
  <2>3. score_disinterestedness(p1) = Share(n, d)
    BY <2>2 DEF score_disinterestedness
  <2> QED BY <2>3, ShareBounded
<1>2. score_informed_basis(p2) \in Bps
  <2>1. p2.voters_who_reviewed \in Nat /\ p2.total_voters \in Nat
    BY DEF Evidence2
  <2>2. PICK n \in Nat, d \in Nat : n = p2.voters_who_reviewed /\ d = p2.total_voters
    BY <2>1
  <2>3. score_informed_basis(p2) = Share(n, d)
    BY <2>2 DEF score_informed_basis
  <2> QED BY <2>3, ShareBounded
<1>3. score_good_faith(p3) \in Bps
  <2>1. p3.alternatives_count \in Nat
    BY DEF Evidence3
  <2> DEFINE x == IF p3.alternatives_count >= 2 THEN Full ELSE p3.alternatives_count * 5000
             y == IF p3.process_compliant THEN Full ELSE 0
             z == IF p3.dissent_records > 0 \/ Len(p3.deliberation_hashes) > 1 THEN Full ELSE 5000
  <2>2. x \in Bps /\ y \in Bps /\ z \in Bps
    BY <2>1 DEF Full, Bps
  <2>3. score_good_faith(p3) = (x + y + z) \div 3
    BY DEF score_good_faith
  <2> HIDE DEF x, y, z
  <2>4. (x + y + z) \div 3 \in Bps
    BY <2>2 DEF Bps, Full
  <2> QED BY <2>3, <2>4
<1>4. score_rational_basis(p4) \in Bps
  <2>1. PICK m \in Nat :
           m = Len(Opt(p4.selected_rationale_hash) \o Opt(p4.risk_assessment_hash)) /\ m <= 2
    BY OptsAreFew
  <2>2. score_rational_basis(p4) = 5000 * m
    BY <2>1 DEF score_rational_basis
  <2>3. m = 0 \/ m = 1 \/ m = 2
    BY <2>1
  <2>4. 5000 * m \in Bps
    BY <2>3 DEF Bps, Full
  <2> QED BY <2>2, <2>4
<1> QED BY <1>1, <1>2, <1>3, <1>4

(* The mean of four scores is in range, reaches the top with all four. *)
Mean(a, b, c, d) == Min({(a + b + c + d) \div 4, Full})

LEMMA MeanOfFour ==
    ASSUME NEW a \in Bps, NEW b \in Bps, NEW c \in Bps, NEW d \in Bps
    PROVE  /\ Mean(a, b, c, d) \in 0..Full
           /\ Mean(a, b, c, d) = Full => a = Full /\ b = Full /\ c = Full /\ d = Full
<1>1. PICK t \in Nat : t = a + b + c + d
  BY DEF Bps, Full
<1>2. t <= 40000 /\ (t = 40000 => a = Full /\ b = Full /\ c = Full /\ d = Full)
  BY <1>1 DEF Bps, Full
<1>3. PICK q \in Nat : q = t \div 4
  BY <1>1
<1>4. q <= 10000 /\ (q = 10000 => t = 40000)
  BY <1>2, <1>3
<1>5. Mean(a, b, c, d) = q
  <2>1. Min({q, 10000}) = q
    BY <1>4, MinOfTwo
  <2> QED BY <1>1, <1>3, <2>1 DEF Mean, Full
<1>6. q \in 0..Full /\ (q = Full => t = 40000)
  BY <1>4 DEF Full
<1> QED BY <1>2, <1>5, <1>6

(* It grows with each of them. *)
LEMMA MeanGrows ==
    ASSUME NEW a \in Bps, NEW b \in Bps, NEW c \in Bps, NEW d \in Bps,
           NEW w \in Bps, NEW x \in Bps, NEW y \in Bps,
           a <= w, b <= x, c <= y
    PROVE  Mean(a, b, c, d) <= Mean(w, x, y, d)
<1>a. PICK s \in Nat : s = a + b + c + d
  BY DEF Bps, Full
<1>b. PICK t \in Nat : t = w + x + y + d
  BY DEF Bps, Full
<1>1. s = a + b + c + d /\ t = w + x + y + d
  BY <1>a, <1>b
<1>2. s <= t /\ t <= 40000
  <2>1. t <= 40000
    BY <1>1 DEF Bps, Full
  <2>2. a \in Int /\ b \in Int /\ c \in Int /\ d \in Int /\ w \in Int /\ x \in Int /\ y \in Int
    BY DEF Bps, Full
  <2> QED BY <1>1, <2>1, <2>2
<1>3. PICK p \in Nat, q \in Nat : p = s \div 4 /\ q = t \div 4
  BY <1>1
<1>4. p <= q /\ q <= 10000 /\ p <= 10000
  BY <1>2, <1>3
<1>5. Min({p, 10000}) = p /\ Min({q, 10000}) = q
  BY <1>4, MinOfTwo
<1>6. Mean(a, b, c, d) = p
  BY <1>1, <1>3, <1>5 DEF Mean, Full
<1>7. Mean(w, x, y, d) = q
  BY <1>1, <1>3, <1>5 DEF Mean, Full
<1> QED BY <1>4, <1>6, <1>7

(* One more disinterested voter, reader or alternative. *)
LEMMA ProngsGrow ==
    ASSUME NEW S, NEW p1 \in Evidence1(S), NEW p2 \in Evidence2(S), NEW p3 \in Evidence3(S)
    PROVE  /\ [p1 EXCEPT !.disinterested_voters = @ + 1] \in Evidence1(S)
           /\ [p2 EXCEPT !.voters_who_reviewed = @ + 1] \in Evidence2(S)
           /\ [p3 EXCEPT !.alternatives_count = @ + 1] \in Evidence3(S)
           /\ score_disinterestedness(p1)
                 <= score_disinterestedness([p1 EXCEPT !.disinterested_voters = @ + 1])
           /\ score_informed_basis(p2)
                 <= score_informed_basis([p2 EXCEPT !.voters_who_reviewed = @ + 1])
           /\ score_good_faith(p3) <= score_good_faith([p3 EXCEPT !.alternatives_count = @ + 1])
<1>1. PICK q1, q2, q3 :
         /\ q1 = [p1 EXCEPT !.disinterested_voters = @ + 1]
         /\ q2 = [p2 EXCEPT !.voters_who_reviewed = @ + 1]
         /\ q3 = [p3 EXCEPT !.alternatives_count = @ + 1]
  OBVIOUS
<1>2. /\ q1 \in Evidence1(S) /\ q1.disinterested_voters = p1.disinterested_voters + 1
      /\ q1.recused_count = p1.recused_count /\ q1.total_members = p1.total_members
  BY <1>1 DEF Evidence1
<1>3. /\ q2 \in Evidence2(S) /\ q2.voters_who_reviewed = p2.voters_who_reviewed + 1
      /\ q2.total_voters = p2.total_voters
  BY <1>1 DEF Evidence2
<1>4. /\ q3 \in Evidence3(S) /\ q3.alternatives_count = p3.alternatives_count + 1
      /\ q3.process_compliant = p3.process_compliant /\ q3.dissent_records = p3.dissent_records
      /\ q3.deliberation_hashes = p3.deliberation_hashes
  BY <1>1 DEF Evidence3
<1>5. score_disinterestedness(p1) <= score_disinterestedness(q1)
  <2>1. /\ p1.disinterested_voters \in Nat
        /\ (IF p1.recused_count > p1.total_members THEN 0
            ELSE p1.total_members - p1.recused_count) \in Nat
    BY DEF Evidence1
  <2>2. PICK n \in Nat, d \in Nat :
           /\ n = p1.disinterested_voters
           /\ d = IF p1.recused_count > p1.total_members THEN 0
                  ELSE p1.total_members - p1.recused_count
    BY <2>1
  <2>3. score_disinterestedness(p1) = Share(n, d) /\ score_disinterestedness(q1) = Share(n + 1, d)
    BY <1>2, <2>2 DEF score_disinterestedness
  <2> QED BY <2>3, ShareBounded
<1>6. score_informed_basis(p2) <= score_informed_basis(q2)
  <2>1. p2.voters_who_reviewed \in Nat /\ p2.total_voters \in Nat
    BY DEF Evidence2
  <2>2. PICK n \in Nat, d \in Nat : n = p2.voters_who_reviewed /\ d = p2.total_voters
    BY <2>1
  <2>3. score_informed_basis(p2) = Share(n, d) /\ score_informed_basis(q2) = Share(n + 1, d)
    BY <1>3, <2>2 DEF score_informed_basis
  <2> QED BY <2>3, ShareBounded
<1>7. score_good_faith(p3) <= score_good_faith(q3)
  <2>1. p3.alternatives_count \in Nat
    BY DEF Evidence3
  <2> DEFINE x == IF p3.alternatives_count >= 2 THEN Full ELSE p3.alternatives_count * 5000
             w == IF q3.alternatives_count >= 2 THEN Full ELSE q3.alternatives_count * 5000
             y == IF p3.process_compliant THEN Full ELSE 0
             z == IF p3.dissent_records > 0 \/ Len(p3.deliberation_hashes) > 1 THEN Full ELSE 5000
  <2>a. x \in Bps /\ y \in Bps /\ z \in Bps
    BY <2>1 DEF Full, Bps
  <2>b. w \in Bps
    BY <1>4, <2>1 DEF Full, Bps
  <2>c. x <= w
    BY <1>4, <2>1 DEF Full
  <2>2. x \in Bps /\ w \in Bps /\ y \in Bps /\ z \in Bps /\ x <= w
    BY <2>a, <2>b, <2>c
  <2>3. score_good_faith(p3) = (x + y + z) \div 3 /\ score_good_faith(q3) = (w + y + z) \div 3
    BY <1>4 DEF score_good_faith
  <2> HIDE DEF x, y, z, w
  <2>4. (x + y + z) \div 3 <= (w + y + z) \div 3
    BY <2>2 DEF Bps, Full
  <2> QED BY <2>3, <2>4
<1> QED BY <1>1, <1>2, <1>3, <1>4, <1>5, <1>6, <1>7

(* fiduciary_package.rs: the scores of packages of any evidence. *)
THEOREM ScoresAlwaysSound ==
    ASSUME NEW K, \A k \in K : IsPackage(k)
    PROVE  ScoresSound(K)
<1> SUFFICES ASSUME NEW k \in K
    PROVE  LET score == bjr_defensibility_score_bps(k)
           IN /\ score \in 0..Full
              /\ score = Full => /\ score_disinterestedness(k.p1) = Full
                                 /\ score_informed_basis(k.p2) = Full
                                 /\ score_good_faith(k.p3) = Full
                                 /\ score_rational_basis(k.p4) = Full
              /\ score <= bjr_defensibility_score_bps([k EXCEPT !.p1.disinterested_voters = @ + 1])
              /\ score <= bjr_defensibility_score_bps([k EXCEPT !.p2.voters_who_reviewed = @ + 1])
              /\ score <= bjr_defensibility_score_bps([k EXCEPT !.p3.alternatives_count = @ + 1])
  BY DEF ScoresSound
<1>0. PICK S : \E dec \in S, p1 \in Evidence1(S), p2 \in Evidence2(S), p3 \in Evidence3(S),
         p4 \in Evidence4(S) : k = generate(dec, p1, p2, p3, p4)
  BY DEF IsPackage
<1>1. PICK dec \in S, p1 \in Evidence1(S), p2 \in Evidence2(S), p3 \in Evidence3(S), p4 \in Evidence4(S) :
         k = generate(dec, p1, p2, p3, p4)
  BY <1>0
<1>2. k.p1 = p1 /\ k.p2 = p2 /\ k.p3 = p3 /\ k.p4 = p4
  BY <1>1 DEF generate
<1>3. PICK q1, q2, q3 :
         /\ q1 = [p1 EXCEPT !.disinterested_voters = @ + 1]
         /\ q2 = [p2 EXCEPT !.voters_who_reviewed = @ + 1]
         /\ q3 = [p3 EXCEPT !.alternatives_count = @ + 1]
  OBVIOUS
<1>4. PICK k1, k2, k3 :
         /\ k1 = [k EXCEPT !.p1.disinterested_voters = @ + 1]
         /\ k2 = [k EXCEPT !.p2.voters_who_reviewed = @ + 1]
         /\ k3 = [k EXCEPT !.p3.alternatives_count = @ + 1]
  OBVIOUS
<1>5. k1.p1 = q1 /\ k1.p2 = p2 /\ k1.p3 = p3 /\ k1.p4 = p4
  BY <1>1, <1>3, <1>4 DEF generate
<1>6. k2.p1 = p1 /\ k2.p2 = q2 /\ k2.p3 = p3 /\ k2.p4 = p4
  BY <1>1, <1>3, <1>4 DEF generate
<1>7. k3.p1 = p1 /\ k3.p2 = p2 /\ k3.p3 = q3 /\ k3.p4 = p4
  BY <1>1, <1>3, <1>4 DEF generate
<1>8. q1 \in Evidence1(S) /\ q2 \in Evidence2(S) /\ q3 \in Evidence3(S)
  BY <1>3, ProngsGrow
<1>9. /\ score_disinterestedness(p1) <= score_disinterestedness(q1)
      /\ score_informed_basis(p2) <= score_informed_basis(q2)
      /\ score_good_faith(p3) <= score_good_faith(q3)
  BY <1>3, ProngsGrow
<1>10. PICK a, b, c, d, w, x, y :
         /\ a = score_disinterestedness(p1) /\ b = score_informed_basis(p2)
         /\ c = score_good_faith(p3) /\ d = score_rational_basis(p4)
         /\ w = score_disinterestedness(q1) /\ x = score_informed_basis(q2)
         /\ y = score_good_faith(q3)
  OBVIOUS
<1>11. /\ a \in Bps /\ b \in Bps /\ c \in Bps /\ d \in Bps /\ w \in Bps /\ x \in Bps /\ y \in Bps
       /\ a <= w /\ b <= x /\ c <= y /\ a <= a /\ b <= b /\ c <= c
  <2>1. a \in Bps /\ b \in Bps /\ c \in Bps /\ d \in Bps
    BY <1>10, ProngsInRange
  <2>2. w \in Bps /\ x \in Bps /\ y \in Bps
    BY <1>8, <1>10, ProngsInRange
  <2>3. a \in Int /\ b \in Int /\ c \in Int
    BY <2>1 DEF Bps, Full
  <2> QED BY <1>9, <1>10, <2>1, <2>2, <2>3
<1>12. /\ bjr_defensibility_score_bps(k) = Mean(a, b, c, d)
       /\ bjr_defensibility_score_bps(k1) = Mean(w, b, c, d)
       /\ bjr_defensibility_score_bps(k2) = Mean(a, x, c, d)
       /\ bjr_defensibility_score_bps(k3) = Mean(a, b, y, d)
  BY <1>2, <1>5, <1>6, <1>7, <1>10 DEF bjr_defensibility_score_bps, Mean
<1>13. /\ Mean(a, b, c, d) \in 0..Full
       /\ Mean(a, b, c, d) = Full => a = Full /\ b = Full /\ c = Full /\ d = Full
  BY <1>11, MeanOfFour
<1>14. /\ Mean(a, b, c, d) <= Mean(w, b, c, d)
       /\ Mean(a, b, c, d) <= Mean(a, x, c, d)
       /\ Mean(a, b, c, d) <= Mean(a, b, y, d)
  BY <1>11, MeanGrows
<1> QED BY <1>2, <1>4, <1>10, <1>12, <1>13, <1>14

(* fiduciary_package.rs: the seals of packages of any evidence. *)
THEOREM SealsAlwaysShow ==
    ASSUME NEW K, \A k \in K : IsPackage(k)
    PROVE  SealShows(K)
<1> SUFFICES ASSUME NEW j \in K, NEW k \in K
    PROVE  package_verify([j EXCEPT !.package_hash = k.package_hash])
              <=> /\ j.decision_hash = k.decision_hash
                  /\ j.p1 = k.p1 /\ j.p2 = k.p2 /\ j.p3 = k.p3
                  /\ Opt(j.p4.selected_rationale_hash) \o Opt(j.p4.risk_assessment_hash)
                        \o j.p4.supporting_evidence_hashes
                     = Opt(k.p4.selected_rationale_hash) \o Opt(k.p4.risk_assessment_hash)
                        \o k.p4.supporting_evidence_hashes
  BY DEF SealShows
<1>1. PICK f : f = [p \in {j.p4, k.p4} |-> Opt(p.selected_rationale_hash) \o Opt(p.risk_assessment_hash)
                        \o p.supporting_evidence_hashes]
  OBVIOUS
<1>2. k.package_hash = <<"fjp:v1", k.decision_hash, k.p1, k.p2, k.p3, f[k.p4]>>
  <2>1. k.package_hash = compute_package_hash(k.decision_hash, k.p1, k.p2, k.p3, k.p4)
    BY DEF IsPackage, generate
  <2> QED BY <1>1, <2>1 DEF compute_package_hash
<1>3. PICK i : i = [j EXCEPT !.package_hash = k.package_hash]
  OBVIOUS
<1>4. /\ i.package_hash = k.package_hash /\ i.decision_hash = j.decision_hash
      /\ i.p1 = j.p1 /\ i.p2 = j.p2 /\ i.p3 = j.p3 /\ i.p4 = j.p4
  BY <1>3 DEF IsPackage, generate
<1>5. package_verify(i) <=>
         k.package_hash = <<"fjp:v1", j.decision_hash, j.p1, j.p2, j.p3, f[j.p4]>>
  BY <1>1, <1>4 DEF package_verify, compute_package_hash
<1>6. package_verify(i) <=> /\ j.decision_hash = k.decision_hash
                            /\ j.p1 = k.p1 /\ j.p2 = k.p2 /\ j.p3 = k.p3 /\ f[j.p4] = f[k.p4]
  BY <1>2, <1>5
<1> QED BY <1>1, <1>3, <1>6

(* The packages that TLC looks at are packages of some evidence. *)
LEMMA PackagesArePackages == \A k \in Packages : IsPackage(k)
<1> DEFINE S == {"d", "e", "g", "h", "None"}
<1>0. /\ <<>> \in Seq(S) /\ <<"h">> \in Seq(S) /\ <<"g">> \in Seq(S)
      /\ <<"h", "g">> \in Seq(S) /\ {"None", "h"} \subseteq S /\ {"None", "g"} \subseteq S
      /\ "d" \in S /\ "e" \in S
  OBVIOUS
<1> HIDE DEF S
<1>1. Prong1 \subseteq Evidence1(S)
  <2> SUFFICES ASSUME NEW p \in Prong1 PROVE p \in Evidence1(S)
    OBVIOUS
  <2>1. p = [total_members |-> p.total_members,
             recused_count |-> p.recused_count,
             disinterested_voters |-> p.disinterested_voters,
             majority_disinterested |-> p.majority_disinterested,
             disclosure_record_hashes |-> p.disclosure_record_hashes]
    BY DEF Prong1
  <2>2. /\ p.total_members \in Nat
        /\ p.recused_count \in Nat
        /\ p.disinterested_voters \in Nat
        /\ p.majority_disinterested \in BOOLEAN
    BY DEF Prong1
  <2>3. p.disclosure_record_hashes \in {<<>>, <<"h">>}
    BY DEF Prong1
  <2>4. p.disclosure_record_hashes \in Seq(S)
    BY <1>0, <2>3, Zenon
  <2> QED BY <2>1, <2>2, <2>4 DEF Evidence1
<1>2. Prong2 \subseteq Evidence2(S)
  <2> SUFFICES ASSUME NEW p \in Prong2 PROVE p \in Evidence2(S)
    OBVIOUS
  <2>1. p = [voters_who_reviewed |-> p.voters_who_reviewed,
             total_voters |-> p.total_voters,
             materials_complete_before_vote |-> p.materials_complete_before_vote,
             evidence_manifest_hashes |-> p.evidence_manifest_hashes]
    BY DEF Prong2
  <2>2. /\ p.voters_who_reviewed \in Nat
        /\ p.total_voters \in Nat
        /\ p.materials_complete_before_vote \in BOOLEAN
    BY DEF Prong2
  <2>3. p.evidence_manifest_hashes \in {<<>>, <<"h">>}
    BY DEF Prong2
  <2>4. p.evidence_manifest_hashes \in Seq(S)
    BY <1>0, <2>3, Zenon
  <2> QED BY <2>1, <2>2, <2>4 DEF Evidence2
<1>3. Prong3 \subseteq Evidence3(S)
  <2> SUFFICES ASSUME NEW p \in Prong3 PROVE p \in Evidence3(S)
    OBVIOUS
  <2>1. p = [alternatives_count |-> p.alternatives_count,
             dissent_records |-> p.dissent_records,
             process_compliant |-> p.process_compliant,
             deliberation_hashes |-> p.deliberation_hashes]
    BY DEF Prong3
  <2>2. /\ p.alternatives_count \in Nat
        /\ p.dissent_records \in Nat
        /\ p.process_compliant \in BOOLEAN
    BY DEF Prong3
  <2>3. p.deliberation_hashes \in {<<>>, <<"h">>, <<"h", "g">>}
    BY DEF Prong3
  <2>4. p.deliberation_hashes \in Seq(S)
    BY <1>0, <2>3, Zenon
  <2> QED BY <2>1, <2>2, <2>4 DEF Evidence3
<1>4. Prong4 \subseteq Evidence4(S)
  BY <1>0 DEF Prong4, Evidence4
<1>5. /\ AnyOf(Prong1) \in Prong1 /\ AnyOf(Prong2) \in Prong2
      /\ AnyOf(Prong3) \in Prong3 /\ AnyOf(Prong4) \in Prong4
  <2>1. /\ [total_members |-> 0, recused_count |-> 0, disinterested_voters |-> 0,
            majority_disinterested |-> TRUE, disclosure_record_hashes |-> <<>>] \in Prong1
        /\ [voters_who_reviewed |-> 0, total_voters |-> 0, materials_complete_before_vote |-> TRUE,
            evidence_manifest_hashes |-> <<>>] \in Prong2
        /\ [alternatives_count |-> 0, dissent_records |-> 0, process_compliant |-> TRUE,
            deliberation_hashes |-> <<>>] \in Prong3
        /\ [selected_rationale_hash |-> "None", risk_assessment_hash |-> "None",
            supporting_evidence_hashes |-> <<>>] \in Prong4
    BY DEF Prong1, Prong2, Prong3, Prong4
  <2>2. \A X : (\E x : x \in X) => AnyOf(X) \in X
    BY Zenon DEF AnyOf
  <2> QED BY <2>1, <2>2
<1>7. \A k \in Packages : \E d \in S, p1 \in Prong1, p2 \in Prong2, p3 \in Prong3, p4 \in Prong4 :
         k = generate(d, p1, p2, p3, p4)
  BY <1>0, <1>5 DEF Packages
<1>8. ASSUME NEW k \in Packages PROVE IsPackage(k)
  <2>1. PICK d \in S, p1 \in Prong1, p2 \in Prong2, p3 \in Prong3, p4 \in Prong4 :
           k = generate(d, p1, p2, p3, p4)
    BY <1>7
  <2>2. p1 \in Evidence1(S) /\ p2 \in Evidence2(S) /\ p3 \in Evidence3(S) /\ p4 \in Evidence4(S)
    BY <1>1, <1>2, <1>3, <1>4
  <2> QED BY <2>1, <2>2, Zenon DEF IsPackage
<1> QED BY <1>8

(* Percentages, seals and scores. *)
LEMMA DefenceAlwaysSound == DefenceSound
<1>1. PctExact(0..220)
  BY PctReadsFull DEF PctExact
<1> QED BY <1>1, PackagesArePackages, ScoresAlwaysSound, SealsAlwaysShow DEF DefenceSound

-----------------------------------------------------------------------------
(* A count that passed its checks is full until a failure is told. *)
Count(total, passed, failed) ==
    /\ total \in Nat /\ passed \in Nat /\ passed <= total
    /\ passed = total <=> ~failed

(* The counters tell failures, and the registry of terms what was accepted. *)
RecordsInv ==
    /\ RecordsTypeOK
    /\ IsSequence(told)
    /\ \A m \in RatioMetric :
          Count(collector.ratios[m].total, collector.ratios[m].passed, FailureTold(m))
    /\ Count(tracker.total_modifications, tracker.compliant_modifications, FailureTold("tracker"))
    /\ \A a \in TermsAcceptance :
          (\E i \in DOMAIN acceptances : acceptances[i] = a)
             <=> \E i \in DOMAIN told : told[i] = <<"terms", a>>
    /\ AmendmentsBacked

(* One more entry told. *)
LEMMA ToldMore ==
    ASSUME IsSequence(told), NEW e, Told(e)
    PROVE  /\ IsSequence(told')
           /\ \A x : (\E i \in DOMAIN told' : told'[i] = x)
                      <=> (\E i \in DOMAIN told : told[i] = x) \/ x = e
<1>1. PICK S : told \in Seq(S)
  BY DEF IsSequence
<1> DEFINE T == S \cup {e}
<1>2. told \in Seq(T) /\ e \in T
  BY <1>1
<1> HIDE DEF T
<1>n. PICK n \in Nat : n = Len(told)
  BY <1>1
<1>3. told' = Append(told, e)
  BY DEF Told
<1>4. /\ told' \in Seq(T) /\ DOMAIN told = 1..n /\ DOMAIN told' = 1..(n + 1) /\ told'[n + 1] = e
      /\ \A i \in 1..n : told'[i] = told[i]
  BY <1>2, <1>3, <1>n
<1>5. ASSUME NEW x PROVE (\E i \in DOMAIN told' : told'[i] = x)
                             <=> (\E i \in DOMAIN told : told[i] = x) \/ x = e
  <2>1. ASSUME NEW i \in DOMAIN told', told'[i] = x
        PROVE  (\E k \in DOMAIN told : told[k] = x) \/ x = e
    BY <1>4, <2>1
  <2>2. ASSUME NEW i \in DOMAIN told, told[i] = x PROVE \E k \in DOMAIN told' : told'[k] = x
    BY <1>4, <2>2
  <2>3. x = e => \E k \in DOMAIN told' : told'[k] = x
    BY <1>4
  <2> QED BY <2>1, <2>2, <2>3
<1>6. IsSequence(told')
  BY <1>4 DEF IsSequence
<1> QED BY <1>5, <1>6

TermsTold(a) == \E i \in DOMAIN told : told[i] = <<"terms", a>>

(* What it tells: a failure, or an acceptance. *)
LEMMA ToldWhat ==
    ASSUME IsSequence(told), NEW heading, NEW what, Told(<<heading, what>>)
    PROVE  /\ \A h : FailureTold(h)' <=> FailureTold(h) \/ (heading = h /\ what = FALSE)
           /\ \A a : TermsTold(a)' <=> TermsTold(a) \/ (heading = "terms" /\ what = a)
           /\ IsSequence(told')
<1>1. PICK e : e = <<heading, what>>
  OBVIOUS
<1>2. Told(e)
  BY <1>1
<1>3. IsSequence(told') /\ \A x : (\E i \in DOMAIN told' : told'[i] = x)
                      <=> (\E i \in DOMAIN told : told[i] = x) \/ x = e
  BY <1>2, ToldMore
<1>4. ASSUME NEW h PROVE FailureTold(h)' <=> FailureTold(h) \/ (heading = h /\ what = FALSE)
  <2>1. (\E i \in DOMAIN told' : told'[i] = <<h, FALSE>>)
           <=> (\E i \in DOMAIN told : told[i] = <<h, FALSE>>) \/ <<h, FALSE>> = e
    BY <1>3, Zenon
  <2>2. <<h, FALSE>> = e <=> heading = h /\ what = FALSE
    BY <1>1
  <2> QED BY <2>1, <2>2, Zenon DEF FailureTold
<1>5. ASSUME NEW a PROVE TermsTold(a)' <=> TermsTold(a) \/ (heading = "terms" /\ what = a)
  <2>1. (\E i \in DOMAIN told' : told'[i] = <<"terms", a>>)
           <=> (\E i \in DOMAIN told : told[i] = <<"terms", a>>) \/ <<"terms", a>> = e
    BY <1>3, Zenon
  <2>2. <<"terms", a>> = e <=> heading = "terms" /\ what = a
    BY <1>1
  <2> QED BY <2>1, <2>2, Zenon DEF TermsTold
<1> QED BY <1>3, <1>4, <1>5

(* Nothing recorded yet. *)
LEMMA RecordsInitInv == RecordsInit => RecordsInv
<1> SUFFICES ASSUME RecordsInit PROVE RecordsInv
  OBVIOUS
<1>1. told = <<>> /\ acceptances = <<>> /\ proposals = <<>> /\ DOMAIN told = {}
      /\ DOMAIN acceptances = {} /\ DOMAIN proposals = {}
  BY DEF RecordsInit
<1>2. \A h : ~FailureTold(h)
  BY <1>1 DEF FailureTold
<1>3. /\ \A m \in RatioMetric : collector.ratios[m].total = 0 /\ collector.ratios[m].passed = 0
      /\ tracker.total_modifications = 0 /\ tracker.compliant_modifications = 0
  BY DEF RecordsInit, NewCollector, NewTracker
<1>4. RecordsTypeOK
  BY DEF RecordsInit, NewCollector, NewTracker, RecordsTypeOK, MetricsCollector
<1>5. IsSequence(told)
  <2>1. told \in Seq({})
    BY <1>1
  <2> QED BY <2>1 DEF IsSequence
<1>6. AmendmentsBacked
  BY <1>1 DEF AmendmentsBacked
<1>7. /\ \A m \in RatioMetric :
            Count(collector.ratios[m].total, collector.ratios[m].passed, FailureTold(m))
      /\ Count(tracker.total_modifications, tracker.compliant_modifications, FailureTold("tracker"))
  BY <1>2, <1>3 DEF Count
<1> QED BY <1>1, <1>4, <1>5, <1>6, <1>7 DEF RecordsInv

(* Each record keeps the counters, the registry and the proposals in step
   with what was told. *)
LEMMA RecordsStepInv == RecordsInv /\ [RecordsNext]_records => RecordsInv'
<1> SUFFICES ASSUME RecordsInv, [RecordsNext]_records PROVE RecordsInv'
  OBVIOUS
<1> DEFINE Accepted(a) == \E i \in DOMAIN acceptances : acceptances[i] = a
<1>0. /\ RecordsTypeOK /\ IsSequence(told) /\ AmendmentsBacked
      /\ \A m \in RatioMetric :
            Count(collector.ratios[m].total, collector.ratios[m].passed, FailureTold(m))
      /\ Count(tracker.total_modifications, tracker.compliant_modifications, FailureTold("tracker"))
      /\ \A a \in TermsAcceptance : Accepted(a) <=> TermsTold(a)
  BY DEF RecordsInv, TermsTold
<1> HIDE DEF Accepted
<1>1. ASSUME NEW m \in RatioMetric, NEW good \in BOOLEAN, record_check(m, good) PROVE RecordsInv'
  <2>1. Told(<<m, good>>) /\ UNCHANGED <<tracker, proposals, acceptances>>
    BY <1>1 DEF record_check
  <2>t. /\ \A h : FailureTold(h)' <=> FailureTold(h) \/ (m = h /\ good = FALSE)
        /\ \A a0 : TermsTold(a0)' <=> TermsTold(a0) \/ (m = "terms" /\ good = a0)
        /\ IsSequence(told')
    BY <1>0, <2>1, ToldWhat
  <2>2. m # "tracker" /\ m # "terms"
    BY DEF RatioMetric
  <2>3. collector \in MetricsCollector
    BY <1>0 DEF RecordsTypeOK
  <2>4. /\ collector' = [collector EXCEPT !.ratios[m] =
              [total |-> collector.ratios[m].total + 1,
               passed |-> collector.ratios[m].passed + (IF good THEN 1 ELSE 0)]]
    BY <1>1, <2>3 DEF record_check, MetricsCollector
  <2>5. /\ collector.ratios[m].total \in Nat /\ collector.ratios[m].passed \in Nat
    BY <1>1, <2>3 DEF MetricsCollector
  <2>6. collector' \in MetricsCollector
    <3>1. PICK r : r = [collector.ratios EXCEPT ![m] =
              [total |-> collector.ratios[m].total + 1,
               passed |-> collector.ratios[m].passed + (IF good THEN 1 ELSE 0)]]
      OBVIOUS
    <3>2. r \in [RatioMetric -> [total : Nat, passed : Nat]]
      BY <1>1, <2>3, <2>5, <3>1 DEF MetricsCollector
    <3>3. collector' = [ratios |-> r, latencies |-> collector.latencies]
      BY <2>3, <2>4, <3>1 DEF MetricsCollector
    <3>4. collector.latencies \in [LatencyMetric -> Seq(Durations)]
      BY <2>3 DEF MetricsCollector
    <3> QED BY <3>2, <3>3, <3>4 DEF MetricsCollector
  <2>7. /\ collector'.ratios[m].total = collector.ratios[m].total + 1
        /\ collector'.ratios[m].passed = collector.ratios[m].passed + (IF good THEN 1 ELSE 0)
        /\ \A o \in RatioMetric : o # m => collector'.ratios[o] = collector.ratios[o]
    BY <1>1, <2>3, <2>4 DEF MetricsCollector
  <2>8. /\ FailureTold(m)' <=> (FailureTold(m) \/ ~good)
        /\ \A o : o # m => (FailureTold(o)' <=> FailureTold(o))
    BY <2>t, <2>1
  <2>9. Count(collector'.ratios[m].total, collector'.ratios[m].passed, FailureTold(m)')
    BY <1>0, <1>1, <2>5, <2>7, <2>8 DEF Count
  <2>10. \A o \in RatioMetric :
            Count(collector'.ratios[o].total, collector'.ratios[o].passed, FailureTold(o)')
    BY <1>0, <2>7, <2>8, <2>9 DEF Count
  <2>11. \A a \in TermsAcceptance : Accepted(a)' <=> TermsTold(a)'
    BY <1>0, <2>t, <2>1, <2>2 DEF Accepted
  <2>12. Count(tracker.total_modifications, tracker.compliant_modifications, FailureTold("tracker"))'
    BY <1>0, <2>1, <2>2, <2>8 DEF Count
  <2>13. RecordsTypeOK' /\ AmendmentsBacked' /\ IsSequence(told)'
    BY <1>0, <2>t, <2>1, <2>6 DEF RecordsTypeOK, AmendmentsBacked
  <2> QED BY <2>10, <2>11, <2>12, <2>13 DEF RecordsInv, Accepted, TermsTold
<1>2. ASSUME NEW m \in LatencyMetric, NEW ms \in Durations, record_latency(m, ms) PROVE RecordsInv'
  <2>1. Told(<<m, ms>>) /\ UNCHANGED <<tracker, proposals, acceptances>>
    BY <1>2 DEF record_latency
  <2>t. /\ \A h : FailureTold(h)' <=> FailureTold(h) \/ (m = h /\ ms = FALSE)
        /\ \A a0 : TermsTold(a0)' <=> TermsTold(a0) \/ (m = "terms" /\ ms = a0)
        /\ IsSequence(told')
    BY <1>0, <2>1, ToldWhat
  <2>2. m # "tracker" /\ m # "terms" /\ m \notin RatioMetric
    BY DEF LatencyMetric, RatioMetric
  <2>3. collector \in MetricsCollector
    BY <1>0 DEF RecordsTypeOK
  <2>4. collector' \in MetricsCollector /\ collector'.ratios = collector.ratios
    <3>1. PICK r : r = [collector.latencies EXCEPT ![m] = Append(@, ms)]
      OBVIOUS
    <3>2. r \in [LatencyMetric -> Seq(Durations)]
      BY <1>2, <2>3, <3>1 DEF MetricsCollector
    <3>3. collector' = [ratios |-> collector.ratios, latencies |-> r]
      BY <1>2, <2>3, <3>1 DEF record_latency, MetricsCollector
    <3>4. collector.ratios \in [RatioMetric -> [total : Nat, passed : Nat]]
      BY <2>3 DEF MetricsCollector
    <3> QED BY <3>2, <3>3, <3>4 DEF MetricsCollector
  <2>5. \A o \in RatioMetric \cup {"tracker"} : FailureTold(o)' <=> FailureTold(o)
    BY <2>t, <2>1, <2>2
  <2>6. \A o \in RatioMetric :
            Count(collector'.ratios[o].total, collector'.ratios[o].passed, FailureTold(o)')
    BY <1>0, <2>4, <2>5 DEF Count
  <2>7. \A a \in TermsAcceptance : Accepted(a)' <=> TermsTold(a)'
    BY <1>0, <2>t, <2>1, <2>2 DEF Accepted
  <2>8. Count(tracker.total_modifications, tracker.compliant_modifications, FailureTold("tracker"))'
    BY <1>0, <2>1, <2>5 DEF Count
  <2>9. RecordsTypeOK' /\ AmendmentsBacked' /\ IsSequence(told)'
    BY <1>0, <2>t, <2>1, <2>4 DEF RecordsTypeOK, AmendmentsBacked
  <2> QED BY <2>6, <2>7, <2>8, <2>9 DEF RecordsInv, Accepted, TermsTold
<1>3. ASSUME NEW compliant \in BOOLEAN, record_compliance(compliant) PROVE RecordsInv'
  <2>1. Told(<<"tracker", compliant>>) /\ UNCHANGED <<collector, proposals, acceptances>>
    BY <1>3 DEF record_compliance
  <2>t. /\ \A h : FailureTold(h)' <=> FailureTold(h) \/ ("tracker" = h /\ compliant = FALSE)
        /\ \A a0 : TermsTold(a0)' <=> TermsTold(a0) \/ ("tracker" = "terms" /\ compliant = a0)
        /\ IsSequence(told')
    BY <1>0, <2>1, ToldWhat
  <2>2. "tracker" \notin RatioMetric
    BY DEF RatioMetric
  <2>3. tracker' = track(tracker, compliant)
    BY <1>3 DEF record_compliance
  <2>4. tracker.total_modifications \in Nat /\ tracker.compliant_modifications \in Nat
    BY <1>0 DEF RecordsTypeOK
  <2>5. /\ tracker' \in [total_modifications : Nat, compliant_modifications : Nat]
        /\ tracker'.total_modifications = tracker.total_modifications + 1
        /\ tracker'.compliant_modifications =
              tracker.compliant_modifications + (IF compliant THEN 1 ELSE 0)
    BY <2>3, <2>4 DEF track
  <2>6. /\ FailureTold("tracker")' <=> (FailureTold("tracker") \/ ~compliant)
        /\ \A o \in RatioMetric : FailureTold(o)' <=> FailureTold(o)
    BY <2>t, <2>1, <2>2
  <2>7. Count(tracker'.total_modifications, tracker'.compliant_modifications, FailureTold("tracker")')
    BY <1>0, <1>3, <2>4, <2>5, <2>6 DEF Count
  <2>8. \A o \in RatioMetric :
            Count(collector'.ratios[o].total, collector'.ratios[o].passed, FailureTold(o)')
    BY <1>0, <2>1, <2>6 DEF Count
  <2>9. \A a \in TermsAcceptance : Accepted(a)' <=> TermsTold(a)'
    BY <1>0, <2>t, <2>1 DEF Accepted
  <2>10. RecordsTypeOK' /\ AmendmentsBacked' /\ IsSequence(told)'
    BY <1>0, <2>t, <2>1, <2>5 DEF RecordsTypeOK, AmendmentsBacked
  <2> QED BY <2>7, <2>8, <2>9, <2>10 DEF RecordsInv, Accepted, TermsTold
<1>4. ASSUME NEW a \in TermsAcceptance, accept(a) PROVE RecordsInv'
  <2>1. Told(<<"terms", a>>) /\ UNCHANGED <<collector, tracker, proposals>>
    BY <1>4 DEF accept
  <2>t. /\ \A h : FailureTold(h)' <=> FailureTold(h) \/ ("terms" = h /\ a = FALSE)
        /\ \A a0 : TermsTold(a0)' <=> TermsTold(a0) \/ ("terms" = "terms" /\ a = a0)
        /\ IsSequence(told')
    BY <1>0, <2>1, ToldWhat
  <2>2. \A o \in RatioMetric \cup {"tracker"} : o # "terms"
    BY DEF RatioMetric
  <2>3. acceptances \in Seq(TermsAcceptance) /\ acceptances' = Append(acceptances, a)
    BY <1>0, <1>4 DEF RecordsTypeOK, accept
  <2>4. acceptances' \in Seq(TermsAcceptance)
    BY <1>4, <2>3
  <2>5. \A b : Accepted(b)' <=> Accepted(b) \/ b = a
    <3>1. PICK n \in Nat : n = Len(acceptances)
      BY <2>3
    <3>2. /\ DOMAIN acceptances = 1..n /\ DOMAIN acceptances' = 1..(n + 1)
          /\ acceptances'[n + 1] = a /\ \A i \in 1..n : acceptances'[i] = acceptances[i]
      BY <1>4, <2>3, <3>1
    <3> QED BY <3>2 DEF Accepted
  <2>6. \A b : TermsTold(b)' <=> TermsTold(b) \/ b = a
    BY <2>t, <2>1
  <2>7. \A b \in TermsAcceptance : Accepted(b)' <=> TermsTold(b)'
    BY <1>0, <2>5, <2>6
  <2>8. \A o \in RatioMetric \cup {"tracker"} : FailureTold(o)' <=> FailureTold(o)
    BY <2>t, <2>1, <2>2
  <2>9. \A o \in RatioMetric :
            Count(collector'.ratios[o].total, collector'.ratios[o].passed, FailureTold(o)')
    BY <1>0, <2>1, <2>8 DEF Count
  <2>10. Count(tracker.total_modifications, tracker.compliant_modifications, FailureTold("tracker"))'
    BY <1>0, <2>1, <2>8 DEF Count
  <2>11. RecordsTypeOK' /\ AmendmentsBacked' /\ IsSequence(told)'
    BY <1>0, <2>t, <2>1, <2>4 DEF RecordsTypeOK, AmendmentsBacked
  <2> QED BY <2>7, <2>9, <2>10, <2>11 DEF RecordsInv, Accepted, TermsTold
<1>5. ASSUME UNCHANGED <<collector, tracker, acceptances, told>>,
             proposals' \in Seq(GovernanceProposal), AmendmentsBacked'
      PROVE  RecordsInv'
  BY <1>0, <1>5 DEF RecordsInv, RecordsTypeOK, FailureTold, Accepted, TermsTold
<1>6. ASSUME NEW titled \in BOOLEAN, NEW type \in GovernanceChangeType, Propose(titled, type)
      PROVE  RecordsInv'
  <2>1. /\ proposals \in Seq(GovernanceProposal)
        /\ proposals' = Append(proposals, create_proposal(titled, type))
    BY <1>0, <1>6 DEF RecordsTypeOK, Propose
  <2>2. create_proposal(titled, type) \in GovernanceProposal /\ ~create_proposal(titled, type).simulated
    BY <1>6 DEF create_proposal, GovernanceProposal
  <2>3. proposals' \in Seq(GovernanceProposal)
    BY <2>1, <2>2
  <2>4. \A i \in DOMAIN proposals' :
           (i \in DOMAIN proposals /\ proposals'[i] = proposals[i]) \/ ~proposals'[i].simulated
    BY <2>1, <2>2
  <2>5. AmendmentsBacked'
    BY <1>0, <2>4 DEF AmendmentsBacked, SimulationPassed
  <2> QED BY <1>5, <1>6, <2>3, <2>5 DEF Propose
<1>7. ASSUME NEW i \in DOMAIN proposals, Back(i) PROVE RecordsInv'
  <2>1. /\ proposals \in Seq(GovernanceProposal)
        /\ proposals' = [proposals EXCEPT ![i] = [proposals[i] EXCEPT !.decided = TRUE]]
    BY <1>0, <1>7 DEF RecordsTypeOK, Back
  <2>2. proposals[i] \in GovernanceProposal
    BY <1>7, <2>1
  <2>3. PICK p : p = [proposals[i] EXCEPT !.decided = TRUE]
    OBVIOUS
  <2>4. /\ p \in GovernanceProposal /\ p.decided /\ p.titled = proposals[i].titled
        /\ p.simulated = proposals[i].simulated /\ p.issues = proposals[i].issues
    BY <2>2, <2>3 DEF GovernanceProposal
  <2>5. /\ proposals' \in Seq(GovernanceProposal) /\ DOMAIN proposals' = DOMAIN proposals
        /\ proposals'[i] = p /\ \A j \in DOMAIN proposals : j # i => proposals'[j] = proposals[j]
    BY <1>7, <2>1, <2>3, <2>4
  <2>6. AmendmentsBacked'
    BY <1>0, <2>4, <2>5 DEF AmendmentsBacked, SimulationPassed
  <2> QED BY <1>5, <1>7, <2>5, <2>6 DEF Back
<1>8. ASSUME NEW i \in DOMAIN proposals, Simulate(i) PROVE RecordsInv'
  <2>1. /\ proposals \in Seq(GovernanceProposal)
        /\ proposals' = [proposals EXCEPT ![i] = simulate(proposals[i])]
    BY <1>0, <1>8 DEF RecordsTypeOK, Simulate
  <2>2. proposals[i] \in GovernanceProposal
    BY <1>8, <2>1
  <2>3. PICK p : p = simulate(proposals[i])
    OBVIOUS
  <2>4. /\ p.titled = proposals[i].titled /\ p.change_type = proposals[i].change_type
        /\ p.decided = proposals[i].decided /\ p.simulated = TRUE
        /\ p.issues = (IF proposals[i].change_type = "ConstitutionalAmendment" /\ ~proposals[i].decided
                          THEN {"unbacked"} ELSE {})
                       \cup (IF proposals[i].titled THEN {} ELSE {"untitled"})
    BY <2>2, <2>3 DEF simulate, GovernanceProposal
  <2>5. p.issues \subseteq {"unbacked", "untitled"}
    BY <2>4
  <2>6. p \in GovernanceProposal
    BY <2>2, <2>3, <2>5 DEF simulate, GovernanceProposal
  <2>7. p.issues = {} => p.titled /\ (p.change_type = "ConstitutionalAmendment" => p.decided)
    BY <2>4
  <2>8. /\ proposals' \in Seq(GovernanceProposal) /\ DOMAIN proposals' = DOMAIN proposals
        /\ proposals'[i] = p /\ \A j \in DOMAIN proposals : j # i => proposals'[j] = proposals[j]
    BY <1>8, <2>1, <2>3, <2>6
  <2>9. AmendmentsBacked'
    BY <1>0, <2>7, <2>8 DEF AmendmentsBacked, SimulationPassed
  <2> QED BY <1>5, <1>8, <2>8, <2>9 DEF Simulate
<1>9. CASE UNCHANGED records
  <2>1. UNCHANGED <<collector, tracker, acceptances, told, proposals>>
    BY <1>9 DEF records
  <2> QED BY <1>0, <1>5, <2>1 DEF RecordsTypeOK, AmendmentsBacked
<1> QED BY <1>1, <1>2, <1>3, <1>4, <1>6, <1>7, <1>8, <1>9 DEF RecordsNext

(* The reports follow from the counters and the registry. *)
LEMMA ReportsFromInv == RecordsInv => ReportsTruthful
<1> SUFFICES ASSUME RecordsInv PROVE ReportsTruthful
  OBVIOUS
<1>1. FailuresShow
  <2>1. ASSUME NEW m \in RatioMetric PROVE MetricPct(collector, m) = 100 <=> ~FailureTold(m)
    <3>1. PICK d, n : d = collector.ratios[m].total /\ n = collector.ratios[m].passed
      OBVIOUS
    <3>2. d \in Nat /\ n \in Nat /\ n <= d /\ (n = d <=> ~FailureTold(m))
      BY <3>1 DEF RecordsInv, Count
    <3> QED BY <3>1, <3>2, PctReadsFull DEF MetricPct
  <2>2. compliance_rate_pct(tracker) = 100 <=> ~FailureTold("tracker")
    <3>1. PICK d, n : d = tracker.total_modifications /\ n = tracker.compliant_modifications
      OBVIOUS
    <3>2. d \in Nat /\ n \in Nat /\ n <= d /\ (n = d <=> ~FailureTold("tracker"))
      BY <3>1 DEF RecordsInv, Count
    <3> QED BY <3>1, <3>2, PctReadsFull DEF compliance_rate_pct
  <2> QED BY <2>1, <2>2 DEF FailuresShow
<1>2. TermsPerVersion
  <2> SUFFICES ASSUME NEW a \in TermsAcceptance
      PROVE  require_acceptance(a.accepted_by, a.terms_id, a.terms_version) = "Ok"
                <=> \E i \in DOMAIN told : told[i] = <<"terms", a>>
    BY DEF TermsPerVersion
  <2>1. acceptances \in Seq(TermsAcceptance)
    BY DEF RecordsInv, RecordsTypeOK
  <2>2. \A b \in TermsAcceptance :
           b.accepted_by = a.accepted_by /\ b.terms_id = a.terms_id /\ b.terms_version = a.terms_version
              => b = a
    BY DEF TermsAcceptance
  <2>3. has_accepted(a.accepted_by, a.terms_id, a.terms_version)
           <=> \E i \in DOMAIN acceptances : acceptances[i] = a
    BY <2>1, <2>2 DEF has_accepted
  <2>4. require_acceptance(a.accepted_by, a.terms_id, a.terms_version) = "Ok"
           <=> has_accepted(a.accepted_by, a.terms_id, a.terms_version)
    BY DEF require_acceptance
  <2> QED BY <2>3, <2>4 DEF RecordsInv
<1>3. ForumNeedsAuthority
  BY DEF ForumNeedsAuthority, ForumAuthority, verify_forum_authority
<1> QED BY <1>1, <1>2, <1>3, DefenceAlwaysSound DEF RecordsInv, ReportsTruthful

(* metrics.rs, self_governance.rs, terms.rs, authority.rs, fiduciary_package.rs:
   for any number of checks, proposals and acceptances. *)
THEOREM ReportsAreTruthful == RecordsSpec => []ReportsTruthful
<1>1. RecordsSpec => []RecordsInv
  BY RecordsInitInv, RecordsStepInv, PTL DEF RecordsSpec
<1> QED BY <1>1, ReportsFromInv, PTL


-----------------------------------------------------------------------------
(* The copies a host can hold. *)
VotersDiffer(vs) == \A v, w \in vs : v.voter_did = w.voter_did => v = w

(* The receipts of a copy: those of a walk from Draft to the state s. *)
WalkTo(log, s) ==
    /\ IsSequence(log)
    /\ \A i \in 1..Len(log) :
          /\ log[i].receipt_hash =
                Core!Receipt(log[i].from_state, log[i].to_state, log[i].timestamp,
                             log[i].actor_did,
                             IF i = 1 THEN Core!ZERO ELSE log[i - 1].receipt_hash)
          /\ log[i].from_state = IF i = 1 THEN "Draft" ELSE log[i - 1].to_state
    /\ s = IF log = <<>> THEN "Draft" ELSE log[Len(log)].to_state

DecisionCopy(c, s, vs, n, log) ==
    [kind |-> "decision", class |-> c, state |-> s, authority_chain |-> 0,
     votes |-> vs, evidence_bundle |-> n, receipt_chain |-> log]

GoodDecision(x) ==
    \E c \in DecisionClass, s \in Core!BctsState, vs \in SUBSET Vote, n \in Nat : \E log :
       /\ x = DecisionCopy(c, s, vs, n, log)
       /\ IsFiniteSet(vs) /\ VotersDiffer(vs) /\ WalkTo(log, s)

GoodChallenge(x) ==
    x \in [kind : {"challenge"}, decision_id : Decisions,
           status : {"Filed", "UnderReview", "Withdrawn"}]

GoodSanction(x) ==
    /\ x \in [kind : {"sanction"}, action_type : SanctionType,
              status : {"Proposed", "DueProcess", "Enacted", "Reversed"},
              proposed_at : Nat, enacted_at : SUBSET Nat]
    /\ x.enacted_at # {} <=> x.status \in {"Enacted", "Reversed"}
    /\ x.action_type = "Suspension" =>
          \A t \in x.enacted_at : t <= x.proposed_at + SUSPENSION_LIMIT

GoodEmergency(x) ==
    /\ x \in [kind : {"emergency"}, actor_did : Dids,
              ratification_status : {"Required", "Ratified", "Expired"},
              ratification_deadline : Nat, ratification_decision_id : BOOLEAN]
    /\ x.ratification_decision_id <=> x.ratification_status = "Ratified"

GoodCorpus(x) ==
    \E c \in Corpus : x = CorpusCopy(c) /\ CorpusBinding(c)

GoodCopy(x) ==
    GoodDecision(x) \/ GoodChallenge(x) \/ GoodSanction(x) \/ GoodEmergency(x) \/ GoodCorpus(x)

(* The bounds on a copy of a decision. *)
CopyBounded(x) ==
    x.kind = "decision" =>
       x.evidence_bundle <= MaxItems /\ Len(x.receipt_chain) <= MaxReceipts

(* The inductive invariant. *)
HostInv ==
    /\ IsFiniteSet(held)
    /\ \A x \in held : GoodCopy(x) /\ CopyBounded(x)

(* The kind of a copy says what it is. *)
LEMMA KindTells ==
    ASSUME NEW x, GoodCopy(x)
    PROVE  /\ x.kind = "decision" => GoodDecision(x)
           /\ x.kind = "challenge" => GoodChallenge(x)
           /\ x.kind = "sanction" => GoodSanction(x)
           /\ x.kind = "emergency" => GoodEmergency(x)
           /\ x.kind = "corpus" => GoodCorpus(x)
<1>1. GoodDecision(x) => x.kind = "decision"
  BY DEF GoodDecision, DecisionCopy
<1>2. GoodChallenge(x) => x.kind = "challenge"
  BY DEF GoodChallenge
<1>3. GoodSanction(x) => x.kind = "sanction"
  BY DEF GoodSanction
<1>4. GoodEmergency(x) => x.kind = "emergency"
  BY DEF GoodEmergency
<1>5. GoodCorpus(x) => x.kind = "corpus"
  BY DEF GoodCorpus, CorpusCopy
<1> QED BY <1>1, <1>2, <1>3, <1>4, <1>5 DEF GoodCopy

(* What a host takes or creates is added to good copies. *)
LEMMA TakesKeeps ==
    ASSUME NEW x, NEW results, Takes(x, results), HostInv, \A r \in results : GoodCopy(r)
    PROVE  IsFiniteSet(held') /\ \A y \in held' : GoodCopy(y)
<1>1. PICK r \in results, dropped \in {{}, {x}} : held' = (held \ dropped) \cup {r}
  BY DEF Takes
<1>2. IsFiniteSet(held \ dropped)
  BY FS_Subset DEF HostInv
<1>3. IsFiniteSet(held')
  BY <1>1, <1>2, FS_AddElement
<1> QED BY <1>1, <1>3 DEF HostInv

(* ... and so is what it creates. *)
LEMMA CreatesKeeps ==
    ASSUME NEW x, Creates(x), HostInv, GoodCopy(x)
    PROVE  IsFiniteSet(held') /\ \A y \in held' : GoodCopy(y)
<1>1. held' = held \cup {x}
  BY DEF Creates
<1>2. IsFiniteSet(held')
  BY <1>1, FS_AddElement DEF HostInv
<1> QED BY <1>1, <1>2 DEF HostInv

-----------------------------------------------------------------------------
(* A receipt appended extends the walk. *)
LEMMA WalkExtends ==
    ASSUME NEW log, NEW s, NEW to, NEW actor, NEW time, WalkTo(log, s)
    PROVE  LET e == [from_state |-> s, to_state |-> to, timestamp |-> time,
                     receipt_hash |-> Core!Receipt(s, to, time, actor,
                         IF log = <<>> THEN Core!ZERO ELSE log[Len(log)].receipt_hash),
                     actor_did |-> actor]
           IN  /\ WalkTo(Append(log, e), to)
               /\ Len(Append(log, e)) = Len(log) + 1
               /\ Len(log) \in Nat
<1> DEFINE h == Core!Receipt(s, to, time, actor,
                         IF log = <<>> THEN Core!ZERO ELSE log[Len(log)].receipt_hash)
           e == [from_state |-> s, to_state |-> to, timestamp |-> time,
                 receipt_hash |-> h, actor_did |-> actor]
           new_log == Append(log, e)
           n == Len(log)
<1>1. PICK S : log \in Seq(S)
  BY DEF WalkTo, IsSequence
<1>2. log \in Seq(S \cup {e}) /\ e \in S \cup {e}
  BY <1>1
<1>3. /\ e.from_state = s /\ e.to_state = to /\ e.timestamp = time
      /\ e.receipt_hash = h /\ e.actor_did = actor
  OBVIOUS
<1> HIDE DEF e
<1>4. /\ n \in Nat /\ Len(new_log) = n + 1 /\ new_log \in Seq(S \cup {e})
      /\ new_log[n + 1] = e
      /\ \A i \in 1..n : new_log[i] = log[i]
      /\ log = <<>> <=> n = 0
  BY <1>2
<1> HIDE DEF new_log, n
<1>5. IsSequence(new_log)
  BY <1>4 DEF IsSequence
<1>6. new_log # <<>>
  BY <1>4
<1>7. to = IF new_log = <<>> THEN "Draft" ELSE new_log[Len(new_log)].to_state
  BY <1>3, <1>4, <1>6
<1>8. ASSUME NEW i \in 1..Len(new_log)
      PROVE  /\ new_log[i].receipt_hash =
                   Core!Receipt(new_log[i].from_state, new_log[i].to_state, new_log[i].timestamp,
                             new_log[i].actor_did,
                             IF i = 1 THEN Core!ZERO ELSE new_log[i - 1].receipt_hash)
             /\ new_log[i].from_state = IF i = 1 THEN "Draft" ELSE new_log[i - 1].to_state
  <2>1. CASE i \in 1..n
    <3>1. new_log[i] = log[i] /\ (i # 1 => new_log[i - 1] = log[i - 1])
      BY <2>1, <1>4
    <3>2. /\ log[i].receipt_hash =
                Core!Receipt(log[i].from_state, log[i].to_state, log[i].timestamp,
                             log[i].actor_did,
                             IF i = 1 THEN Core!ZERO ELSE log[i - 1].receipt_hash)
          /\ log[i].from_state = IF i = 1 THEN "Draft" ELSE log[i - 1].to_state
      BY <2>1 DEF WalkTo, n
    <3>3. CASE i = 1
      BY <3>1, <3>2, <3>3
    <3>4. CASE i # 1
      BY <3>1, <3>2, <3>4
    <3> QED BY <3>3, <3>4
  <2>2. CASE i = n + 1
    <3>1. new_log[i] = e
      BY <2>2, <1>4
    <3>2. s = IF log = <<>> THEN "Draft" ELSE log[n].to_state
      BY DEF WalkTo, n
    <3>3. CASE i = 1
      <4>1. log = <<>>
        BY <3>3, <2>2, <1>4
      <4> QED BY <3>1, <3>2, <3>3, <4>1, <1>3
    <3>4. CASE i # 1
      <4>1. log # <<>> /\ i - 1 = n /\ n \in 1..n
        BY <3>4, <2>2, <1>4
      <4>2. new_log[i - 1] = log[n]
        BY <4>1, <1>4
      <4>3. h = Core!Receipt(s, to, time, actor, log[n].receipt_hash)
        BY <4>1 DEF n
      <4> QED BY <3>1, <3>2, <3>4, <4>1, <4>2, <4>3, <1>3
    <3> QED BY <3>3, <3>4
  <2> QED BY <2>1, <2>2, <1>4
<1>9. WalkTo(new_log, to)
  BY <1>5, <1>7, <1>8 DEF WalkTo
<1> QED BY <1>4, <1>9 DEF e, new_log, n

-----------------------------------------------------------------------------
(* decision_forum_bindings.rs: what a call about a decision returns is good. *)
LEMMA NewDecisionGood ==
    ASSUME NEW c \in DecisionClass PROVE GoodCopy(wasm_create_decision(c))
<1> DEFINE none == <<>>
           nobody == {}
<1>1. WalkTo(none, "Draft")
  <2>1. none \in Seq({})
    OBVIOUS
  <2> QED BY <2>1 DEF WalkTo, IsSequence
<1>2. nobody \in SUBSET Vote /\ IsFiniteSet(nobody) /\ VotersDiffer(nobody)
  BY FS_EmptySet DEF VotersDiffer
<1>3. wasm_create_decision(c) = DecisionCopy(c, "Draft", nobody, 0, none)
  BY DEF wasm_create_decision, DecisionCopy
<1>4. "Draft" \in Core!BctsState
  BY DEF Core!BctsState
<1> HIDE DEF none, nobody
<1>5. GoodDecision(wasm_create_decision(c))
  BY <1>1, <1>2, <1>3, <1>4 DEF GoodDecision
<1> QED BY <1>5 DEF GoodCopy

(* A transition returns a copy with the receipt for it. *)
LEMMA TransitionGood ==
    ASSUME NEW d, GoodDecision(d), NEW to \in Core!BctsState, NEW actor, NEW time,
           NEW r \in wasm_transition_decision(d, to, actor, time)
    PROVE  GoodCopy(r)
<1>1. PICK c \in DecisionClass, s \in Core!BctsState, vs \in SUBSET Vote, n \in Nat : \E log :
         /\ d = DecisionCopy(c, s, vs, n, log)
         /\ IsFiniteSet(vs) /\ VotersDiffer(vs) /\ WalkTo(log, s)
  BY DEF GoodDecision
<1>2. PICK log : /\ d = DecisionCopy(c, s, vs, n, log)
                 /\ IsFiniteSet(vs) /\ VotersDiffer(vs) /\ WalkTo(log, s)
  BY <1>1
<1> DEFINE e == [from_state |-> s, to_state |-> to, timestamp |-> time,
                 receipt_hash |-> Core!Receipt(s, to, time, actor,
                     IF log = <<>> THEN Core!ZERO ELSE log[Len(log)].receipt_hash),
                 actor_did |-> actor]
           longer == Append(log, e)
<1>3. WalkTo(longer, to)
  BY <1>2, WalkExtends
<1>4. d.state = s /\ d.receipt_chain = log
  BY <1>2 DEF DecisionCopy
<1>5. At(d)!compute_receipt_hash(d.state, to, time, actor) =
         Core!Receipt(s, to, time, actor,
                     IF log = <<>> THEN Core!ZERO ELSE log[Len(log)].receipt_hash)
  BY <1>4 DEF At!compute_receipt_hash, At!Core!Receipt, Core!Receipt, At!Core!ZERO, Core!ZERO
<1>6. r = [d EXCEPT !.state = to, !.receipt_chain = longer]
  BY <1>4, <1>5 DEF wasm_transition_decision, Return
<1> HIDE DEF longer
<1>7. r = DecisionCopy(c, to, vs, n, longer)
  BY <1>2, <1>6 DEF DecisionCopy
<1>8. GoodDecision(r)
  BY <1>2, <1>3, <1>7 DEF GoodDecision
<1> QED BY <1>8 DEF GoodCopy

(* A vote is added once per voter. *)
LEMMA VoteGood ==
    ASSUME NEW d, GoodDecision(d), NEW vote \in Vote, NEW r \in wasm_add_vote(d, vote)
    PROVE  GoodCopy(r)
<1>1. PICK c \in DecisionClass, s \in Core!BctsState, vs \in SUBSET Vote, n \in Nat : \E log :
         /\ d = DecisionCopy(c, s, vs, n, log)
         /\ IsFiniteSet(vs) /\ VotersDiffer(vs) /\ WalkTo(log, s)
  BY DEF GoodDecision
<1>2. PICK log : /\ d = DecisionCopy(c, s, vs, n, log)
                 /\ IsFiniteSet(vs) /\ VotersDiffer(vs) /\ WalkTo(log, s)
  BY <1>1
<1> DEFINE more == vs \cup {vote}
<1>3. d.votes = vs
  BY <1>2 DEF DecisionCopy
<1>4. (\A v \in vs : v.voter_did # vote.voter_did) /\ r = [d EXCEPT !.votes = more]
  BY <1>3 DEF wasm_add_vote, Return
<1>5. more \in SUBSET Vote /\ IsFiniteSet(more) /\ VotersDiffer(more)
  <2>1. IsFiniteSet(more)
    BY <1>2, FS_AddElement
  <2>2. VotersDiffer(more)
    BY <1>2, <1>4 DEF VotersDiffer
  <2> QED BY <2>1, <2>2
<1> HIDE DEF more
<1>6. r = DecisionCopy(c, s, more, n, log)
  BY <1>2, <1>4 DEF DecisionCopy
<1>7. GoodDecision(r)
  BY <1>2, <1>5, <1>6 DEF GoodDecision
<1> QED BY <1>7 DEF GoodCopy

(* Evidence is counted. *)
LEMMA EvidenceGood ==
    ASSUME NEW d, GoodDecision(d), NEW r \in wasm_add_evidence(d)
    PROVE  GoodCopy(r)
<1>1. PICK c \in DecisionClass, s \in Core!BctsState, vs \in SUBSET Vote, n \in Nat : \E log :
         /\ d = DecisionCopy(c, s, vs, n, log)
         /\ IsFiniteSet(vs) /\ VotersDiffer(vs) /\ WalkTo(log, s)
  BY DEF GoodDecision
<1>2. PICK log : /\ d = DecisionCopy(c, s, vs, n, log)
                 /\ IsFiniteSet(vs) /\ VotersDiffer(vs) /\ WalkTo(log, s)
  BY <1>1
<1>3. r = DecisionCopy(c, s, vs, n + 1, log)
  BY <1>2 DEF DecisionCopy, wasm_add_evidence, Return
<1>4. GoodDecision(r)
  BY <1>2, <1>3 DEF GoodDecision
<1> QED BY <1>4 DEF GoodCopy

(* ... about a challenge, ... *)
LEMMA ChallengeGood ==
    /\ \A id \in Decisions : GoodCopy(wasm_file_challenge(id))
    /\ \A c : GoodChallenge(c) =>
          \A r \in wasm_begin_review(c) \cup wasm_withdraw_challenge(c) : GoodCopy(r)
<1>1. ASSUME NEW id \in Decisions PROVE GoodChallenge(wasm_file_challenge(id))
  BY DEF GoodChallenge, wasm_file_challenge
<1>2. ASSUME NEW c, GoodChallenge(c), NEW r \in wasm_begin_review(c) \cup wasm_withdraw_challenge(c)
      PROVE  GoodChallenge(r)
  BY <1>2 DEF GoodChallenge, wasm_begin_review, wasm_withdraw_challenge, Return
<1> QED BY <1>1, <1>2 DEF GoodCopy

(* ... about a sanction, ... *)
LEMMA SanctionGood ==
    /\ \A type \in SanctionType, t \in Stamps : GoodCopy(wasm_propose_accountability(type, t))
    /\ \A a : GoodSanction(a) => \A t \in Stamps :
          \A r \in wasm_begin_due_process(a) \cup wasm_enact_accountability(a, t)
                     \cup wasm_reverse_accountability(a) : GoodCopy(r)
<1>0. Stamps \subseteq Nat /\ SUSPENSION_LIMIT \in Nat
  BY PowersAssumption
<1>1. ASSUME NEW type \in SanctionType, NEW t \in Stamps
      PROVE  GoodSanction(wasm_propose_accountability(type, t))
  BY <1>0 DEF GoodSanction, wasm_propose_accountability
<1>2. ASSUME NEW a, GoodSanction(a), NEW r \in wasm_begin_due_process(a)
      PROVE  GoodSanction(r)
  BY <1>2 DEF GoodSanction, wasm_begin_due_process, Return
<1>3. ASSUME NEW a, GoodSanction(a), NEW t \in Stamps, NEW r \in wasm_enact_accountability(a, t)
      PROVE  GoodSanction(r)
  <2>1. a \in [kind : {"sanction"}, action_type : SanctionType,
              status : {"Proposed", "DueProcess", "Enacted", "Reversed"},
              proposed_at : Nat, enacted_at : SUBSET Nat]
    BY <1>3 DEF GoodSanction
  <2>2. r = [a EXCEPT !.status = "Enacted", !.enacted_at = {t}] /\ EnactInTime(a, t)
    BY <1>3 DEF wasm_enact_accountability, Return
  <2>3. t \in Nat /\ a.proposed_at \in Nat
    BY <1>0, <2>1
  <2>4. a.action_type = "Suspension" => t <= a.proposed_at + SUSPENSION_LIMIT
    BY <1>0, <2>2, <2>3 DEF EnactInTime, Monus
  <2>5. /\ r.action_type = a.action_type /\ r.proposed_at = a.proposed_at
        /\ r.enacted_at = {t} /\ r.status = "Enacted"
    BY <2>1, <2>2
  <2>6. r \in [kind : {"sanction"}, action_type : SanctionType,
              status : {"Proposed", "DueProcess", "Enacted", "Reversed"},
              proposed_at : Nat, enacted_at : SUBSET Nat]
    BY <2>1, <2>2, <2>3
  <2> QED BY <2>4, <2>5, <2>6 DEF GoodSanction
<1>4. ASSUME NEW a, GoodSanction(a), NEW r \in wasm_reverse_accountability(a)
      PROVE  GoodSanction(r)
  BY <1>4 DEF GoodSanction, wasm_reverse_accountability, Return
<1> QED BY <1>1, <1>2, <1>3, <1>4 DEF GoodCopy

(* ... about an emergency action, ... *)
LEMMA EmergencyGood ==
    /\ \A actor \in Dids, t \in Stamps : GoodCopy(wasm_create_emergency_action(actor, t))
    /\ \A e : GoodEmergency(e) => \A t \in Stamps :
          \A r \in wasm_ratify_emergency(e, t) \cup wasm_check_expiry(e, t) : GoodCopy(r)
<1>1. ASSUME NEW actor \in Dids, NEW t \in Stamps
      PROVE  GoodEmergency(wasm_create_emergency_action(actor, t))
  BY PowersAssumption DEF GoodEmergency, wasm_create_emergency_action
<1>2. ASSUME NEW e, GoodEmergency(e), NEW t \in Stamps, NEW r \in wasm_ratify_emergency(e, t)
      PROVE  GoodEmergency(r)
  BY <1>2 DEF GoodEmergency, wasm_ratify_emergency, Return
<1>3. ASSUME NEW e, GoodEmergency(e), NEW t \in Stamps, NEW r \in wasm_check_expiry(e, t)
      PROVE  GoodEmergency(r)
  BY <1>3 DEF GoodEmergency, wasm_check_expiry
<1> QED BY <1>1, <1>2, <1>3 DEF GoodCopy

(* ... and about a constitution. *)
LEMMA NewCorpusGood ==
    ASSUME NEW article \in Article PROVE GoodCopy(CorpusCopy(new_corpus(<<article>>)))
<1> DEFINE s == <<article>>
<1>1. s \in Seq(Article)
  OBVIOUS
<1>2. compute_corpus_hash(s) \in UNION {[1..n -> Texts \X ArticleIds] : n \in Nat}
  BY <1>1, HashType
<1> HIDE DEF s
<1>3. new_corpus(s) \in Corpus /\ CorpusBinding(new_corpus(s))
  <2> DEFINE Hash == UNION {[1..n -> Texts \X ArticleIds] : n \in Nat}
             h == compute_corpus_hash(s)
  <2>1. h \in Hash
    BY <1>2
  <2>2. new_corpus(s) = [articles |-> s, version |-> 1, ratified |-> FALSE,
                         hash |-> h, amendment_count |-> 0]
    BY DEF new_corpus
  <2>3. CorpusBinding(new_corpus(s))
    BY <2>2 DEF CorpusBinding
  <2> HIDE DEF Hash, h
  <2>4. new_corpus(s) \in [articles : Seq(Article), version : Nat, ratified : BOOLEAN,
                           hash : Hash, amendment_count : Nat]
    BY <1>1, <2>1, <2>2
  <2> QED BY <2>3, <2>4 DEF Corpus, Hash
<1>4. GoodCorpus(CorpusCopy(new_corpus(s)))
  BY <1>3 DEF GoodCorpus
<1> QED BY <1>4 DEF GoodCopy, s

(* Ratifying and amending keep a copy bound to its hash. *)
LEMMA CorpusGood ==
    ASSUME NEW x, GoodCorpus(x), NEW signatures \in 0..REQUIRED_SIGNATURES
    PROVE  /\ \A r \in wasm_ratify_constitution(x, signatures) : GoodCopy(r)
           /\ \A article \in Article :
                 \A r \in wasm_amend_constitution(x, article, signatures) : GoodCopy(r)
<1>1. PICK c \in Corpus : x = CorpusCopy(c) /\ CorpusBinding(c)
  BY DEF GoodCorpus
<1> DEFINE Hash == UNION {[1..n -> Texts \X ArticleIds] : n \in Nat}
<1>2. c \in [articles : Seq(Article), version : Nat, ratified : BOOLEAN,
             hash : Hash, amendment_count : Nat]
  BY DEF Corpus
<1>3. ASSUME NEW r \in wasm_ratify_constitution(x, signatures) PROVE GoodCorpus(r)
  <2> DEFINE b == [c EXCEPT !.ratified = TRUE]
  <2> HIDE DEF Hash
  <2>1. r = [x EXCEPT !.ratified = TRUE]
    BY DEF wasm_ratify_constitution, Return
  <2>2. /\ b \in [articles : Seq(Article), version : Nat, ratified : BOOLEAN,
                  hash : Hash, amendment_count : Nat]
        /\ b.articles = c.articles /\ b.version = c.version /\ b.hash = c.hash
        /\ b.amendment_count = c.amendment_count /\ b.ratified = TRUE
    BY <1>2
  <2> HIDE DEF b
  <2>3. r = CorpusCopy(b)
    BY <1>1, <2>1, <2>2 DEF CorpusCopy
  <2>4. CorpusBinding(b)
    BY <1>1, <2>2 DEF CorpusBinding
  <2> QED BY <2>2, <2>3, <2>4 DEF GoodCorpus, Corpus, Hash
<1>4. ASSUME NEW article \in Article, NEW r \in wasm_amend_constitution(x, article, signatures)
      PROVE  GoodCorpus(r)
  <2> DEFINE s == Append(c.articles, article)
             h == compute_corpus_hash(s)
             b == [articles |-> s, version |-> c.version + 1, ratified |-> c.ratified,
                   hash |-> h, amendment_count |-> c.amendment_count + 1]
  <2>1. /\ x.articles = c.articles /\ x.version = c.version
        /\ x.amendment_count = c.amendment_count /\ x.ratified = c.ratified
    BY <1>1 DEF CorpusCopy
  <2>2. r = [x EXCEPT !.articles = s, !.version = @ + 1, !.hash = h, !.amendment_count = @ + 1]
        /\ c.ratified
    BY <2>1 DEF wasm_amend_constitution, Return
  <2>3. c.articles \in Seq(Article)
    BY <1>2
  <2>4. s \in Seq(Article)
    BY <2>3
  <2>5. h \in Hash /\ h = compute_corpus_hash(s)
    BY <2>4, HashType
  <2> HIDE DEF s, h, Hash
  <2>6. b \in [articles : Seq(Article), version : Nat, ratified : BOOLEAN,
               hash : Hash, amendment_count : Nat]
    BY <1>2, <2>4, <2>5
  <2>7. CorpusBinding(b)
    BY <1>1, <1>2, <2>2, <2>5 DEF CorpusBinding
  <2>8. r = CorpusCopy(b)
    BY <1>1, <2>2 DEF CorpusCopy
  <2> HIDE DEF b
  <2> QED BY <2>6, <2>7, <2>8 DEF GoodCorpus, Corpus, Hash
<1> QED BY <1>3, <1>4 DEF GoodCopy

-----------------------------------------------------------------------------
(* A host starts with nothing, or with a constitution. *)
LEMMA HostInitInv == HostInit => HostInv
<1> SUFFICES ASSUME HostInit PROVE HostInv
  OBVIOUS
<1>1. CASE held = {}
  BY <1>1, FS_EmptySet DEF HostInv
<1>2. ASSUME NEW article \in Article, held = {CorpusCopy(new_corpus(<<article>>))}
      PROVE  HostInv
  <2> DEFINE x == CorpusCopy(new_corpus(<<article>>))
  <2>1. GoodCopy(x)
    BY NewCorpusGood
  <2>2. x.kind = "corpus"
    BY DEF CorpusCopy
  <2> HIDE DEF x
  <2>3. IsFiniteSet({x})
    BY FS_Singleton
  <2>4. held = {x}
    BY <1>2 DEF x
  <2> QED BY <2>1, <2>2, <2>3, <2>4 DEF HostInv, CopyBounded
<1> QED BY <1>1, <1>2 DEF HostInit

(* However a host forks, drops and passes in its copies, they stay good. *)
LEMMA HostStepInv == HostInv /\ [HostNext]_held => HostInv'
<1> SUFFICES ASSUME HostInv, [HostNext]_held PROVE HostInv'
  OBVIOUS
<1> DEFINE Kept == IsFiniteSet(held') /\ \A y \in held' : GoodCopy(y)
<1>0. ASSUME NEW kind, NEW x \in Copies(kind) PROVE x \in held /\ GoodCopy(x) /\ x.kind = kind
  BY <1>0 DEF Copies, HostInv
<1>1. CASE UNCHANGED held
  BY <1>1 DEF HostInv
<1>2. ASSUME DecisionCalls PROVE Kept
  <2>1. ASSUME NEW c \in DecisionClass, Creates(wasm_create_decision(c)) PROVE Kept
    BY <2>1, NewDecisionGood, CreatesKeeps
  <2>2. ASSUME NEW d \in Copies("decision"), NEW to \in Core!BctsState, NEW actor \in Actors,
               NEW time \in Times, Takes(d, wasm_transition_decision(d, to, actor, time))
        PROVE  Kept
    <3>1. GoodDecision(d)
      BY <1>0, KindTells
    <3> QED BY <2>2, <3>1, TransitionGood, TakesKeeps
  <2>3. ASSUME NEW d \in Copies("decision"), NEW vote \in Vote, Takes(d, wasm_add_vote(d, vote))
        PROVE  Kept
    <3>1. GoodDecision(d)
      BY <1>0, KindTells
    <3> QED BY <2>3, <3>1, VoteGood, TakesKeeps
  <2>4. ASSUME NEW d \in Copies("decision"), Takes(d, wasm_add_evidence(d)) PROVE Kept
    <3>1. GoodDecision(d)
      BY <1>0, KindTells
    <3> QED BY <2>4, <3>1, EvidenceGood, TakesKeeps
  <2> HIDE DEF Kept
  <2> QED BY <1>2, <2>1, <2>2, <2>3, <2>4 DEF DecisionCalls
<1>3. ASSUME ChallengeCalls PROVE Kept
  <2>1. ASSUME NEW id \in Decisions, Creates(wasm_file_challenge(id)) PROVE Kept
    BY <2>1, ChallengeGood, CreatesKeeps
  <2>2. ASSUME NEW c \in Copies("challenge"),
               Takes(c, wasm_begin_review(c)) \/ Takes(c, wasm_withdraw_challenge(c))
        PROVE  Kept
    <3>1. GoodChallenge(c)
      BY <1>0, KindTells
    <3>2. \A r \in wasm_begin_review(c) : GoodCopy(r)
      BY <3>1, ChallengeGood
    <3>3. \A r \in wasm_withdraw_challenge(c) : GoodCopy(r)
      BY <3>1, ChallengeGood
    <3> QED BY <2>2, <3>2, <3>3, TakesKeeps
  <2> HIDE DEF Kept
  <2> QED BY <1>3, <2>1, <2>2 DEF ChallengeCalls
<1>4. ASSUME SanctionCalls PROVE Kept
  <2>1. ASSUME NEW type \in SanctionType, NEW t \in Stamps,
               Creates(wasm_propose_accountability(type, t))
        PROVE  Kept
    BY <2>1, SanctionGood, CreatesKeeps
  <2>2. ASSUME NEW a \in Copies("sanction"), Takes(a, wasm_begin_due_process(a)) PROVE Kept
    <3>1. GoodSanction(a)
      BY <1>0, KindTells
    <3>2. \A r \in wasm_begin_due_process(a) : GoodSanction(r)
      BY <3>1 DEF GoodSanction, wasm_begin_due_process, Return
    <3> QED BY <2>2, <3>2, TakesKeeps DEF GoodCopy
  <2>3. ASSUME NEW a \in Copies("sanction"), NEW t \in Stamps,
               Takes(a, wasm_enact_accountability(a, t))
        PROVE  Kept
    <3>1. GoodSanction(a)
      BY <1>0, KindTells
    <3>2. \A r \in wasm_enact_accountability(a, t) : GoodCopy(r)
      BY <3>1, SanctionGood
    <3> QED BY <2>3, <3>2, TakesKeeps
  <2>4. ASSUME NEW a \in Copies("sanction"), Takes(a, wasm_reverse_accountability(a)) PROVE Kept
    <3>1. GoodSanction(a)
      BY <1>0, KindTells
    <3>2. \A r \in wasm_reverse_accountability(a) : GoodSanction(r)
      BY <3>1 DEF GoodSanction, wasm_reverse_accountability, Return
    <3> QED BY <2>4, <3>2, TakesKeeps DEF GoodCopy
  <2> HIDE DEF Kept
  <2> QED BY <1>4, <2>1, <2>2, <2>3, <2>4 DEF SanctionCalls
<1>5. ASSUME EmergencyCalls PROVE Kept
  <2>1. ASSUME NEW actor \in Dids, NEW t \in Stamps,
               Creates(wasm_create_emergency_action(actor, t))
        PROVE  Kept
    BY <2>1, EmergencyGood, CreatesKeeps
  <2>2. ASSUME NEW e \in Copies("emergency"), NEW t \in Stamps,
               Takes(e, wasm_ratify_emergency(e, t)) \/ Takes(e, wasm_check_expiry(e, t))
        PROVE  Kept
    <3>1. GoodEmergency(e)
      BY <1>0, KindTells
    <3>2. \A r \in wasm_ratify_emergency(e, t) : GoodCopy(r)
      BY <3>1, EmergencyGood
    <3>3. \A r \in wasm_check_expiry(e, t) : GoodCopy(r)
      BY <3>1, EmergencyGood
    <3> QED BY <2>2, <3>2, <3>3, TakesKeeps
  <2> HIDE DEF Kept
  <2> QED BY <1>5, <2>1, <2>2 DEF EmergencyCalls
<1>6. ASSUME CorpusCalls PROVE Kept
  <2>1. ASSUME NEW c \in Copies("corpus"), NEW signatures \in 0..REQUIRED_SIGNATURES,
               Takes(c, wasm_ratify_constitution(c, signatures))
        PROVE  Kept
    <3>1. GoodCorpus(c)
      BY <1>0, KindTells
    <3> QED BY <2>1, <3>1, CorpusGood, TakesKeeps
  <2>2. ASSUME NEW c \in Copies("corpus"), NEW signatures \in 0..REQUIRED_SIGNATURES,
               NEW article \in Article,
               Takes(c, wasm_amend_constitution(c, article, signatures))
        PROVE  Kept
    <3>1. GoodCorpus(c)
      BY <1>0, KindTells
    <3> QED BY <2>2, <3>1, CorpusGood, TakesKeeps
  <2> HIDE DEF Kept
  <2> QED BY <1>6, <2>1, <2>2 DEF CorpusCalls
<1>7. ASSUME HostNext PROVE HostInv'
  <2>1. Kept
    BY <1>7, <1>2, <1>3, <1>4, <1>5, <1>6 DEF HostNext
  <2>2. ASSUME NEW x \in held', x.kind = "decision"
        PROVE  x.evidence_bundle <= MaxItems /\ Len(x.receipt_chain) <= MaxReceipts
    <3>1. /\ x.evidence_bundle <= MaxItems
          /\ Len(x.receipt_chain) <= IF held' = {x} THEN MaxReceipts ELSE MaxForked
      BY <1>7, <2>2 DEF HostNext
    <3>2. Len(x.receipt_chain) \in Nat
      <4>1. GoodDecision(x)
        BY <2>1, <2>2, KindTells
      <4>2. IsSequence(x.receipt_chain)
        BY <4>1 DEF GoodDecision, DecisionCopy, WalkTo
      <4> QED BY <4>2 DEF IsSequence
    <3> QED BY <3>1, <3>2, BindingsAssumption, ForumAssumption
  <2> QED BY <2>1, <2>2 DEF HostInv, CopyBounded
<1> QED BY <1>1, <1>7

-----------------------------------------------------------------------------
(* What the library says of a copy is what it says of its fields. *)
LEMMA SameTally ==
    ASSUME NEW d, NEW c, NEW vs
    PROVE  /\ At(d)!with_defaults = with_defaults
           /\ At(d)!Approvals(vs) = Approvals(vs)
           /\ At(d)!check_quorum(At(d)!with_defaults, c, vs) = check_quorum(with_defaults, c, vs)
<1>1. At(d)!with_defaults = with_defaults
  BY DEF At!with_defaults, with_defaults, At!DecisionClass, DecisionClass
<1>2. At(d)!Approvals(vs) = Approvals(vs)
  BY DEF At!Approvals, Approvals
<1>3. At(d)!HumanVotes(vs) = HumanVotes(vs)
  BY DEF At!HumanVotes, HumanVotes, At!is_human_vote, is_human_vote
<1>4. ASSUME NEW req, NEW n, NEW a, NEW h PROVE At(d)!Meets(req, n, a, h) = Meets(req, n, a, h)
  BY DEF At!Meets, Meets, At!approve_pct, approve_pct
<1>5. ASSUME NEW S PROVE At(d)!Cardinality(S) = Cardinality(S)
  BY DEF At!Cardinality, Cardinality
<1> QED BY <1>1, <1>2, <1>3, <1>4, <1>5 DEF At!check_quorum, check_quorum

(* As many voters as votes. *)
LEMMA OneVoteEach ==
    ASSUME NEW vs, IsFiniteSet(vs), VotersDiffer(vs)
    PROVE  Cardinality({v.voter_did : v \in vs}) = Cardinality(vs)
<1> DEFINE T == {v.voter_did : v \in vs}
           f == [v \in vs |-> v.voter_did]
<1>1. f \in Bijection(vs, T)
  <2>1. f \in [vs -> T]
    OBVIOUS
  <2>2. \A v, w \in vs : f[v] = f[w] => v = w
    BY DEF VotersDiffer
  <2>3. \A t \in T : \E v \in vs : f[v] = t
    OBVIOUS
  <2> QED BY <2>1, <2>2, <2>3 DEF Bijection, Injection, Surjection, IsInjective
<1>2. ExistsBijection(vs, T)
  BY <1>1 DEF ExistsBijection
<1> QED BY <1>2, FS_Bijection

(* The fields of a good copy. *)
LEMMA DecisionFields ==
    ASSUME NEW d, GoodDecision(d)
    PROVE  /\ d.class \in DecisionClass /\ d.state \in Core!BctsState
           /\ d.authority_chain = 0 /\ d.evidence_bundle \in Nat
           /\ d.votes \in SUBSET Vote /\ IsFiniteSet(d.votes) /\ VotersDiffer(d.votes)
           /\ WalkTo(d.receipt_chain, d.state)
  BY DEF GoodDecision, DecisionCopy

(* A met quorum of a copy rests on enough voters and their exact share. *)
LEMMA QuorumsOfCopies ==
    ASSUME NEW d, GoodDecision(d) PROVE At(d)!QuorumSound
<1>1. d.class \in DecisionClass /\ IsFiniteSet(d.votes) /\ VotersDiffer(d.votes)
  BY DecisionFields
<1>2. ASSUME NEW S PROVE At(d)!Cardinality(S) = Cardinality(S)
  BY DEF At!Cardinality, Cardinality
<1>3. ASSUME check_quorum(with_defaults, d.class, d.votes) = "Met"
      PROVE  /\ Cardinality(d.votes) >= with_defaults[d.class].min_votes
             /\ Cardinality(Approvals(d.votes)) * 100 >=
                   with_defaults[d.class].min_approve_pct * Cardinality(d.votes)
  BY <1>1, <1>3, MetTally
<1>4. Cardinality({v.voter_did : v \in d.votes}) = Cardinality(d.votes)
  BY <1>1, OneVoteEach
<1>5. d.class \in DOMAIN with_defaults
  BY <1>1 DEF with_defaults
<1>6. At(d)!MetByDistinctVoters
  BY <1>2, <1>3, <1>4, <1>5, SameTally DEF At!MetByDistinctVoters, At!verify_quorum_precondition
<1>7. At(d)!MetIsSupermajority
  BY <1>2, <1>3, SameTally DEF At!MetIsSupermajority
<1> QED BY <1>6, <1>7 DEF At!QuorumSound

(* A copy has the fields of a decision within its bounds. *)
LEMMA TypesOfCopies ==
    ASSUME NEW d, GoodDecision(d), CopyBounded(d), d.kind = "decision" PROVE At(d)!TypeOK
<1>1. /\ d.class \in At(d)!DecisionClass /\ d.state \in At(d)!Core!BctsState
      /\ d.votes \in SUBSET At(d)!Vote
  BY DecisionFields DEF At!DecisionClass, DecisionClass, At!Core!BctsState, Core!BctsState,
     At!Vote, Vote, At!VoteChoice, VoteChoice, At!ActorKind, ActorKind
<1>2. /\ d.authority_chain \in 0..MaxItems /\ d.evidence_bundle \in 0..MaxItems
      /\ Len(d.receipt_chain) <= MaxReceipts
  BY DecisionFields, ForumAssumption DEF CopyBounded
<1>3. Len(<<>>) = 0 /\ 0 <= MaxChallenges
  BY ForumAssumption
<1> QED BY <1>1, <1>2, <1>3 DEF At!TypeOK

(* A copy is where its last receipt says. *)
LEMMA WorkflowOfCopies ==
    ASSUME NEW d, GoodDecision(d) PROVE At(d)!WorkflowFollowsLifeCycle
<1>1. WalkTo(d.receipt_chain, d.state) /\ d.state \in Core!BctsState
  BY DecisionFields
<1>2. At(d)!standard_governance = standard_governance /\ At(d)!Stages = Stages
  BY DEF At!standard_governance, standard_governance, At!Stages, Stages
<1>3. ASSUME NEW s, NEW t PROVE At(d)!Core!can_transition_to(s, t) <=> Core!can_transition_to(s, t)
  BY DEF At!Core!can_transition_to, Core!can_transition_to, At!Core!valid_transitions,
         Core!valid_transitions
<1>4. ASSUME NEW s \in At(d)!next_stage(d.state) PROVE At(d)!Core!can_transition_to(d.state, s)
  BY <1>2, <1>3, <1>4, StagesArePath DEF At!next_stage
<1>5. ASSUME At(d)!requires_receipt(d.state)
      PROVE  /\ d.receipt_chain # <<>>
             /\ d.receipt_chain[Len(d.receipt_chain)].to_state = d.state
  <2>1. d.state # "Draft"
    BY <1>2, <1>5 DEF At!requires_receipt, Stages, standard_governance
  <2> QED BY <1>1, <2>1 DEF WalkTo
<1> QED BY <1>4, <1>5 DEF At!WorkflowFollowsLifeCycle

(* The receipts of a copy verify. *)
LEMMA LogsOfCopies ==
    ASSUME NEW d, GoodDecision(d) PROVE At(d)!Core!LogVerifies
<1> DEFINE log == d.receipt_chain
           chain == [i \in 1..Len(log) |-> log[i].receipt_hash]
<1>1. WalkTo(log, d.state)
  BY DecisionFields
<1>2. ASSUME NEW i \in 1..Len(log) PROVE At(d)!Core!EntryVerifies(log, chain, i)
  <2>1. chain[i] = log[i].receipt_hash
    OBVIOUS
  <2> HIDE DEF chain
  <2> QED BY <1>1, <2>1 DEF WalkTo, At!Core!EntryVerifies, At!Core!Receipt, Core!Receipt,
                            At!Core!ZERO, Core!ZERO
<1>3. At(d)!Core!verify_receipt_chain(log, chain)
  BY <1>2 DEF At!Core!verify_receipt_chain
<1>4. /\ \A i \in 1..Len(log) : log[i].from_state = IF i = 1 THEN "Draft" ELSE log[i - 1].to_state
      /\ d.state = IF log = <<>> THEN "Draft" ELSE log[Len(log)].to_state
  BY <1>1 DEF WalkTo
<1> QED BY <1>3, <1>4 DEF At!Core!LogVerifies

(* wasm_workflow_stages lists every state. *)
LEMMA StatesAreStages ==
    \A s \in Core!BctsState : s \in {wasm_workflow_stages[i] : i \in DOMAIN wasm_workflow_stages}
<1> DEFINE ends == <<"Denied", "Escalated", "Remediated">>
           all == wasm_workflow_stages
<1>1. standard_governance \in Seq(Core!BctsState) /\ Len(standard_governance) = 11
  BY DEF standard_governance, Core!BctsState
<1>2. ends \in Seq(Core!BctsState) /\ Len(ends) = 3
  BY DEF Core!BctsState
<1>3. ASSUME NEW s1 \in Seq(Core!BctsState), NEW s2 \in Seq(Core!BctsState),
             Len(s1) = 11, Len(s2) = 3
      PROVE  /\ DOMAIN (s1 \o s2) = 1..14
             /\ \A i \in 1..11 : (s1 \o s2)[i] = s1[i]
             /\ \A i \in 1..3 : (s1 \o s2)[11 + i] = s2[i]
  <2> DEFINE u == s1 \o s2
  <2>1. /\ u \in Seq(Core!BctsState) /\ Len(u) = 11 + 3
        /\ \A i \in 1..(11 + 3) : u[i] = IF i <= 11 THEN s1[i] ELSE s2[i - 11]
    <3>1. /\ u \in Seq(Core!BctsState) /\ Len(u) = Len(s1) + Len(s2)
          /\ \A i \in 1..(Len(s1) + Len(s2)) :
                u[i] = IF i <= Len(s1) THEN s1[i] ELSE s2[i - Len(s1)]
      BY ConcatProperties, Zenon
    <3> HIDE DEF u
    <3> QED BY <3>1, <1>3
  <2> HIDE DEF u
  <2>2. DOMAIN u = 1..14
    BY <2>1
  <2>3. \A i \in 1..3 : 11 + i \in 1..(11 + 3) /\ ~(11 + i <= 11) /\ (11 + i) - 11 = i
    OBVIOUS
  <2>4. \A i \in 1..3 : u[11 + i] = s2[i]
    BY <2>1, <2>3
  <2>5. \A i \in 1..11 : u[i] = s1[i]
    <3>1. \A i \in 1..11 : i \in 1..(11 + 3) /\ i <= 11
      OBVIOUS
    <3> QED BY <2>1, <3>1
  <2> QED BY <2>2, <2>4, <2>5 DEF u
<1>4. /\ DOMAIN all = 1..14
      /\ \A i \in 1..11 : all[i] = standard_governance[i]
      /\ \A i \in 1..3 : all[11 + i] = ends[i]
  BY <1>1, <1>2, <1>3 DEF wasm_workflow_stages
<1> HIDE DEF all
<1>5. /\ all[1] = "Draft" /\ all[2] = "Submitted" /\ all[3] = "IdentityResolved"
      /\ all[4] = "ConsentValidated" /\ all[5] = "Deliberated" /\ all[6] = "Verified"
      /\ all[7] = "Governed" /\ all[8] = "Approved" /\ all[9] = "Executed"
      /\ all[10] = "Recorded" /\ all[11] = "Closed"
  BY <1>4 DEF standard_governance
<1>6. all[12] = "Denied" /\ all[13] = "Escalated" /\ all[14] = "Remediated"
  <2>1. all[11 + 1] = ends[1] /\ all[11 + 2] = ends[2] /\ all[11 + 3] = ends[3]
    BY <1>4
  <2> QED BY <2>1
<1>7. ASSUME NEW s \in Core!BctsState PROVE \E i \in 1..14 : s = all[i]
  BY <1>5, <1>6 DEF Core!BctsState
<1> QED BY <1>4, <1>7 DEF all

(* Together: every copy of a decision is one the library could have made. *)
LEMMA DecisionsFromInv == HostInv => DecisionCopiesSound
<1> SUFFICES ASSUME HostInv, NEW d \in Copies("decision")
             PROVE  /\ At(d)!TypeOK /\ At(d)!QuorumSound /\ At(d)!WorkflowFollowsLifeCycle
                    /\ At(d)!Core!LogVerifies
                    /\ d.state \in {wasm_workflow_stages[i] : i \in DOMAIN wasm_workflow_stages}
  BY DEF DecisionCopiesSound
<1>1. d.kind = "decision" /\ GoodDecision(d) /\ CopyBounded(d)
  BY KindTells DEF HostInv, Copies
<1>2. d.state \in Core!BctsState
  BY <1>1, DecisionFields
<1> QED BY <1>1, <1>2, TypesOfCopies, QuorumsOfCopies, WorkflowOfCopies, LogsOfCopies, StatesAreStages

-----------------------------------------------------------------------------
(* The controls of a copy, for any flags the host gives. *)
LEMMA ControlsOfCopies ==
    ASSUME NEW d, GoodDecision(d), NEW given \in SUBSET TncFlag
    PROVE  /\ wasm_enforce_all_tnc(d, given) <=> wasm_collect_tnc_violations(d, given) = {}
           /\ wasm_collect_tnc_violations(d, TncFlag) \subseteq wasm_collect_tnc_violations(d, given)
           /\ ~wasm_enforce_tnc(1, d, given)
           /\ wasm_decision_is_terminal(d) => ~wasm_enforce_tnc(8, d, given)
<1> DEFINE ctx == build_tnc_ctx(given)
           full == build_tnc_ctx(TncFlag)
           ok(n) == At(d)!enforce_tnc(n, ctx)
           best(n) == At(d)!enforce_tnc(n, full)
<1>1. d.class \in DecisionClass /\ d.votes \in SUBSET Vote /\ d.authority_chain = 0
  BY DecisionFields
<1>2. ~At(d)!enforce_tnc(1, ctx)
  BY <1>1 DEF At!enforce_tnc
<1>3. ~At(d)!enforce_all(ctx)
  BY <1>1 DEF At!enforce_all
<1>4. At(d)!collect_violations(ctx) # {}
  BY <1>2 DEF At!collect_violations
<1>5. is_terminal(d.state) => ~At(d)!enforce_tnc(8, ctx)
  BY DEF At!enforce_tnc, At!is_terminal, is_terminal
<1>6. \A f \in TncFlag : full[f] = TRUE
  BY DEF build_tnc_ctx
<1>7. At(d)!enforce_tnc_09(ctx) => At(d)!enforce_tnc_09(full)
  <2> SUFFICES ASSUME At(d)!enforce_tnc_09(ctx), NEW v \in d.votes, ~At(d)!is_human_vote(v)
               PROVE  At(d)!Rank(d.class) <= At(d)!Rank(v.actor_kind)
    BY <1>6 DEF At!enforce_tnc_09, TncFlag
  <2>1. v.actor_kind \in DecisionClass
    BY <1>1 DEF Vote, ActorKind, At!is_human_vote
  <2>2. /\ At(d)!Rank("Routine") = 1 /\ At(d)!Rank(v.actor_kind) \in 1..4
        /\ At(d)!Rank(d.class) \in 1..4
    BY <1>1, <2>1 DEF At!Rank, DecisionClass
  <2>3. At(d)!Rank(d.class) <= IF ctx["ai_ceilings_externally_verified"]
                               THEN At(d)!Rank(v.actor_kind) ELSE At(d)!Rank("Routine")
    BY DEF At!enforce_tnc_09
  <2> QED BY <2>2, <2>3
<1>8. ASSUME NEW n \in 1..10, At(d)!enforce_tnc(n, ctx) PROVE At(d)!enforce_tnc(n, full)
  <2>1. /\ full["authority_chain_verified"] /\ full["human_gate_satisfied"]
        /\ full["consent_verified"] /\ full["identity_verified"]
        /\ full["constitutional_hash_valid"] /\ full["quorum_met"] /\ full["evidence_complete"]
    BY <1>6 DEF TncFlag
  <2> HIDE DEF ctx, full
  <2>2. CASE n = 1
    BY <1>2, <1>8, <2>2
  <2>3. CASE n \in {2, 3, 4, 5, 6, 7, 10}
    <3>1. At(d)!enforce_tnc(2, full) /\ At(d)!enforce_tnc(3, full) /\ At(d)!enforce_tnc(4, full)
      BY <2>1 DEF At!enforce_tnc
    <3>2. At(d)!enforce_tnc(5, full) /\ At(d)!enforce_tnc(6, full) /\ At(d)!enforce_tnc(7, full)
      BY <2>1 DEF At!enforce_tnc
    <3>3. At(d)!enforce_tnc(10, full)
      BY <2>1 DEF At!enforce_tnc
    <3> QED BY <2>3, <3>1, <3>2, <3>3
  <2>4. CASE n = 8
    BY <1>8, <2>4 DEF At!enforce_tnc
  <2>5. CASE n = 9
    BY <1>7, <1>8, <2>5 DEF At!enforce_tnc
  <2> QED BY <2>2, <2>3, <2>4, <2>5
<1>9. At(d)!collect_violations(full) \subseteq At(d)!collect_violations(ctx)
  BY <1>8 DEF At!collect_violations
<1> QED BY <1>2, <1>3, <1>4, <1>5, <1>9
        DEF wasm_enforce_all_tnc, wasm_collect_tnc_violations, wasm_enforce_tnc,
            wasm_decision_is_terminal

(* So the controls fail closed for the copies the host holds. *)
LEMMA ControlsFromInv == HostInv => ControlsFailClosed
<1> SUFFICES ASSUME HostInv, NEW d \in Copies("decision"), NEW given \in Givens
             PROVE  /\ wasm_enforce_all_tnc(d, given) <=> wasm_collect_tnc_violations(d, given) = {}
                    /\ wasm_collect_tnc_violations(d, TncFlag)
                          \subseteq wasm_collect_tnc_violations(d, given)
                    /\ ~wasm_enforce_tnc(1, d, given)
                    /\ wasm_decision_is_terminal(d) => ~wasm_enforce_tnc(8, d, given)
  BY DEF ControlsFailClosed
<1>1. GoodDecision(d)
  BY KindTells DEF HostInv, Copies
<1>2. given \in SUBSET TncFlag
  BY DEF Givens
<1> QED BY <1>1, <1>2, ControlsOfCopies

(* The gate and the quorum of a copy. *)
LEMMA GatesFromInv == HostInv => GatesAgree
<1> SUFFICES ASSUME HostInv, NEW d \in Copies("decision")
             PROVE  /\ wasm_ai_within_ceiling(d.class) <=> ~wasm_requires_human_approval(d.class)
                    /\ "Met" \in wasm_check_quorum(with_defaults, d) => wasm_enforce_human_gate(d)
  BY DEF GatesAgree
<1>1. GoodDecision(d)
  BY KindTells DEF HostInv, Copies
<1>2. d.class \in DecisionClass /\ IsFiniteSet(d.votes)
  BY <1>1, DecisionFields
<1>3. wasm_ai_within_ceiling(d.class) <=> ~wasm_requires_human_approval(d.class)
  BY <1>2 DEF wasm_ai_within_ceiling, wasm_requires_human_approval, Rank, ai_ceiling,
              human_required_classes, DecisionClass
<1>4. ASSUME check_quorum(with_defaults, d.class, d.votes) = "Met"
      PROVE  enforce_human_gate(d.class, d.votes)
  <2>1. /\ Cardinality(HumanVotes(d.votes)) \in Nat
        /\ Cardinality(HumanVotes(d.votes)) >= with_defaults[d.class].min_human_votes
    BY <1>2, <1>4, MetTally
  <2>2. d.class \in {"Strategic", "Constitutional"} => HumanVotes(d.votes) # {}
    <3>1. d.class \in {"Strategic", "Constitutional"} =>
             with_defaults[d.class].min_human_votes \in {3, 5}
      BY DEF with_defaults, DecisionClass
    <3>2. HumanVotes(d.votes) = {} => Cardinality(HumanVotes(d.votes)) = 0
      BY FS_EmptySet
    <3> QED BY <2>1, <3>1, <3>2
  <2>3. d.class \notin {"Strategic", "Constitutional"} => ~(Rank(d.class) > Rank(ai_ceiling))
    BY <1>2 DEF DecisionClass, Rank, ai_ceiling
  <2> QED BY <2>2, <2>3 DEF enforce_human_gate, human_required_classes
<1>5. "Met" \in wasm_check_quorum(with_defaults, d) =>
         check_quorum(with_defaults, d.class, d.votes) = "Met"
  BY DEF wasm_check_quorum, Return
<1> QED BY <1>3, <1>4, <1>5 DEF wasm_enforce_human_gate

(* The fingerprint of a copy counts what a call adds to it. *)
LEMMA HashOfCopy ==
    ASSUME NEW d
    PROVE  wasm_decision_content_hash(d) =
             <<d.class, d.state, Cardinality(d.votes), d.evidence_bundle, Len(d.receipt_chain)>>
<1>1. ASSUME NEW S PROVE At(d)!Cardinality(S) = Cardinality(S)
  BY DEF At!Cardinality, Cardinality
<1> QED BY <1>1 DEF wasm_decision_content_hash, At!content_hash

(* So a new copy has another fingerprint. *)
LEMMA ApartFromInv == HostInv => CopiesToldApart
<1> SUFFICES ASSUME HostInv, NEW d \in Copies("decision")
             PROVE  LET apart(results) == \A r \in results :
                            wasm_decision_content_hash(r) # wasm_decision_content_hash(d)
                    IN  /\ apart(wasm_add_evidence(d))
                        /\ \A vote \in Vote : apart(wasm_add_vote(d, vote))
                        /\ \A to \in Core!BctsState, actor \in Actors, time \in Times :
                              apart(wasm_transition_decision(d, to, actor, time))
  BY DEF CopiesToldApart
<1>0. PICK c \in DecisionClass, s \in Core!BctsState, vs \in SUBSET Vote, n \in Nat : \E log :
         /\ d = DecisionCopy(c, s, vs, n, log)
         /\ IsFiniteSet(vs) /\ VotersDiffer(vs) /\ WalkTo(log, s)
  BY KindTells DEF HostInv, Copies, GoodDecision
<1>1. PICK log : /\ d = DecisionCopy(c, s, vs, n, log)
                 /\ IsFiniteSet(vs) /\ VotersDiffer(vs) /\ WalkTo(log, s)
  BY <1>0
<1>a. d.votes = vs /\ d.evidence_bundle = n /\ d.receipt_chain = log /\ d.state = s
  BY <1>1 DEF DecisionCopy
<1>2. ASSUME NEW r \in wasm_add_evidence(d)
      PROVE  wasm_decision_content_hash(r) # wasm_decision_content_hash(d)
  <2>1. r.evidence_bundle = n + 1
    BY <1>1 DEF DecisionCopy, wasm_add_evidence, Return
  <2> QED BY <1>a, <2>1, HashOfCopy
<1>3. ASSUME NEW vote \in Vote, NEW r \in wasm_add_vote(d, vote)
      PROVE  wasm_decision_content_hash(r) # wasm_decision_content_hash(d)
  <2>1. r.votes = vs \cup {vote} /\ vote \notin vs
    BY <1>1 DEF DecisionCopy, wasm_add_vote, Return
  <2>2. Cardinality(vs) \in Nat /\ Cardinality(vs \cup {vote}) = Cardinality(vs) + 1
    BY <1>1, <2>1, FS_AddElement, FS_CardinalityType
  <2>3. Cardinality(r.votes) # Cardinality(d.votes)
    BY <1>a, <2>1, <2>2
  <2> QED BY <2>3, HashOfCopy
<1>4. ASSUME NEW to \in Core!BctsState, NEW actor \in Actors, NEW time \in Times,
             NEW r \in wasm_transition_decision(d, to, actor, time)
      PROVE  wasm_decision_content_hash(r) # wasm_decision_content_hash(d)
  <2> DEFINE e == [from_state |-> d.state, to_state |-> to, timestamp |-> time,
                   receipt_hash |-> At(d)!compute_receipt_hash(d.state, to, time, actor),
                   actor_did |-> actor]
  <2>1. r = [d EXCEPT !.state = to, !.receipt_chain = Append(@, e)]
    BY DEF wasm_transition_decision, Return
  <2> HIDE DEF e
  <2>2. r.receipt_chain = Append(log, e)
    BY <1>1, <2>1 DEF DecisionCopy
  <2>3. PICK S : log \in Seq(S)
    BY <1>1 DEF WalkTo, IsSequence
  <2>4. log \in Seq(S \cup {e})
    BY <2>3
  <2>5. Len(log) \in Nat /\ Len(Append(log, e)) = Len(log) + 1
    BY <2>4
  <2>6. Len(r.receipt_chain) # Len(d.receipt_chain)
    BY <1>a, <2>2, <2>5
  <2> QED BY <2>6, HashOfCopy
<1> QED BY <1>2, <1>3, <1>4

(* A withdrawn copy contests nothing. *)
LEMMA ChallengesFromInv == HostInv => ChallengeCopiesSound
<1> SUFFICES ASSUME HostInv, NEW c \in Copies("challenge")
             PROVE  /\ c.status \in {"Filed", "UnderReview", "Withdrawn"}
                    /\ \A r \in wasm_withdraw_challenge(c) :
                          is_contested((Copies("challenge") \ {c}) \cup {r}, c.decision_id) <=>
                              \E o \in Copies("challenge") \ {c} :
                                  o.decision_id = c.decision_id /\ o.status \in Unresolved
  BY DEF ChallengeCopiesSound
<1>1. GoodChallenge(c)
  BY KindTells DEF HostInv, Copies
<1>2. ASSUME NEW r \in wasm_withdraw_challenge(c) PROVE r.status \notin Unresolved
  BY <1>1 DEF GoodChallenge, wasm_withdraw_challenge, Return, Unresolved
<1>3. c.status \in {"Filed", "UnderReview", "Withdrawn"}
  BY <1>1 DEF GoodChallenge
<1> QED BY <1>2, <1>3 DEF is_contested

(* Sanctions, and emergencies counted for a review. *)
LEMMA PowersFromInv == HostInv => PowerCopiesSound
<1> SUFFICES ASSUME HostInv PROVE PowerCopiesSound
  OBVIOUS
<1>1. ASSUME NEW a \in Copies("sanction") PROVE GoodSanction(a)
  BY KindTells DEF HostInv, Copies
<1>2. ASSUME NEW e \in Copies("emergency") PROVE GoodEmergency(e)
  BY KindTells DEF HostInv, Copies
<1> DEFINE open(S) == {x \in S : x.ratification_status # "Expired"}
<1>3. ASSUME NEW e \in Copies("emergency"), NEW t \in Stamps, NEW r \in wasm_check_expiry(e, t),
             needs_governance_review((Copies("emergency") \ {e}) \cup {r})
      PROVE  needs_governance_review(Copies("emergency"))
  <2> DEFINE S == Copies("emergency")
             T == (S \ {e}) \cup {r}
  <2>1. r = e \/ r.ratification_status = "Expired"
    BY <1>2 DEF wasm_check_expiry, GoodEmergency
  <2>2. open(T) \in SUBSET open(S)
    BY <2>1
  <2>3. IsFiniteSet(open(S))
    BY FS_Subset DEF HostInv, Copies
  <2>4. /\ Cardinality(open(T)) \in Nat /\ Cardinality(open(S)) \in Nat
        /\ Cardinality(open(T)) <= Cardinality(open(S))
    BY <2>2, <2>3, FS_Subset, FS_CardinalityType
  <2>5. MAX_PER_QUARTER \in Nat
    BY PowersAssumption
  <2>6. Cardinality(open(T)) > MAX_PER_QUARTER
    BY <1>3 DEF needs_governance_review
  <2>7. Cardinality(open(S)) > MAX_PER_QUARTER
    BY <2>4, <2>5, <2>6
  <2> QED BY <2>7 DEF needs_governance_review
<1>4. \A a \in Copies("sanction") :
          /\ a.enacted_at # {} <=> a.status \in {"Enacted", "Reversed"}
          /\ a.action_type = "Suspension" =>
                \A t \in a.enacted_at : t <= a.proposed_at + SUSPENSION_LIMIT
  BY <1>1 DEF GoodSanction
<1>5. \A e \in Copies("emergency") :
          e.ratification_decision_id <=> e.ratification_status = "Ratified"
  BY <1>2 DEF GoodEmergency
<1> HIDE DEF open
<1> QED BY <1>3, <1>4, <1>5 DEF PowerCopiesSound

(* decision_forum_bindings.rs, for any voters, actors, clocks and policies, and
   however a host forks, drops and passes in its copies. *)
THEOREM HostCopiesAreSound == HostSpec => []HostCopiesSound
<1>1. HostSpec => []HostInv
  BY HostInitInv, HostStepInv, PTL DEF HostSpec
<1>2. HostInv => \A c \in Copies("corpus") : CorpusBinding(c)
  <2> SUFFICES ASSUME HostInv, NEW c \in Copies("corpus") PROVE CorpusBinding(c)
    OBVIOUS
  <2>1. GoodCorpus(c)
    BY KindTells DEF HostInv, Copies
  <2>2. PICK b \in Corpus : c = CorpusCopy(b) /\ CorpusBinding(b)
    BY <2>1 DEF GoodCorpus
  <2> QED BY <2>2 DEF CorpusCopy, CorpusBinding
<1>3. HostInv => HostCopiesSound
  BY <1>2, DecisionsFromInv, ControlsFromInv, GatesFromInv, ApartFromInv, ChallengesFromInv,
     PowersFromInv DEF HostCopiesSound
<1> QED BY <1>1, <1>3, PTL
=============================================================================
