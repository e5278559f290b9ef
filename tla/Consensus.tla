----------------------------- MODULE Consensus -----------------------------
(***************************************************************************)
(* DAG-BFT finality: crates/exo-dag/src/consensus.rs.                      *)
(*                                                                         *)
(* Every replica runs one `ConsensusState'.  Votes reach the replicas in   *)
(* any order, any number of times, or never.  Nothing in consensus.rs reads*)
(* the signature of a vote, so any vote, in any name, may be presented to  *)
(* any replica, and different votes in one name to different replicas.     *)
(* `check_commit' hands a certificate to its caller; `commit' takes any    *)
(* certificate, one that a replica returned or one built by the caller, on *)
(* any replica and at any time, without looking at it.                     *)
(***************************************************************************)
EXTENDS Integers, FiniteSets, Sequences, Functions

CONSTANTS
    Dids,        \* identities that may be named in propose and vote
    Validators,  \* config.validators
    Nodes,       \* hashes of the DAG nodes up for commitment
    Replicas,    \* processes that hold a ConsensusState
    HandMade,    \* certificates that callers of commit build themselves
    MaxRound,    \* bound: advance_round stops here
    MaxCommits   \* bound on the length of `committed'

Rounds == 0..MaxRound

(* A vote; its signature is not read by any function of consensus.rs. *)
Vote == [voter : Dids, round : Rounds, node : Nodes]

(* An element of the Vec<Vote> stored for (round, node).  No function reads
   the order of that Vec, only its length, so it is kept as the set of its
   elements, told apart by how many votes of the same voter came before. *)
Entry == [vote : Vote, copy : Nat]

Certificate == [node : Nodes, round : Rounds, votes : SUBSET Entry]

ASSUME ConsensusAssumption ==
    /\ IsFiniteSet(Validators)
    /\ Validators \subseteq Dids
    /\ HandMade \subseteq Certificate
    /\ MaxRound \in Nat
    /\ MaxCommits \in Nat

VARIABLES
    current_round,   \* per replica
    pending,         \* per replica: the vote entries of every round and node
    proposed,        \* per replica: the (round, node) keys made by propose
    voted_in_round,  \* per replica: <<round, voter>> pairs
    committed,       \* per replica: Vec of committed hashes
    certificates,    \* per replica: hash -> certificate map, as a set of values
    issued           \* per replica: the certificates its check_commit returned

vars == <<current_round, pending, proposed, voted_in_round, committed,
          certificates, issued>>

----------------------------------------------------------------------------
(* ConsensusConfig *)

(* Mutant: the bound for crash faults, which quorums of two thirds do not bear. *)
fault_tolerance_Half == Cardinality(Validators) \div 2

fault_tolerance == LET n == Cardinality(Validators)
                   IN  IF n = 0 THEN 0 ELSE (n - 1) \div 3

(* Mutant: the "+ 1" is forgotten. *)
quorum_size_NoPlusOne == (2 * Cardinality(Validators)) \div 3

quorum_size == LET n == Cardinality(Validators)
               IN  IF n = 0 THEN 0 ELSE ((2 * n) \div 3) + 1

----------------------------------------------------------------------------
Init ==
    /\ current_round  = [r \in Replicas |-> 0]
    /\ pending        = [r \in Replicas |-> {}]
    /\ proposed       = [r \in Replicas |-> {}]
    /\ voted_in_round = [r \in Replicas |-> {}]
    /\ committed      = [r \in Replicas |-> <<>>]
    /\ certificates   = [r \in Replicas |-> {}]
    /\ issued         = [r \in Replicas |-> {}]

advance_round(r) ==
    /\ current_round[r] < MaxRound
    /\ current_round' = [current_round EXCEPT ![r] = @ + 1]
    /\ UNCHANGED <<pending, proposed, voted_in_round, committed, certificates,
                   issued>>

propose(r, d, n) ==
    /\ d \in Validators
    /\ proposed' = [proposed EXCEPT ![r] = @ \cup {<<current_round[r], n>>}]
    /\ UNCHANGED <<current_round, pending, voted_in_round, committed,
                   certificates, issued>>

Copies(r, v) == Cardinality({e \in pending[r] : e.vote = v})

Store(r, v) ==
    /\ voted_in_round' = [voted_in_round EXCEPT ![r] = @ \cup {<<v.round, v.voter>>}]
    /\ pending' = [pending EXCEPT ![r] = @ \cup {[vote |-> v, copy |-> Copies(r, v)]}]
    /\ UNCHANGED <<current_round, proposed, committed, certificates, issued>>

(* Mutant: duplicates are looked for among the votes for the same node. *)
vote_PerNode(r, v) ==
    /\ v.voter \in Validators
    /\ v.round = current_round[r]
    /\ Copies(r, v) = 0
    /\ Store(r, v)

vote(r, v) ==
    /\ v.voter \in Validators
    /\ v.round = current_round[r]
    /\ <<v.round, v.voter>> \notin voted_in_round[r]
    /\ Store(r, v)

(* The votes of the current round for n. *)
VotesFor(r, n) == {e \in pending[r] : /\ e.vote.round = current_round[r]
                                      /\ e.vote.node = n}

check_commit(r, n) ==
    /\ quorum_size # 0
    /\ Cardinality(VotesFor(r, n)) >= quorum_size
    /\ issued' = [issued EXCEPT ![r] = @ \cup
                     {[node |-> n, round |-> current_round[r], votes |-> VotesFor(r, n)]}]
    /\ UNCHANGED <<current_round, pending, proposed, voted_in_round, committed,
                   certificates>>

(* What commit may be given: nothing ties it to what a replica returned. *)
Presented == HandMade \cup UNION {issued[r] : r \in Replicas}

commit(r, c) ==
    /\ Len(committed[r]) < MaxCommits
    /\ committed' = [committed EXCEPT ![r] = Append(@, c.node)]
    /\ certificates' = [certificates EXCEPT
           ![r] = {d \in @ : d.node # c.node} \cup {c}]
    /\ UNCHANGED <<current_round, pending, proposed, voted_in_round, issued>>

Next ==
    \E r \in Replicas :
       \/ advance_round(r)
       \/ \E d \in Dids, n \in Nodes : propose(r, d, n)
       \/ \E v \in Vote : vote(r, v)
       \/ \E n \in Nodes : check_commit(r, n)
       \/ \E c \in Presented : commit(r, c)

Spec == Init /\ [][Next]_vars

----------------------------------------------------------------------------
(* Properties *)

TypeOK ==
    /\ current_round \in [Replicas -> Rounds]
    /\ pending \in [Replicas -> SUBSET Entry]
    /\ proposed \in [Replicas -> SUBSET (Rounds \X Nodes)]
    /\ voted_in_round \in [Replicas -> SUBSET (Rounds \X Validators)]
    /\ committed \in [Replicas -> Seq(Nodes)]
    /\ certificates \in [Replicas -> SUBSET Certificate]
    /\ issued \in [Replicas -> SUBSET Certificate]

Voters(c) == {e.vote.voter : e \in c.votes}

(* consensus.rs "Nodes are finalized when a commit certificate gathers >2/3
   validator votes": whatever the deliveries, a certificate that check_commit
   returns counts every validator once, and more than two thirds of them have a
   vote for its node in its round. *)
CertificateQuorum ==
    \A r \in Replicas : \A c \in issued[r] :
        /\ Voters(c) \subseteq Validators
        /\ 3 * Cardinality(Voters(c)) > 2 * Cardinality(Validators)
        /\ \A e \in c.votes : e.vote.round = c.round /\ e.vote.node = c.node

FinalizedNodes(C) == {c.node : c \in C}

(* commit keeps the ordered list and the certificate map in step, whatever
   certificates it is given: exactly the hashes of `committed' are finalized,
   each by one certificate. *)
FinalizedIsCommitted ==
    \A r \in Replicas :
        /\ FinalizedNodes(certificates[r]) = Range(committed[r])
        /\ \A c, d \in certificates[r] : c.node = d.node => c = d

(* The certificates that check_commit returns have a quorum, and a replica
   finalizes exactly what was committed on it.  (That a node is finalized only
   behind a quorum is up to the callers of commit, who may pass it anything.) *)
CertificatesSound == CertificateQuorum /\ FinalizedIsCommitted

(* Validators with two votes of one round for different nodes in c and d. *)
Equivocators(c, d) ==
    {v \in Validators :
        \E e \in c.votes : \E f \in d.votes :
           /\ e.vote.voter = v /\ f.vote.voter = v
           /\ e.vote.round = f.vote.round /\ e.vote.node # f.vote.node}

(* consensus.rs "Tolerates f < n/3 Byzantine validators", as far as unverified
   votes can say it: when certificates of two replicas name different nodes of
   one round, they hold conflicting votes in the names of more than f
   validators.  So the replicas disagree only if more than f validators voted
   twice, or votes were cast in the names of others. *)
DisagreementNamesCulprits ==
    \A q, r \in Replicas : \A c \in issued[q], d \in issued[r] :
        c.round = d.round /\ c.node # d.node
           => Cardinality(Equivocators(c, d)) > fault_tolerance

(* The bookkeeping behind double-vote detection: the voters recorded for a
   round are those with a stored vote in it, and none has two. *)
OneStoredVotePerRound ==
    \A r \in Replicas :
        /\ voted_in_round[r] = {<<e.vote.round, e.vote.voter>> : e \in pending[r]}
        /\ \A e, f \in pending[r] :
              (e.vote.round = f.vote.round /\ e.vote.voter = f.vote.voter) => e = f

(* Inductive strengthening: a certificate is made of votes its replica still
   holds, a quorum of them. *)
CertifiedVotesStored ==
    \A r \in Replicas : \A c \in issued[r] :
        /\ quorum_size # 0
        /\ c.votes \subseteq pending[r]
        /\ Voters(c) \subseteq Validators
        /\ Cardinality(Voters(c)) >= quorum_size
        /\ \A e \in c.votes : e.vote.round = c.round /\ e.vote.node = c.node

ConsensusInv ==
    /\ TypeOK
    /\ OneStoredVotePerRound
    /\ CertifiedVotesStored

(* What each replica has decided so far. *)
Decisions == UNION {{<<r, c.round, c.node>> : c \in issued[r]} : r \in Replicas}

D == INSTANCE RoundDecision WITH decided <- Decisions

(* Seen from outside, a replica is one register per round that is written at
   most once, whoever casts the votes: check_commit either decides a round or
   repeats its decision; no other operation changes one. *)
DecidesOncePerRound == D!Spec
=============================================================================
