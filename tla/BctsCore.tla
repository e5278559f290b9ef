------------------------------ MODULE BctsCore ------------------------------
(***************************************************************************)
(* The bailment-conditioned transaction of crates/exo-core/src/bcts.rs: a  *)
(* table of legal state changes, a log of the changes made and a chain of  *)
(* receipts, each receipt hashing one change together with the receipt     *)
(* before it.                                                              *)
(*                                                                         *)
(* hash_structured is taken to be collision free, so a receipt is modelled *)
(* by the record that is hashed.  The hybrid clock is the caller's         *)
(* argument: a caller may pass a different clock to every call, so the     *)
(* timestamp of a change is any element of Times.                          *)
(***************************************************************************)
EXTENDS Naturals, Sequences

CONSTANTS
    Actors,           \* the DIDs that drive the transaction
    Times,            \* the readings of the clocks they pass in
    MaxTransitions,   \* bound on the length of a log
    MaxEdited         \* bound on the length of a log whose edits are examined

ASSUME MaxTransitionsAssumption == MaxTransitions \in Nat

VARIABLES
    current_state,    \* Transaction.current_state
    transitions,      \* Transaction.transitions
    receipt_chain     \* Transaction.receipt_chain

vars == <<current_state, transitions, receipt_chain>>

BctsState ==
    {"Draft", "Submitted", "IdentityResolved", "ConsentValidated",
     "Deliberated", "Verified", "Governed", "Approved", "Executed",
     "Recorded", "Closed", "Denied", "Escalated", "Remediated"}

valid_transitions(s) ==
    CASE s = "Draft"            -> {"Submitted"}
      [] s = "Submitted"        -> {"IdentityResolved", "Denied"}
      [] s = "IdentityResolved" -> {"ConsentValidated", "Denied"}
      [] s = "ConsentValidated" -> {"Deliberated", "Denied"}
      [] s = "Deliberated"      -> {"Verified", "Denied", "Escalated"}
      [] s = "Verified"         -> {"Governed", "Denied", "Escalated"}
      [] s = "Governed"         -> {"Approved", "Denied", "Escalated"}
      [] s = "Approved"         -> {"Executed", "Denied"}
      [] s = "Executed"         -> {"Recorded", "Escalated"}
      [] s = "Recorded"         -> {"Closed", "Escalated"}
      [] s = "Closed"           -> {}
      [] s = "Denied"           -> {"Remediated"}
      [] s = "Escalated"        -> {"Deliberated", "Denied", "Remediated"}
      [] s = "Remediated"       -> {"Submitted"}

(* Mutant: an escalation may be settled straight into approval. *)
can_transition_to_EscalatedApproves(from, to) ==
    to \in valid_transitions(from) \/ (from = "Escalated" /\ to = "Approved")

can_transition_to(from, to) == to \in valid_transitions(from)

(* The hash of the zero block, what the first receipt chains to. *)
ZERO == <<>>

(* ReceiptInput, hashed. *)
Receipt(from, to, time, actor, prev) ==
    [from |-> from, to |-> to, timestamp |-> time, actor |-> actor,
     prev_hash |-> prev]

(* The receipt a new one chains to. *)
Prev(chain) == IF chain = <<>> THEN ZERO ELSE chain[Len(chain)]

compute_receipt(from, to, time, actor) ==
    Receipt(from, to, time, actor, Prev(receipt_chain))

Init ==
    /\ current_state = "Draft"
    /\ transitions = <<>>
    /\ receipt_chain = <<>>

(* Every call that returns Ok; a call that returns Err changes nothing. *)
transition(to, actor, time) ==
    /\ can_transition_to(current_state, to)
    /\ Len(transitions) < MaxTransitions
    /\ LET r == compute_receipt(current_state, to, time, actor)
       IN  /\ receipt_chain' = Append(receipt_chain, r)
           /\ transitions' = Append(transitions,
                 [from_state |-> current_state, to_state |-> to,
                  timestamp |-> time, receipt_hash |-> r, actor_did |-> actor])
    /\ current_state' = to

Next == \E to \in BctsState, actor \in Actors, time \in Times :
            transition(to, actor, time)

Spec == Init /\ [][Next]_vars

-----------------------------------------------------------------------------
(* Mutant: only the transitions' own receipts are compared. *)
EntryVerifies_ChainIgnored(log, chain, i) ==
    log[i].receipt_hash =
        Receipt(log[i].from_state, log[i].to_state, log[i].timestamp,
                log[i].actor_did,
                IF i = 1 THEN ZERO ELSE log[i - 1].receipt_hash)

(* One turn of the loop of verify_receipt_chain, given that the turns      *)
(* before it passed: the receipt computed in turn i - 1 is then the one    *)
(* the log holds.                                                          *)
EntryVerifies(log, chain, i) ==
    /\ log[i].receipt_hash =
           Receipt(log[i].from_state, log[i].to_state, log[i].timestamp,
                   log[i].actor_did,
                   IF i = 1 THEN ZERO ELSE log[i - 1].receipt_hash)
    /\ i <= Len(chain) => chain[i] = log[i].receipt_hash

verify_receipt_chain(log, chain) ==
    \A i \in 1..Len(log) : EntryVerifies(log, chain, i)

-----------------------------------------------------------------------------
Gates == <<"Submitted", "IdentityResolved", "ConsentValidated",
           "Deliberated", "Verified", "Governed", "Approved">>

(* Among the first n logged changes, each of the first k gates was passed  *)
(* later than every visit to the gates before it.                          *)
Passed(log, n, k) ==
    \A g \in 1..k : \E i \in 1..n :
        /\ log[i].to_state = Gates[g]
        /\ \A h \in 1..(g - 1), j \in 1..n :
              log[j].to_state = Gates[h] => j < i

(* The state is one of the fourteen and every logged change has the shape  *)
(* of BctsTransition.                                                      *)
TypeOK ==
    /\ current_state \in BctsState
    /\ Len(transitions) = Len(receipt_chain)
    /\ Len(transitions) <= MaxTransitions
    /\ \A i \in 1..Len(transitions) :
          /\ transitions[i].from_state \in BctsState
          /\ transitions[i].to_state \in BctsState
          /\ transitions[i].timestamp \in Times
          /\ transitions[i].actor_did \in Actors

(* What the transaction logged passes its own verification after any       *)
(* sequence of changes, and the log is one unbroken walk from Draft to the *)
(* current state (transition, verify_receipt_chain).                       *)
LogVerifies ==
    /\ verify_receipt_chain(transitions, receipt_chain)
    /\ \A i \in 1..Len(transitions) :
          transitions[i].from_state =
              IF i = 1 THEN "Draft" ELSE transitions[i - 1].to_state
    /\ current_state = IF transitions = <<>> THEN "Draft"
                       ELSE transitions[Len(transitions)].to_state

(* The edits a log of this model can suffer in one entry: any field        *)
(* changed, and the entry's receipt left alone or recomputed over the      *)
(* edited entry.                                                           *)
Edited(i) ==
    LET Entry(f, t, ts, a, r) ==
            [from_state |-> f, to_state |-> t, timestamp |-> ts,
             receipt_hash |-> r, actor_did |-> a]
        prev == IF i = 1 THEN ZERO ELSE transitions[i - 1].receipt_hash
    IN  {Entry(f, t, ts, a, transitions[i].receipt_hash) :
            f \in BctsState, t \in BctsState, ts \in Times, a \in Actors}
        \cup
        {Entry(f, t, ts, a, Receipt(f, t, ts, a, prev)) :
            f \in BctsState, t \in BctsState, ts \in Times, a \in Actors}

(* Any one logged change that is edited, whether or not its own receipt is *)
(* recomputed to fit, fails verification against the receipt chain: the    *)
(* second comparison of verify_receipt_chain catches what the first one    *)
(* cannot.                                                                 *)
EditsAreDetected ==
    Len(transitions) <= MaxEdited =>
      \A i \in 1..Len(transitions) : \A e \in Edited(i) :
          e # transitions[i] =>
              ~verify_receipt_chain([transitions EXCEPT ![i] = e], receipt_chain)

(* The log verifies, and no edit of it does (verify_receipt_chain). *)
TamperEvidence == LogVerifies /\ EditsAreDetected

(* Whenever the transaction executes, every gate was passed for that       *)
(* execution, in order and after the submission being executed, however    *)
(* often the transaction was denied, escalated, remediated, resubmitted or *)
(* executed before (valid_transitions).                                    *)
ExecutedThroughGates ==
    \A x \in 1..Len(transitions) :
        transitions[x].to_state = "Executed" =>
            Passed(transitions, x - 1, Len(Gates))
=============================================================================
