---------------------------- MODULE BctsPipeline ----------------------------
(***************************************************************************)
(* The transaction library of crates/exo-bcts: states.rs (the table and    *)
(* the terminal states), transaction.rs (create_transaction, transition,   *)
(* verify_ledger), pipeline.rs (run_pipeline) and invariants.rs (the nine  *)
(* checks a validator may run on a transaction).                           *)
(*                                                                         *)
(* A transaction is driven either by single calls of transition or by a    *)
(* pipeline run, which owns it until it returns.  A run is taken one stage *)
(* at a time; the validator is the caller's closure, so its verdict at     *)
(* each stage is a free choice.  Evidence, proof hashes and times are left *)
(* out: nothing reads them back (verify_ledger compares states only).      *)
(***************************************************************************)
EXTENDS Naturals, Sequences, FiniteSets

CONSTANTS
    MaxLedger,        \* bound on the length of a ledger
    Signers           \* the DIDs that propose and check transactions

ASSUME MaxLedgerAssumption == MaxLedger \in Nat

VARIABLES
    tx_state,   \* BctsTransaction.state
    ledger,     \* BctsTransaction.ledger: the from and to of each event
    stage,      \* the stage a run is at; 0 when no run owns the transaction
    base,       \* length of the ledger when the last run began
    stages,     \* PipelineResult.stages of the last run: the success flags
    failed_at   \* PipelineResult.failed_at of the last run, 0 for None

tx_vars == <<tx_state, ledger, stage, base, stages, failed_at>>

TxState ==
    {"Draft", "Submitted", "IdentityResolved", "ConsentValidated",
     "Deliberated", "Verified", "Governed", "Approved", "Executed",
     "Recorded", "Closed", "Denied", "Escalated", "Remediated"}

tx_valid_transitions(from) ==
    CASE from = "Draft"            -> {"Submitted"}
      [] from = "Submitted"        -> {"IdentityResolved", "Denied"}
      [] from = "IdentityResolved" -> {"ConsentValidated", "Denied"}
      [] from = "ConsentValidated" -> {"Deliberated", "Denied", "Escalated"}
      [] from = "Deliberated"      -> {"Verified", "Denied", "Escalated"}
      [] from = "Verified"         -> {"Governed", "Denied"}
      [] from = "Governed"         -> {"Approved", "Denied", "Escalated"}
      [] from = "Approved"         -> {"Executed", "Denied"}
      [] from = "Executed"         -> {"Recorded"}
      [] from = "Recorded"         -> {"Closed"}
      [] from = "Closed"           -> {}
      [] from = "Denied"           -> {"Remediated"}
      [] from = "Escalated"        -> {"Deliberated", "Denied"}
      [] from = "Remediated"       -> {"Submitted"}

can_transition(from, to) == to \in tx_valid_transitions(from)

is_terminal(s) == s \in {"Closed", "Denied"}

(* Mutant: what was approved cannot be denied any more. *)
Accepts_ApprovedIsSettled(from, to) ==
    /\ ~is_terminal(from) /\ can_transition(from, to)
    /\ ~(from = "Approved" /\ to = "Denied")

(* The calls of transition that return Ok. *)
Accepts(from, to) == ~is_terminal(from) /\ can_transition(from, to)

(* What an accepted call changes. *)
Moved(to) ==
    /\ tx_state' = to
    /\ ledger' = Append(ledger, [from_state |-> tx_state, to_state |-> to])

Stopped == UNCHANGED <<tx_state, ledger>>

(* `if let Ok(next) = transition(...) { current = next }`. *)
TryMove(to) ==
    \/ Accepts(tx_state, to) /\ Moved(to)
    \/ ~Accepts(tx_state, to) /\ Stopped

PIPELINE_STAGES ==
    <<"Submitted", "IdentityResolved", "ConsentValidated", "Deliberated",
      "Verified", "Governed", "Approved", "Executed", "Recorded">>

TxInit ==
    /\ tx_state = "Draft"
    /\ ledger = <<>>
    /\ stage = 0
    /\ base = 0
    /\ stages = <<>>
    /\ failed_at = 0

(* A call of transition outside a run; a refused call changes nothing.  It *)
(* returns a transaction without a PipelineResult: the last one is about   *)
(* the transaction before the call.                                        *)
tx_transition(to) ==
    /\ stage = 0
    /\ Len(ledger) < MaxLedger
    /\ Accepts(tx_state, to)
    /\ Moved(to)
    /\ base' = 0 /\ stages' = <<>> /\ failed_at' = 0
    /\ UNCHANGED stage

(* run_pipeline is called. *)
Begin ==
    /\ stage = 0
    /\ Len(ledger) + Len(PIPELINE_STAGES) + 1 <= MaxLedger
    /\ stage' = 1
    /\ base' = Len(ledger)
    /\ stages' = <<>>
    /\ failed_at' = 0
    /\ UNCHANGED <<tx_state, ledger>>

Running == stage \in 1..Len(PIPELINE_STAGES)

(* Mutant: a stage that is refused leaves its result marked a success. *)
StageFails_StaysTrue(ok) ==
    /\ stages' = Append(stages, ok)
    /\ TryMove("Denied")
    /\ failed_at' = stage
    /\ stage' = 0
    /\ UNCHANGED base

(* The run stops at this stage.  ok is the validator's verdict: a refused  *)
(* transition turns its success into a failure as well.                    *)
StageFails(ok) ==
    /\ stages' = Append(stages, FALSE)
    /\ TryMove("Denied")
    /\ failed_at' = stage
    /\ stage' = 0
    /\ UNCHANGED base

(* The validator accepts, and so does transition. *)
StagePasses ==
    /\ Running
    /\ Accepts(tx_state, PIPELINE_STAGES[stage])
    /\ Moved(PIPELINE_STAGES[stage])
    /\ stages' = Append(stages, TRUE)
    /\ stage' = stage + 1
    /\ UNCHANGED <<base, failed_at>>

(* The validator accepts and transition refuses. *)
StageRefused ==
    /\ Running
    /\ ~Accepts(tx_state, PIPELINE_STAGES[stage])
    /\ StageFails(TRUE)

(* The validator rejects. *)
StageRejected ==
    /\ Running
    /\ StageFails(FALSE)

(* All stages passed: the transaction is closed and the run returns. *)
Finish ==
    /\ stage = Len(PIPELINE_STAGES) + 1
    /\ TryMove("Closed")
    /\ stage' = 0
    /\ UNCHANGED <<base, stages, failed_at>>

TxNext ==
    \/ \E to \in TxState : tx_transition(to)
    \/ Begin
    \/ StagePasses
    \/ StageRefused
    \/ StageRejected
    \/ Finish

(* What run_pipeline does once it is called: a loop without waits. *)
RunStep == StagePasses \/ StageRefused \/ StageRejected \/ Finish

TxSpec == TxInit /\ [][TxNext]_tx_vars /\ WF_tx_vars(RunStep)

-----------------------------------------------------------------------------
(* The checks of invariants.rs.  An action is known by its prefix.         *)

ConstitutionalInvariant ==
    {"NoSelfModify", "NoSelfGrant", "ConsentPrecedesAccess",
     "TrainingConsentRequired", "AlignmentFloor", "AuditCompleteness",
     "HumanOverridePreserved", "KernelImmutable", "RegistryImmutable"}

None == "none"

EventEnvelope ==
    [actor_did : Signers, target_did : Signers \cup {None},
     action : {"modify:invariant", "modify:kernel", "modify:registry",
               "grant:", "escalate:", "train:", "fine-tune:", "other"}]

(* A score or threshold that is not configured is None. *)
InvariantContext ==
    [actor_did : Signers, bailments : BOOLEAN, human_override : BOOLEAN,
     alignment : ({0, 1} \X {0, 1}) \cup {<<>>}]

(* passed of the InvariantCheckResult of one check. *)
check_invariant(inv, env, ctx) ==
    CASE inv = "NoSelfModify" ->
             ~(env.action = "modify:invariant" /\ env.actor_did = ctx.actor_did)
      [] inv = "NoSelfGrant" ->
             ~(env.action \in {"grant:", "escalate:"} /\ env.target_did = env.actor_did)
      [] inv = "ConsentPrecedesAccess" -> ctx.bailments
      [] inv = "TrainingConsentRequired" ->
             env.action \in {"train:", "fine-tune:"} => ctx.bailments
      [] inv = "AlignmentFloor" ->
             ctx.alignment # <<>> => ctx.alignment[1] >= ctx.alignment[2]
      [] inv = "AuditCompleteness" -> ledger # <<>> \/ tx_state = "Draft"
      [] inv = "HumanOverridePreserved" -> ctx.human_override
      [] inv = "KernelImmutable" -> env.action # "modify:kernel"
      [] inv = "RegistryImmutable" -> env.action # "modify:registry"

(* The checks that check_all_invariants reports as failed. *)
check_all_invariants(env, ctx) ==
    {inv \in ConstitutionalInvariant : ~check_invariant(inv, env, ctx)}

-----------------------------------------------------------------------------
verify_ledger(s, log) ==
    LET expected(i) == IF i = 0 THEN "Draft" ELSE log[i].to_state
    IN  /\ \A i \in 1..Len(log) :
              /\ log[i].from_state = expected(i - 1)
              /\ can_transition(log[i].from_state, log[i].to_state)
        /\ expected(Len(log)) = s

(* Every variable keeps its type; a run has at most one result per stage. *)
TxTypeOK ==
    /\ tx_state \in TxState
    /\ ledger \in Seq([from_state : TxState, to_state : TxState])
    /\ Len(ledger) <= MaxLedger
    /\ stage \in 0..(Len(PIPELINE_STAGES) + 1)
    /\ base \in 0..MaxLedger
    /\ stages \in Seq(BOOLEAN)
    /\ Len(stages) <= Len(PIPELINE_STAGES)
    /\ failed_at \in 0..Len(PIPELINE_STAGES)

(* verify_ledger accepts every transaction the library produced, in the    *)
(* middle of a run and after a failed one too (transition, run_pipeline).  *)
LedgerVerifies == verify_ledger(tx_state, ledger)

(* No transaction is executed twice, by hand or by runs, whatever          *)
(* escalations came before (valid_transitions).                            *)
ExecutedAtMostOnce ==
    Cardinality({i \in 1..Len(ledger) : ledger[i].to_state = "Executed"}) <= 1

(* The results run_pipeline reports are what happened to the transaction:  *)
(* stage i is reported a success exactly when the i-th event of the run is *)
(* the stage's change, only the last result can be a failure, and          *)
(* failed_at names it.                                                     *)
ReportMatchesLedger ==
    /\ \A i \in 1..Len(stages) :
          stages[i] <=> /\ base + i <= Len(ledger)
                        /\ ledger[base + i].to_state = PIPELINE_STAGES[i]
    /\ \A i \in 1..Len(stages) : ~stages[i] <=> i = failed_at

(* A run that is over and reports no failure has closed the transaction,   *)
(* and a run that failed before the audit stage executed nothing           *)
(* (run_pipeline).                                                         *)
RunOutcome ==
    stage = 0 /\ stages # <<>> =>
        /\ failed_at = 0 => tx_state = "Closed"
        /\ failed_at \in 1..8 =>
              \A i \in (base + 1)..Len(ledger) :
                  ledger[i].to_state # "Executed"

(* What run_pipeline reports of its stages, and of the run as a whole, is  *)
(* what happened to the transaction.                                       *)
ReportTruthful == ReportMatchesLedger /\ RunOutcome

(* A validator that runs the nine checks on the transaction it is given    *)
(* never finds a state change without its record, at any stage of any run, *)
(* and the training rule never fails alone (check_all_invariants).         *)
AuditComplete ==
    stage # 0 => \A env \in EventEnvelope, ctx \in InvariantContext :
        LET failed == check_all_invariants(env, ctx)
        IN  /\ "AuditCompleteness" \notin failed
            /\ "TrainingConsentRequired" \in failed =>
                  "ConsentPrecedesAccess" \in failed

(* The transaction library keeps its word at every point of a run and      *)
(* between runs: the ledger verifies (verify_ledger), records every change *)
(* and at most one execution, and the report is true (run_pipeline).       *)
PipelineSound ==
    /\ TxTypeOK /\ LedgerVerifies /\ ExecutedAtMostOnce
    /\ ReportTruthful /\ AuditComplete

(* A run that gets past its first stage ends: the transaction is closed,   *)
(* or denied, or, when the audit stage alone failed, left executed (the    *)
(* loop of run_pipeline, which waits for nothing).                         *)
RunsSettle ==
    stage = 2 ~>
        /\ stage = 0
        /\ \/ tx_state \in {"Closed", "Denied"}
           \/ failed_at = 9 /\ tx_state = "Executed"
=============================================================================
