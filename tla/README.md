# Exochain in TLA+

A verification project for the Rust workspace of Exochain (`src/crates/`): TLA+
modules that model its components, TLC configurations that check them on small
instances, and TLAPS proofs of the theorems that matter for every instance. Every
definition is translated from the Rust source; `PROJECT.json` maps each one to its
lines.

Run a check with `tlc -config <cfg> <module>`, a proof with `tlapm <module>.tla`.

## 1. The system

Exochain is a library workspace. Most of its crates hold data structures with
methods and no threads, sockets or schedulers of their own: time, randomness and the
order of calls are the caller's. Processes that embed the crates exchange votes, DAG
nodes, timestamps and certificates. Concurrency inside a process is in the gateway:
requests share an `Arc<Mutex<AppState>>`, subscriptions read a broadcast channel at
their own pace, and tasks share a database pool without transactions. A JavaScript
host of the WebAssembly bindings keeps every object itself, as copies. What is hard is
what a sequence of legal calls, made by several callers in an order nobody wrote down,
may lead to.

| Part (crate) | State | Operations | Uses | Hard behaviour | What makes it correct |
|---|---|---|---|---|---|
| Hybrid logical clock (exo-core `hlc`) | last timestamp, wall source | `now`, `update` | timestamps of all others | wall clocks that jump, delayed and repeated remote stamps, counter at its limit | causal order, bounded drift |
| BCTS transaction (exo-core `bcts`) | state, transitions, receipt chain | `transition`, `verify_receipt_chain` | clock | long walks with denial, escalation, resubmission; tampering with the log | no execution around a gate, edits are detected |
| BCTS pipeline (exo-bcts) | state, ledger, report | `create_transaction`, `transition`, `run_pipeline`, `verify_ledger` | the caller's stage results | a stage fails half way; a run restarted from any state | executed once, report agrees with the ledger |
| Consensus (exo-dag `consensus`) | round, pending votes, committed list, certificates | `propose`, `vote`, `check_commit`, `commit`, `advance_round` | DAG node hashes | votes in any name, lost, repeated, reordered; certificates kept, applied late or made by hand | quorum certificates, one decision per replica and round, disagreement leaves evidence |
| DAG, store, append (exo-dag) | nodes, children, tips, clock; store with committed set | `append`, `validated_append`, `mark_committed` | clock stamps | nodes delivered in any order, twice, or under another node's hash | one rooted acyclic graph, causally closed stores |
| Signatures, events, list trees (exo-core `crypto`, `events`, `hash`) | none | sign, verify, serialize, prove | | halves of hybrid signatures, odd leaves | good for one key and message |
| Merkle mountain range, sparse tree, checkpoints (exo-dag) | peaks, leaves, roots | `append`, `root`, proofs | consensus certificates | merging at powers of two | proofs verify exactly the stored leaves |
| Delegation (exo-authority) | links by delegator and delegatee | `delegate`, `revoke_delegation`, `find_chain` | | revoke and delegate again, depth limit | no cycle, indices agree, chains found exactly |
| Chain verification (exo-authority `chain`) | none | `build_chain`, `verify_chain`, `has_permission` | keys of the identities | expiry, depth, narrowing | rights never grow down a chain |
| Chain cache (exo-authority) | entries with access time | `get`, `insert`, `invalidate`, `clear` | delegation | a chain resolved before and inserted after an invalidation; full cache | least recently used goes first |
| Consent (exo-consent) | bailments, registrations, policies | `propose`, `accept`, `terminate`, `register_*`, `revoke_by_bailment_id`, `check`, `evaluate` | authority | bailment copied into the gate and changed afterwards, expiry between two checks | a grant rests on valid consent until it expires |
| Governance (exo-governance) | deliberations, quorum policies, challenges, successions, custody and audit chains | open/cast/close, verify, append | identity, clock | late, changed and dependent votes; legitimacy of the count | decision follows the counted votes |
| Decision forum (decision-forum) | decision object, votes, challenges, emergency actions, authority matrix, constitution versions | create, transition, vote, contest, ratify | governance, gatekeeper | human gate, quorum at the time of the decision, expiry | terminal decisions immutable, gates passed |
| Gatekeeper (exo-gatekeeper) | kernel and its invariant set, holons, monitor | `adjudicate`, `step`, `suspend`, `resume`, monitor events | consent, authority | suspended holon that steps; circuit breaker window | no action without consent and authority |
| Identity (exo-identity) | DID documents, keys, PACE operators, shares | register, rotate, revoke, escalate, split, reconstruct | | rotation after revocation, operator level, threshold | revoked stays revoked, shares reconstruct |
| Escalation (exo-escalation) | signals, cases with stages, board, feedback | evaluate, triage, escalate, advance, move, complete | | moves to and fro, stages skipped | no case lost, urgency follows the signals |
| Legal records (exo-legal) | evidence, privileges, records, interested transactions | transfer, challenge, retain, disclose, vote, verify | MCP log | steps out of order, verification retried | evidence kept, safe harbour by disinterested votes |
| Tenants (exo-tenant) | registry, per-tenant store, tiers, shards | create, suspend, put/get, migrate | | ids reused across tenants | isolation, replicas on distinct shards |
| Proof systems (exo-proofs) | circuits, commitments | prove, verify | | transcripts that leave something out | a proof is good for its own statement |
| Peers (exo-api) | registry, counters, peers in use | register, count, select, rotate | | stale peers that are candidates again | limits hold, choice as diverse as possible |
| Gateway (exo-gateway) | GraphQL state behind a mutex, broadcast channel, database tables, audit log | mutate, query, subscribe, SQL statements, request path | all of the above | slow subscribers, tasks that race on a row | trails exact, subscribers current, first write stands |
| Bindings (exochain-wasm) | copies the host keeps | one per library operation | all libraries | stale and forked copies, a clock per call | what a host is told agrees with the library |
| Command line, `demo/`, `web/`, `tools/` | none of their own | argument parsing, UI | | | not modelled |

Files that no `lib.rs` declares are not part of the program and are left out:
exo-governance `anchor`, `constitution`, `decision`, `delegation`, `emergency`,
`errors`; exo-gateway `handlers`, `livesafe`, `notifications`; exo-identity `key`;
exo-gatekeeper `proof`; exo-tenant `cold`, `sharding`; exo-core `event`; exo-dag
`proof`; exo-legal `cert_902_11`. The drafts under `src/tla` are not used either.

The hazards these behaviours pose, each at its line, are in `PROJECT.json`.

## 2. Modules

    Timestamps --- HLC                           RoundDecision (abstract)
         \                                             ^ refinement
          DagLedger                               Consensus
    Merkle   Proofs
                                                  BctsCore   BctsPipeline
    Delegation                                         ^ refinement
         \                                        ForumDecision
          ChainCache                              ForumPowers  ForumRecords
                                                       \   |   /
      ChainVerify   Identity                         ForumBindings
            \________/
           IdentityBindings                       AppendOnly (abstract)
                                                       ^ refinement
    Governance   Escalation   LegalRecords ------ AuditLogs
          \__________|___________/
             GovernanceBindings                   Gateway  GatewayDb  Gatekeeper
                                                       \_______|_______/   \
    Consent                                                  Edge      Combinators

A proof module extends the modules it is about: ConsensusProofs; LedgerProofs (HLC,
DagLedger); AuthorityProofs (Delegation, ChainCache, Identity, ChainVerify); BctsProofs
(BctsCore, BctsPipeline); ConsentProofs; ForumProofs (ForumDecision, ForumPowers,
ForumRecords, ForumBindings); GovernanceProofs (AuditLogs, Governance, Escalation, LegalRecords); and
GatewayProofs (Gateway, GatewayDb, Gatekeeper, Edge).

The MC modules put them into runs: MCConsensus; MCLedger (DagLedger, HLC, Merkle,
Proofs); MCAuthority (ChainCache with Delegation, ChainVerify, Identity and
their bindings); MCBcts; MCConsent; MCForum; MCGovernance; MCGateway (Combinators with
Gatekeeper, Edge with Gateway and GatewayDb).

**Consensus** (`exo-dag/consensus.rs`). One `ConsensusState` per replica. No function
reads a vote's signature, so a vote in any name may be shown to any replica at any
time: delivery, loss, repetition, equivocation and votes in somebody else's name are all
the choice of which vote a replica's `vote` handles next. `check_commit` returns its
certificate to the caller (`issued`), and `commit` takes any certificate, returned by
some replica or made by hand (`HandMade`), on any replica, late or twice: the code does
not look into it. Agreement between replicas is therefore not a property of this code.
What holds is its accountable form, `DisagreementNamesCulprits`: two replicas certify
different nodes of a round only on conflicting votes in the names of more than
`fault_tolerance` validators. **RoundDecision** is the promise of one replica: per
round a node is decided at most once and for good; `DecidesOncePerRound` states that
every replica implements it, with `issued` as the decisions.

**Timestamps, HLC** (`exo-core/types.rs`, `hlc.rs`). A clock per process, wall
readings that move in either direction, and a set of events in flight that any
process may feed to `update` any number of times, with foreign timestamps besides.
`past` records for each stamp what happened before it.

**DagLedger** (`exo-dag/dag.rs`, `append.rs`, `store.rs`). The local DAG with its
`DeterministicClock`, nodes made elsewhere, and replicas that receive nodes through
`validated_append`. `content` gives every hash the contents it was computed from: hashes
are collision free. Neither `validated_append` nor `put` recomputes a hash, so a replica
may be handed any node under any known hash; `store` is what it holds, `replaced`
the hashes whose node was overwritten by another one. The stores' properties hold up to
those hashes, and `verify_stored_integrity` finds them. The clock's counter is kept to
its width. The traversals (`ancestors`, `topological_sort`) are operators, checked against reachability
and topological orders on every graph of up to four nodes under every order of hashes.

**Delegation, ChainCache** (`exo-authority/delegation.rs`, `cache.rs`). The
registry's two indices as sequences of link ids, the depth walk and the search; the
cache beside it, with chains that were resolved earlier and are inserted later, and
`last_use` and `evicted`, when each key was last used and which were dropped for room.

**BctsCore** (`exo-core/bcts.rs`). The table, the log and the receipts. A receipt
is the record that is hashed. **BctsPipeline** (`exo-bcts`): its own table and
ledger, and `run_pipeline` stage by stage with any outcome of each stage.

**Consent** (`exo-consent`). Bailments held by the parties, the copies the gate
keeps, policies, and the gate's two decisions. `grants` and `revoked` are history
variables. `check` never reads `registered`, `Suspended` and `Expired` are set by
no function, and `register_consent` does not relate actor and bailee: all as in the
code.

**ForumDecision** (`decision-forum`: `decision_object`, `quorum`, `human_gate`,
`tnc_enforcer`, `contestation`, `workflow`). One decision with its votes, life cycle
and challenges. The quorum, the gate and the controls are functions of it that the
application calls when it likes; no method of the decision calls them, so they are
operators and not guards. `LifeCycle` states that the decision object implements
BctsCore, with the decision's receipts as the transaction's log: `INSTANCE BctsCore`
also supplies the state table, as the code takes it from `exo_core::bcts`.

**ForumPowers** (`emergency`, `accountability`, `authority_matrix`,
`constitution`). Four stores that share no state. Times are arguments of the
caller and come in any order. An emergency is created after
`check_per_actor_limit`, which its documentation asks of the caller.

**ForumRecords** (`metrics`, `self_governance`, `terms`, `authority`,
`fiduciary_package`). What the forum reports about itself, next to `told`, a history
of what was reported to it.

**ForumBindings** (`exochain-wasm/decision_forum_bindings.rs`). `held` is the set of
copies a JavaScript host keeps. Every binding is a function from a copy to the copies
it may return (none after an error); the host replaces the one it passed in or keeps
both. The conversion through JSON gives the value back, or an error before the library
is called.

**Governance** (`exo-governance`: `deliberation`, `quorum`, `crosscheck`, `conflict`,
`clearance`, `challenge`, `succession`). One object of each kind and callers in any
order; signatures, ids and creation times are carried and never read by the code.
**AuditLogs** (`audit`, `custody`, exo-gatekeeper `mcp_audit`): writers that take the
head of a log, are overtaken and refused, and edited copies that must not verify. The
audit and MCP logs hash the texts of an entry without separators, so a digest is over the
texts run together (`EntryText`, `RecordText`): an edit that only moves a boundary
between two fields, or makes no region an empty one, does verify, and `TamperingShows`
says that no other edit before the last entry does.
**AppendOnly** is the promise: facts are added at the end and never change.
**Escalation** (`exo-escalation`) keeps cases as the structs do, **LegalRecords**
(`exo-legal`) evidence, records, duties and transactions, with the reports
(`ai_transparency`, `nist_mapping`, `compliance_report`) as counts over the MCP log.
**GovernanceBindings** is their host, with the copies it keeps in `copies`.

**ChainVerify** (`exo-core`: `crypto`, `events`, `Signature`; `exo-authority`: `chain`,
`permission`). A block of signature bytes is known by algorithm, key pair and message;
on top of it every chain of up to three links is built, link by link, and verified.
**Identity** (`exo-identity`) has a DID registry, verification methods,
a key store, a PACE ladder, attestations, a vault, and shares of one byte over GF(256)
with bytes as sets of bits, so that addition is the symmetric difference.
**IdentityBindings** are operators on top of the two.

**Merkle** (`exo-core/hash.rs`, `exo-dag`: `mmr`, `smt`, `checkpoint`). A digest is
the tuple of what is hashed. Keys have two bits instead of 256. **Proofs**
(`exo-proofs`) has the proof systems as operators over words below 64.

**Gatekeeper** (`exo-gatekeeper`). The kernel (`invariants`, `kernel`, `mcp`, `types`)
is a function of the context; holons (`holon`) run programs under it, reduced by the
constant operator `Reduction`; the monitor (`governance_monitor`, `tee`) has the breaker
beside `all_found`, everything ever recorded. `resume` takes any checkpoint with the
holon's id, one that `suspend` made or one made elsewhere (`Foreign`): a holon the kernel
suspended goes on with it, and holds the output it brings. **Combinators** (`combinator`) has the
programs as trees and their `reduce` as a recursive operator, which the run gives to
`Reduction`; the proofs about holons hold for any reduction.

**Gateway** (`exo-gateway/graphql.rs`). A mutation holds the mutex throughout, so it
is one action; a subscription is a lazy stream that its client polls, or does not, at
any time, and that ends when the channel has overrun it. **GatewayDb**
(`db.rs`): a statement is atomic, and between two statements of one task anything may
happen. On the request path (`auth`, `middleware`, `routes`, `rest`, `server`, in
Gateway too) the clock is read twice per request and moves either way. **Edge** extends
the three with the two small crates beside them, tenants (`exo-tenant`) and peers
(`exo-api`): maps with the code's guards. `get_mut` of the tenant registry lends a tenant
with a writable status, so it may write any. Lists of candidate peers may name a peer
twice; the code never drops the repetition, and neither does the model.

## 3. Runs

| Run | Checks | Bounds, and why they are enough |
|---|---|---|
| consensus | `CertificatesSound`, `DisagreementNamesCulprits`, `DecidesOncePerRound` | 4 validators, any of them named in any vote, an outsider, 2 nodes: the smallest set that tolerates a fault. Certificates without votes and with one vote three times. Scopes: one replica over two rounds (a vote left over from another round, a certificate replaced by a later one), two replicas in one round (two suffice to disagree, and they do) |
| ledger | `CausalOrder`, `BoundedDrift`, `LedgerSound`, `IndicesExact`, `CreatorOrder`, `ProofsExact` | 2 clocks, 6 calls, tolerance 1, foreign stamps on either side of it; 4 nodes (a fork and a merge), 2 creators, each node delivered under each hash; 3 nodes marked at heights 0, 1, 3; 6 leaves (mountains of 4 and 2), keys of 2 bits (every shape of a sparse tree with four leaves) |
| authority | `DelegationsSound`, `EvictsLeastRecent`, `ChainsSealed`, `IdentitySound`, `WithdrawnForGood` | 4 DIDs and depth limit 2 (chains longer than the limit exist, a link may be pushed twice); a cache of 2 entries; chains of 3 links and 2 rights; 2 key pairs and messages; 2 DIDs with 3 keys (a key rotated twice); 4 operators, one per PACE level; 3 shares with each threshold |
| bcts | `ExecutedThroughGates`, `TamperEvidence`, `PipelineSound`, `RunsSettle` | 18 changes (the second execution is reached after 14); every edit of every entry of every log of three changes with two actors and times; 24 ledger entries: a full run after a resubmission |
| consent | `GrantsSound`, `RevokedSupportsNothing` | 2 required roles and 3 instants, so that the shorter bailment ends before the longer; 2 bailments registered, revoked and registered again for two actors under three policies |
| forum | `QuorumHolds`, `HumansDecide`, `RecordStands`, `PowersBounded`, `ReportsTruthful`, `HostSound`, `LifeCycle`, `SettledStays` | 9 votes for the gated classes (a strategic decision reaches its 67% exactly and from both sides), 5 for the others; 12 changes, past the close; 2 challenges; 3 emergencies of 2 actors; 2 sanctions; 2 delegations of each of two delegates; 2 amendments; 3 things recorded, 2 versions of terms; a host with 2 copies |
| governance | `GovernanceSound`, `RecordsTellAll`, `EscalationSound`, `LegalSound`, `LogsAppendOnly` | 3 members (two linked and one not), 8 policies, 2 closes; 2 writers and 3 entries (one overtaken, one retried), whose texts run together alike or not; confidences on either side of every threshold, 2 cases, 7 stages (the whole Sybil path); 3 custody transfers, 4 ballots; a host with 2 copies |
| gateway | `GatekeeperSound`, `TrailsExact`, `SubscribersCurrent`, `RacesHarmless`, `EdgeSound`, `StreamsComplete`, `NothingRewritten` | 2 decisions of 2 tenants, 4 audit entries, a channel of 2 events (a subscriber is overrun by the third); per table 2 tasks, 2 keys, 4 writing statements; breaker of 2 findings in a window of 2 over 5 instants; 5 peers of 3 ASNs, lists that name some twice; 2 tenants with 2 ids each |
| hlc_saturation | violation of `StrictlyLater` | a foreign stamp at the last counter value |
| authority_invalidate | violation of `InvalidatesAllInvolved` | a chain of two links |
| consent_terminated | violation of `GrantRestsOnActiveBailment` | one bailment |
| forum_human_gate | violation of `GateMeansHumanApproval` | 10 votes, the fewest that suffice |

A run's invariant is often the conjunction of the named properties of one component or
of several that belong together; each part has its definition and its comment in the
component's module:

| Run property | Parts |
|---|---|
| `CertificatesSound` | `CertificateQuorum`, `FinalizedIsCommitted` |
| `LedgerSound`, `IndicesExact` | `OneRootedDag`, `StoreCausal`; `TipsAreLeaves`, `HeightCoversCommitted` |
| `ProofsExact` | `NodesVerify`, `TraversalsExact`, `ListProofsExact`, `SparseProofsExact`, `ProofSystemsBind` |
| `DelegationsSound` | `NoCircularDelegation`, `IndexExact` |
| `ChainsSealed` | `FindChainExact`, `SignaturesBind`, `SealsHold`, `ChainsNarrow`, `SharesSound`, and for the host `HostSignaturesBind`, `HostAttestationsUnverifiable`, `HostChainsAgree`, `HostPaceAgrees`, `HostSharesSound` |
| `IdentitySound` | `RotatedNeverVerifies`, `OwnOperator` |
| `GrantsSound` | `GrantHonoured` |
| `PipelineSound` | `LedgerVerifies`, `ExecutedAtMostOnce`, `ReportTruthful`, `AuditComplete` |
| `QuorumHolds`, `HumansDecide`, `RecordStands` | `QuorumSound`, `ApprovalKeepsQuorum`; `HumansCarry`, `UnverifiedNeedsHumanQuorum`; `ReversalsStand`, `WorkflowFollowsLifeCycle` |
| `PowersBounded` | `LimitsHold`, `PurgeIsInvisible`, `ScopeNarrows`, `CorpusSound` |
| `GovernanceSound` | `AnnouncedStands`, `LinkedNeverCounts`, `NoConflictLost` |
| `RecordsTellAll` | `LogsInOrder`, `TamperingShows`, `ReportsAddUp`, `SearchComplete`, `DutiesMonotone`, and for the host `RebuiltLogsAgree`, `RegistryTravels`, `ConflictsAgree`, `OfficesAgree`, `CoordinationOrderFree`, `HostTriageSound`, `HostAnnouncementsSound`, `HostListsSound`; of the board `BoardKeepsCases`, `SortsAgree` |
| `ReportsTruthful`, `HostSound` | `FailuresShow`, `TermsPerVersion`, `DefenceSound`, `AmendmentsBacked`, `ForumNeedsAuthority`; `HostCopiesSound`, `PercentilesExact` |
| `EscalationSound`, `LegalSound` | `OnBoardOnce`, `MoreSignalsNeverCalmer`, `PriorityFollowsTriage`; `EvidenceKept`, `SafeHarborSound` |
| `GatekeeperSound` | `KernelSound`, `OutputsReproducible`, `BreakerExact`, `AttestationsAge` |
| `RacesHarmless` | `AuditTableChained`, `RowsUnique` |
| `EdgeSound` | `LogIsSuccesses`, `PagesComplete`, `TenantsIsolated`, `RateHolds`, `ReplicasSpread`, `PeersRepeatNothing`, `SelectionDiverse`, `ProgramsCompose`, `KernelSetsExact` |
| `NothingRewritten` | `FirstWriteStands`, `ArchivedForGood`, `HolonsGoverned` |

Type invariants are conjuncts of these where no theorem states them by themselves.

Parts that share no state are checked as *scopes* (or `part`s) of one run: the initial
state picks one and keeps it, and the run explores the sum of small instances instead
of their product. A scope only restricts the steps of the specification, `MCNext ==
Next /\ UNCHANGED scope /\ InScope'`. `MCForum` also has the votes cast in one order
of voters and ballots: votes are a set and no definition tells voters apart, so every
tally is still reached. Facts about pure functions are evaluated in the initial state
of their scope only.

Symmetry is used for identities nothing tells apart (validators, nodes,
replicas, hashes, DIDs, bailment ids); the scopes are closed under it, and no run with
symmetry checks liveness.

`CHECK_DEADLOCK FALSE` stands where a named bound (rounds, calls, ticks, log
length, hashes) may be used up: the code itself never stops.

**Fairness.** One place in the code goes on by itself, and only it has fairness:
`run_pipeline` is a loop over its stages that waits for nothing, hence weak fairness of
`RunStep`, for `RunsSettle`. Everything else happens when a caller makes it, and no
caller is obliged to. A subscription in particular is polled by its client's connection
and may stay unread for ever, so nothing is claimed about when its events arrive, only
that none is skipped (`StreamsComplete`).

## 4. Proofs

| Theorem | Statement | Argument |
|---|---|---|
| `ConsensusProofs!DisagreementIsAccountable`, `CertificatesAreSound` (from `CertificatesHaveQuorum` and `CommittedAndFinalized`), `OneVote` | the invariants of the consensus run and the double-vote bookkeeping, for every finite validator set, any votes in any names and any certificates given to `commit` | `ConsensusInv`: the voters recorded for a round are those with a stored vote in it, none with two, and an issued certificate holds votes still stored. `QuorumsOverlap` counts: two quorums share more than `(n - 1) \div 3` names, and each shared name has conflicting votes in the two certificates |
| `ConsensusProofs!ImplementsRoundDecision` | each replica implements RoundDecision | on one replica two quorums of a round would share a name with two stored votes, which `OneVote` excludes, so a further certificate of the round names the node already decided |
| `LedgerProofs!Causality`, `DriftIsBounded` | `CausalOrder`, `BoundedDrift` for any number of clocks | `ClockInv` adds `PastNotAhead`: nothing in a clock's past is stamped after the clock |
| `LedgerProofs!LedgersAreSound` (from `DagIsOneRooted` and `StoresAreCausal`) | for any set of hashes, replicas and stamps, and nodes delivered under any hash | acyclicity as: every non-empty set of nodes has a member with no parent in it; a new node joins at the end. In a store the same up to `replaced`: the stamps of parents that were not replaced increase along edges, and an overwritten node keeps its hash's children |
| `LedgerProofs!IndicesAreExact` (with `HeightIsCover`) | `IndicesExact`: the DAG's tips are its leaves, a store's tips are leaves and miss one only behind a replaced node, and the committed height covers, in any order of delivery | `IndexInv`: the child index has every edge into the nodes held, and no other but what replaced nodes left behind |
| `LedgerProofs!CreatorsInOrder` | `CreatorOrder`, if the calls of a clock are at most its counter's last value | `CountersBounded`: a counter is at most the number of ticks, so no tick wraps it; without the hypothesis the code's `+ 1` on a u32 wraps and the statement is false |
| `AuthorityProofs!DelegationsAreSound`, `NeverCircular` | `DelegationsSound` for any DIDs and depth limit | `delegate` refuses a link back to an ancestor, so a new link closes no cycle; both indices list exactly the active links |
| `AuthorityProofs!CacheIsLru` | `EvictsLeastRecent` for any capacity and any calls | `StampsTrue`: the stamp of an entry is its last use and no two entries have the same, so the one with the least stamp is the one used least recently. A least stamp exists because the naturals are well founded |
| `AuthorityProofs!IdentityIsSound`, `WithdrawnStaysWithdrawn` | `IdentitySound`, `WithdrawnForGood` for any DIDs, methods and keys | `RetiredInactive` (the first method of a retired id is inactive, though ids are given out anew) and `RotationsLead` (a rotated key points to a later record) |
| `AuthorityProofs!SignaturesAlwaysBind` | `SignaturesBind`, a part of `ChainsSealed`, for any keys and messages | what somebody holds is always one of the shapes the code makes (`Signatures`); each shape verifies by comparing a block with the block that would be signed, and blocks are equal only for equal key and message |
| `AuthorityProofs!ChainsAlwaysNarrow` | `ChainsNarrow`, a part of `ChainsSealed`, for any holders, permissions and length | a chain is a sequence of links and the checks quantify over its places, so a beginning inherits them; a later part starts at another depth than 0 and is refused; every check that reads the time is an upper bound on it |
| `BctsProofs!GatesHold`, `LogIsTamperEvident` | for logs of any length | `IInv`: the receipts are those of the log, and in each state the gates behind it were passed in order since the last submission |
| `BctsProofs!PipelineIsSound` | `PipelineSound` for any number of runs and restarts | `TxInv` says what a run at stage n has added to the ledger (`InRun`) and what a finished one has left (`AfterRun`); `ExecutionIsLast` because no way leads back from an execution |
| `ConsentProofs!GrantsAreSound` | `GrantsSound` for any parties, policies and times | the answer does not say what it rests on, so `Supported` keeps it: for each requirement a consent in the gate that fits and outlasts the grant |
| `ConsentProofs!RevocationIsComplete` | `RevokedSupportsNothing` | `RevokedGone`: no consent mentions a revoked bailment, so dropping those that do drops nothing |
| `ForumProofs!QuorumsHold` (from `QuorumIsSound` and `ApprovalsAreMonotone`), `HumansDecideAlways` (from `HumansAreNeeded` and `UnverifiedAgentsDoNotCount`) | the properties of the tally, for every finite electorate and any number of votes | `ForumInv`: one vote per voter, and the vote set is finite. Two lemmas bound the integer quotient from both sides; the rest counts subsets of the votes |
| `ForumProofs!RecordsStand` (from `ReversalsRest` and `ReceiptsFollow`), `SettledForGood` (from `ClosedForGood`) | `RecordStands` and `SettledStays`, for any number of challenges and lives of any length | `ForumInv` keeps a reversal's challenge sustained and inside the list; `ReceiptsAreWalk`: each receipt is an allowed transition from where the one before led, the first from Draft, and the state is where the last led, which a workflow stage looks for |
| `ForumProofs!PowersStayBounded` | `PowersBounded` for any actors, stamps and policies | `PowersInv`: one part for each of the four stores; the limits count actions that are not expired, and an expiry only lowers the count |
| `ForumProofs!ImplementsTransaction` | the refinement of BctsCore | the last receipt of the decision is the last element of the mapped receipt chain |
| `ForumProofs!ReportsAreTruthful` | `ReportsTruthful` for any number of checks, proposals and acceptances | `RecordsInv`: of each counter the passed ones are at most all, and equal exactly when no failure was told; what was accepted is what was told. The rounding of `pct` is a lemma on quotients |
| `ForumProofs!ScoresAlwaysSound`, `SealsAlwaysShow` | scores and seals of packages of any evidence; the run has those that vary one prong | each prong's score is in range and grows with its counts, so does their mean; a seal is an injective digest of the prongs |
| `ForumProofs!HostCopiesAreSound` | `HostCopiesSound`, the part of `HostSound` about the copies, however a host forks, drops and passes them in, for any voters, actors, clocks and policies | `HostInv` says of each copy by itself what a call about it needs: its receipts are a walk from Draft to its state (`WalkTo`), its voters differ, no authority link was added. A call takes good copies to good ones, so no order of calls matters |
| `GovernanceProofs!LogsAreAppendOnly`, `KeptInOrder` | the refinement of AppendOnly by each of the three logs, and that each always verifies and is in order, for any number of writers and entries | `AuditInv` adds to each log what every draft follows: a digest begins with the time of its entry, so an accepted draft is later than the head |
| `GovernanceProofs!TamperingAlwaysShows` | `TamperingShows`, the part of `RecordsTellAll` about changed copies, for logs of any length: of the copies one change away only those verify that keep all but the last entry or whose entries read the same with their fields run together | `Shaped`: every entry has the fields the code gives it. `DigestBinds`: two entries with one digest have the same text and time, so the entry after one whose text was changed gives it away; an entry moved forward follows one created too late |
| `GovernanceProofs!GovernanceIsSound` | `GovernanceSound` for any finite membership, any policies and evidence | `Announced`: once there is a result the deliberation is closed, so the votes a result was computed from are the votes there are. That linked members do not count is counting: each joins an earlier group |
| `GovernanceProofs!LegalIsSound` | `LegalSound` for any parties, days and numbers of votes | `CustodySound` of each piece of evidence; `HarborInv`: past disclosure a transaction stays disclosed and its votes are not the interested party's |
| `GovernanceProofs!EscalationIsSound` | `EscalationSound` for any confidences and any number of signals, cases, moves and stages | `EscInv`: a case is at one place of one column; a move filters it out and appends it, and filtering keeps every other case at one place. One more signal raises or keeps each count the evaluation reads, and the level is monotone in them |
| `GatewayProofs!TrailsAreExact` | `TrailsExact` for any decisions, tenants and numbers of mutations | `Records`: the numbers handed out are exactly those in the trails (`Numbered`), each trail is chained, and the entries of a kind are as many as what they record. Every mutation is one `Grown` step: one trail gets the next number |
| `GatewayProofs!SubscribersAreCurrent` | `SubscribersCurrent` for any streams, whatever the order of mutations and reads | `Current`: the last event of a decision in the channel is the decision as stored; `GoodStream`: what a stream was given last is the last it wanted of what it has read, and of emergency actions it has as many as it read. A stream that has read all has both |
| `GatewayProofs!RacesAreHarmless`, `FirstWritesStand` | `RacesHarmless`, and `FirstWriteStands` of every step, for any tasks, keys and statements | `HeldFrom`: what a task holds between its read and its insertion is a place of the chain with its digest, however old. An insertion finds the next place taken, and writes nothing, or free, and then what it holds is still the end. Statements on the other tables all set one row (`WritesRow`) |
| `GatewayProofs!TenantsAreIsolated`, `ArchivedStaysArchived` | `TenantsIsolated`, and `ArchivedForGood` of every step (of tenants whose status nobody wrote through `get_mut`), for any tenants and items | an item is put under the tenant and the id it names; an id in the registry was drawn, and no id is drawn twice |
| `GatewayProofs!NothingIsRewritten` (from `FirstWritesStand`, `ArchivedStaysArchived`, `HolonsAreGoverned`) | `NothingRewritten`, each part under the specification of its own component | a step of one component leaves the others' variables alone or is one of theirs |
| `GatewayProofs!GatekeeperIsSound` | `GatekeeperSound` for any actors, contexts, programs, reductions and bounds | the kernel is a function of the context: each of its checks reads one field, so a field that is right in one context can only remove its violation in another. `HolonInv`: outputs, of holons and of checkpoints, are made by the holon's program or came with a checkpoint from elsewhere. `MonInv`: what was evicted is older than the window and stays so, since the clock does not go back |
| `GatewayProofs!LogIsTheSuccesses`, `RatesHold`, `ReplicasAreSpread` | `LogIsSuccesses`, `RateHolds`, `ReplicasSpread`, parts of `EdgeSound`, for any number of requests, any peers and limit, and every key, number of shards and replication factor | the number of log entries is the number of successes so far, and a success is reached only through all gates; a counter is the number let through; the replicas are consecutive modulo the number of shards, and an interval shorter than it has no two equal remainders |

`TypeCorrect` (`ForumTypeCorrect`, `ClocksTypeCorrect`), or a type invariant inside
the properties above, is part of each inductive invariant.

Assumptions are named `ASSUME`s of the modules and evaluated by TLC: finite
validator set, natural bounds, a
finite electorate and membership, a cache with room for one entry, policies of the
shapes the code builds, times and rate limits that are naturals, forked copies bounded
by what a single one may have.

Only model-checked, and why:

- Liveness (`RunsSettle`) is out of the prover's reach.
- `StreamsComplete`: what a stream yields is a filtered subsequence (`SelectSeq`), about
  which the library has no facts the provers can use.
- What a recursive definition computes for every input needs induction over data:
  `ProofsExact` (Merkle structures, proof systems, traversals), of `ChainsSealed` the
  breadth-first `find_chain` and the Shamir shares, of `EdgeSound` the combinator programs.
  Well-foundedness of the naturals can be cited, and gives least elements, where the
  statement is about sets.
- Sorted and flattened sequences: of `RecordsTellAll` the order of the board and the
  search, of `HostSound` the percentiles, of `EdgeSound` the pages and the choice of
  peers. The library has no facts about them the provers can use.
- The host's parts of `ChainsSealed` and `RecordsTellAll` compare what the bindings
  return with the library on one instance.

## 5. Where comments and code disagree

Shown by runs with an expected violation, quoted in `PROJECT.json`:

- `update` promises a stamp greater than the remote one; at the counter's last
  value it returns the remote stamp itself.
- `invalidate` is said to drop all chains involving a DID; chains that pass
  through it stay.
- A bailment terminated by its parties still supports grants of the gate that
  registered it earlier, against "No action may proceed without an active
  bailment".
- Classes said to "always require at least one human approval" require a human
  vote: seven agents carry a strategic decision that three humans reject.

Noted while modelling, without a run of their own: `consensus.rs:3` "Tolerates f < n/3
Byzantine validators" and no function verifies a vote's signature or a certificate, so
tolerance is up to callers that verify both; `validated_append` and `put` never compare a
node with its hash, and `put` overwrites (`append.rs:34`, `store.rs:70`); `committed_height` is commented
as a number of nodes and is the largest height marked (`store.rs:26`); the DAG's
clock wraps after 2^32 appends without `advance` (`dag.rs:41`); `append` does not
merge the parents' timestamps, so a node on a faster creator's parent is in the DAG
and refused by `validated_append` everywhere (`dag.rs:161`); a cache of capacity 0
never leaves its eviction loop (`cache.rs:69`); a transaction log
cut short still verifies (`bcts.rs:184`); a pipeline run that fails at its first or
last stage does not end in `Denied` (`pipeline.rs:87`, against `pipeline.rs:5`);
`Denied -> Remediated` of exo-bcts is in the table (`states.rs:4`) and refused by
`transition` (`transaction.rs:110`).

In decision-forum: `tnc_enforcer.rs:5` says the controls are called on every
transition, and `transition` calls none; an open challenge is said to pause
execution (`contestation.rs:3`) and nothing asks `is_contested`; the emergency
limits leave out expired actions (`emergency.rs:58`, `:146`); `enact` "after due
process" accepts a proposal without it (`accountability.rs:87`); an amendment needs
one signature whatever the quorum of the constitution, and one that repeats an id is
never found by it (`constitution.rs:83`); a child delegation outlives its revoked
parent (`authority_matrix.rs:203`).

In the other crates, each as the model has it:

- exo-core, exo-dag: `Signature::as_bytes` is documented to panic on post-quantum
  signatures and returns zeros; the list tree repeats an odd last node, so two lists
  share a root; `verify_proof` of the mountain range takes the position modulo the
  mountain's width, and `prove` beyond the last leaf gives the first peak's proof;
  severity `Warning` "does not block" and `check_all` returns an error for it
  (`invariants.rs:35`, `:146`).
- exo-authority: the registry's links carry a placeholder signature and `find_chain`
  numbers depths anew, so a registry's chain never passes `verify_chain`, which itself
  does not ask that a link starts where the last one ended.
- exo-identity: `rotate_key` of a document leaves the old keys good; a method rotated
  twice from the same version gives two methods of one version and id, which are said
  to be monotonic (`did.rs:41`).
- exo-governance: `cast_vote` does not ask whether the voter is a participant; `close`
  makes up an attestation of independence and the role Contributor for every vote, so
  a policy that wants another role is never met; `acknowledgment_count` counts
  acknowledgments of every declaration; the last entry of a log and the role and
  signature of a custody event are covered by no hash; `hash_entry` and `hash_record` run
  texts together without separators, and a missing region hashes as an empty one.
- exo-gatekeeper: `resume` looks at the checkpoint's holon id only, so a holon the kernel
  suspended goes on with any checkpoint that names it; merging parallel results overwrites equal keys, Retry always reduces
  attempt 0, a holon whose reduction fails stays Executing, and the key of an authority
  link is not tied to its grantor.
- exo-escalation, exo-legal: an EmergencyCondition opens a case whose priority goes by
  confidence alone; a voter may vote twice on an interested transaction.
- decision-forum: `content_hash` covers the numbers of votes and items, not their
  contents; a package's seal does not separate rationale, risk and supporting hashes;
  recusals raise the disinterestedness score.
- exo-gateway: every caller is one DID, so a decision takes one vote; any status may
  follow any other; all tenants share one constitution; a disclosure on an unknown
  decision is recorded nowhere; `DelegationExpiring` is never sent; an overrun stream
  ends silently; an overtaken audit insertion does nothing silently; nothing sets
  `revoked_at` of a delegation; signatures of requests are only tested for emptiness.
- exo-tenant, exo-api: deleting a tenant leaves its data, `put` does not ask whether
  the tenant exists; `get_mut` lets a caller bring an archived tenant back; a candidate
  named twice is selected twice; a rotation may take an evicted peer back and go over the cap per
  ASN, since it counts the replacements only.
- exo-proofs: the circuit's hash covers the number of public inputs, not which they
  are; the values a STARK opens are checked by nobody.
- exochain-wasm: a late ratification fails, and the expiry it caused is lost with the
  copy; no binding adds an authority link, so the controls never all pass;
  `wasm_check_clearance` makes every caller a Governor; `wasm_audit_append` always
  starts a log; an attestation of `wasm_assess_risk` is signed with a key whose public
  half is thrown away; `wasm_bcts_is_terminal` calls `Denied` terminal, which
  `Remediated` may follow.

## 6. Not modelled

- Signature schemes, ciphers, hash functions and random generators: external, taken as
  perfect. Where the code concatenates fields before hashing, the digests of the DAG, the
  mountain range, the custody chain, the receipts and the seals are taken as injective on
  the fields (of the seals, on what the code separates); those of the audit and MCP logs
  are not.
- Signatures of votes and the hashes of delivered nodes: not left out but absent from the
  code paths that accept them (section 2).
- Callers of the audit-table functions: none is compiled into the program. That a task
  reads the last entry and inserts the next with its number and digest is taken from the
  signatures and the queries (`db.rs:406`).
- The operations of Proofs, of the host bindings and of the request path are modelled whole,
  including arguments that no property distinguishes.
- Parsing and formatting (DIDs, JSON, hex), error texts, typed event payloads of
  `exo-core/events.rs`, catalogues of controls in the legal reports.
- `exo-legal/conflict_disclosure.rs` and the consent bindings: wrappers without state
  of their own.
- Sockets, TLS, the HTTP framework and the SQL engine beyond the atomicity of a
  statement; the command line; `demo/`, `web/`, `tools/`.
- What happens after the DAG's clock has wrapped: the counter is kept to its width, and
  `CreatorOrder` holds, and is proved, up to the wrap.
- A promise about a chain inserted into the cache after the invalidation that should have
  covered it: ChainCache reaches that state, and the code promises nothing about it.

## 7. Plan

The model is complete in breadth, and every safety property of a run that is not in the
list above is proved. What could follow is proof: the copies a host keeps of
deliberations and lists, by an invariant of each copy as for the forum; and sorting, once
facts about sorted sequences are at hand, for the board, the pages and the percentiles.
