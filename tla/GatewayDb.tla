----------------------------- MODULE GatewayDb -----------------------------
(* The persistence layer of exo-gateway (crates/exo-gateway/src/db.rs) as    *)
(* seen by several tasks that share the pool.  PostgreSQL runs every         *)
(* statement atomically, and the functions open no transaction: between two  *)
(* calls of one task anything may happen.                                    *)
(*                                                                           *)
(* A table is a function from its primary key to a row [cols, upd, email].   *)
(* Contents are tokens that name who wrote them.                             *)
EXTENDS Integers, Sequences, FiniteSets

CONSTANTS
    Tasks,       \* tasks that use the pool
    Keys,        \* primary keys: DIDs, digests and the like
    Emails,      \* e-mail addresses of users
    MaxWrites    \* bound on the statements that write

ASSUME DbAssumption == MaxWrites \in Nat

VARIABLES
    tables,      \* table -> primary key -> row
    serials,     \* the tables with a BIGSERIAL key, rows in order of insertion
    audit,       \* audit_entries: sequence -> row
    counter,     \* hlc_state.counter less its initial value
    issued,      \* task -> the counters next_hlc gave it
    held,        \* task -> the rows its last read found
    writes       \* statements that wrote so far

dbVars == <<tables, serials, audit, counter, issued, held, writes>>

(* Primary-key tables, by what an insertion of a key that exists does. *)
KeepFirst == {"users", "agents", "delegations"}
Replace == {"decisions", "identity_scores", "constitutions", "livesafe_identities"}
Refuse == {"scan_receipts", "consent_anchors"}
KeyTables == KeepFirst \cup Replace \cup Refuse
SerialTables == {"enrollment_log", "trustee_shard_status"}

(* The columns besides the key: those only the first insertion sets, and     *)
(* those a conflicting insertion or an UPDATE sets again.                    *)
Columns(fixed, updated) == [fixed |-> fixed, updated |-> updated]
UserRow == Columns({"display_name", "email", "roles", "tenant_id", "created_at", "status",
                    "password_hash", "salt", "mfa_enabled"}, {"pace_status"})
AgentRow == Columns({"agent_name", "agent_type", "owner_did", "tenant_id", "capabilities", "trust_tier",
                     "trust_score", "delegation_id", "created_at", "status", "max_decision_class"},
                    {"pace_status"})
DecisionRow == Columns({"tenant_id", "title", "decision_class", "author", "created_at_ms",
                        "constitution_version"}, {"status", "payload"})
DelegationRow == Columns({"tenant_id", "delegator", "delegatee", "created_at_ms", "expires_at",
                          "revoked_at", "constitution_version", "payload"}, {})
ConstitutionRow == Columns({}, {"payload"})
IdentityScoreRow == Columns({}, {"score", "tier", "factors", "last_updated"})
LiveSafeIdentityRow == Columns({"created_at_ms"}, {"odentity_composite", "pace_status", "card_status",
                                                   "exochain_anchor"})
ScanReceiptRow == Columns({"subscriber_did", "responder_did", "location", "scanned_at_ms",
                           "consent_expires_at_ms", "audit_receipt_hash", "anchor_receipt"}, {})
ConsentAnchorRow == Columns({"subscriber_did", "provider_did", "scope", "granted_at_ms", "expires_at_ms",
                             "revoked_at_ms", "audit_receipt_hash"}, {})
Schema == [users |-> UserRow, agents |-> AgentRow, decisions |-> DecisionRow,
           delegations |-> DelegationRow, constitutions |-> ConstitutionRow,
           identity_scores |-> IdentityScoreRow, livesafe_identities |-> LiveSafeIdentityRow,
           scan_receipts |-> ScanReceiptRow, consent_anchors |-> ConsentAnchorRow]

(* Who wrote the fixed columns and who the others last; the e-mail of a user. *)
Tokens == Tasks \X (0..MaxWrites)
KeyRow == [cols : Tokens, upd : Tokens, email : Emails \cup {"none"}]
Genesis == <<0, "genesis">>
Digest == {Genesis} \cup (Nat \X Tasks)
AuditRow == [sequence : Nat, prev_hash : Digest, entry_hash : Nat \X Tasks]

DbTypeOK ==
    /\ DOMAIN tables = KeyTables
    /\ \A t \in KeyTables : DOMAIN tables[t] \subseteq Keys /\ \A k \in DOMAIN tables[t] : tables[t][k] \in KeyRow
    /\ serials \in [SerialTables -> Seq(Tokens)]
    /\ audit \in Seq(AuditRow)
    /\ counter \in Nat
    /\ issued \in [Tasks -> SUBSET (1..counter)]
    /\ writes \in 0..MaxWrites

(* init_pool: the migrations leave empty tables and one counter. *)
DbInit ==
    /\ tables = [t \in KeyTables |-> <<>>]
    /\ serials = [t \in SerialTables |-> <<>>]
    /\ audit = <<>>
    /\ counter = 0
    /\ issued = [c \in Tasks |-> {}]
    /\ held = [c \in Tasks |-> <<>>]
    /\ writes = 0

PutRow(table, key, row) == [k \in DOMAIN table \cup {key} |-> IF k = key THEN row ELSE table[k]]
Write == writes < MaxWrites /\ writes' = writes + 1
SetTable(t, key, row) == Write /\ tables' = [tables EXCEPT ![t] = PutRow(@, key, row)]
Token(c) == <<c, writes>>
Row(c) == [cols |-> Token(c), upd |-> Token(c), email |-> "none"]
RestOfDb == <<serials, audit, counter, issued, held>>

----------------------------------------------------------------------------
(* next_hlc: one UPDATE ... RETURNING. *)
next_hlc(c) ==
    /\ Write
    /\ counter' = counter + 1
    /\ issued' = [issued EXCEPT ![c] = @ \cup {counter + 1}]
    /\ UNCHANGED <<tables, serials, audit, held>>

(* ON CONFLICT (did) DO NOTHING; a second user with the e-mail of another    *)
(* DID breaks the UNIQUE constraint, which no clause absorbs: an error.      *)
insert_user(c, did, email) ==
    /\ did \notin DOMAIN tables["users"]
    /\ \A k \in DOMAIN tables["users"] : tables["users"][k].email # email
    /\ SetTable("users", did, [Row(c) EXCEPT !.email = email])
    /\ UNCHANGED RestOfDb

insert_agent(c, did) ==
    /\ did \notin DOMAIN tables["agents"]
    /\ SetTable("agents", did, Row(c))
    /\ UNCHANGED RestOfDb

insert_delegation(c, id) ==
    /\ id \notin DOMAIN tables["delegations"]
    /\ SetTable("delegations", id, Row(c))
    /\ UNCHANGED RestOfDb

(* ON CONFLICT DO UPDATE of some columns: the others stay the first ones. *)
Upsert_Whole(c, t, key) ==   \* mutant: a conflict replaces the whole row
    SetTable(t, key, Row(c)) /\ UNCHANGED RestOfDb

Upsert(c, t, key) ==
    /\ SetTable(t, key,
          IF key \in DOMAIN tables[t] THEN [tables[t][key] EXCEPT !.upd = Token(c)] ELSE Row(c))
    /\ UNCHANGED RestOfDb

insert_decision(c, id) == Upsert(c, "decisions", id)
upsert_decision(c, id) == insert_decision(c, id)
upsert_constitution(c, key) == Upsert(c, "constitutions", key)
upsert_identity_score(c, did) == Upsert(c, "identity_scores", did)
insert_livesafe_identity(c, did) == Upsert(c, "livesafe_identities", did)

(* No ON CONFLICT clause: a key that exists is an error. *)
Strict(c, t, key) ==
    /\ key \notin DOMAIN tables[t]
    /\ SetTable(t, key, Row(c))
    /\ UNCHANGED RestOfDb

insert_scan_receipt(c, id) == Strict(c, "scan_receipts", id)
insert_consent_anchor(c, id) == Strict(c, "consent_anchors", id)

(* UPDATE ... WHERE key: nothing happens to a key that is not there. *)
Update(c, t, key) ==
    /\ Schema[t].updated # {}
    /\ key \in DOMAIN tables[t]
    /\ SetTable(t, key, [tables[t][key] EXCEPT !.upd = Token(c)])
    /\ UNCHANGED RestOfDb

update_user_pace(c, did) == Update(c, "users", did)
update_agent_pace(c, did) == Update(c, "agents", did)
update_decision(c, id) == Update(c, "decisions", id)

Log(c, t) ==
    /\ Write
    /\ serials' = [serials EXCEPT ![t] = Append(@, Token(c))]
    /\ UNCHANGED <<tables, audit, counter, issued, held>>

insert_enrollment(c) == Log(c, "enrollment_log")
insert_trustee_shard(c) == Log(c, "trustee_shard_status")

----------------------------------------------------------------------------
(* A task appends to the audit chain with two calls: it reads the last entry *)
(* and later inserts the next one.  ON CONFLICT (sequence) DO NOTHING: the   *)
(* insertion of a task that another has overtaken succeeds and writes        *)
(* nothing.                                                                  *)
get_last_audit_entry(c) ==
    /\ held' = [held EXCEPT ![c] =
          <<IF audit = <<>> THEN [sequence |-> 0, entry_hash |-> Genesis]
            ELSE [sequence |-> Len(audit), entry_hash |-> audit[Len(audit)].entry_hash]>>]
    /\ UNCHANGED <<tables, serials, audit, counter, issued, writes>>

insert_audit_entry_Resequenced(c) ==   \* mutant: the sequence is drawn again, the hash is not
    /\ held[c] # <<>>
    /\ LET seq == Len(audit) + 1
       IN audit' = PutRow(audit, seq, [sequence |-> seq, prev_hash |-> held[c][1].entry_hash,
                                       entry_hash |-> <<seq, c>>])
    /\ Write
    /\ held' = [held EXCEPT ![c] = <<>>]
    /\ UNCHANGED <<tables, serials, counter, issued>>

insert_audit_entry(c) ==
    /\ held[c] # <<>>
    /\ LET seq == held[c][1].sequence + 1
       IN audit' = IF seq \in DOMAIN audit THEN audit
                   ELSE PutRow(audit, seq, [sequence |-> seq, prev_hash |-> held[c][1].entry_hash,
                                         entry_hash |-> <<seq, c>>])
    /\ Write
    /\ held' = [held EXCEPT ![c] = <<>>]
    /\ UNCHANGED <<tables, serials, counter, issued>>

----------------------------------------------------------------------------
(* What the queries return. *)
Rows(t) == {tables[t][k] : k \in DOMAIN tables[t]}
Find(t, key) == {tables[t][k] : k \in DOMAIN tables[t] \cap {key}}

find_user_by_email(email) == {r \in Rows("users") : r.email = email}
user_exists_by_email(email) == find_user_by_email(email) # {}
find_user_by_did(did) == Find("users", did)
find_agent_by_did(did) == Find("agents", did)
find_decision(id) == Find("decisions", id)
get_identity_score(did) == Find("identity_scores", did)
get_livesafe_identity(did) == Find("livesafe_identities", did)
count_users == Cardinality(DOMAIN tables["users"])
count_audit_entries == Len(audit)
check_actor_in_audit(c) == \E i \in DOMAIN audit : audit[i].entry_hash[2] = c
(* revoked_at IS NULL, and no statement ever sets it; expiry is not looked   *)
(* at: a delegation once stored is active for good.                          *)
has_active_delegation(id) == Find("delegations", id) # {}

DbNext(t) ==
    \E c \in Tasks :
       \/ t = "hlc_state" /\ next_hlc(c)
       \/ t = "audit_entries" /\ (get_last_audit_entry(c) \/ insert_audit_entry(c))
       \/ t = "enrollment_log" /\ insert_enrollment(c)
       \/ t = "trustee_shard_status" /\ insert_trustee_shard(c)
       \/ \E k \in Keys :
             \/ t = "users" /\ (update_user_pace(c, k) \/ \E e \in Emails : insert_user(c, k, e))
             \/ t = "agents" /\ (insert_agent(c, k) \/ update_agent_pace(c, k))
             \/ t = "delegations" /\ insert_delegation(c, k)
             \/ t = "decisions" /\ (upsert_decision(c, k) \/ update_decision(c, k))
             \/ t = "constitutions" /\ upsert_constitution(c, k)
             \/ t = "identity_scores" /\ upsert_identity_score(c, k)
             \/ t = "livesafe_identities" /\ insert_livesafe_identity(c, k)
             \/ t = "scan_receipts" /\ insert_scan_receipt(c, k)
             \/ t = "consent_anchors" /\ insert_consent_anchor(c, k)

DbTables == KeyTables \cup SerialTables \cup {"hlc_state", "audit_entries"}

DbSpec == DbInit /\ [][\E t \in DbTables : DbNext(t)]_dbVars

----------------------------------------------------------------------------
(* Tasks that read the last audit entry at the same time race for the same   *)
(* sequence.  Whoever loses, the table stays one unbroken chain from the     *)
(* genesis digest (db.rs:392-440); an entry may be lost, never overwritten.  *)
AuditTableChained ==
    \A i \in DOMAIN audit :
       /\ audit[i].sequence = i
       /\ audit[i].prev_hash = (IF i = 1 THEN Genesis ELSE audit[i - 1].entry_hash)

(* No two calls of next_hlc, by whichever tasks, are given the same value,   *)
(* and no e-mail leads to two users, so that a login finds one account.      *)
RowsUnique ==
    /\ \A c, d \in Tasks : c # d => issued[c] \cap issued[d] = {}
    /\ Cardinality(UNION {issued[c] : c \in Tasks}) = counter
    /\ \A e \in Emails : Cardinality(find_user_by_email(e)) <= 1

(* Whatever races, every table keeps its type, the audit table is one chain, *)
(* and counters and accounts are told apart.                                 *)
RacesHarmless == DbTypeOK /\ AuditTableChained /\ RowsUnique

(* Of every step: a row's own columns are those of its first insertion for   *)
(* good, no row is removed, and no audit entry changes.                      *)
FirstWriteStands ==
    /\ \A t \in KeyTables : \A k \in DOMAIN tables[t] :
          /\ k \in DOMAIN tables'[t]
          /\ tables'[t][k].cols = tables[t][k].cols /\ tables'[t][k].email = tables[t][k].email
    /\ \A i \in DOMAIN audit : i \in DOMAIN audit' /\ audit'[i] = audit[i]
============================================================================
