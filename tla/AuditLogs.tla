----------------------------- MODULE AuditLogs ------------------------------
(***************************************************************************)
(* The hash-chained logs: exo-governance audit.rs and custody.rs, and       *)
(* exo-gatekeeper mcp_audit.rs.  The audit log and the MCP log are the same *)
(* algorithm over different fields: a writer takes the head hash when it    *)
(* creates an entry, and the append is refused if the head has moved.       *)
(*                                                                         *)
(* The hash function is collision-free, but what it is given is not framed: *)
(* the texts of an entry are run together, and two entries that break one   *)
(* text up differently have one digest.  A text is a sequence of syllables. *)
(* The fields of fixed width, which no text can run into, are the number of *)
(* an entry's creation (id, time, evidence hash) and the chain hash.        *)
(***************************************************************************)
EXTENDS Integers, FiniteSets, Sequences, SequencesExt

CONSTANTS
    Writers,
    Facts,     \* what an entry says: the texts actor, action and result
    McpFacts,  \* what an MCP record says: rule, actor, outcome and region
    NoRegion,  \* None, for the data residency region
    Roles,     \* the role and signature of a custody event
    MaxCreated,  \* bound on the entries created
    MaxLog     \* bound on the length of the custody chain

ASSUME AuditAssumption == MaxLog \in Nat /\ MaxCreated \in Nat

Zero == <<>>   \* [0; 32], and the missing prev_event_hash
LogNames == {"audit", "mcp"}

VARIABLES
    logs,     \* name -> entries
    created,  \* entries created so far: the id and time of the last
    drafts,   \* writer -> entries created and not yet appended, at most one
    events    \* the custody chain

logVars == <<logs, created, drafts, events>>

----------------------------------------------------------------------------
(* audit.rs *)
EntryText(f) == f.actor \o f.action \o f.result

hash_entry(e) == <<e.at, EntryText(e.fact), e.chain_hash>>

(* mcp_audit.rs; the region is hashed only if it is there, so that no region and
   an empty one look the same. *)
McpEnforcementOutcome == {"Allowed", "Blocked", "Escalated"}

RecordText(f) ==
    <<f.rule>> \o f.actor \o <<f.outcome>> \o (IF f.region = NoRegion THEN <<>> ELSE f.region)

hash_record(r) == <<r.at, RecordText(r.fact), r.chain_hash>>

Digest(name, e) == IF name = "mcp" THEN hash_record(e) ELSE hash_entry(e)

(* The same in both files: the head, an entry that follows it, the test of
   append, and the verification. *)
head_hash(name, log) == IF log = <<>> THEN Zero ELSE Digest(name, Last(log))

create_entry(name, fact) ==
    [fact |-> fact, at |-> created + 1, chain_hash |-> head_hash(name, logs[name])]

(* Mutant: the head may have moved since the entry was created. *)
Accepts_Stale(name, e) == TRUE

Accepts(name, e) == e.chain_hash = head_hash(name, logs[name])

verify_chain(name, log) ==
    \A i \in DOMAIN log :
       log[i].chain_hash = IF i = 1 THEN Zero ELSE Digest(name, log[i - 1])

Create(w, name, fact) ==
    /\ drafts[w] = {}
    /\ created < MaxCreated
    /\ created' = created + 1
    /\ drafts' = [drafts EXCEPT ![w] = {<<name, create_entry(name, fact)>>}]
    /\ UNCHANGED <<logs, events>>

(* Mutant: an entry that follows no more replaces the last one. *)
append_Replaces(w) ==
    \E d \in drafts[w] :
       /\ logs' = [logs EXCEPT ![d[1]] =
             Append(IF Accepts(d[1], d[2]) THEN @ ELSE Front(@), d[2])]
       /\ drafts' = [drafts EXCEPT ![w] = {}]
       /\ UNCHANGED <<created, events>>

(* The entry is moved into append, and lost if it is refused. *)
append(w) ==
    \E d \in drafts[w] :
       /\ logs' = IF Accepts(d[1], d[2])
                  THEN [logs EXCEPT ![d[1]] = Append(@, d[2])] ELSE logs
       /\ drafts' = [drafts EXCEPT ![w] = {}]
       /\ UNCHANGED <<created, events>>

----------------------------------------------------------------------------
(* custody.rs; role and signature are not hashed.  Of what is hashed only the
   actor has no fixed width, and the previous hash is missing only where the
   sequence number is 0: the fields cannot run into each other. *)
compute_event_hash(sequence, prev, fact) == <<sequence, prev, fact>>

CustodyEvent(chain, fact, role) ==
    LET prev == IF chain = <<>> THEN Zero ELSE Last(chain).event_hash
    IN  [sequence |-> Len(chain), prev_event_hash |-> prev, fact |-> fact, role |-> role,
         event_hash |-> compute_event_hash(Len(chain), prev, fact)]

custody_append(fact, role) ==
    /\ Len(events) < MaxLog
    /\ events' = Append(events, CustodyEvent(events, fact, role))
    /\ UNCHANGED <<logs, drafts, created>>

verify_integrity(chain) ==
    \A i \in DOMAIN chain :
       LET e == chain[i]
       IN  /\ e.sequence = i - 1
           /\ e.prev_event_hash = IF i = 1 THEN Zero ELSE chain[i - 1].event_hash
           /\ e.event_hash = compute_event_hash(e.sequence, e.prev_event_hash, e.fact)

----------------------------------------------------------------------------
FactsOf(name) == IF name = "mcp" THEN McpFacts ELSE Facts

LogInit ==
    /\ logs = [n \in LogNames |-> <<>>]
    /\ created = 0
    /\ drafts = [w \in Writers |-> {}]
    /\ events = <<>>

LogNext ==
    \/ \E w \in Writers, n \in LogNames : \E fact \in FactsOf(n) : Create(w, n, fact)
    \/ \E w \in Writers : append(w)
    \/ \E fact \in Facts, role \in Roles : custody_append(fact, role)

LogSpec == LogInit /\ [][LogNext]_logVars

----------------------------------------------------------------------------
LogTypeOK ==
    /\ DOMAIN logs = LogNames /\ created \in 0..MaxCreated
    /\ \A n \in LogNames : \A i \in DOMAIN logs[n] :
          logs[n][i].fact \in FactsOf(n) /\ logs[n][i].at \in 1..created
    /\ \A i \in DOMAIN events : events[i].fact \in Facts /\ events[i].role \in Roles

(* Writers race for the head and some appends are refused: each log verifies
   whatever happened, and lists its entries in the order they were created. *)
LogsInOrder ==
    /\ \A n \in LogNames :
          /\ verify_chain(n, logs[n])
          /\ \A i, j \in DOMAIN logs[n] : i < j => logs[n][i].at < logs[n][j].at
    /\ verify_integrity(events)

(* Each log is an append-only list of facts: a refused append leaves it as it
   was, and no append replaces or drops one. *)
Says(log) == [i \in DOMAIN log |-> log[i].fact]
AuditHistory == INSTANCE AppendOnly WITH Record <- Facts, history <- Says(logs["audit"])
McpHistory == INSTANCE AppendOnly WITH Record <- McpFacts, history <- Says(logs["mcp"])
CustodyHistory == INSTANCE AppendOnly WITH Record <- Facts, history <- Says(events)
LogsAppendOnly ==
    /\ AuditHistory!AppendOnlySpec
    /\ McpHistory!AppendOnlySpec
    /\ CustodyHistory!AppendOnlySpec

(* The copies of a log one change away: an entry said something else, one was
   removed, two changed places. *)
Altered(log, facts) ==
    {ReplaceAt(log, i, [log[i] EXCEPT !.fact = f]) : i \in DOMAIN log, f \in facts}
Shortened(log) == {RemoveAt(log, i) : i \in DOMAIN log}
Swapped(log) == {[log EXCEPT ![i] = log[j], ![j] = log[i]] : i, j \in DOMAIN log}

Text(name, fact) == IF name = "mcp" THEN RecordText(fact) ELSE EntryText(fact)

(* The copy has the entries of the log, each with its text broken up in its own way. *)
ReadsAlike(name, copy, log) ==
    /\ DOMAIN copy = DOMAIN log
    /\ \A i \in DOMAIN log :
          /\ Text(name, copy[i].fact) = Text(name, log[i].fact)
          /\ copy[i].at = log[i].at /\ copy[i].chain_hash = log[i].chain_hash

(* verify_chain, verify_integrity: of a log that was altered, shortened or
   reordered, only these versions pass the verification: all but the last entry
   is as it was, or every entry still reads the same when its fields are run
   together (audit.rs and mcp_audit.rs hash them without separators).  A custody
   chain carries the digest of its last event and no text of it can run into
   another: only the chain itself passes, and the chain without its last event. *)
TamperingShows ==
    /\ \A n \in LogNames :
         LET log == logs[n]
         IN  \A copy \in Altered(log, FactsOf(n)) \cup Shortened(log) \cup Swapped(log) :
               verify_chain(n, copy) => Front(log) \in {copy, Front(copy)} \/ ReadsAlike(n, copy, log)
    /\ \A copy \in Altered(events, Facts) \cup Shortened(events) \cup Swapped(events) :
         verify_integrity(copy) => copy = events \/ copy = Front(events)
=============================================================================
