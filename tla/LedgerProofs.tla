---------------------------- MODULE LedgerProofs ----------------------------
(***************************************************************************)
(* Of the hybrid logical clock: causal order and bounded drift, for any    *)
(* set of processes, any wall clocks and any delivery of stamps.           *)
(*                                                                         *)
(* Of the DAG and its stores: the DAG is acyclic with a single genesis,    *)
(* every store is causally ordered and every index exact, for any          *)
(* creators, hashes, timestamps and deliveries.  None of it needs the      *)
(* assumption that the DAG clock's counter does not wrap; the order of a   *)
(* creator's own nodes does.                                               *)
(***************************************************************************)
EXTENDS DagLedger, HLC, TLAPS

(* The hybrid logical clock (HLC). *)

(* saturating_add(1) stays within u32 and only fails to advance at the top. *)
LEMMA SaturatingInc ==
    ASSUME NEW l \in 0..LogicalMax
    PROVE  /\ saturating_inc(l) \in 0..LogicalMax
           /\ saturating_inc(l) > l \/ (saturating_inc(l) = l /\ l = LogicalMax)
BY LogicalAssumption DEF saturating_inc

(* Timestamps are transitively ordered. *)
LEMMA NotAfterTransitive ==
    ASSUME NEW a \in Timestamp, NEW b \in Timestamp, NEW c \in Timestamp,
           NotAfter(a, b)
    PROVE  /\ NotAfter(b, c) => NotAfter(a, c)
           /\ Before(b, c) => Before(a, c)
BY LogicalAssumption DEF NotAfter, Before, Timestamp

(* b is a stamp that may be returned when a is in the past. *)
Advances(a, b) == Before(a, b) \/ (a = b /\ a.logical = LogicalMax)

LEMMA NotAfterAdvances ==
    ASSUME NEW a \in Timestamp, NEW b \in Timestamp, NEW c \in Timestamp,
           NotAfter(a, b), Advances(b, c)
    PROVE  Advances(a, c)
BY LogicalAssumption DEF NotAfter, Before, Timestamp, Advances

(* `now' returns a later stamp, within the drift of the wall readings. *)
LEMMA NowAdvances ==
    ASSUME HlcTypeOK, BoundedDrift, NEW p \in Processes, NEW wall \in Wall
    PROVE  /\ NowStamp(p, wall) \in Timestamp
           /\ Advances(Clock(p), NowStamp(p, wall))
           /\ NowStamp(p, wall).physical_ms
                 <= (IF wall > peak[p] THEN wall ELSE peak[p]) + MAX_DRIFT_MS
<1>1. physical[p] \in Nat /\ logical[p] \in 0..LogicalMax /\ peak[p] \in Nat
  BY DEF HlcTypeOK
<1>2. wall \in Nat /\ MAX_DRIFT_MS \in Nat
  BY ClockAssumption DEF Wall
<1>3. physical[p] <= peak[p] + MAX_DRIFT_MS
  BY DEF BoundedDrift
<1>4. CASE wall > physical[p]
  BY <1>1, <1>2, <1>4, LogicalAssumption
     DEF NowStamp, Advances, Before, Clock, Timestamp
<1>5. CASE ~(wall > physical[p])
  <2>1. NowStamp(p, wall) = [physical_ms |-> physical[p],
                             logical |-> saturating_inc(logical[p])]
    BY <1>5 DEF NowStamp
  <2> QED BY <1>1, <1>2, <1>3, <2>1, SaturatingInc
             DEF Advances, Before, Clock, Timestamp
<1> QED BY <1>4, <1>5

(* A successful `update' returns a stamp later than the local clock and than
   the remote stamp, within the drift of the wall readings. *)
LEMMA UpdateAdvances ==
    ASSUME HlcTypeOK, BoundedDrift, NEW p \in Processes, NEW wall \in Wall,
           NEW remote \in Timestamp, WithinDrift(p, remote, wall)
    PROVE  /\ UpdateStamp(p, remote, wall) \in Timestamp
           /\ Advances(Clock(p), UpdateStamp(p, remote, wall))
           /\ Advances(remote, UpdateStamp(p, remote, wall))
           /\ UpdateStamp(p, remote, wall).physical_ms
                 <= (IF wall > peak[p] THEN wall ELSE peak[p]) + MAX_DRIFT_MS
<1> DEFINE U == UpdateStamp(p, remote, wall)
<1>1. physical[p] \in Nat /\ logical[p] \in 0..LogicalMax /\ peak[p] \in Nat
  BY DEF HlcTypeOK
<1>2. wall \in Nat /\ MAX_DRIFT_MS \in Nat
  BY ClockAssumption DEF Wall
<1>3. /\ physical[p] <= peak[p] + MAX_DRIFT_MS
      /\ remote.physical_ms <= wall + MAX_DRIFT_MS
  BY DEF BoundedDrift, WithinDrift
<1>4. /\ remote.physical_ms \in Nat
      /\ remote.logical \in 0..LogicalMax
      /\ remote = [physical_ms |-> remote.physical_ms, logical |-> remote.logical]
  BY DEF Timestamp
<1>5. CASE wall > physical[p] /\ wall > remote.physical_ms
  BY <1>1, <1>2, <1>4, <1>5, LogicalAssumption
     DEF UpdateStamp, Advances, Before, Clock, Timestamp
<1>6. CASE /\ ~(wall > physical[p] /\ wall > remote.physical_ms)
           /\ physical[p] = remote.physical_ms
  <2> DEFINE m == IF logical[p] > remote.logical THEN logical[p] ELSE remote.logical
  <2>1. U = [physical_ms |-> physical[p], logical |-> saturating_inc(m)]
    BY <1>6 DEF UpdateStamp
  <2>2. m \in 0..LogicalMax /\ logical[p] <= m /\ remote.logical <= m
    BY <1>1, <1>4
  <2>3. /\ saturating_inc(m) \in 0..LogicalMax
        /\ saturating_inc(m) > m \/ (saturating_inc(m) = m /\ m = LogicalMax)
    BY <2>2, SaturatingInc
  <2> HIDE DEF m, U
  <2>4. U \in Timestamp /\ U.physical_ms = physical[p] /\ U.logical = saturating_inc(m)
    BY <2>1, <2>3, <1>1 DEF Timestamp
  <2>5. Advances(Clock(p), U)
    BY <2>1, <2>2, <2>3, <1>1, LogicalAssumption DEF Advances, Before, Clock
  <2>6. Advances(remote, U)
    BY <2>1, <2>2, <2>3, <1>1, <1>4, <1>6, LogicalAssumption DEF Advances, Before
  <2>7. U.physical_ms <= (IF wall > peak[p] THEN wall ELSE peak[p]) + MAX_DRIFT_MS
    BY <2>4, <1>1, <1>2, <1>3
  <2> QED BY <2>4, <2>5, <2>6, <2>7 DEF U
<1>7. CASE /\ ~(wall > physical[p] /\ wall > remote.physical_ms)
           /\ remote.physical_ms > physical[p]
  <2>1. U = [physical_ms |-> remote.physical_ms, logical |-> saturating_inc(remote.logical)]
    BY <1>7, <1>1, <1>4 DEF UpdateStamp
  <2>2. /\ saturating_inc(remote.logical) \in 0..LogicalMax
        /\ \/ saturating_inc(remote.logical) > remote.logical
           \/ saturating_inc(remote.logical) = remote.logical /\ remote.logical = LogicalMax
    BY <1>4, SaturatingInc
  <2> HIDE DEF U
  <2>3. U \in Timestamp
    BY <2>1, <2>2, <1>4 DEF Timestamp
  <2>4. Advances(Clock(p), U)
    BY <2>1, <2>2, <1>1, <1>4, <1>7 DEF Advances, Before, Clock
  <2>5. Advances(remote, U)
    BY <2>1, <2>2, <1>4 DEF Advances, Before
  <2>6. U.physical_ms <= (IF wall > peak[p] THEN wall ELSE peak[p]) + MAX_DRIFT_MS
    BY <2>1, <1>1, <1>2, <1>3, <1>4
  <2> QED BY <2>3, <2>4, <2>5, <2>6 DEF U
<1>8. CASE /\ ~(wall > physical[p] /\ wall > remote.physical_ms)
           /\ remote.physical_ms < physical[p]
  <2>1. U = [physical_ms |-> physical[p], logical |-> saturating_inc(logical[p])]
    BY <1>8, <1>1, <1>4 DEF UpdateStamp
  <2>2. /\ saturating_inc(logical[p]) \in 0..LogicalMax
        /\ \/ saturating_inc(logical[p]) > logical[p]
           \/ saturating_inc(logical[p]) = logical[p] /\ logical[p] = LogicalMax
    BY <1>1, SaturatingInc
  <2> HIDE DEF U
  <2>3. U \in Timestamp
    BY <2>1, <2>2, <1>1 DEF Timestamp
  <2>4. Advances(Clock(p), U)
    BY <2>1, <2>2, <1>1 DEF Advances, Before, Clock
  <2>5. Advances(remote, U)
    BY <2>1, <2>2, <1>1, <1>4, <1>8 DEF Advances, Before
  <2>6. U.physical_ms <= (IF wall > peak[p] THEN wall ELSE peak[p]) + MAX_DRIFT_MS
    BY <2>1, <1>1, <1>2, <1>3
  <2> QED BY <2>3, <2>4, <2>5, <2>6 DEF U
<1> QED BY <1>5, <1>6, <1>7, <1>8, <1>1, <1>4

(* Returning a stamp that advances over the clock and over everything seen
   keeps the invariant. *)
LEMMA ReturnInv ==
    ASSUME ClockInv, NEW p \in Processes, NEW wall \in Wall,
           NEW c \in Timestamp, NEW seen \in SUBSET Timestamp,
           Advances(Clock(p), c),
           \A t \in seen : Advances(t, c),
           c.physical_ms <= (IF wall > peak[p] THEN wall ELSE peak[p]) + MAX_DRIFT_MS,
           Return(p, c, wall, seen)
    PROVE  ClockInv'
<1> USE DEF ClockInv
<1>1. Clock(p)' = c
  <2>1. c = [physical_ms |-> c.physical_ms, logical |-> c.logical]
    BY DEF Timestamp
  <2>2. physical'[p] = c.physical_ms /\ logical'[p] = c.logical
    BY DEF Return, HlcTypeOK
  <2> QED BY <2>1, <2>2 DEF Clock
<1>2. \A q \in Processes \ {p} : Clock(q)' = Clock(q) /\ past'[q] = past[q]
  BY DEF Return, HlcTypeOK, Clock
<1>3. past'[p] = past[p] \cup seen \cup {c}
  BY DEF Return, HlcTypeOK
<1>4. Clock(p) \in Timestamp /\ past[p] \subseteq Timestamp
  BY DEF HlcTypeOK, Clock, Timestamp
<1>5. \A t \in past[p] \cup seen : Advances(t, c)
  <2> SUFFICES ASSUME NEW t \in past[p] PROVE Advances(t, c)
    OBVIOUS
  <2>1. t \in Timestamp /\ NotAfter(t, Clock(p))
    BY <1>4 DEF PastNotAhead
  <2> QED BY <2>1, <1>4, NotAfterAdvances
<1>6. HlcTypeOK'
  <2>1. physical' \in [Processes -> Nat] /\ logical' \in [Processes -> 0..LogicalMax]
    BY DEF Return, HlcTypeOK, Timestamp
  <2>2. peak' \in [Processes -> Nat]
    BY DEF Return, HlcTypeOK, Wall
  <2>3. past' \in [Processes -> SUBSET Timestamp]
    BY DEF Return, HlcTypeOK
  <2>4. events' \subseteq Event
    BY <1>4 DEF Return, HlcTypeOK, Event
  <2>5. calls' \in Nat
    BY DEF Return, HlcTypeOK
  <2> QED BY <2>1, <2>2, <2>3, <2>4, <2>5 DEF HlcTypeOK
<1>7. PastNotAhead'
  <2> SUFFICES ASSUME NEW q \in Processes, NEW t \in past'[q]
               PROVE  NotAfter(t, Clock(q)')
    BY DEF PastNotAhead
  <2>1. CASE q # p
    BY <2>1, <1>2 DEF PastNotAhead
  <2>2. CASE q = p
    BY <2>2, <1>1, <1>3, <1>5 DEF NotAfter, Advances
  <2> QED BY <2>1, <2>2
<1>8. CausalOrder'
  <2>1. events' = events \cup {[stamp |-> c, past |-> past[p] \cup seen]}
    BY DEF Return
  <2> QED BY <2>1, <1>5 DEF CausalOrder, Advances
<1>9. BoundedDrift'
  <2> SUFFICES ASSUME NEW q \in Processes
               PROVE  physical'[q] <= peak'[q] + MAX_DRIFT_MS
    BY DEF BoundedDrift
  <2>1. CASE q # p
    BY <2>1 DEF BoundedDrift, Return, HlcTypeOK
  <2>2. CASE q = p
    BY <2>2 DEF Return, HlcTypeOK
  <2> QED BY <2>1, <2>2
<1> QED BY <1>6, <1>7, <1>8, <1>9

(* A stamp that advances over one of the model's events advances over the
   whole past of that event. *)
LEMMA EventPast ==
    ASSUME ClockInv, NEW e \in events, NEW c \in Timestamp, Advances(e.stamp, c)
    PROVE  \A t \in e.past : Advances(t, c)
<1> SUFFICES ASSUME NEW t \in e.past PROVE Advances(t, c)
  OBVIOUS
<1>1. e.stamp \in Timestamp /\ t \in Timestamp
  BY DEF ClockInv, HlcTypeOK, Event
<1>2. NotAfter(t, e.stamp)
  BY DEF ClockInv, CausalOrder, NotAfter
<1> QED BY <1>1, <1>2, NotAfterAdvances

(* Every step preserves the invariant. *)
LEMMA ClockNextInv == ClockInv /\ [HlcNext]_hlcVars => ClockInv'
<1> SUFFICES ASSUME ClockInv, [HlcNext]_hlcVars PROVE ClockInv'
  OBVIOUS
<1>0. HlcTypeOK /\ BoundedDrift
  BY DEF ClockInv
<1>1. ASSUME NEW p \in Processes, NEW wall \in Wall, now(p, wall)
      PROVE  ClockInv'
  <2>1. Return(p, NowStamp(p, wall), wall, {})
    BY <1>1 DEF now
  <2> QED BY <2>1, <1>0, NowAdvances, ReturnInv
<1>2. ASSUME NEW p \in Processes, NEW wall \in Wall, NEW e \in events, update(p, e, wall)
      PROVE  ClockInv'
  <2> DEFINE U == UpdateStamp(p, e.stamp, wall)
             seen == e.past \cup {e.stamp}
  <2>1. e.stamp \in Timestamp /\ seen \in SUBSET Timestamp
    BY <1>0 DEF HlcTypeOK, Event
  <2>2. WithinDrift(p, e.stamp, wall) /\ Return(p, U, wall, seen)
    BY <1>2 DEF update
  <2>3. /\ U \in Timestamp /\ Advances(Clock(p), U) /\ Advances(e.stamp, U)
        /\ U.physical_ms <= (IF wall > peak[p] THEN wall ELSE peak[p]) + MAX_DRIFT_MS
    BY <2>1, <2>2, <1>0, UpdateAdvances
  <2> HIDE DEF U
  <2>4. \A t \in seen : Advances(t, U)
    BY <2>3, EventPast
  <2> HIDE DEF seen
  <2> QED BY <2>1, <2>2, <2>3, <2>4, ReturnInv
<1>3. ASSUME NEW p \in Processes, NEW wall \in Wall, NEW remote \in Remotes,
             update_foreign(p, remote, wall)
      PROVE  ClockInv'
  <2> DEFINE U == UpdateStamp(p, remote, wall)
  <2>1. remote \in Timestamp /\ {remote} \in SUBSET Timestamp
    BY ClockAssumption
  <2>2. WithinDrift(p, remote, wall) /\ Return(p, U, wall, {remote})
    BY <1>3 DEF update_foreign
  <2>3. /\ U \in Timestamp /\ Advances(Clock(p), U) /\ Advances(remote, U)
        /\ U.physical_ms <= (IF wall > peak[p] THEN wall ELSE peak[p]) + MAX_DRIFT_MS
    BY <2>1, <2>2, <1>0, UpdateAdvances
  <2> HIDE DEF U
  <2>4. \A t \in {remote} : Advances(t, U)
    BY <2>3
  <2> QED BY <2>1, <2>2, <2>3, <2>4, ReturnInv
<1>4. CASE UNCHANGED hlcVars
  BY <1>4 DEF hlcVars, ClockInv, HlcTypeOK, PastNotAhead, CausalOrder, BoundedDrift, Clock
<1> QED BY <1>1, <1>2, <1>3, <1>4 DEF HlcNext

(* Fresh clocks satisfy the invariant: nothing has been stamped yet. *)
LEMMA ClockInitInv == HlcInit => ClockInv
BY LogicalAssumption, ClockAssumption
   DEF HlcInit, ClockInv, HlcTypeOK, PastNotAhead, CausalOrder, BoundedDrift

(* The inductive invariant holds in every state. *)
THEOREM ClockInvariant == HlcSpec => []ClockInv
BY ClockInitInv, ClockNextInv, PTL DEF HlcSpec

(* Every clock stays a timestamp: now and update keep the counter to its width. *)
THEOREM ClocksTypeCorrect == HlcSpec => []HlcTypeOK
<1>1. ClockInv => HlcTypeOK
  BY DEF ClockInv
<1> QED BY <1>1, ClockInvariant, PTL

(* Stamps respect causality across processes up to counter saturation. *)
THEOREM Causality == HlcSpec => []CausalOrder
<1>1. ClockInv => CausalOrder
  BY DEF ClockInv
<1> QED BY <1>1, ClockInvariant, PTL

(* No chain of relayed stamps pushes a clock past the drift tolerance. *)
THEOREM DriftIsBounded == HlcSpec => []BoundedDrift
<1>1. ClockInv => BoundedDrift
  BY DEF ClockInv
<1> QED BY <1>1, ClockInvariant, PTL

-----------------------------------------------------------------------------
(* The DAG and its stores (DagLedger). *)

LedgerInv == TypeOK /\ OneRootedDag /\ StoreCausal /\ HeightCoversCommitted

(* Ticking keeps a timestamp within its type, also when the counter wraps. *)
LEMMA TickType == ASSUME NEW t \in Timestamp PROVE tick(t) \in Timestamp
<1>1. (t.logical + 1) % (LogicalMax + 1) \in 0..LogicalMax
  BY LogicalAssumption DEF Timestamp
<1> QED BY <1>1 DEF tick, Timestamp

(* A node that is not its own parent and whose parents are all in a
   parent-closed, well-founded set can be added to it. *)
LEMMA AddNode ==
    ASSUME NEW C, NEW S, NEW h, h \notin C[h].parents, C[h].parents \subseteq S,
           ParentClosed(C, S), WellFounded(C, S)
    PROVE  ParentClosed(C, S \cup {h}) /\ WellFounded(C, S \cup {h})
<1>1. ParentClosed(C, S \cup {h})
  BY DEF ParentClosed
<1>2. CASE h \in S
  <2>1. S \cup {h} = S
    BY <1>2
  <2> QED BY <2>1
<1>3. CASE h \notin S
  <2> SUFFICES ASSUME NEW T \in SUBSET (S \cup {h}), T # {}
               PROVE  \E g \in T : C[g].parents \cap T = {}
    BY <1>1 DEF WellFounded
  <2>1. CASE T = {h}
    BY <2>1
  <2>2. CASE T # {h}
    <3>1. T \ {h} \in SUBSET S /\ T \ {h} # {}
      BY <2>2
    <3>2. PICK g \in T \ {h} : C[g].parents \cap (T \ {h}) = {}
      BY <3>1 DEF WellFounded
    <3>3. h \notin C[g].parents
      BY <3>1, <1>3 DEF ParentClosed
    <3> QED BY <3>2, <3>3
  <2> QED BY <2>1, <2>2
<1> QED BY <1>2, <1>3

(* A node over a non-empty rooted set (or the first node of an empty one)
   keeps a common root. *)
LEMMA AddRooted ==
    ASSUME NEW C, NEW S, NEW h, h \notin S, C[h].parents \subseteq S,
           C[h].parents = {} => S = {},
           ParentClosed(C, S), CommonRoot(C, S)
    PROVE  CommonRoot(C, S \cup {h})
<1> SUFFICES ASSUME NEW A \in SUBSET (S \cup {h}), NEW B \in SUBSET (S \cup {h}),
                    A # {}, B # {}, ParentClosed(C, A), ParentClosed(C, B)
             PROVE  A \cap B # {}
  BY DEF CommonRoot
<1>1. CASE S = {}
  BY <1>1
<1>2. CASE S # {}
  <2>1. ASSUME NEW X \in SUBSET (S \cup {h}), X # {}, ParentClosed(C, X)
        PROVE  X \ {h} \in SUBSET S /\ X \ {h} # {} /\ ParentClosed(C, X \ {h})
    <3>1. X \ {h} # {}
      BY <2>1, <1>2 DEF ParentClosed
    <3>2. \A g \in X \ {h} : C[g].parents \subseteq X /\ h \notin C[g].parents
      BY <2>1 DEF ParentClosed
    <3> QED BY <3>1, <3>2 DEF ParentClosed
  <2>2. (A \ {h}) \cap (B \ {h}) # {}
    BY <2>1 DEF CommonRoot
  <2> QED BY <2>2
<1> QED BY <1>1, <1>2

(* What is known of a set of hashes does not depend on the rest of the table. *)
LEMMA SameStructure ==
    ASSUME NEW C, NEW D, NEW S, \A g \in S : C[g] = D[g]
    PROVE  /\ ParentClosed(C, S) => ParentClosed(D, S)
           /\ WellFounded(C, S) => WellFounded(D, S)
           /\ CommonRoot(C, S) => CommonRoot(D, S)
<1>1. ParentClosed(C, S) => ParentClosed(D, S)
  BY DEF ParentClosed
<1>2. WellFounded(C, S) => WellFounded(D, S)
  BY DEF WellFounded
<1>3. CommonRoot(C, S) => CommonRoot(D, S)
  <2>1. \A A \in SUBSET S : ParentClosed(D, A) => ParentClosed(C, A)
    BY DEF ParentClosed
  <2> QED BY <2>1 DEF CommonRoot
<1> QED BY <1>1, <1>2, <1>3

(* A new hash leaves the contents of the known ones alone. *)
LEMMA DefineKeeps ==
    ASSUME TypeOK, NEW h \in Hashes, h \notin Known, NEW n \in DagNode, Define(h, n)
    PROVE  /\ Known' = Known \cup {h}
           /\ content' \in [Known' -> DagNode]
           /\ content'[h] = n
           /\ \A g \in Known : content'[g] = content[g]
<1>1. content' = [g \in Known \cup {h} |-> IF g = h THEN n ELSE content[g]]
  BY DEF Define, Insert, Known
<1>2. Known' = Known \cup {h}
  BY <1>1 DEF Known
<1>3. content \in [Known -> DagNode]
  BY DEF TypeOK
<1> HIDE DEF Known
<1> QED BY <1>1, <1>2, <1>3

(* What the stores hold does not depend on the DAG and the contents made. *)
LEMMA StoresUnchanged ==
    ASSUME LedgerInv, UNCHANGED storeVars
    PROVE  StoreCausal' /\ HeightCoversCommitted'
<1>1. HeightCoversCommitted'
  BY DEF LedgerInv, HeightCoversCommitted, storeVars, Stored
<1>2. StoreCausal'
  BY DEF LedgerInv, StoreCausal, storeVars, Stored
<1> QED BY <1>1, <1>2

(* The stores keep their types while hashes are only added. *)
LEMMA StoreTypes ==
    ASSUME TypeOK, UNCHANGED <<store, links, replaced>>, Known \subseteq Known'
    PROVE  /\ DOMAIN store' = Replicas
           /\ \A r \in Replicas : /\ store'[r] \in [Stored(r)' -> DagNode]
                                  /\ Stored(r)' \subseteq Known'
           /\ links' \in [Replicas -> SUBSET (Known' \X Known')]
           /\ replaced' \in [Replicas -> SUBSET Known']
<1> HIDE DEF Known
<1>1. links' \in [Replicas -> SUBSET (Known' \X Known')]
  BY DEF TypeOK
<1>2. replaced' \in [Replicas -> SUBSET Known']
  BY DEF TypeOK
<1> QED BY <1>1, <1>2 DEF TypeOK, Stored

(* `append' keeps the invariant, whether it adds a node or finds it there. *)
LEMMA AppendInv ==
    ASSUME LedgerInv, NEW c \in Creators, NEW P \in SUBSET Known, NEW h \in Hashes,
           append(c, P, h)
    PROVE  LedgerInv'
<1> DEFINE n == [parents |-> P, creator |-> c, timestamp |-> tick(clock[c])]
<1>0. TypeOK /\ OneRootedDag
  BY DEF LedgerInv
<1>1. n \in DagNode /\ n.parents = P /\ n.timestamp \in Timestamp
  <2>1. tick(clock[c]) \in Timestamp
    BY <1>0, TickType DEF TypeOK
  <2>2. P \subseteq Hashes
    BY <1>0 DEF TypeOK
  <2> QED BY <2>1, <2>2 DEF DagNode
<1>2. /\ AcceptsParents(P)
      /\ ticks < MaxTicks /\ ticks' = ticks + 1
      /\ clock' = [clock EXCEPT ![c] = n.timestamp]
      /\ UNCHANGED storeVars
  BY DEF append
<1>3. clock' \in [Creators -> Timestamp] /\ ticks' \in 0..MaxTicks
  BY <1>0, <1>1, <1>2, LedgerAssumption DEF TypeOK
<1>4. CASE \E g \in nodes : content[g] = n
  <2>1. UNCHANGED <<nodes, children, content>>
    BY <1>4 DEF append
  <2>2. TypeOK'
    BY <2>1, <1>0, <1>2, <1>3 DEF TypeOK, storeVars, Known, Stored
  <2>3. OneRootedDag'
    BY <2>1, <1>0 DEF OneRootedDag
  <2>4. StoreCausal' /\ HeightCoversCommitted'
    BY <2>1, <1>2, StoresUnchanged
  <2> QED BY <2>2, <2>3, <2>4 DEF LedgerInv
<1>5. CASE ~ \E g \in nodes : content[g] = n
  <2>1. /\ h \notin Known /\ Define(h, n)
        /\ children' = children \cup {<<p, h>> : p \in P}
        /\ nodes' = nodes \cup {h}
    BY <1>5 DEF append
  <2> HIDE DEF n
  <2>2. /\ Known' = Known \cup {h} /\ content' \in [Known' -> DagNode]
        /\ content'[h] = n
        /\ \A g \in Known : content'[g] = content[g]
    BY <2>1, <1>0, <1>1, DefineKeeps
  <2>3. nodes \subseteq Known /\ h \notin nodes /\ P \subseteq nodes /\ (P = {} => nodes = {})
    BY <2>1, <1>0, <1>2 DEF TypeOK, AcceptsParents
  <2>4. TypeOK'
    <3>1. Known' \subseteq Hashes /\ nodes' \subseteq Known'
      BY <2>1, <2>2, <2>3, <1>0 DEF TypeOK
    <3>2. children' \subseteq nodes' \X nodes'
      BY <2>1, <2>3, <1>0 DEF TypeOK
    <3>3. /\ DOMAIN store' = Replicas
          /\ \A r \in Replicas : /\ store'[r] \in [Stored(r)' -> DagNode]
                                 /\ Stored(r)' \subseteq Known'
          /\ links' \in [Replicas -> SUBSET (Known' \X Known')]
          /\ replaced' \in [Replicas -> SUBSET Known']
      BY <2>2, <1>0, <1>2, StoreTypes DEF storeVars
    <3>4. /\ committed' \in [Replicas -> SUBSET (Hashes \X Heights)]
          /\ max_committed_height' \in [Replicas -> Heights \cup {0}]
      BY <1>0, <1>2 DEF TypeOK, storeVars
    <3> QED BY <3>1, <3>2, <3>3, <3>4, <2>2, <1>3 DEF TypeOK
  <2>5. /\ ParentClosed(content', nodes) /\ WellFounded(content', nodes)
        /\ CommonRoot(content', nodes)
    BY <1>0, <2>2, <2>3, SameStructure DEF OneRootedDag
  <2>6. content'[h].parents = P
    BY <2>2, <1>1
  <2>7. /\ ParentClosed(content', nodes \cup {h}) /\ WellFounded(content', nodes \cup {h})
    BY <2>3, <2>5, <2>6, AddNode
  <2>8. CommonRoot(content', nodes \cup {h})
    BY <2>3, <2>5, <2>6, AddRooted
  <2>9. OneRootedDag'
    BY <2>1, <2>7, <2>8 DEF OneRootedDag
  <2>10. StoreCausal' /\ HeightCoversCommitted'
    BY <2>2, <1>2, StoresUnchanged
  <2> QED BY <2>4, <2>9, <2>10 DEF LedgerInv
<1> QED BY <1>4, <1>5

(* Contents made elsewhere do not disturb what is already held. *)
LEMMA ForeignInv ==
    ASSUME LedgerInv, NEW P \in SUBSET Known, NEW t \in ForeignStamps,
           NEW h \in Hashes, ForeignNode(P, t, h)
    PROVE  LedgerInv'
<1> DEFINE n == [parents |-> P, creator |-> Foreign, timestamp |-> t]
<1>0. TypeOK /\ OneRootedDag
  BY DEF LedgerInv
<1>1. n \in DagNode
  BY <1>0, LedgerAssumption DEF TypeOK, DagNode
<1>2. h \notin Known /\ Define(h, n) /\ UNCHANGED <<dagVars, storeVars>>
  BY DEF ForeignNode
<1> HIDE DEF n
<1>3. /\ Known' = Known \cup {h} /\ content' \in [Known' -> DagNode]
      /\ \A g \in Known : content'[g] = content[g]
  BY <1>0, <1>1, <1>2, DefineKeeps
<1>4. TypeOK'
  <2>1. /\ DOMAIN store' = Replicas
        /\ \A r \in Replicas : /\ store'[r] \in [Stored(r)' -> DagNode]
                               /\ Stored(r)' \subseteq Known'
        /\ links' \in [Replicas -> SUBSET (Known' \X Known')]
        /\ replaced' \in [Replicas -> SUBSET Known']
    BY <1>0, <1>2, <1>3, StoreTypes DEF storeVars
  <2> QED BY <1>0, <1>2, <1>3, <2>1 DEF TypeOK, dagVars, storeVars
<1>5. OneRootedDag'
  <2>1. \A g \in nodes : content[g] = content'[g]
    BY <1>0, <1>3 DEF TypeOK
  <2>2. nodes' = nodes
    BY <1>2 DEF dagVars
  <2> QED BY <2>1, <2>2, <1>0, SameStructure DEF OneRootedDag
<1>6. StoreCausal' /\ HeightCoversCommitted'
  BY <1>2, <1>3, StoresUnchanged
<1> QED BY <1>4, <1>5, <1>6 DEF LedgerInv

(* What validated_append needs of one store: f is its table of nodes, X the
   hashes whose node was replaced. *)
Causal(f, X) ==
    /\ ParentClosed(f, DOMAIN f)
    /\ \A h \in DOMAIN f : \A p \in f[h].parents \ X : Before(f[p].timestamp, f[h].timestamp)
    /\ WellFoundedBut(f, DOMAIN f, X)

(* A node over nodes of a causal table, stamped after them, keeps it causal under
   any hash: a new one, its own again, or one whose node it replaces. *)
LEMMA InsertCausal ==
    ASSUME NEW f, NEW X, Causal(f, X), NEW h, NEW n \in DagNode,
           \A p \in n.parents : p \in DOMAIN f /\ Before(f[p].timestamp, n.timestamp),
           NEW Y, Y = X \cup IF h \in DOMAIN f /\ f[h] # n THEN {h} ELSE {},
           NEW F, F = Insert(f, h, n)
    PROVE  Causal(F, Y)
<1>1. /\ DOMAIN F = (DOMAIN f) \cup {h} /\ F[h] = n
      /\ \A g \in DOMAIN f : g # h => F[g] = f[g]
  BY DEF Insert
<1>2. ~ Before(n.timestamp, n.timestamp)
  BY DEF Before, DagNode, Timestamp
<1>3. ParentClosed(F, DOMAIN F)
  BY <1>1 DEF Causal, ParentClosed
<1>4. X \subseteq Y /\ (h \in DOMAIN f /\ f[h] # n => h \in Y)
  OBVIOUS
<1>5. ASSUME NEW g \in DOMAIN F, NEW p \in F[g].parents \ Y
      PROVE  Before(F[p].timestamp, F[g].timestamp)
  <2>1. CASE g = h
    <3>1. p \in DOMAIN f /\ Before(f[p].timestamp, n.timestamp)
      BY <1>1, <1>5, <2>1
    <3>2. p # h
      BY <1>2, <1>4, <1>5, <3>1
    <3> QED BY <1>1, <2>1, <3>1, <3>2
  <2>2. CASE g # h
    <3>1. /\ g \in DOMAIN f /\ p \in f[g].parents /\ p \in DOMAIN f /\ p \notin X
      BY <1>1, <1>4, <1>5, <2>2 DEF Causal, ParentClosed
    <3>2. Before(f[p].timestamp, f[g].timestamp)
      BY <3>1 DEF Causal
    <3>3. F[p] = f[p]
      BY <1>1, <1>4, <1>5, <3>1
    <3> QED BY <1>1, <2>2, <3>1, <3>2, <3>3
  <2> QED BY <2>1, <2>2
<1>6. WellFoundedBut(F, DOMAIN F, Y)
  <2> SUFFICES ASSUME NEW T \in SUBSET DOMAIN F, T # {}
               PROVE  \E g \in T : F[g].parents \cap T \subseteq Y
    BY DEF WellFoundedBut
  <2>1. CASE T = {h}
    <3>1. h \in n.parents => h \in Y
      BY <1>2, <1>4
    <3> QED BY <1>1, <2>1, <3>1
  <2>2. CASE T # {h}
    <3>1. T \ {h} \in SUBSET DOMAIN f /\ T \ {h} # {}
      BY <1>1, <2>2
    <3>2. PICK g \in T \ {h} : f[g].parents \cap (T \ {h}) \subseteq X
      BY <3>1 DEF Causal, WellFoundedBut
    <3>3. g \in DOMAIN f /\ F[g] = f[g]
      BY <1>1, <3>1, <3>2
    <3>4. CASE f[g].parents \cap T \subseteq Y
      BY <3>2, <3>3, <3>4
    <3>5. CASE ~ (f[g].parents \cap T \subseteq Y)
      <4>1. h \in f[g].parents /\ h \in T /\ h \notin Y
        BY <1>4, <3>2, <3>5
      <4>2. h \in DOMAIN f /\ f[h] = n
        BY <1>4, <3>3, <4>1 DEF Causal, ParentClosed
      <4>3. T \in SUBSET DOMAIN f
        BY <1>1, <4>2
      <4>4. PICK k \in T : f[k].parents \cap T \subseteq X
        BY <4>3 DEF Causal, WellFoundedBut
      <4>5. F[k] = f[k]
        BY <1>1, <4>2, <4>3, <4>4
      <4> QED BY <1>4, <4>4, <4>5
    <3> QED BY <3>4, <3>5
  <2> QED BY <2>1, <2>2
<1> QED BY <1>3, <1>5, <1>6 DEF Causal

(* StoreCausal, replica by replica. *)
LEMMA StoreCausalIs == StoreCausal <=> \A r \in Replicas : Causal(store[r], replaced[r])
BY DEF StoreCausal, Causal, Stored

(* A delivery keeps every store causal, whatever hash the node claims. *)
LEMMA DeliveryInv ==
    ASSUME LedgerInv, NEW r \in Replicas, NEW h \in Known, NEW n \in DagNode,
           NEW wall \in Millis, validated_append(r, h, n, wall)
    PROVE  LedgerInv'
<1>0. TypeOK /\ OneRootedDag /\ StoreCausal /\ HeightCoversCommitted
  BY DEF LedgerInv
<1>1. /\ UNCHANGED <<dagVars, content, committed, max_committed_height>>
      /\ FollowsParents(r, n) /\ put(r, h, n)
  BY DEF validated_append
<1>2. /\ store' = [store EXCEPT ![r] = Insert(store[r], h, n)]
      /\ links' = [links EXCEPT ![r] = links[r] \cup {<<p, h>> : p \in n.parents}]
      /\ replaced' = [replaced EXCEPT ![r] = replaced[r] \cup
                          IF h \in DOMAIN store[r] /\ store[r][h] # n THEN {h} ELSE {}]
  BY <1>1 DEF put, Replaces, Stored
<1>3. \A p \in n.parents : p \in DOMAIN store[r] /\ Before(store[r][p].timestamp, n.timestamp)
  BY <1>1 DEF FollowsParents, Stored
<1>4. /\ DOMAIN store = Replicas /\ DOMAIN links = Replicas /\ DOMAIN replaced = Replicas
      /\ store[r] \in [DOMAIN store[r] -> DagNode] /\ DOMAIN store[r] \subseteq Known
  BY <1>0 DEF TypeOK, Stored
<1>5. /\ DOMAIN Insert(store[r], h, n) = (DOMAIN store[r]) \cup {h}
      /\ Insert(store[r], h, n) \in [(DOMAIN store[r]) \cup {h} -> DagNode]
  BY <1>4 DEF Insert
<1>6. TypeOK'
  <2>1. Known' = Known
    BY <1>1 DEF Known
  <2> HIDE DEF Known
  <2>2. DOMAIN store' = Replicas
    BY <1>2, <1>4
  <2>3. \A q \in Replicas : store'[q] \in [Stored(q)' -> DagNode] /\ Stored(q)' \subseteq Known
    <3> SUFFICES ASSUME NEW q \in Replicas
                 PROVE  store'[q] \in [DOMAIN store'[q] -> DagNode] /\ DOMAIN store'[q] \subseteq Known
      BY DEF Stored
    <3>1. CASE q = r
      <4>1. store'[q] = Insert(store[r], h, n)
        BY <1>2, <1>4, <3>1
      <4> QED BY <1>4, <1>5, <4>1
    <3>2. CASE q # r
      <4>1. store'[q] = store[q]
        BY <1>2, <1>4, <3>2
      <4> QED BY <1>0, <4>1 DEF TypeOK, Stored
    <3> QED BY <3>1, <3>2
  <2>4. links' \in [Replicas -> SUBSET (Known \X Known)]
    <3>1. {<<p, h>> : p \in n.parents} \subseteq Known \X Known
      BY <1>3, <1>4
    <3> QED BY <3>1, <1>0, <1>2 DEF TypeOK
  <2>5. replaced' \in [Replicas -> SUBSET Known]
    BY <1>0, <1>2 DEF TypeOK
  <2> QED BY <2>1, <2>2, <2>3, <2>4, <2>5, <1>0, <1>1 DEF TypeOK, dagVars
<1>7. OneRootedDag'
  BY <1>0, <1>1 DEF OneRootedDag, dagVars
<1>8. StoreCausal'
  <2>1. ASSUME NEW q \in Replicas PROVE Causal(store'[q], replaced'[q])
    <3>1. Causal(store[q], replaced[q])
      BY <1>0, StoreCausalIs
    <3>2. CASE q # r
      <4>1. store'[q] = store[q] /\ replaced'[q] = replaced[q]
        BY <1>2, <1>4, <3>2
      <4> QED BY <3>1, <4>1
    <3>3. CASE q = r
      <4>1. /\ store'[q] = Insert(store[r], h, n)
            /\ replaced'[q] = replaced[r] \cup
                   IF h \in DOMAIN store[r] /\ store[r][h] # n THEN {h} ELSE {}
        BY <1>2, <1>4, <3>3
      <4> QED BY <1>3, <3>1, <3>3, <4>1, InsertCausal
    <3> QED BY <3>2, <3>3
  <2> QED BY <2>1 DEF StoreCausal, Causal, Stored
<1>9. HeightCoversCommitted'
  <2>1. committed' = committed /\ max_committed_height' = max_committed_height
    BY <1>1
  <2>2. \A q \in Replicas : Stored(q) \subseteq Stored(q)'
    <3> SUFFICES ASSUME NEW q \in Replicas PROVE DOMAIN store[q] \subseteq DOMAIN store'[q]
      BY DEF Stored
    <3>1. CASE q = r
      BY <1>2, <1>4, <1>5, <3>1
    <3>2. CASE q # r
      BY <1>2, <1>4, <3>2
    <3> QED BY <3>1, <3>2
  <2> QED BY <2>1, <2>2, <1>0 DEF HeightCoversCommitted
<1> QED BY <1>6, <1>7, <1>8, <1>9 DEF LedgerInv

(* Marking a node, again or out of order, keeps committed_height the cover. *)
LEMMA MarkInv ==
    ASSUME LedgerInv, NEW r \in Replicas, NEW h \in Hashes, NEW height \in Heights,
           mark_committed(r, h, height)
    PROVE  LedgerInv'
<1>0. TypeOK /\ OneRootedDag /\ StoreCausal /\ HeightCoversCommitted
  BY DEF LedgerInv
<1>1. /\ UNCHANGED <<dagVars, content, store, links, replaced>>
      /\ h \in Stored(r)
      /\ committed' = [committed EXCEPT ![r] = {m \in @ : m[1] # h} \cup {<<h, height>>}]
      /\ max_committed_height' = [max_committed_height EXCEPT ![r] = NewHeight(r, height)]
  BY DEF mark_committed
<1>2. height \in Nat /\ Heights \subseteq Nat
  BY LedgerAssumption
<1>3. /\ max_committed_height[r] \in Heights \cup {0}
      /\ NewHeight(r, height) \in Heights \cup {0}
  BY <1>0 DEF TypeOK, NewHeight
<1>4. NewHeight(r, height) >= height /\ NewHeight(r, height) >= max_committed_height[r]
  <2>0. \A x \in Heights \cup {0} : x \in Nat
    BY <1>2
  <2>1. max_committed_height[r] \in Nat
    BY <2>0, <1>3, Zenon
  <2> QED BY <1>2, <2>1 DEF NewHeight
<1>5. TypeOK'
  <2>1. committed' \in [Replicas -> SUBSET (Hashes \X Heights)]
    BY <1>0, <1>1 DEF TypeOK
  <2>2. max_committed_height' \in [Replicas -> Heights \cup {0}]
    BY <1>0, <1>1, <1>3 DEF TypeOK
  <2>3. Known' = Known
    BY <1>1 DEF Known
  <2> QED BY <2>1, <2>2, <2>3, <1>0, <1>1 DEF TypeOK, dagVars, Stored
<1>6. OneRootedDag' /\ StoreCausal'
  BY <1>0, <1>1 DEF OneRootedDag, StoreCausal, dagVars, Stored
<1>7. HeightCoversCommitted'
  <2> SUFFICES ASSUME NEW q \in Replicas, NEW m \in committed'[q]
               PROVE  /\ m[1] \in Stored(q)
                      /\ m[2] <= max_committed_height'[q]
                      /\ \A k \in committed'[q] : k[1] = m[1] => k = m
    BY <1>1 DEF HeightCoversCommitted, Stored
  <2>1. CASE q # r
    <3>1. committed'[q] = committed[q] /\ max_committed_height'[q] = max_committed_height[q]
      BY <2>1, <1>0, <1>1 DEF TypeOK
    <3> QED BY <3>1, <1>0 DEF HeightCoversCommitted
  <2>2. CASE q = r
    <3>1. /\ committed'[q] = {k \in committed[r] : k[1] # h} \cup {<<h, height>>}
          /\ max_committed_height'[q] = NewHeight(r, height)
      BY <2>2, <1>0, <1>1 DEF TypeOK
    <3>2. CASE m = <<h, height>>
      BY <3>1, <3>2, <2>2, <1>1, <1>4
    <3>3. CASE m \in committed[r] /\ m[1] # h
      <4>1. /\ m[1] \in Stored(r) /\ m[2] <= max_committed_height[r]
            /\ \A k \in committed[r] : k[1] = m[1] => k = m
        BY <3>3, <1>0 DEF HeightCoversCommitted
      <4>2. m[2] \in Nat
        <5>1. committed[r] \subseteq Hashes \X Heights
          BY <1>0 DEF TypeOK
        <5> QED BY <3>3, <1>2, <5>1
      <4>3. m[2] <= NewHeight(r, height)
        <5>1. max_committed_height[r] \in Nat /\ NewHeight(r, height) \in Nat
          BY <1>2, <1>3
        <5> QED BY <4>1, <4>2, <5>1, <1>4
      <4> QED BY <4>1, <4>3, <3>1, <3>3, <2>2
    <3> QED BY <3>1, <3>2, <3>3
  <2> QED BY <2>1, <2>2
<1> QED BY <1>5, <1>6, <1>7 DEF LedgerInv

(* Every step preserves the invariant. *)
LEMMA NextInv == LedgerInv /\ [Next]_vars => LedgerInv'
<1> SUFFICES ASSUME LedgerInv, [Next]_vars PROVE LedgerInv'
  OBVIOUS
<1>1. ASSUME NEW c \in Creators, NEW millis \in Millis, advance(c, millis)
      PROVE  LedgerInv'
  <2>1. UNCHANGED <<nodes, children, content, storeVars>>
    BY <1>1 DEF advance
  <2>2. TypeOK
    BY DEF LedgerInv
  <2>3. clock' \in [Creators -> Timestamp]
    <3>1. clock[c] \in Timestamp /\ [physical_ms |-> millis, logical |-> 0] \in Timestamp
      BY <2>2, LogicalAssumption, LedgerAssumption DEF TypeOK, Millis, Timestamp
    <3>2. tick(IF millis > clock[c].physical_ms
               THEN [physical_ms |-> millis, logical |-> 0] ELSE clock[c]) \in Timestamp
      BY <3>1, TickType
    <3> QED BY <3>2, <2>2, <1>1 DEF TypeOK, advance
  <2>4. ticks' \in 0..MaxTicks
    BY <2>2, <1>1, LedgerAssumption DEF TypeOK, advance
  <2>5. TypeOK'
    BY <2>1, <2>2, <2>3, <2>4 DEF TypeOK, storeVars, Known, Stored
  <2>6. OneRootedDag'
    BY <2>1 DEF LedgerInv, OneRootedDag
  <2>7. StoreCausal' /\ HeightCoversCommitted'
    BY <2>1, StoresUnchanged
  <2> QED BY <2>5, <2>6, <2>7 DEF LedgerInv
<1>2. CASE UNCHANGED vars
  <2>1. UNCHANGED <<dagVars, content, storeVars>>
    BY <1>2 DEF vars
  <2>2. TypeOK' /\ OneRootedDag'
    BY <2>1 DEF LedgerInv, TypeOK, OneRootedDag, dagVars, storeVars, Known, Stored
  <2>3. StoreCausal' /\ HeightCoversCommitted'
    BY <2>1, StoresUnchanged
  <2> QED BY <2>2, <2>3 DEF LedgerInv
<1>3. ASSUME NEW c \in Creators, NEW P \in SUBSET Known, NEW h \in Hashes, append(c, P, h)
      PROVE  LedgerInv'
  BY <1>3, AppendInv
<1>4. ASSUME NEW P \in SUBSET Known, NEW t \in ForeignStamps, NEW h \in Hashes,
             ForeignNode(P, t, h)
      PROVE  LedgerInv'
  BY <1>4, ForeignInv
<1>5. ASSUME NEW r \in Replicas, NEW h \in Known, NEW g \in Known, NEW wall \in Millis,
             validated_append(r, h, content[g], wall)
      PROVE  LedgerInv'
  <2>1. content[g] \in DagNode
    BY DEF LedgerInv, TypeOK
  <2> QED BY <1>5, <2>1, DeliveryInv
<1>6. ASSUME NEW r \in Replicas, NEW h \in Hashes, NEW height \in Heights,
             mark_committed(r, h, height)
      PROVE  LedgerInv'
  BY <1>6, MarkInv
<1> QED BY <1>1, <1>2, <1>3, <1>4, <1>5, <1>6 DEF Next

(* The empty DAG and the empty stores satisfy the invariant. *)
LEMMA InitInv == Init => LedgerInv
<1> SUFFICES ASSUME Init PROVE LedgerInv
  OBVIOUS
<1>1. Known = {}
  BY DEF Init, Known
<1>2. ZERO \in Timestamp
  BY LogicalAssumption DEF ZERO, Timestamp
<1>3. TypeOK
  BY <1>1, <1>2, LedgerAssumption DEF Init, TypeOK, Known, Stored
<1>4. OneRootedDag
  BY DEF Init, OneRootedDag, ParentClosed, WellFounded, CommonRoot
<1>5. StoreCausal /\ HeightCoversCommitted
  BY DEF Init, StoreCausal, HeightCoversCommitted, ParentClosed, WellFoundedBut, Stored
<1> QED BY <1>3, <1>4, <1>5 DEF LedgerInv

(* The inductive invariant holds in every state. *)
THEOREM LedgerInvariant == Spec => []LedgerInv
BY InitInv, NextInv, PTL DEF Spec

(* The DAG, its clocks and the stores keep their types under every append. *)
THEOREM TypeCorrect == Spec => []TypeOK
<1>1. LedgerInv => TypeOK
  BY DEF LedgerInv
<1> QED BY <1>1, LedgerInvariant, PTL

(* dag::append builds an acyclic graph in which any two nodes have a common
   ancestor, whoever appends and with whichever clock. *)
THEOREM DagIsOneRooted == Spec => []OneRootedDag
<1>1. LedgerInv => OneRootedDag
  BY DEF LedgerInv
<1> QED BY <1>1, LedgerInvariant, PTL

(* Every store fed through validated_append is closed under parents, and acyclic
   and causally stamped but for edges to hashes whose node was replaced, in
   whatever order, however often and under whatever hash nodes arrive. *)
THEOREM StoresAreCausal == Spec => []StoreCausal
<1>1. LedgerInv => StoreCausal
  BY DEF LedgerInv
<1> QED BY <1>1, LedgerInvariant, PTL

(* The DAG and every store fed from it stay sound, whatever the deliveries. *)
THEOREM LedgersAreSound == Spec => []LedgerSound
BY DagIsOneRooted, StoresAreCausal, PTL DEF LedgerSound

(* committed_height is never below the height of a committed node. *)
THEOREM HeightIsCover == Spec => []HeightCoversCommitted
<1>1. LedgerInv => HeightCoversCommitted
  BY DEF LedgerInv
<1> QED BY <1>1, LedgerInvariant, PTL

-----------------------------------------------------------------------------
(* The indices.  LedgerInv says nothing of the children tables: they hold  *)
(* the edges into the nodes held, and besides them only edges into hashes  *)
(* whose node was replaced.                                                *)

(* C is the table of nodes, held a set of its hashes, X the hashes replaced. *)
IndexOf(C, held, index, X) ==
    /\ \A e \in index : e[2] \in held /\ (e[1] \in C[e[2]].parents \/ e[2] \in X)
    /\ \A h \in held : \A p \in C[h].parents : <<p, h>> \in index

IndexInv ==
    /\ IndexOf(content, nodes, children, {})
    /\ \A r \in Replicas : IndexOf(store[r], Stored(r), links[r], replaced[r])

(* An index of the edges gives no node but leaves, and misses one only for an
   edge into a replaced hash. *)
LEMMA TipsFromIndex ==
    ASSUME NEW C, NEW held, NEW index, NEW X, IndexOf(C, held, index, X)
    PROVE  /\ Tips(held, index) \subseteq Leaves(C, held)
           /\ \A h \in Leaves(C, held) \ Tips(held, index) :
                 \E e \in index : e[1] = h /\ e[2] \in X
<1>1. ASSUME NEW h \in held, NEW g \in held, h \in C[g].parents
      PROVE  \E e \in index : e[1] = h
  <2>1. <<h, g>> \in index
    BY <1>1 DEF IndexOf
  <2>2. <<h, g>>[1] = h
    OBVIOUS
  <2> QED BY <2>1, <2>2
<1>2. ASSUME NEW h \in held, NEW e \in index, e[1] = h, e[2] \notin X
      PROVE  \E g \in held : h \in C[g].parents
  BY <1>2 DEF IndexOf
<1> QED BY <1>1, <1>2 DEF Tips, Leaves

(* A node and the edges to its parents enter together; the edges of the node it
   replaces, if any, stay. *)
LEMMA IndexGrows ==
    ASSUME NEW C, NEW held, NEW index, NEW X, IndexOf(C, held, index, X),
           NEW h, NEW D, \A g \in held : g # h => D[g] = C[g],
           NEW Y, X \subseteq Y, h \in held /\ C[h] # D[h] => h \in Y,
           NEW held2, NEW index2, held2 = held \cup {h},
           index2 = index \cup {<<p, h>> : p \in D[h].parents}
    PROVE  IndexOf(D, held2, index2, Y)
<1>1. ASSUME NEW e \in index2
      PROVE  e[2] \in held2 /\ (e[1] \in D[e[2]].parents \/ e[2] \in Y)
  <2>1. CASE e \in index
    <3>1. e[2] \in held /\ (e[1] \in C[e[2]].parents \/ e[2] \in X)
      BY <2>1 DEF IndexOf
    <3> QED BY <3>1
  <2>2. CASE e \notin index
    <3>1. PICK p \in D[h].parents : e = <<p, h>>
      BY <2>2
    <3> QED BY <3>1
  <2> QED BY <2>1, <2>2
<1>2. ASSUME NEW g \in held2, NEW p \in D[g].parents
      PROVE  <<p, g>> \in index2
  BY <1>2 DEF IndexOf
<1> QED BY <1>1, <1>2 DEF IndexOf

(* Only the nodes held matter. *)
LEMMA IndexKept ==
    ASSUME NEW C, NEW D, NEW held, NEW index, NEW X, IndexOf(C, held, index, X),
           \A g \in held : C[g] = D[g]
    PROVE  IndexOf(D, held, index, X)
BY DEF IndexOf

LEMMA IndexNext == LedgerInv /\ IndexInv /\ [Next]_vars => IndexInv'
<1> SUFFICES ASSUME LedgerInv, IndexInv, [Next]_vars PROVE IndexInv'
  OBVIOUS
<1>0. TypeOK /\ StoreCausal
  BY DEF LedgerInv
<1>1. CASE UNCHANGED <<nodes, children, content, store, links, replaced>>
  BY <1>1 DEF IndexInv, Stored
<1>2. ASSUME NEW h \in Hashes, NEW n \in DagNode, h \notin Known, Define(h, n),
             UNCHANGED <<store, links, replaced>>,
             \/ UNCHANGED <<nodes, children>>
             \/ /\ children' = children \cup {<<p, h>> : p \in n.parents}
                /\ nodes' = nodes \cup {h}
      PROVE  IndexInv'
  <2>1. content'[h] = n /\ \A g \in Known : content[g] = content'[g]
    BY <1>0, <1>2, DefineKeeps
  <2>2. nodes \subseteq Known
    BY <1>0 DEF TypeOK
  <2> DEFINE X == {}
  <2>3. /\ IndexOf(content, nodes, children, X) /\ h \notin nodes
        /\ \A g \in nodes : content[g] = content'[g]
    BY <1>2, <2>1, <2>2 DEF IndexInv
  <2>4. IndexOf(content', nodes', children', X)
    <3> HIDE DEF X
    <3>1. CASE UNCHANGED <<nodes, children>>
      BY <3>1, <2>3, IndexKept
    <3>2. CASE ~UNCHANGED <<nodes, children>>
      <4>1. /\ children' = children \cup {<<p, h>> : p \in content'[h].parents}
            /\ nodes' = nodes \cup {h}
        BY <3>2, <1>2, <2>1
      <4>2. /\ \A g \in nodes : g # h => content'[g] = content[g]
            /\ (h \in nodes /\ content[h] # content'[h] => h \in X)
            /\ X \subseteq X
        BY <2>3
      <4> QED BY <4>1, <4>2, <2>3, IndexGrows
    <3> QED BY <3>1, <3>2
  <2>5. \A r \in Replicas : IndexOf(store[r], Stored(r), links[r], replaced[r])'
    BY <1>2 DEF IndexInv, Stored
  <2> QED BY <2>4, <2>5 DEF IndexInv
<1>3. ASSUME NEW c \in Creators, NEW P \in SUBSET Known, NEW h \in Hashes, append(c, P, h)
      PROVE  IndexInv'
  <2> DEFINE n == [parents |-> P, creator |-> c, timestamp |-> tick(clock[c])]
  <2>1. CASE \E g \in nodes : content[g] = n
    <3>1. UNCHANGED <<nodes, children, content, store, links, replaced>>
      BY <2>1, <1>3 DEF append, storeVars
    <3> QED BY <3>1, <1>1
  <2>2. CASE ~ \E g \in nodes : content[g] = n
    <3>1. n \in DagNode /\ n.parents = P
      <4>1. tick(clock[c]) \in Timestamp /\ P \subseteq Hashes
        BY <1>0, TickType DEF TypeOK
      <4> QED BY <4>1 DEF DagNode
    <3>2. /\ h \notin Known /\ Define(h, n) /\ UNCHANGED <<store, links, replaced>>
          /\ children' = children \cup {<<p, h>> : p \in P}
          /\ nodes' = nodes \cup {h}
      BY <2>2, <1>3 DEF append, storeVars
    <3> HIDE DEF n
    <3>3. children' = children \cup {<<p, h>> : p \in n.parents}
      BY <3>1, <3>2
    <3> QED BY <3>1, <3>2, <3>3, <1>2
  <2> QED BY <2>1, <2>2
<1>4. ASSUME NEW P \in SUBSET Known, NEW t \in ForeignStamps, NEW h \in Hashes,
             ForeignNode(P, t, h)
      PROVE  IndexInv'
  <2> DEFINE n == [parents |-> P, creator |-> Foreign, timestamp |-> t]
  <2>1. n \in DagNode
    BY <1>0, LedgerAssumption DEF TypeOK, DagNode
  <2>2. /\ h \notin Known /\ Define(h, n)
        /\ UNCHANGED <<nodes, children, store, links, replaced>>
    BY <1>4 DEF ForeignNode, dagVars, storeVars
  <2> HIDE DEF n
  <2> QED BY <2>1, <2>2, <1>2
<1>5. ASSUME NEW r \in Replicas, NEW h \in Known, NEW g \in Known, NEW wall \in Millis,
             validated_append(r, h, content[g], wall)
      PROVE  IndexInv'
  <2> DEFINE n == content[g]
             F == Insert(store[r], h, n)
             Y == replaced[r] \cup
                     IF h \in DOMAIN store[r] /\ store[r][h] # n THEN {h} ELSE {}
  <2>1. /\ UNCHANGED <<nodes, children, content>>
        /\ links' = [links EXCEPT ![r] = links[r] \cup {<<p, h>> : p \in n.parents}]
        /\ store' = [store EXCEPT ![r] = F]
        /\ replaced' = [replaced EXCEPT ![r] = Y]
    BY <1>5 DEF validated_append, put, dagVars, Replaces, Stored
  <2>2. DOMAIN store = Replicas /\ DOMAIN links = Replicas /\ DOMAIN replaced = Replicas
    BY <1>0 DEF TypeOK
  <2>3. /\ DOMAIN F = (DOMAIN store[r]) \cup {h} /\ F[h] = n
        /\ \A k \in DOMAIN store[r] : k # h => F[k] = store[r][k]
    BY DEF Insert
  <2>4. ASSUME NEW q \in Replicas
        PROVE  IndexOf(store'[q], DOMAIN store'[q], links'[q], replaced'[q])
    <3>1. IndexOf(store[q], DOMAIN store[q], links[q], replaced[q])
      BY DEF IndexInv, Stored
    <3>2. CASE q # r
      <4>1. store'[q] = store[q] /\ links'[q] = links[q] /\ replaced'[q] = replaced[q]
        BY <3>2, <2>1, <2>2
      <4> QED BY <3>1, <4>1
    <3>3. CASE q = r
      <4>1. store'[q] = F /\ links'[q] = links[r] \cup {<<p, h>> : p \in F[h].parents}
            /\ replaced'[q] = Y
        BY <3>3, <2>1, <2>2, <2>3
      <4>2. replaced[r] \subseteq Y /\ (h \in DOMAIN store[r] /\ store[r][h] # F[h] => h \in Y)
        BY <2>3
      <4>3. IndexOf(store[r], DOMAIN store[r], links[r], replaced[r])
        BY <3>1, <3>3
      <4> HIDE DEF F, Y
      <4>4. IndexOf(F, DOMAIN F, links[r] \cup {<<p, h>> : p \in F[h].parents}, Y)
        BY <2>3, <4>2, <4>3, IndexGrows
      <4> QED BY <4>1, <4>4
    <3> QED BY <3>2, <3>3
  <2> QED BY <2>1, <2>4 DEF IndexInv, Stored
<1>6. ASSUME NEW c \in Creators, NEW millis \in Millis, advance(c, millis)
      PROVE  IndexInv'
  BY <1>6, <1>1 DEF advance, storeVars
<1>7. ASSUME NEW r \in Replicas, NEW h \in Hashes, NEW height \in Heights,
             mark_committed(r, h, height)
      PROVE  IndexInv'
  BY <1>7, <1>1 DEF mark_committed, dagVars
<1>8. CASE UNCHANGED vars
  BY <1>8, <1>1 DEF vars, dagVars, storeVars
<1> QED BY <1>3, <1>4, <1>5, <1>6, <1>7, <1>8 DEF Next

(* The children index of the DAG is that of the parent lists; that of a     *)
(* store holds all of them and besides only what replaced nodes left        *)
(* behind, whatever is appended and delivered (append, put).                *)
THEOREM IndexInvariant == Spec => []IndexInv
<1>1. Init => IndexInv
  BY DEF Init, IndexInv, IndexOf, Stored
<1> QED BY <1>1, LedgerInvariant, IndexNext, PTL DEF Spec

(* tips of the DAG returns exactly the nodes no other extends, tips of a    *)
(* store no others and all but those that a replaced node extended, and     *)
(* committed_height is never below a committed node.                        *)
THEOREM IndicesAreExact == Spec => []IndicesExact
<1>1. IndexInv => TipsAreLeaves
  <2> SUFFICES ASSUME IndexInv PROVE TipsAreLeaves
    OBVIOUS
  <2>1. Tips(nodes, children) = Leaves(content, nodes)
    <3> DEFINE X == {}
    <3>1. IndexOf(content, nodes, children, X)
      BY DEF IndexInv
    <3>2. /\ Tips(nodes, children) \subseteq Leaves(content, nodes)
          /\ \A h \in Leaves(content, nodes) \ Tips(nodes, children) :
                \E e \in children : e[1] = h /\ e[2] \in X
      <4> HIDE DEF X
      <4> QED BY <3>1, TipsFromIndex
    <3>3. Leaves(content, nodes) \ Tips(nodes, children) = {}
      BY <3>2
    <3> QED BY <3>2, <3>3
  <2>2. \A r \in Replicas : IndexOf(store[r], Stored(r), links[r], replaced[r])
    BY DEF IndexInv
  <2> QED BY <2>1, <2>2, TipsFromIndex DEF TipsAreLeaves
<1> QED BY <1>1, IndexInvariant, HeightIsCover, PTL DEF IndicesExact

-----------------------------------------------------------------------------
(* The order of a creator's own nodes.  The clock of dag.rs adds to a u32   *)
(* that wraps in a release build, so the order rests on the counter never   *)
(* reaching its end: the invariant bounds it by the calls made so far.      *)

CountersBounded == \A c \in Creators : clock[c].logical <= ticks

OrderInv == CountersBounded /\ CreatorOrder

(* Below the end of the counter, tick is strictly later. *)
LEMMA TickAdvances ==
    ASSUME NEW t \in Timestamp, t.logical < LogicalMax
    PROVE  /\ tick(t).logical = t.logical + 1
           /\ tick(t).physical_ms = t.physical_ms
           /\ Before(t, tick(t))
<1>1. t.logical \in Nat /\ LogicalMax \in Nat /\ t.physical_ms \in Nat
  BY LogicalAssumption DEF Timestamp
<1>2. (t.logical + 1) % (LogicalMax + 1) = t.logical + 1
  BY <1>1
<1>3. tick(t) = [physical_ms |-> t.physical_ms, logical |-> t.logical + 1]
  BY <1>2 DEF tick, Timestamp
<1> QED BY <1>1, <1>3 DEF Before

LEMMA OrderNext ==
    ASSUME MaxTicks <= LogicalMax
    PROVE  LedgerInv /\ LedgerInv' /\ OrderInv /\ [Next]_vars => OrderInv'
<1> SUFFICES ASSUME LedgerInv, LedgerInv', OrderInv, [Next]_vars PROVE OrderInv'
  OBVIOUS
<1>0. /\ TypeOK /\ ParentClosed(content, nodes) /\ clock' \in [Creators -> Timestamp]
      /\ LogicalMax \in Nat /\ MaxTicks \in Nat /\ ticks \in Nat
  BY LedgerAssumption, LogicalAssumption DEF LedgerInv, OneRootedDag, TypeOK
<1>1. CASE UNCHANGED <<clock, ticks, nodes, content>>
  BY <1>1 DEF OrderInv, CountersBounded, CreatorOrder, parents, timestamp
<1>2. ASSUME NEW c \in Creators, NEW t \in Timestamp,
             ticks < MaxTicks, ticks' = ticks + 1, t.logical <= ticks,
             NotAfter(clock[c], t), clock' = [clock EXCEPT ![c] = tick(t)]
      PROVE  /\ CountersBounded'
             /\ Before(clock[c], clock'[c])
             /\ \A d \in Creators : NotAfter(clock[d], clock'[d])
  <2>1. clock[c] \in Timestamp /\ clock'[c] = tick(t)
    BY <1>0, <1>2 DEF TypeOK
  <2>2. t.logical \in Nat /\ t.logical < LogicalMax
    BY <1>0, <1>2 DEF Timestamp
  <2>3. tick(t).logical = t.logical + 1 /\ Before(t, tick(t)) /\ tick(t) \in Timestamp
    BY <2>2, TickAdvances, TickType
  <2>4. Before(clock[c], clock'[c])
    BY <2>1, <2>3, <1>2, NotAfterTransitive
  <2>5. \A d \in Creators \ {c} : clock'[d] = clock[d] /\ clock[d] \in Timestamp
    BY <1>0, <1>2 DEF TypeOK
  <2>6. CountersBounded'
    <3> SUFFICES ASSUME NEW d \in Creators PROVE clock'[d].logical <= ticks'
      BY DEF CountersBounded
    <3>1. CASE d = c
      BY <3>1, <2>1, <2>2, <2>3, <1>0, <1>2
    <3>2. CASE d # c
      <4>1. clock'[d] = clock[d] /\ clock[d].logical \in Nat /\ clock[d].logical <= ticks
        BY <3>2, <2>5 DEF OrderInv, CountersBounded, Timestamp
      <4> QED BY <4>1, <1>0, <1>2
    <3> QED BY <3>1, <3>2
  <2>7. \A d \in Creators : NotAfter(clock[d], clock'[d])
    <3> SUFFICES ASSUME NEW d \in Creators PROVE NotAfter(clock[d], clock'[d])
      OBVIOUS
    <3>1. CASE d = c
      BY <3>1, <2>4 DEF NotAfter
    <3>2. CASE d # c
      BY <3>2, <2>5 DEF NotAfter
    <3> QED BY <3>1, <3>2
  <2> QED BY <2>4, <2>6, <2>7
(* What was in order stays so while the clocks only move on. *)
<1>3. ASSUME \A d \in Creators : NotAfter(clock[d], clock'[d]),
             \A g \in nodes : content'[g] = content[g],
             NEW h \in nodes
      PROVE  /\ content'[h].creator \in Creators
             /\ NotAfter(content'[h].timestamp, clock'[content'[h].creator])
             /\ \A g \in nodes \ {h} : content'[g].creator = content'[h].creator =>
                   /\ content'[g].timestamp # content'[h].timestamp
                   /\ g \in content'[h].parents =>
                        Before(content'[g].timestamp, content'[h].timestamp)
  <2>1. /\ content[h].creator \in Creators
        /\ NotAfter(content[h].timestamp, clock[content[h].creator])
        /\ \A g \in nodes \ {h} : content[g].creator = content[h].creator =>
              /\ content[g].timestamp # content[h].timestamp
              /\ g \in content[h].parents =>
                   Before(content[g].timestamp, content[h].timestamp)
    BY DEF OrderInv, CreatorOrder, parents, timestamp
  <2>2. content[h] \in DagNode
    BY <1>0 DEF TypeOK
  <2>3. /\ content[h].timestamp \in Timestamp
        /\ clock[content[h].creator] \in Timestamp
        /\ clock'[content[h].creator] \in Timestamp
    BY <2>1, <2>2, <1>0 DEF DagNode, TypeOK
  <2>4. NotAfter(content[h].timestamp, clock'[content[h].creator])
    BY <2>1, <2>3, <1>3, NotAfterTransitive
  <2> QED BY <2>1, <2>4, <1>3
<1>4. ASSUME NEW c \in Creators, NEW millis \in Millis, advance(c, millis)
      PROVE  OrderInv'
  <2> DEFINE z == [physical_ms |-> millis, logical |-> 0]
  <2>1. PICK t \in {z, clock[c]} :
           t = IF millis > clock[c].physical_ms THEN z ELSE clock[c]
    OBVIOUS
  <2>2. /\ clock[c] \in Timestamp /\ z \in Timestamp
    BY <1>0, LogicalAssumption, LedgerAssumption DEF TypeOK, Millis, Timestamp
  <2>3. t \in Timestamp /\ NotAfter(clock[c], t) /\ t.logical <= ticks
    <3>1. CASE millis > clock[c].physical_ms
      <4>1. t = z /\ t.logical = 0 /\ t.physical_ms = millis
        BY <3>1, <2>1
      <4>2. Before(clock[c], t)
        BY <4>1, <3>1 DEF Before
      <4> QED BY <4>1, <4>2, <2>2, <1>0 DEF NotAfter
    <3>2. CASE ~(millis > clock[c].physical_ms)
      <4>1. t = clock[c]
        BY <3>2, <2>1
      <4> QED BY <4>1, <2>2 DEF NotAfter, OrderInv, CountersBounded
    <3> QED BY <3>1, <3>2
  <2>4. /\ ticks < MaxTicks /\ ticks' = ticks + 1
        /\ clock' = [clock EXCEPT ![c] = tick(t)]
        /\ UNCHANGED <<nodes, content>>
    BY <1>4, <2>1 DEF advance
  <2>5. CountersBounded' /\ \A d \in Creators : NotAfter(clock[d], clock'[d])
    BY <2>3, <2>4, <1>2
  <2>6. CreatorOrder'
    BY <2>4, <2>5, <1>3 DEF CreatorOrder, parents, timestamp
  <2> QED BY <2>5, <2>6 DEF OrderInv
<1>5. ASSUME NEW c \in Creators, NEW P \in SUBSET Known, NEW h \in Hashes, append(c, P, h)
      PROVE  OrderInv'
  <2> DEFINE n == [parents |-> P, creator |-> c, timestamp |-> tick(clock[c])]
  <2>1. clock[c] \in Timestamp /\ NotAfter(clock[c], clock[c])
    BY <1>0 DEF TypeOK, NotAfter
  <2>2. /\ ticks < MaxTicks /\ ticks' = ticks + 1
        /\ clock' = [clock EXCEPT ![c] = tick(clock[c])]
        /\ AcceptsParents(P)
    BY <1>5 DEF append
  <2>3. /\ CountersBounded' /\ Before(clock[c], clock'[c])
        /\ \A d \in Creators : NotAfter(clock[d], clock'[d])
    <3>1. PICK t \in Timestamp : t = clock[c]
      BY <2>1
    <3> QED BY <3>1, <2>1, <2>2, <1>2 DEF OrderInv, CountersBounded
  <2>4. CASE \E g \in nodes : content[g] = n
    <3>1. UNCHANGED <<nodes, content>>
      BY <2>4, <1>5 DEF append
    <3>2. CreatorOrder'
      BY <2>3, <3>1, <1>3 DEF CreatorOrder, parents, timestamp
    <3> QED BY <2>3, <3>2 DEF OrderInv
  <2>5. CASE ~ \E g \in nodes : content[g] = n
    <3>1. h \notin Known /\ Define(h, n) /\ nodes' = nodes \cup {h}
      BY <2>5, <1>5 DEF append
    <3>2. /\ n \in DagNode /\ n.parents = P /\ n.creator = c
          /\ n.timestamp = tick(clock[c])
      <4>1. tick(clock[c]) \in Timestamp /\ P \subseteq Hashes
        BY <1>0, TickType DEF TypeOK
      <4> QED BY <4>1 DEF DagNode
    <3> HIDE DEF n
    <3>3. content'[h] = n /\ \A g \in nodes : content'[g] = content[g]
      BY <3>1, <3>2, <1>0, DefineKeeps DEF TypeOK
    <3>4. n.timestamp = clock'[c] /\ n.timestamp \in Timestamp
      BY <3>2, <2>2, <1>0 DEF TypeOK, DagNode
    <3>5. h \notin nodes /\ P \subseteq nodes
      BY <3>1, <1>0, <2>2 DEF TypeOK, AcceptsParents
    <3>6. ASSUME NEW g \in nodes, content[g].creator = c
          PROVE  Before(content[g].timestamp, n.timestamp)
      <4>1. NotAfter(content[g].timestamp, clock[c])
        BY <3>6 DEF OrderInv, CreatorOrder, timestamp
      <4>2. content[g].timestamp \in Timestamp
        BY <1>0 DEF TypeOK, DagNode
      <4> QED BY <4>1, <4>2, <2>1, <2>3, <3>4, NotAfterTransitive
    <3>7. ASSUME NEW g \in nodes, content[g].creator = c
          PROVE  content[g].timestamp # n.timestamp
      BY <3>6, <3>7, <3>4 DEF Before, Timestamp
    <3>8. ASSUME NEW g \in nodes PROVE h \notin content[g].parents
      BY <3>5, <1>0 DEF ParentClosed
    <3>9. CreatorOrder'
      <4> SUFFICES ASSUME NEW x \in nodes \cup {h}
                   PROVE  /\ content'[x].creator \in Creators
                          /\ NotAfter(content'[x].timestamp, clock'[content'[x].creator])
                          /\ \A g \in (nodes \cup {h}) \ {x} :
                                content'[g].creator = content'[x].creator =>
                                 /\ content'[g].timestamp # content'[x].timestamp
                                 /\ g \in content'[x].parents =>
                                      Before(content'[g].timestamp, content'[x].timestamp)
        BY <3>1 DEF CreatorOrder, parents, timestamp
      <4>1. CASE x = h
        <5>1. NotAfter(n.timestamp, clock'[c])
          BY <3>4 DEF NotAfter
        <5> QED BY <4>1, <5>1, <3>2, <3>3, <3>6, <3>7
      <4>2. CASE x \in nodes
        <5>1. /\ content'[x].creator \in Creators
              /\ NotAfter(content'[x].timestamp, clock'[content'[x].creator])
              /\ \A g \in nodes \ {x} :
                    content'[g].creator = content'[x].creator =>
                     /\ content'[g].timestamp # content'[x].timestamp
                     /\ g \in content'[x].parents =>
                          Before(content'[g].timestamp, content'[x].timestamp)
          BY <4>2, <2>3, <3>3, <1>3
        <5>2. content'[h].creator = content'[x].creator =>
                 content'[h].timestamp # content'[x].timestamp
          BY <4>2, <3>2, <3>3, <3>7
        <5>3. h \notin content'[x].parents
          BY <4>2, <3>3, <3>8
        <5> QED BY <5>1, <5>2, <5>3
      <4> QED BY <4>1, <4>2
    <3> QED BY <2>3, <3>9 DEF OrderInv
  <2> QED BY <2>4, <2>5
<1>6. ASSUME NEW P \in SUBSET Known, NEW t \in ForeignStamps, NEW h \in Hashes,
             ForeignNode(P, t, h)
      PROVE  OrderInv'
  <2> DEFINE n == [parents |-> P, creator |-> Foreign, timestamp |-> t]
  <2>1. n \in DagNode
    BY <1>0, LedgerAssumption DEF TypeOK, DagNode
  <2>2. h \notin Known /\ Define(h, n) /\ UNCHANGED <<nodes, clock, ticks>>
    BY <1>6 DEF ForeignNode, dagVars
  <2> HIDE DEF n
  <2>3. \A g \in nodes : content'[g] = content[g]
    BY <2>1, <2>2, <1>0, DefineKeeps DEF TypeOK
  <2>4. \A d \in Creators : NotAfter(clock[d], clock'[d])
    BY <2>2 DEF NotAfter
  <2>5. CreatorOrder'
    BY <2>2, <2>3, <2>4, <1>3 DEF CreatorOrder, parents, timestamp
  <2> QED BY <2>2, <2>5 DEF OrderInv, CountersBounded
<1>7. ASSUME NEW r \in Replicas, NEW h \in Known, NEW g \in Known, NEW wall \in Millis,
             validated_append(r, h, content[g], wall)
      PROVE  OrderInv'
  BY <1>7, <1>1 DEF validated_append, dagVars
<1>8. ASSUME NEW r \in Replicas, NEW h \in Hashes, NEW height \in Heights,
             mark_committed(r, h, height)
      PROVE  OrderInv'
  BY <1>8, <1>1 DEF mark_committed, dagVars
<1>9. CASE UNCHANGED vars
  BY <1>9, <1>1 DEF vars, dagVars
<1> QED BY <1>4, <1>5, <1>6, <1>7, <1>8, <1>9 DEF Next

(* Until a clock has been called as often as its u32 counter allows, a      *)
(* creator's own nodes are strictly ordered by their timestamps, so that    *)
(* append never finds its node there already and every edge between them    *)
(* passes validated_append (HybridClock::tick, append).                     *)
THEOREM CreatorsInOrder ==
    ASSUME MaxTicks <= LogicalMax
    PROVE  Spec => []CreatorOrder
<1>1. Init => OrderInv
  BY LedgerAssumption DEF Init, OrderInv, CountersBounded, CreatorOrder, ZERO
<1>2. LedgerInv /\ LedgerInv' /\ OrderInv /\ [Next]_vars => OrderInv'
  BY OrderNext
<1>3. OrderInv => CreatorOrder
  BY DEF OrderInv
<1> QED BY <1>1, <1>2, <1>3, LedgerInvariant, PTL DEF Spec
=============================================================================
