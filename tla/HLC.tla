-------------------------------- MODULE HLC --------------------------------
(***************************************************************************)
(* The hybrid logical clock, crates/exo-core/src/hlc.rs, one per process.  *)
(*                                                                         *)
(* The wall clock is an argument of every call: it may stand still, jump   *)
(* or go back.  A timestamp that a clock returned can be attached to any   *)
(* number of messages, so any process may pass it to `update' at any time, *)
(* repeatedly, late, or never; stamps in Remotes come from clocks outside  *)
(* the model.  `events' records for each returned timestamp the timestamps *)
(* that happened before it, as the processes and the messages order them.  *)
(***************************************************************************)
EXTENDS Timestamps

CONSTANTS
    Processes,     \* each owns one HybridClock
    Remotes,       \* remote timestamps of clocks outside the model
    MAX_DRIFT_MS,  \* the tolerance of `update'
    MaxWall,       \* bound on the wall clocks' readings
    MaxCalls       \* bound on successful calls, over all processes

ASSUME ClockAssumption ==
    /\ Remotes \subseteq Timestamp
    /\ MAX_DRIFT_MS \in Nat
    /\ MaxWall \in Nat
    /\ MaxCalls \in Nat

Wall == 0..MaxWall

VARIABLES
    physical,  \* per process
    logical,   \* per process
    peak,      \* per process: the highest wall reading it has used
    past,      \* per process: timestamps in its causal past
    events,    \* [stamp, past] of every timestamp returned
    calls      \* calls made so far

hlcVars == <<physical, logical, peak, past, events, calls>>

Event == [stamp : Timestamp, past : SUBSET Timestamp]

Clock(p) == [physical_ms |-> physical[p], logical |-> logical[p]]

----------------------------------------------------------------------------
HlcInit ==
    /\ physical = [p \in Processes |-> 0]
    /\ logical  = [p \in Processes |-> 0]
    /\ peak     = [p \in Processes |-> 0]
    /\ past     = [p \in Processes |-> {}]
    /\ events   = {}
    /\ calls    = 0

(* The clock of p becomes c, is returned to the caller, and everything in
   `seen' is now in the past of p. *)
Return(p, c, wall, seen) ==
    /\ calls < MaxCalls
    /\ calls'    = calls + 1
    /\ physical' = [physical EXCEPT ![p] = c.physical_ms]
    /\ logical'  = [logical EXCEPT ![p] = c.logical]
    /\ peak'     = [peak EXCEPT ![p] = IF wall > @ THEN wall ELSE @]
    /\ past'     = [past EXCEPT ![p] = @ \cup seen \cup {c}]
    /\ events'   = events \cup {[stamp |-> c, past |-> past[p] \cup seen]}

NowStamp(p, wall) ==
    IF wall > physical[p]
    THEN [physical_ms |-> wall, logical |-> 0]
    ELSE [physical_ms |-> physical[p], logical |-> saturating_inc(logical[p])]

now(p, wall) == Return(p, NowStamp(p, wall), wall, {})

(* Mutant: at equal physical parts only the local counter is advanced. *)
UpdateStamp_IgnoreRemoteCounter(p, remote, wall) ==
    IF wall > physical[p] /\ wall > remote.physical_ms
    THEN [physical_ms |-> wall, logical |-> 0]
    ELSE IF remote.physical_ms > physical[p]
    THEN [physical_ms |-> remote.physical_ms, logical |-> saturating_inc(remote.logical)]
    ELSE [physical_ms |-> physical[p], logical |-> saturating_inc(logical[p])]

UpdateStamp(p, remote, wall) ==
    IF wall > physical[p] /\ wall > remote.physical_ms
    THEN [physical_ms |-> wall, logical |-> 0]
    ELSE IF physical[p] = remote.physical_ms
    THEN [physical_ms |-> physical[p],
          logical |-> saturating_inc(IF logical[p] > remote.logical
                                     THEN logical[p] ELSE remote.logical)]
    ELSE IF remote.physical_ms > physical[p]
    THEN [physical_ms |-> remote.physical_ms, logical |-> saturating_inc(remote.logical)]
    ELSE [physical_ms |-> physical[p], logical |-> saturating_inc(logical[p])]

(* Mutant: the drift is measured against the local clock, not the wall. *)
WithinDrift_OfClock(p, remote, wall) ==
    remote.physical_ms <= (IF physical[p] > wall THEN physical[p] ELSE wall) + MAX_DRIFT_MS

(* A remote stamp further ahead is answered with ClockDrift and nothing moves. *)
WithinDrift(p, remote, wall) == remote.physical_ms <= wall + MAX_DRIFT_MS

(* `remote' is the stamp of a process of the model; its past comes with it. *)
update(p, e, wall) ==
    /\ WithinDrift(p, e.stamp, wall)
    /\ Return(p, UpdateStamp(p, e.stamp, wall), wall, e.past \cup {e.stamp})

update_foreign(p, remote, wall) ==
    /\ WithinDrift(p, remote, wall)
    /\ Return(p, UpdateStamp(p, remote, wall), wall, {remote})

HlcNext ==
    \E p \in Processes, wall \in Wall :
       \/ now(p, wall)
       \/ \E e \in events : update(p, e, wall)
       \/ \E remote \in Remotes : update_foreign(p, remote, wall)

HlcSpec == HlcInit /\ [][HlcNext]_hlcVars

----------------------------------------------------------------------------
HlcTypeOK ==
    /\ physical \in [Processes -> Nat]
    /\ logical \in [Processes -> 0..LogicalMax]
    /\ peak \in [Processes -> Nat]
    /\ past \in [Processes -> SUBSET Timestamp]
    /\ events \subseteq Event
    /\ calls \in Nat

(* Causality (hlc.rs `now', `update'): whatever the wall clocks do, and in
   whatever order stamps are delivered or repeated, a stamp is later than
   every stamp in its causal past, across processes; the one exception is a
   counter that has saturated at u32::MAX, where it may be equal. *)
CausalOrder ==
    \A e \in events : \A t \in e.past :
       \/ Before(t, e.stamp)
       \/ t = e.stamp /\ t.logical = LogicalMax

(* Drift does not add up over hops (`update', MAX_DRIFT_MS): however stamps
   are relayed, a clock is never further ahead than the tolerance from the
   highest wall reading its own process has used. *)
BoundedDrift == \A p \in Processes : physical[p] <= peak[p] + MAX_DRIFT_MS

(* "the returned timestamp is strictly greater than any previously returned"
   and "greater than both the local state and the remote timestamp", with no
   exception (comments of `now' and `update'). *)
StrictlyLater == \A e \in events : \A t \in e.past : Before(t, e.stamp)

----------------------------------------------------------------------------
(* Inductive invariant: no clock is behind a stamp in its past. *)
PastNotAhead == \A p \in Processes : \A t \in past[p] : NotAfter(t, Clock(p))

ClockInv == HlcTypeOK /\ PastNotAhead /\ CausalOrder /\ BoundedDrift
=============================================================================
