----------------------------- MODULE Timestamps -----------------------------
(***************************************************************************)
(* The hybrid timestamp of crates/exo-core/src/types.rs: a physical part   *)
(* in milliseconds (u64) and a logical counter (u32), ordered by the       *)
(* physical part first.                                                    *)
(***************************************************************************)
EXTENDS Integers

CONSTANT LogicalMax   \* u32::MAX

ASSUME LogicalAssumption == LogicalMax \in Nat

Timestamp == [physical_ms : Nat, logical : 0..LogicalMax]

ZERO == [physical_ms |-> 0, logical |-> 0]

(* Ord for Timestamp, its < and its <=. *)
Before(a, b) ==
    \/ a.physical_ms < b.physical_ms
    \/ a.physical_ms = b.physical_ms /\ a.logical < b.logical

NotAfter(a, b) == a = b \/ Before(a, b)

saturating_inc(l) == IF l = LogicalMax THEN l ELSE l + 1
=============================================================================
