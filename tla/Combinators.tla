---------------------------- MODULE Combinators -----------------------------
(***************************************************************************)
(* The programs of the holons, crates/exo-gatekeeper/src/combinator.rs.     *)
(* They are trees, reduced by recursion on them; the gatekeeper only calls  *)
(* the reduction.                                                           *)
(***************************************************************************)
EXTENDS Gatekeeper

(* The result of a reduction is an option, {} for an error. *)
Operators == {"Identity", "Sequence", "Parallel", "Choice", "Guard", "Transform",
              "Retry", "Timeout", "Checkpoint"}

from_input(fields) == [fields |-> fields, checkpoint |-> {}]

Put(o, k, v) == [o EXCEPT !.fields = (k :> v) @@ @]

merge(o, other) ==
    [fields |-> other.fields @@ o.fields,
     checkpoint |-> IF other.checkpoint # {} THEN other.checkpoint ELSE o.checkpoint]

(* expected is an option: {} accepts any value. *)
evaluate(p, fields) ==
    p.required_key \in DOMAIN fields /\ \A v \in p.expected : fields[p.required_key] = v

(* What the next step of a sequence sees. *)
Feed(fields, o) == o.fields

(* Retry runs its program again on the same input, so the first attempt
   decides; Timeout only notes its budget. *)
RECURSIVE reduce(_, _)
reduce(c, fields) ==
    CASE c.op = "Identity" -> {from_input(fields)}
      [] c.op = "Sequence" ->
            IF c.parts = <<>> THEN {from_input(fields)}
            ELSE LET first == reduce(Head(c.parts), fields)
                 IN  IF Len(c.parts) = 1 THEN first
                     ELSE UNION {reduce([c EXCEPT !.parts = Tail(@)], Feed(fields, o)) : o \in first}
      [] c.op = "Parallel" ->
            LET results == [i \in DOMAIN c.parts |-> reduce(c.parts[i], fields)]
            IN  IF \E i \in DOMAIN results : results[i] = {} THEN {}
                ELSE {FoldLeft(LAMBDA o, r : merge(o, CHOOSE x \in r : TRUE),
                               from_input(fields), results)}
      [] c.op = "Choice" ->
            LET good == {i \in DOMAIN c.parts : reduce(c.parts[i], fields) # {}}
            IN  IF good = {} THEN {} ELSE reduce(c.parts[Min(good)], fields)
      [] c.op = "Guard" -> IF evaluate(c.predicate, fields) THEN reduce(c.inner, fields) ELSE {}
      [] c.op = "Transform" -> {Put(o, c.key, c.value) : o \in reduce(c.inner, fields)}
      [] c.op = "Retry" -> {Put(o, "retry_attempts", "0") : o \in reduce(c.inner, fields)}
      [] c.op = "Timeout" -> {Put(o, "timeout_budget_ms", c.duration) : o \in reduce(c.inner, fields)}
      [] c.op = "Checkpoint" -> {[o EXCEPT !.checkpoint = {c.id}] : o \in reduce(c.inner, fields)}

----------------------------------------------------------------------------
(* combinator.rs: for the program of every holon, no field of the input is
   lost; what it makes is seen by a guard that follows; sequences nest as they
   like; and a choice fails only if both alternatives do. *)
Seq2(p, q) == [op |-> "Sequence", parts |-> <<p, q>>]
ProgramsCompose ==
    \A h \in Holons, in \in Inputs :
       LET c == holons[h].program
           made == [op |-> "Transform", inner |-> c, key |-> "made", value |-> "v"]
           seen == [op |-> "Guard", inner |-> [op |-> "Identity"],
                    predicate |-> [required_key |-> "made", expected |-> {"v"}]]
       IN  verdict[h] = "None" =>
             /\ \A o \in reduce(c, in) : DOMAIN in \subseteq DOMAIN o.fields
             /\ (reduce(Seq2(made, seen), in) # {}) <=> (reduce(c, in) # {})
             /\ \A p \in Programs :
                  /\ reduce(Seq2(c, Seq2(p, made)), in) = reduce(Seq2(Seq2(c, p), made), in)
                  /\ (reduce([op |-> "Choice", parts |-> <<c, p>>], in) = {}) <=>
                        (reduce(c, in) = {} /\ reduce(p, in) = {})
=============================================================================
