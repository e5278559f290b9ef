----------------------------- MODULE DagLedger -----------------------------
(***************************************************************************)
(* The append-only DAG and its replicated stores: dag.rs, append.rs and    *)
(* store.rs of crates/exo-dag/src.                                         *)
(*                                                                         *)
(* Creators extend one in-memory `Dag', each stamping with a clock of its  *)
(* own, as the arguments of `append' allow.  Nodes reach the replicas'     *)
(* stores through `validated_append', late, out of order, repeatedly or    *)
(* never, together with nodes of creators outside the model.               *)
(*                                                                         *)
(* `content' is the graph of compute_node_hash over the nodes made so far, *)
(* one hash per content.  The stores do not compute hashes: a node may be  *)
(* delivered under the hash of another one, and replaces what the store    *)
(* holds under it.  The payload is left out, no operation reads it.        *)
(***************************************************************************)
EXTENDS Timestamps, FiniteSets, Sequences

CONSTANTS
    Hashes,             \* Hash256
    Creators,           \* DIDs that call `append', each with its HybridClock
    Replicas,           \* holders of a MemoryStore
    Foreign,            \* DID of the creators outside the model
    ForeignStamps,      \* timestamps those may claim
    MAX_CLOCK_SKEW_MS,
    MaxMillis,          \* bound on the arguments of `advance' and on wall clocks
    MaxTicks,           \* bound on the calls that move a clock
    Heights             \* heights given to mark_committed

ASSUME LedgerAssumption ==
    /\ Foreign \notin Creators
    /\ ForeignStamps \subseteq Timestamp
    /\ MAX_CLOCK_SKEW_MS \in Nat /\ MaxMillis \in Nat
    /\ MaxTicks \in Nat /\ Heights \subseteq Nat

Millis == 0..MaxMillis

DagNode == [parents : SUBSET Hashes, creator : Creators \cup {Foreign},
            timestamp : Timestamp]

VARIABLES
    clock,      \* per creator: HybridClock.latest
    ticks,      \* clock calls so far
    content,    \* hash -> DagNode, for every node made so far
    nodes,      \* Dag.nodes: the hashes it holds
    children,   \* Dag.children: <<parent, child>> pairs
    store,      \* per replica: MemoryStore.nodes, hash -> DagNode
    links,      \* per replica: MemoryStore.children as <<parent, child>> pairs
    replaced,   \* per replica: the hashes whose node gave way to another
    committed,  \* per replica: <<hash, height>> pairs of MemoryStore.committed
    max_committed_height

dagVars   == <<clock, ticks, nodes, children>>
storeVars == <<store, links, replaced, committed, max_committed_height>>
vars == <<dagVars, content, storeVars>>

Known == DOMAIN content
Stored(r) == DOMAIN store[r]
parents(h) == content[h].parents
timestamp(h) == content[h].timestamp

----------------------------------------------------------------------------
Init ==
    /\ clock = [c \in Creators |-> ZERO]
    /\ ticks = 0
    /\ content = [h \in {} |-> ZERO]
    /\ nodes = {} /\ children = {}
    /\ store = [r \in Replicas |-> [h \in {} |-> ZERO]]
    /\ links = [r \in Replicas |-> {}] /\ replaced = [r \in Replicas |-> {}]
    /\ committed = [r \in Replicas |-> {}]
    /\ max_committed_height = [r \in Replicas |-> 0]

(* Mutant: the counter is read, not advanced. *)
tick_Stale(t) == t

(* HybridClock::tick, with the wrapping `+ 1' of the release build. *)
tick(t) == [t EXCEPT !.logical = (@ + 1) % (LogicalMax + 1)]

advance(c, millis) ==
    /\ ticks < MaxTicks
    /\ ticks' = ticks + 1
    /\ clock' = [clock EXCEPT ![c] =
                    tick(IF millis > @.physical_ms
                         THEN [physical_ms |-> millis, logical |-> 0] ELSE @)]
    /\ UNCHANGED <<nodes, children, content, storeVars>>

(* BTreeMap::insert. *)
Insert(f, h, n) == [g \in (DOMAIN f) \cup {h} |-> IF g = h THEN n ELSE f[g]]

(* h becomes the hash of the contents n. *)
Define(h, n) == content' = Insert(content, h, n)

AcceptsParents(P) ==
    /\ P = {} => nodes = {}
    /\ P \subseteq nodes

(* dag::append.  The clock has ticked even when the node exists already. *)
append(c, P, h) ==
    LET n == [parents |-> P, creator |-> c, timestamp |-> tick(clock[c])]
    IN  /\ ticks < MaxTicks
        /\ AcceptsParents(P)
        /\ ticks' = ticks + 1
        /\ clock' = [clock EXCEPT ![c] = n.timestamp]
        /\ IF \E g \in nodes : content[g] = n
           THEN UNCHANGED <<nodes, children, content>>
           ELSE /\ h \notin Known
                /\ Define(h, n)
                /\ children' = children \cup {<<p, h>> : p \in P}
                /\ nodes' = nodes \cup {h}
        /\ UNCHANGED storeVars

(* A creator outside the model makes a node over nodes it has seen. *)
ForeignNode(P, t, h) ==
    LET n == [parents |-> P, creator |-> Foreign, timestamp |-> t]
    IN  /\ h \notin Known
        /\ P \subseteq Known
        /\ \A g \in Known : content[g] # n
        /\ Define(h, n)
        /\ UNCHANGED <<dagVars, storeVars>>

(* Mutant: `<' instead of `<=', so an equal timestamp is let through. *)
FollowsParents_Equal(r, n) ==
    \A p \in n.parents : p \in Stored(r) /\ NotAfter(store[r][p].timestamp, n.timestamp)

FollowsParents(r, n) ==
    \A p \in n.parents : p \in Stored(r) /\ Before(store[r][p].timestamp, n.timestamp)

WithinSkew(n, wall) ==
    n.timestamp.physical_ms > 0 => n.timestamp.physical_ms <= wall + MAX_CLOCK_SKEW_MS

Replaces(r, h, n) == h \in Stored(r) /\ store[r][h] # n

(* Mutant: the links of a hash are made once, at its first put. *)
put_LinksOnce(r, h, n) ==
    /\ links' = [links EXCEPT ![r] = @ \cup IF h \in Stored(r) THEN {}
                                            ELSE {<<p, h>> : p \in n.parents}]
    /\ store' = [store EXCEPT ![r] = Insert(@, h, n)]
    /\ replaced' = [replaced EXCEPT ![r] = @ \cup IF Replaces(r, h, n) THEN {h} ELSE {}]

(* MemoryStore::put of the node n under h, a new hash or one already there: the
   node is replaced, links are only added.  A repeated put repeats the entries
   of the children Vecs, which are only tested for emptiness. *)
put(r, h, n) ==
    /\ links' = [links EXCEPT ![r] = @ \cup {<<p, h>> : p \in n.parents}]
    /\ store' = [store EXCEPT ![r] = Insert(@, h, n)]
    /\ replaced' = [replaced EXCEPT ![r] = @ \cup IF Replaces(r, h, n) THEN {h} ELSE {}]

(* A node n with h in its hash field, which is not compared with n. *)
validated_append(r, h, n, wall) ==
    /\ WithinSkew(n, wall)
    /\ FollowsParents(r, n)
    /\ put(r, h, n)
    /\ UNCHANGED <<dagVars, content, committed, max_committed_height>>

NewHeight(r, height) ==
    IF height > max_committed_height[r] THEN height ELSE max_committed_height[r]

mark_committed(r, h, height) ==
    /\ h \in Stored(r)
    /\ committed' = [committed EXCEPT ![r] =
                        {m \in @ : m[1] # h} \cup {<<h, height>>}]
    /\ max_committed_height' = [max_committed_height EXCEPT ![r] = NewHeight(r, height)]
    /\ UNCHANGED <<dagVars, content, store, links, replaced>>

Next ==
    \/ \E c \in Creators, millis \in Millis : advance(c, millis)
    \/ \E c \in Creators, P \in SUBSET Known, h \in Hashes : append(c, P, h)
    \/ \E P \in SUBSET Known, t \in ForeignStamps, h \in Hashes : ForeignNode(P, t, h)
    \/ \E r \in Replicas, h, g \in Known, wall \in Millis :
          validated_append(r, h, content[g], wall)
    \/ \E r \in Replicas, h \in Hashes, height \in Heights : mark_committed(r, h, height)

Spec == Init /\ [][Next]_vars

----------------------------------------------------------------------------
TypeOK ==
    /\ clock \in [Creators -> Timestamp]
    /\ ticks \in 0..MaxTicks
    /\ Known \subseteq Hashes
    /\ content \in [Known -> DagNode]
    /\ nodes \subseteq Known
    /\ children \subseteq nodes \X nodes
    /\ DOMAIN store = Replicas
    /\ \A r \in Replicas : store[r] \in [Stored(r) -> DagNode] /\ Stored(r) \subseteq Known
    /\ links \in [Replicas -> SUBSET (Known \X Known)]
    /\ replaced \in [Replicas -> SUBSET Known]
    /\ committed \in [Replicas -> SUBSET (Hashes \X Heights)]
    /\ max_committed_height \in [Replicas -> Heights \cup {0}]

(* C is the table of contents, S a set of its hashes. *)
ParentClosed(C, S) == \A h \in S : C[h].parents \subseteq S

(* No cycle: every non-empty part of S has a node with no parent in it. *)
WellFounded(C, S) ==
    \A T \in SUBSET S : T # {} => \E h \in T : C[h].parents \cap T = {}

(* Any two nodes have a common ancestor: two non-empty sets closed under
   parents meet. *)
CommonRoot(C, S) ==
    \A A, B \in SUBSET S :
       A # {} /\ B # {} /\ ParentClosed(C, A) /\ ParentClosed(C, B) => A \cap B # {}

(* dag.rs "append-only directed acyclic graph" and `append''s rule on empty
   parents: the DAG has no cycle and a single genesis, and every node descends
   from it. *)
OneRootedDag ==
    /\ ParentClosed(content, nodes)
    /\ WellFounded(content, nodes)
    /\ CommonRoot(content, nodes)

(* The edges of S that no hash in X is the parent of have no cycle. *)
WellFoundedBut(C, S, X) ==
    \A T \in SUBSET S : T # {} => \E h \in T : C[h].parents \cap T \subseteq X

(* validated_append, "node timestamp must strictly exceed all parent
   timestamps": however nodes are delivered, and whatever hash they claim, a
   store never holds a node without its parents; timestamps increase along
   every edge whose parent is still the node that was put first under its hash,
   and every cycle goes through a hash whose node was replaced. *)
StoreCausal ==
    \A r \in Replicas :
       /\ ParentClosed(store[r], Stored(r))
       /\ \A h \in Stored(r) : \A p \in store[r][h].parents \ replaced[r] :
             Before(store[r][p].timestamp, store[r][h].timestamp)
       /\ WellFoundedBut(store[r], Stored(r), replaced[r])

(* The DAG that writers grow is acyclic and rooted, and the stores that replicas
   fill, in any order of delivery, are causal up to the hashes whose node was
   replaced (append, validated_append). *)
LedgerSound == OneRootedDag /\ StoreCausal

(* `tips' of Dag and of MemoryStore filter on the children index. *)
Tips(held, index) == {h \in held : \A e \in index : e[1] # h}

----------------------------------------------------------------------------
(* The traversals of dag.rs.  P gives the parents of the nodes held; rank is the
   order of the hashes, which sorts what is otherwise free. *)

(* The breadth-first walk of `ancestors': each round visits the parents of what
   was visited; it ends after as many rounds as there are nodes. *)
Visited(P, held, h) ==
    LET walk[k \in 0..Cardinality(held)] ==
            IF k = 0 THEN IF h \in held THEN P[h] ELSE {}
            ELSE walk[k - 1] \cup UNION {P[g] : g \in walk[k - 1] \cap held}
    IN  walk[Cardinality(held)]

InRank(S, rank) ==
    CHOOSE s \in [1..Cardinality(S) -> S] :
       \A i, j \in 1..Cardinality(S) : i < j => rank[s[i]] < rank[s[j]]

(* One turn of the loop: the front of the queue is put out, and what it was the
   last pending parent of is queued. *)
Pop(P, S, rank, state) ==
    LET front == Head(state.queue)
        fed == {h \in S : front \in P[h]}
        pending == [h \in S |-> state.pending[h] - IF h \in fed THEN 1 ELSE 0]
    IN  [result |-> Append(state.result, front), pending |-> pending,
         queue |-> Tail(state.queue) \o InRank({h \in fed : pending[h] = 0}, rank)]

(* pending is in_degree: the parents within the set. *)
topological_sort(P, S, rank) ==
    LET degree == [h \in S |-> Cardinality(P[h] \cap S)]
        loop[k \in 0..Cardinality(S)] ==
            IF k = 0 THEN [result |-> <<>>, pending |-> degree,
                           queue |-> InRank({h \in S : degree[h] = 0}, rank)]
            ELSE IF loop[k - 1].queue = <<>> THEN loop[k - 1]
            ELSE Pop(P, S, rank, loop[k - 1])
    IN  loop[Cardinality(S)].result

ancestors(P, held, h, rank) == topological_sort(P, Visited(P, held, h), rank)

(* A node handed in is a hash, the contents it shows and whether its signature
   is good.  Only the contents a hash was computed from have that hash. *)
verify_node(C, held, h, shown, signed) ==
    /\ h \in DOMAIN C /\ C[h] = shown
    /\ shown.parents \subseteq held
    /\ signed
    /\ shown.parents # {} => h \notin Visited([g \in held |-> C[g].parents], held, h)

(* append.rs: the parents are there and the hash is that of the contents. *)
verify_stored_integrity(r, h) ==
    /\ store[r][h].parents \subseteq Stored(r)
    /\ content[h] = store[r][h]

(* ancestors: each node that a chain of parents leads to, once, after its own
   parents (dag.rs "in topological order (parents before children)"), whatever
   the order of the hashes is. *)
AncestorsInOrder(P, held, rank) ==
    \A h \in held :
       LET s == ancestors(P, held, h, rank)
           put_out == {s[i] : i \in 1..Len(s)}
       IN  /\ Len(s) = Cardinality(put_out)
           /\ P[h] \subseteq put_out
           /\ \A i \in 1..Len(s) :
                /\ P[s[i]] \subseteq {s[j] : j \in 1..(i - 1)}
                /\ s[i] \in P[h] \/ \E j \in 1..Len(s) : s[i] \in P[s[j]]

(* verify_node: the DAG's own nodes pass and no other contents do under their
   hashes; a cycle is never found.  verify_stored_integrity finds every node
   held under a hash that is not its own, and nothing else: no parent is ever
   missing. *)
NodesVerify ==
    /\ \A h \in nodes, g \in Known :
          verify_node(content, nodes, h, content[g], TRUE) <=> g = h
    /\ \A r \in Replicas : \A h \in Stored(r) :
          verify_stored_integrity(r, h) <=> store[r][h] = content[h]

----------------------------------------------------------------------------
Leaves(C, held) == {h \in held : \A g \in held : h \notin C[g].parents}

(* `tips' of the DAG returns exactly the nodes no other node extends.  On a store
   it never returns a node that another one extends, after duplicate and late
   deliveries too, and misses a leaf only for a link that a replaced node left
   behind. *)
TipsAreLeaves ==
    /\ Tips(nodes, children) = Leaves(content, nodes)
    /\ \A r \in Replicas :
          /\ Tips(Stored(r), links[r]) \subseteq Leaves(store[r], Stored(r))
          /\ \A h \in Leaves(store[r], Stored(r)) \ Tips(Stored(r), links[r]) :
                \E e \in links[r] : e[1] = h /\ e[2] \in replaced[r]

(* A creator's own nodes are ordered: no node is stamped later than its
   creator's clock, no two nodes of a creator share a timestamp, so `append'
   never meets NodeAlreadyExists, and an edge between two nodes of one creator
   passes the check of validated_append.  (An edge between two creators need
   not: `append' does not merge the parents' timestamps into its clock.) *)
CreatorOrder ==
    \A h \in nodes :
       /\ content[h].creator \in Creators
       /\ NotAfter(timestamp(h), clock[content[h].creator])
       /\ \A g \in nodes \ {h} :
             content[g].creator = content[h].creator
                => /\ timestamp(g) # timestamp(h)
                   /\ g \in parents(h) => Before(timestamp(g), timestamp(h))

(* mark_committed: every committed node is stored, has one height, and no
   height is above committed_height, whatever order heights are marked in. *)
HeightCoversCommitted ==
    \A r \in Replicas : \A m \in committed[r] :
       /\ m[1] \in Stored(r)
       /\ m[2] <= max_committed_height[r]
       /\ \A k \in committed[r] : k[1] = m[1] => k = m

(* What the indices answer is what the nodes held say, after duplicate and late
   deliveries and heights marked in any order, but for what replaced nodes leave
   in the children index (tips, committed_height). *)
IndicesExact == TipsAreLeaves /\ HeightCoversCommitted
============================================================================
