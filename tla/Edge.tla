-------------------------------- MODULE Edge --------------------------------
(* The two small crates at the edge of the system.                           *)
(*                                                                           *)
(* crates/exo-tenant: the tenant registry (tenant.rs), the per-tenant store  *)
(* (store.rs), the storage tiers (cold_storage.rs) and the shard arithmetic  *)
(* (shard.rs).  The three maps do not know of each other.  A Uuid is drawn   *)
(* once: a tenant that was deleted never comes back under its id.            *)
EXTENDS Gateway, GatewayDb, Gatekeeper

CONSTANTS
    TenantIds,   \* Uuids of tenants
    ItemIds,     \* Uuids of items and of storage records
    Contents     \* content digests

VARIABLES
    tenants,     \* TenantRegistry.tenants: id -> status
    drawn,       \* tenant ids ever drawn
    handed,      \* history: tenants whose status a caller wrote himself
    store,       \* TenantStore.data: tenant -> item id -> item
    tiers        \* StorageManager.records: id -> tier

tenantVars == <<tenants, drawn, handed, store, tiers>>

TenantStatus == {"Active", "Suspended", "Archived"}
StorageTier == <<"Hot", "Warm", "Cold", "Archive">>
TenantData == [id : ItemIds, tenant_id : TenantIds, content_hash : Contents]

Partial(S, T) == UNION {[D -> T] : D \in SUBSET S}

TenantsTypeOK ==
    /\ tenants \in Partial(TenantIds, TenantStatus) /\ DOMAIN tenants \subseteq drawn
    /\ handed \subseteq drawn
    /\ store \in Partial(TenantIds, Partial(ItemIds, TenantData))
    /\ tiers \in Partial(ItemIds, DOMAIN StorageTier)

TenantsInit == tenants = <<>> /\ drawn = {} /\ handed = {} /\ store = <<>> /\ tiers = <<>>

SetKey(f, k, v) == [x \in DOMAIN f \cup {k} |-> IF x = k THEN v ELSE f[x]]
DropKey(f, k) == [x \in DOMAIN f \ {k} |-> f[x]]

----------------------------------------------------------------------------
create(id) ==
    /\ id \notin drawn
    /\ tenants' = SetKey(tenants, id, "Active")
    /\ drawn' = drawn \cup {id}
    /\ UNCHANGED <<handed, store, tiers>>

StatusChanges ==
    {<<"Active", "Suspended">>, <<"Active", "Archived">>,
     <<"Suspended", "Active">>, <<"Suspended", "Archived">>}

update_status(id, status) ==
    /\ id \in DOMAIN tenants
    /\ <<tenants[id], status>> \in StatusChanges
    /\ tenants' = [tenants EXCEPT ![id] = status]
    /\ UNCHANGED <<drawn, handed, store, tiers>>

(* get_mut lends the tenant itself: the caller may write any status. *)
get_mut(id, status) ==
    /\ id \in DOMAIN tenants
    /\ tenants' = [tenants EXCEPT ![id] = status]
    /\ handed' = handed \cup {id}
    /\ UNCHANGED <<drawn, store, tiers>>

(* The tenant's data and records stay where they are. *)
delete_tenant(id) ==
    /\ id \in DOMAIN tenants
    /\ tenants' = DropKey(tenants, id)
    /\ UNCHANGED <<drawn, handed, store, tiers>>

(* put asks whether the item names the tenant, not whether the tenant exists *)
(* or is active.                                                             *)
put(tenant, item) ==
    /\ item.tenant_id = tenant
    /\ store' = SetKey(store, tenant,
                       SetKey(IF tenant \in DOMAIN store THEN store[tenant] ELSE <<>>, item.id, item))
    /\ UNCHANGED <<tenants, drawn, handed, tiers>>

delete_item(tenant, item) ==
    /\ tenant \in DOMAIN store /\ item \in DOMAIN store[tenant]
    /\ store' = [store EXCEPT ![tenant] = DropKey(@, item)]
    /\ UNCHANGED <<tenants, drawn, handed, tiers>>

get_item(tenant, item) ==
    IF tenant \in DOMAIN store /\ item \in DOMAIN store[tenant] THEN {store[tenant][item]} ELSE {}
get_isolated(tenant, item) == {x \in get_item(tenant, item) : x.tenant_id = tenant}
count_items(tenant) == IF tenant \in DOMAIN store THEN Cardinality(DOMAIN store[tenant]) ELSE 0

(* register overwrites whatever tier the record had. *)
register_record(id, tier) ==
    /\ tiers' = SetKey(tiers, id, tier)
    /\ UNCHANGED <<tenants, drawn, handed, store>>

migrate(id, from, to) ==
    /\ id \in DOMAIN tiers
    /\ tiers[id] = from
    /\ to >= from
    /\ tiers' = [tiers EXCEPT ![id] = to]
    /\ UNCHANGED <<tenants, drawn, handed, store>>

count_by_tier(tier) == Cardinality({id \in DOMAIN tiers : tiers[id] = tier})

TenantsNext ==
    \/ \E t \in TenantIds :
          \/ create(t) \/ delete_tenant(t)
          \/ \E s \in TenantStatus : update_status(t, s) \/ get_mut(t, s)
          \/ \E x \in TenantData : put(t, x)
          \/ \E i \in ItemIds : delete_item(t, i)
    \/ \E i \in ItemIds, a, b \in DOMAIN StorageTier : register_record(i, a) \/ migrate(i, a, b)

TenantsSpec == TenantsInit /\ [][TenantsNext]_tenantVars

----------------------------------------------------------------------------
(* Shards.  assign_shard reads the first four bytes of the key as a number.  *)
assign_shard(val, num_shards) == val % num_shards
replica_shards(primary, num_shards, replication_factor) ==
    [i \in 1..replication_factor |-> (primary + i - 1) % num_shards]
migration_plan(val, old, grown) == <<assign_shard(val, old), assign_shard(val, grown)>>

(* A key's replicas are on as many different shards as there can be, the     *)
(* primary first, whatever the configuration (shard.rs:22-37).               *)
ReplicasSpread(vals, sizes) ==
    \A v \in vals, n, rf \in sizes :
       LET r == replica_shards(assign_shard(v, n), n, rf)
       IN /\ r[1] = assign_shard(v, n)
          /\ Cardinality({r[i] : i \in 1..rf}) = (IF rf < n THEN rf ELSE n)
          /\ \A i \in 1..rf : r[i] \in 0..(n - 1)

(* Whatever is stored under a tenant was put there for that tenant, so that  *)
(* get and get_isolated never differ (store.rs:46-68), and an id that two    *)
(* tenants use for an item of their own names two items.                     *)
TenantsIsolated ==
    \A t \in TenantIds, i \in ItemIds :
       /\ get_item(t, i) = get_isolated(t, i)
       /\ \A x \in get_item(t, i) : x.id = i

(* Of every step: an archived tenant stays so until it is deleted, unless a  *)
(* caller wrote its status through get_mut at some time, and an id that was  *)
(* deleted never names a tenant again (tenant.rs:71-100).                    *)
ArchivedForGood ==
    \A t \in drawn :
       /\ t \notin DOMAIN tenants => t \notin DOMAIN tenants'
       /\ t \notin handed' /\ t \in DOMAIN tenants /\ tenants[t] = "Archived" /\ t \in DOMAIN tenants' =>
             tenants'[t] = "Archived"

-----------------------------------------------------------------------------
(* Peer management of crates/exo-api/src/p2p.rs: the registry, the rate      *)
(* limiter, the selection of peers from many autonomous systems (ASNs) and   *)
(* the rotation of stale ones; and the request schema (schema.rs).  A peer   *)
(* discovered at an address is known by the digest of the address: the       *)
(* address itself here.                                                      *)
CONSTANTS
    Addresses,        \* bootstrap addresses, also peer ids
    Asns,             \* ASNs, 0 for a peer whose ASN is not known
    MAX_PER_WINDOW,   \* messages of one peer between two resets
    MaxPeersPerAsn,   \* AsnPolicy.max_peers_per_asn
    MinUniqueAsns,    \* AsnPolicy.min_unique_asns
    MaxAge,           \* AsnPolicy.rotation_interval_ms
    PeerTimes         \* times of last contact and of a rotation

ASSUME PeerBounds == MAX_PER_WINDOW \in Nat

VARIABLES
    peers,     \* PeerRegistry.peers: id -> reputation_score
    counts,    \* RateLimiter.counts
    passed,    \* messages let through since the last reset, by peer
    current    \* the peers in use, a sequence of PeerMetadata

peerVars == <<peers, counts, passed, current>>

PeerMetadata == [id : Addresses, asn : Asns, last_seen : PeerTimes]

PeersTypeOK ==
    /\ DOMAIN peers \subseteq Addresses
    /\ \A p \in DOMAIN counts : counts[p] \in 0..MAX_PER_WINDOW
    /\ current \in Seq(PeerMetadata)

PeersInit == peers = <<>> /\ counts = <<>> /\ passed = <<>> /\ current = <<>>

At(f, k, default) == IF k \in DOMAIN f THEN f[k] ELSE default

----------------------------------------------------------------------------
register_peer(id, score) ==
    /\ peers' = SetKey(peers, id, score)
    /\ UNCHANGED <<counts, passed, current>>

(* A known peer keeps what the registry has of it. *)
discover_peers(bootstrap) ==
    /\ peers' = [p \in DOMAIN peers \cup bootstrap |-> At(peers, p, 50)]
    /\ UNCHANGED <<counts, passed, current>>

(* send: a message to one peer needs that peer; verify_message: a signature. *)
send(to) == to \in DOMAIN peers
verify_message(signed) == signed

check_and_increment(p) ==
    /\ At(counts, p, 0) < MAX_PER_WINDOW
    /\ counts' = SetKey(counts, p, At(counts, p, 0) + 1)
    /\ passed' = SetKey(passed, p, At(passed, p, 0) + 1)
    /\ UNCHANGED <<peers, current>>

(* The window is whatever lies between two resets. *)
reset ==
    /\ counts' = <<>> /\ passed' = <<>>
    /\ UNCHANGED <<peers, current>>

----------------------------------------------------------------------------
(* AsnPolicy and the selection. *)
effective_asn(p) == p.asn

AsnsOf(ps) == {effective_asn(ps[i]) : i \in DOMAIN ps}

check_asn_diversity(ps) ==
    IF Cardinality(AsnsOf(ps)) >= MinUniqueAsns THEN "Sufficient" ELSE "Insufficient"

Bucket(ps, a) == SelectSeq(ps, LAMBDA p : effective_asn(p) = a)

(* Round r takes the r-th peer of every ASN, ASNs in order, until enough are *)
(* selected; there are at most max_peers_per_asn rounds.                     *)
Round(ps, r) ==
    LET having == {a \in AsnsOf(ps) : Len(Bucket(ps, a)) >= r}
        order == SetToSortSeq(having, <)
    IN [i \in DOMAIN order |-> Bucket(ps, order[i])[r]]

select_diverse_peers(candidates, max_peers) ==
    LET all == FlattenSeq([r \in 1..MaxPeersPerAsn |-> Round(candidates, r)])
    IN SubSeq(all, 1, Min({max_peers, Len(all)}))

Monus(a, b) == IF a < b THEN 0 ELSE a - b
identify_stale_peers(ps, now) ==
    {ps[i].id : i \in {j \in DOMAIN ps : Monus(now, ps[j].last_seen) > MaxAge}}

(* Stale peers go; as many peers as went, at most, come from the candidates  *)
(* not in use, an evicted peer among them.                                   *)
KeptPeers(ps, now) == SelectSeq(ps, LAMBDA p : p.id \notin identify_stale_peers(ps, now))

rotate_peers_Unfiltered(candidates, now) ==   \* mutant: candidates in use are not left out
    /\ current' = KeptPeers(current, now)
                     \o select_diverse_peers(candidates, Cardinality(identify_stale_peers(current, now)))
    /\ UNCHANGED <<peers, counts, passed>>

rotate_peers(candidates, now) ==
    LET stale == identify_stale_peers(current, now)
        kept == KeptPeers(current, now)
        fresh == SelectSeq(candidates, LAMBDA c : \A i \in DOMAIN kept : kept[i].id # c.id)
    IN /\ current' = kept \o select_diverse_peers(fresh, Cardinality(stale))
       /\ UNCHANGED <<peers, counts, passed>>

(* A node starts from a selection of its candidates. *)
Connect(candidates, max_peers) ==
    /\ current = <<>>
    /\ current' = select_diverse_peers(candidates, max_peers)
    /\ UNCHANGED <<peers, counts, passed>>

PeersNext(candidates, max_peers) ==
    \/ \E p \in Addresses : register_peer(p, 10) \/ check_and_increment(p)
    \/ \E b \in SUBSET Addresses : discover_peers(b)
    \/ reset
    \/ Connect(candidates, max_peers)
    \/ \E now \in PeerTimes : rotate_peers(candidates, now)

(* Any candidates, any number of peers wanted. *)
PeersSpec ==
    PeersInit /\ [][\E candidates \in Seq(PeerMetadata), n \in Nat : PeersNext(candidates, n)]_peerVars

----------------------------------------------------------------------------
(* schema.rs: canonical_request_hash, the digest of the encoded request.  Of *)
(* a request that cannot be encoded it is the digest of nothing.             *)
ApiRequest == {"CreateTransaction", "TransitionState", "QueryTransaction", "ResolveIdentity",
               "RegisterIdentity", "Deliberate", "Vote", "Challenge"}
ApiResponse == {"Success", "Error", "TransactionState", "Identity", "Receipt"}
canonical_request_hash(request, encodes) == IF encodes THEN <<request>> ELSE <<>>

----------------------------------------------------------------------------
(* How often a list names a peer: nothing keeps a list of candidates from    *)
(* naming one twice, as when two neighbours report it.                       *)
Named(ps, p) == Cardinality({i \in DOMAIN ps : ps[i].id = p})

(* A selection is as large as the caps allow, names no peer more often than  *)
(* the candidates do, never takes more of one ASN than the policy says, and  *)
(* reaches every ASN there is before it takes a second entry of any: the     *)
(* most diverse choice of its size (p2p.rs:204-246).                         *)
SelectionDiverse(candidates, sizes) ==
    \A n \in sizes :
       LET s == select_diverse_peers(candidates, n)
           room == MapThenSumSet(LAMBDA a : Min({MaxPeersPerAsn, Len(Bucket(candidates, a))}),
                                 AsnsOf(candidates))
       IN /\ Len(s) = Min({n, room})
          /\ \A p \in Addresses : Named(s, p) <= Named(candidates, p)
          /\ Cardinality(AsnsOf(s)) = Min({n, Cardinality(AsnsOf(candidates))})
          /\ \A a \in AsnsOf(s) : Len(Bucket(s, a)) <= MaxPeersPerAsn

(* After any number of rotations, against these lists of candidates in any   *)
(* order, a peer is listed no more often than one of them names it, so that  *)
(* a peer no list repeats is listed once: a rotation never adds a peer that  *)
(* is in use, and when it drops one it drops every entry of it               *)
(* (p2p.rs:268-297).                                                         *)
PeersRepeatNothing(lists) ==
    \A p \in Addresses : \E candidates \in lists : Named(current, p) <= Named(candidates, p)

(* No peer sends more than its limit between two resets. *)
RateHolds == \A p \in DOMAIN passed : passed[p] <= MAX_PER_WINDOW /\ passed[p] = At(counts, p, 0)

----------------------------------------------------------------------------
(* Of every step of the database, of the tenants and of the holons: no row's *)
(* own columns change (db.rs), no archived tenant returns (tenant.rs), and   *)
(* no denied or suspended holon goes on by itself (holon.rs).                *)
NothingRewritten ==
    [][FirstWriteStands /\ ArchivedForGood /\ HolonsGoverned]_<<dbVars, tenantVars, holonVars>>
=============================================================================
