------------------------------- MODULE TxGossip -------------------------------
(***************************************************************************)
(* How transactions reach the mempool and how they are told on:            *)
(* announcements and the pulls they cause, bodies, the inbox, the three    *)
(* callers of admit_spend_bundle, the peaks that retry what was set aside, *)
(* and the re-broadcast (full-node/src/daemon.rs, tx_admission.rs, rpc.rs).*)
(* A peer may announce anything and send any body at any time: lost, late, *)
(* repeated and unasked answers are all included.  Mempool::admit is       *)
(* reduced to its outcomes (Outcomes below); when it gives which one is    *)
(* the subject of Mempool.                                                 *)
(***************************************************************************)
EXTENDS TxQueue

CONSTANTS
  Peers, Trusted,
  Txs, Valid,         \* bundles, and those that pass CLVM and signature
  Locked,             \* those with time locks
  Rivals, Beats,      \* pairs that spend the same coin, and where the first may replace the second
  Local,              \* bundles that local clients submit
  Price,              \* bundle -> [fee, cost] by our own validation
  Advert,             \* peer -> bundle -> [fee, cost] it announces
  MaxBlockCost, Quote,
  Scenarios           \* bounds: announcements acted on, changes of the synced
                      \* flag, drops (reorgs, and residents that leave otherwise),
                      \* and the local clients there are

ASSUME GossipAssumption ==
  /\ Trusted \subseteq Peers /\ Valid \subseteq Txs /\ Local \subseteq Txs
  /\ Scenarios \subseteq [ads : Nat, flips : Nat, drops : Nat, clients : SUBSET {"rpc", "wallet"}]
  /\ Advert \in [Peers -> [Txs -> [fee : Nat, cost : Nat]]]

VARIABLES
  left,               \* what is left of the scenario's bounds
  synced, banned,
  tx_requested,       \* bundle -> the advert it was pulled on
  tx_inbox,
  batch,              \* what the worker has drained and not handled yet
  task,               \* submitter -> the bundle it has in hand, and what is next
  resident, seen,
  aside,              \* <<cache, bundle>>: the pending and the conflict cache
  follower,           \* the peak's pass over the pool: what it has to retry, what
                      \* it has to announce, and whether it will
  tx_announce,        \* bundle -> announcements queued
  told,               \* bundle -> how many times it was broadcast
  entered             \* bundle -> how often it became resident, silent peaks apart

read == <<synced, banned, tx_requested, tx_inbox>>
pool == <<resident, seen, aside, entered>>
vars == <<left, read, batch, task, pool, follower, tx_announce, told>>

Submitters == {"worker", "rpc", "wallet"}
Idle == [step |-> "idle", name |-> ""]
Holding(step, n) == [step |-> step, name |-> n]
None == [n \in Txs |-> 0]

\* The pool has room for these at once: no lock to wait for and no rival.
Fits == {n \in Valid \ Locked : \A pair \in Rivals : pair[1] # n}

Init ==
  /\ left \in Scenarios
  /\ synced = TRUE /\ banned = {}
  /\ tx_requested = [n \in {} |-> 0]
  /\ tx_inbox = EmptyQueue /\ batch = EmptyQueue
  /\ task = [s \in Submitters |-> Idle]
  /\ resident = {} /\ seen = {} /\ aside = {} /\ entered = None
  /\ follower = [todo |-> {}, owed |-> None, quiet |-> FALSE]
  /\ tx_announce = None /\ told = None

-----------------------------------------------------------------------------
(* The pool.                                                               *)

\* new_peak keeps the mempool's lock until it has retried everything.
LockFree == follower.todo = {}

\* What Mempool::admit may do with a validated bundle: let it in at the expense
\* of the rivals it beats and of cheaper residents, park it, cache it as the
\* loser against a rival, or refuse it, having evicted rivals already or not.
\* A resident succeeds with no change.  The caps of the two caches are left out.
Outcomes(n) ==
  LET rivals == {m \in resident : <<n, m>> \in Rivals}
      loses == \E m \in rivals : <<n, m>> \notin Beats
      Result(ok, gone, to) == [ok |-> ok, gone |-> gone, to |-> to]
  IN IF n \in resident THEN {Result(TRUE, {}, {})}
     ELSE {r \in {Result(TRUE, gone, {}) : gone \in SUBSET resident}
                 \cup {Result(FALSE, gone, {}) : gone \in {{}, IF loses THEN {} ELSE rivals}}
                 \cup {Result(FALSE, {}, {<<cache, n>>}) : cache \in {"pending", "conflict"}} :
             /\ Cardinality(r.gone) <= left.drops
             /\ r.ok => ~loses /\ rivals \subseteq r.gone
             /\ <<"pending", n>> \in r.to => n \in Locked
             /\ <<"conflict", n>> \in r.to => loses
             /\ ~r.ok /\ r.to = {} => n \notin Fits \/ entered[n] > 0}

\* The outcome's effect on the residents.
Settle(n, r) ==
  /\ resident' = (resident \ r.gone) \cup (IF r.ok THEN {n} ELSE {})
  /\ left' = [left EXCEPT !.drops = @ - Cardinality(r.gone)]

\* A residence that begins.
Enter(n, r) == IF r.ok /\ n \notin resident THEN [entered EXCEPT ![n] = @ + 1] ELSE entered

-----------------------------------------------------------------------------
(* The read loops of the connections.                                      *)

\* on_new_transaction.  Synced, the cost is positive and fits a block, the
\* bundle is not resident, its fee may be enough, and no pull is under way, or
\* the one that is has passed REQUEST_TIMEOUT (whether it has is a choice: a
\* pull that is found too old is replaced here and forgotten in Tick).
Announce(p, n) ==
  LET ad == Advert[p][n] IN
  /\ left.ads > 0 /\ left' = [left EXCEPT !.ads = @ - 1]
  /\ synced /\ p \notin banned /\ LockFree
  /\ ad.cost \in 1 .. MaxBlockCost /\ n \notin resident
  /\ tx_requested' = Put(tx_requested, n, ad)
  /\ UNCHANGED <<synced, banned, tx_inbox, batch, task, pool, follower, tx_announce, told>>

\* The two announcements that ban: no cost at all, or a price that contradicts
\* our own validation (an older peer's quote overhead apart).
Ban(p, n) ==
  LET ad == Advert[p][n] IN
  /\ left.ads > 0 /\ left' = [left EXCEPT !.ads = @ - 1]
  /\ synced /\ p \notin banned
  /\ \/ ad.cost = 0
     \/ /\ ad.cost <= MaxBlockCost /\ LockFree /\ n \in resident
        /\ \/ ad.cost \notin {Price[n].cost, Price[n].cost + Quote}
           \/ ad.fee # Price[n].fee
  /\ banned' = banned \cup {p}
  /\ UNCHANGED <<synced, tx_requested, tx_inbox, batch, task, pool, follower, tx_announce, told>>

\* on_respond_transaction: the body uses up the pull, whoever sent it.
Respond(p, n) ==
  /\ synced /\ p \notin banned /\ n \in DOMAIN tx_requested
  /\ tx_requested' = [x \in DOMAIN tx_requested \ {n} |-> tx_requested[x]]
  /\ LET ad == tx_requested[n]
     IN tx_inbox' = push(tx_inbox, p, [name |-> n, fee |-> ad.fee, cost |-> ad.cost], p \in Trusted)
  /\ UNCHANGED <<left, synced, banned, batch, task, pool, follower, tx_announce, told>>

-----------------------------------------------------------------------------
(* The validator worker, and admit_spend_bundle for it and the others.     *)

\* drain_batch, or clear when the node is not synced.  The batch is the queue
\* as it was taken, in the order in which Work pops it.
Drain ==
  /\ is_empty(batch) /\ task["worker"] = Idle /\ ~is_empty(tx_inbox)
  /\ tx_inbox' = EmptyQueue
  /\ batch' = IF synced THEN tx_inbox ELSE EmptyQueue
  /\ UNCHANGED <<left, synced, banned, tx_requested, task, pool, follower, tx_announce, told>>

\* Mutant: a bundle counts as seen from the start of its validation.
BeginMarksSeen(s, n) ==
  /\ task[s] = Idle /\ LockFree
  /\ seen' = seen \cup {n}
  /\ task' = IF n \in resident \cup seen THEN task ELSE [task EXCEPT ![s] = Holding("validate", n)]
  /\ UNCHANGED <<left, read, resident, aside, entered, follower, tx_announce, told>>

\* The early returns: a resident clears its seen entry and succeeds, a seen
\* bundle is refused; the others are validated without the lock.
Begin(s, n) ==
  /\ task[s] = Idle /\ LockFree
  /\ IF n \in resident \cup seen
     THEN seen' = (IF n \in resident THEN seen \ {n} ELSE seen) /\ UNCHANGED task
     ELSE task' = [task EXCEPT ![s] = Holding("validate", n)] /\ UNCHANGED seen
  /\ UNCHANGED <<left, read, resident, aside, entered, follower, tx_announce, told>>

Work ==
  /\ ~is_empty(batch)
  /\ Begin("worker", pop(batch).entry.name)
  /\ LET rest == pop(batch).queue IN batch' = IF is_empty(rest) THEN EmptyQueue ELSE rest

\* The wallet protocol refuses while the node syncs, HTTP's push_tx does not.
SendTransaction(n) == synced /\ Begin("wallet", n) /\ UNCHANGED batch
push_tx(n) == Begin("rpc", n) /\ UNCHANGED batch

\* Mutant: no second look under the lock that admits.
FinishUnchecked(s) ==
  LET n == task[s].name IN
  /\ task[s].step = "validate" /\ LockFree
  /\ \E r \in Outcomes(n) :
       /\ n \in Valid /\ Settle(n, r) /\ entered' = Enter(n, r) /\ aside' = aside \cup r.to
       /\ seen' = IF r.ok THEN seen \cup {n} ELSE seen
       /\ task' = [task EXCEPT ![s] = IF r.ok THEN Holding("announce", n) ELSE Idle]
  /\ UNCHANGED <<read, batch, follower, tx_announce, told>>

\* Validation is over.  An invalid bundle is remembered, one that has become
\* resident meanwhile succeeds, and the others are offered to the pool in the
\* same lock scope: admitted, they are seen and owed an announcement; parked,
\* cached or refused, they are neither.
Finish(s) ==
  LET n == task[s].name IN
  /\ task[s].step = "validate" /\ LockFree
  /\ IF n \in Valid \ resident
     THEN \E r \in Outcomes(n) :
            /\ Settle(n, r) /\ entered' = Enter(n, r) /\ aside' = aside \cup r.to
            /\ seen' = IF r.ok THEN seen \cup {n} ELSE seen
            /\ task' = [task EXCEPT ![s] = IF r.ok THEN Holding("announce", n) ELSE Idle]
     ELSE /\ seen' = IF n \in Valid THEN seen ELSE seen \cup {n}
          /\ task' = [task EXCEPT ![s] = Idle]
          /\ UNCHANGED <<left, resident, aside, entered>>
  /\ UNCHANGED <<read, batch, follower, tx_announce, told>>

\* The announcement is queued once the pool's lock is released.
Push(s) ==
  /\ task[s].step = "announce"
  /\ tx_announce' = [tx_announce EXCEPT ![task[s].name] = @ + 1]
  /\ task' = [task EXCEPT ![s] = Idle]
  /\ UNCHANGED <<left, read, batch, pool, follower, told>>

-----------------------------------------------------------------------------
(* A new peak (notify_new_peak, finish_sync_transition).                   *)

\* A reorg first goes over the whole pool: the seen cache is cleared, and what
\* the winning branch spent or never created is dropped.
RevalidateForReorg ==
  /\ LockFree /\ left.drops > 0 /\ left' = [left EXCEPT !.drops = @ - 1]
  /\ \E gone \in SUBSET resident : resident' = resident \ gone
  /\ seen' = {}
  /\ UNCHANGED <<read, batch, task, aside, entered, follower, tx_announce, told>>

\* Mempool::new_peak up to its retries: what expired leaves and stays seen, what
\* the block spent leaves both; the parked bundles that are due and the whole
\* conflict cache are taken out to be retried.  At the end of a sync (quiet)
\* the block's spends are not passed in, and what comes back is ignored.
NewPeak(quiet) ==
  /\ LockFree
  /\ \E expired \in SUBSET resident, due \in SUBSET {a \in aside : a[1] = "pending"} :
     \E spent \in IF quiet THEN {{}} ELSE SUBSET (resident \ expired) :
       LET gone == expired \cup spent
           todo == due \cup {a \in aside : a[1] = "conflict"}
       IN /\ Cardinality(gone) <= left.drops /\ left' = [left EXCEPT !.drops = @ - Cardinality(gone)]
          /\ resident' = resident \ gone /\ seen' = seen \ spent
          /\ aside' = aside \ todo
          /\ follower' = [follower EXCEPT !.todo = todo, !.quiet = quiet /\ todo # {}]
  /\ UNCHANGED <<read, batch, task, entered, tx_announce, told>>

\* One retry, the pending ones first; one of these that loses to a rival joins
\* the conflict cache before that is drained.  Every Ok is owed an
\* announcement, a bundle that was resident already included.
Retry ==
  \E a \in follower.todo :
    LET n == a[2]
        rest == follower.todo \ {a}
    IN /\ a[1] = "pending" \/ \A b \in rest : b[1] = "conflict"
       /\ \E r \in Outcomes(n) :
            LET back == {b \in r.to : a[1] = "pending" /\ b[1] = "conflict"}
                todo == rest \cup back
            IN /\ Settle(n, r)
               /\ aside' = aside \cup (r.to \ back)
               /\ follower' = [todo |-> todo, quiet |-> follower.quiet /\ todo # {},
                               owed |-> IF r.ok /\ ~follower.quiet
                                        THEN [follower.owed EXCEPT ![n] = @ + 1] ELSE follower.owed]
               /\ entered' = IF follower.quiet THEN entered ELSE Enter(n, r)
       /\ UNCHANGED <<read, batch, task, seen, tx_announce, told>>

\* The announcements of the retried bundles, after the lock is released.
Regossip ==
  /\ LockFree
  /\ \E n \in Txs :
       /\ follower.owed[n] > 0
       /\ follower' = [follower EXCEPT !.owed[n] = @ - 1]
       /\ tx_announce' = [tx_announce EXCEPT ![n] = @ + 1]
  /\ UNCHANGED <<left, read, batch, task, pool, told>>

-----------------------------------------------------------------------------
(* The driver's tick, and the synced flag.                                 *)

\* Pulls past their time are forgotten, and all that was queued goes out to
\* every peer (but its origin, which the model leaves out).
Tick ==
  /\ \E live \in SUBSET DOMAIN tx_requested : tx_requested' = [n \in live |-> tx_requested[n]]
  /\ told' = [n \in Txs |-> told[n] + tx_announce[n]]
  /\ tx_announce' = None
  /\ UNCHANGED <<left, synced, banned, tx_inbox, batch, task, pool, follower>>

SetSynced ==
  /\ left.flips > 0 /\ left' = [left EXCEPT !.flips = @ - 1]
  /\ synced' = ~synced
  /\ UNCHANGED <<banned, tx_requested, tx_inbox, batch, task, pool, follower, tx_announce, told>>

Next ==
  \/ \E p \in Peers, n \in Txs : Announce(p, n) \/ Ban(p, n) \/ Respond(p, n)
  \/ "wallet" \in left.clients /\ \E n \in Local : SendTransaction(n)
  \/ "rpc" \in left.clients /\ \E n \in Local : push_tx(n)
  \/ Drain \/ Work
  \/ \E s \in Submitters : Finish(s) \/ Push(s)
  \/ RevalidateForReorg \/ (\E quiet \in BOOLEAN : NewPeak(quiet)) \/ Retry \/ Regossip
  \/ Tick \/ SetSynced

Spec == Init /\ [][Next]_vars

\* Fairness of the worker, a task that the runtime keeps scheduling, with
\* ENABLED spelled out: it has something to do.  A peak's pass over the pool
\* ends, and the pool's mutex serves who waits in turn.
Worker == Drain \/ Work \/ Finish("worker") \/ Push("worker")
HasWork == task["worker"] # Idle \/ ~is_empty(batch) \/ ~is_empty(tx_inbox)
FairSpec == Spec /\ ([]<>~HasWork \/ []<><<Worker>>_vars)

-----------------------------------------------------------------------------
NamesIn(q) ==
  {e.name : e \in ToSet(q.high) \cup UNION {ToSet(q.lanes[p].queue) : p \in DOMAIN q.lanes}}
Queued == NamesIn(batch) \cup NamesIn(tx_inbox)

\* The announcements of n: broadcast, queued, and owed by whoever let it in.
Sent(n) ==
  told[n] + tx_announce[n] + follower.owed[n]
  + Cardinality({s \in Submitters : task[s] = Holding("announce", n)})

\* Every variable keeps its type.
GossipTypeOK ==
  /\ left \in [ads : Nat, flips : Nat, drops : Nat, clients : SUBSET {"rpc", "wallet"}]
  /\ synced \in BOOLEAN /\ banned \subseteq Peers
  /\ DOMAIN tx_requested \subseteq Txs /\ Queued \subseteq Txs
  /\ task \in [Submitters -> {Idle} \cup [step : {"validate", "announce"}, name : Txs]]
  /\ resident \subseteq Valid /\ seen \subseteq Txs
  /\ aside \cup follower.todo \subseteq {"pending", "conflict"} \X Valid /\ follower.quiet \in BOOLEAN
  /\ {tx_announce, told, entered, follower.owed} \subseteq [Txs -> Nat]

\* The inbox counts what its lanes hold, within both caps whatever was pushed,
\* refused and drained; every lane has exactly one place in the round, so that
\* no peer is passed over or served twice, and is in fee order.
LanesExact ==
  LET q == tx_inbox IN
  /\ q.total_untrusted = MapThenSumSet(LAMBDA p : Len(q.lanes[p].queue), DOMAIN q.lanes)
  /\ q.total_untrusted <= Cap
  /\ ToSet(q.order) = DOMAIN q.lanes /\ IsInjective(q.order)
  /\ \A p \in DOMAIN q.lanes :
       /\ Len(q.lanes[p].queue) <= PerPeer
       /\ \A i, j \in DOMAIN q.lanes[p].queue :
            i < j => ~fee_per_cost_desc(q.lanes[p].queue[j], q.lanes[p].queue[i])

\* In the order a drain serves the untrusted lanes, no peer gets ahead of one
\* that still waits by twice the cost of what that one has on top: a stream of
\* well paying announcements by one peer cannot monopolise validation.
FairShare ==
  LET Price1(e) == IF e.cost > 0 THEN e.cost ELSE MaxTxCost
      Served(service, p, k) ==
        MapThenSumSet(LAMBDA i : Price1(service[i].entry), {i \in 1 .. k : service[i].peer = p})
  IN \A service \in {Service(tx_inbox)} : \A k \in DOMAIN service :
       \A p \in DOMAIN tx_inbox.lanes, q \in Waiting(service[k].queue) :
         Served(service, p, k) - Served(service, q, k) < 2 * top_cost(service[k].queue, q)

\* Every bundle that becomes resident is announced, however many copies of it
\* are pulled, queued, submitted, parked, cached and retried side by side, and
\* whenever it leaves and comes back; and one that can never be set aside is
\* announced exactly once per residence: the copy that loses the race between
\* two validations is silent.  (What a sync's last peak lets in is not told.)
AnnouncedPerAdmission ==
  \A n \in Txs : entered[n] <= Sent(n) /\ (n \in Fits => Sent(n) = entered[n])

\* "Newly admitted names return so the caller can re-gossip them" (mempool.rs):
\* a bundle is not announced more often than it became resident.  A bundle that
\* was cached as a conflict and let in by a resubmission is still in the cache
\* when the next peak drains it, admit is Ok for it, and it is told again.
ReGossipIsNew == \A n \in Txs : Sent(n) <= entered[n]

\* A valid body that made it into the inbox, with no lock to wait for and no
\* rival to lose to, ends up in the pool, unless the node falls out of sync.
QueuedIsAdmitted == \A n \in Fits : (n \in Queued) ~> (entered[n] > 0 \/ ~synced)
=============================================================================
