------------------------------- MODULE TxQueue -------------------------------
(***************************************************************************)
(* The inbox of gossiped transactions, full-node/src/tx_queue.rs, as       *)
(* operators on one record: an unbounded lane for trusted peers, and one   *)
(* lane per untrusted peer, ordered by advertised fee per cost and served  *)
(* by deficit round robin on the advertised cost.                          *)
(***************************************************************************)
EXTENDS Integers, Sequences, SequencesExt, FiniteSetsExt

CONSTANTS Cap, PerPeer, MaxTxCost     \* MaxTxCost: the price of an entry without a cost

ASSUME QueueAssumption == Cap \in Nat /\ PerPeer \in Nat /\ MaxTxCost \in Nat \ {0}

EmptyQueue == [high |-> <<>>, lanes |-> [p \in {} |-> 0], order |-> <<>>, cursor |-> 0,
               total_untrusted |-> 0]

\* A map with x's value set.
Put(f, x, v) == [y \in DOMAIN f \cup {x} |-> IF y = x THEN v ELSE f[y]]

\* An entry [name, fee, cost] goes before another: the higher fee per cost, and
\* any known cost before an unknown one.
fee_per_cost_desc(a, b) ==
  IF a.cost = 0 \/ b.cost = 0 THEN a.cost > 0 ELSE a.fee * b.cost > b.fee * a.cost

\* Mutant: the total counts what was refused too.
PushCountsRefused(q, p, e, high_priority) ==
  IF high_priority \/ q.total_untrusted >= Cap THEN q
  ELSE LET known == p \in DOMAIN q.lanes
           lane == IF known THEN q.lanes[p] ELSE [queue |-> <<>>, deficit |-> 0]
           pos == SelectInSeq(lane.queue, LAMBDA x : fee_per_cost_desc(e, x))
           full == Len(lane.queue) >= PerPeer
           queue == IF full THEN lane.queue
                    ELSE InsertAt(lane.queue, IF pos = 0 THEN Len(lane.queue) + 1 ELSE pos, e)
       IN [q EXCEPT !.order = IF known THEN @ ELSE Append(@, p),
                    !.lanes = Put(@, p, [lane EXCEPT !.queue = queue]),
                    !.total_untrusted = @ + 1]

push(q, p, e, high_priority) ==
  LET known == p \in DOMAIN q.lanes
      lane == IF known THEN q.lanes[p] ELSE [queue |-> <<>>, deficit |-> 0]
      full == Len(lane.queue) >= PerPeer
      pos == SelectInSeq(lane.queue, LAMBDA x : fee_per_cost_desc(e, x))
      queue == IF full THEN lane.queue
               ELSE InsertAt(lane.queue, IF pos = 0 THEN Len(lane.queue) + 1 ELSE pos, e)
  IN IF high_priority THEN [q EXCEPT !.high = Append(@, e)]
     ELSE IF q.total_untrusted >= Cap THEN q
     ELSE [q EXCEPT !.order = IF known THEN @ ELSE Append(@, p),
                    !.lanes = Put(@, p, [lane EXCEPT !.queue = queue]),
                    !.total_untrusted = IF full THEN @ ELSE @ + 1]

Waiting(q) == {p \in DOMAIN q.lanes : q.lanes[p].queue # <<>>}

top_cost(q, p) ==
  LET cost == Head(q.lanes[p].queue).cost IN IF cost > 0 THEN cost ELSE MaxTxCost

\* The peer served next: the first one from the cursor among those that can pay.
FirstFrom(q, able) ==
  LET n == Len(q.order)
      At(offset) == ((q.cursor + offset) % n) + 1
  IN At(Min({k \in 0 .. n - 1 : q.order[At(k)] \in able}))

\* Mutant: the walk starts over at the first peer, whatever it has used up.
PopGreedy(q) ==
  LET idx == FirstFrom([q EXCEPT !.cursor = 0], Waiting(q))
      p == q.order[idx]
  IN [queue |-> [q EXCEPT !.lanes[p].queue = Tail(@), !.total_untrusted = @ - 1],
      peer |-> p, entry |-> Head(q.lanes[p].queue)]

\* One pop.  When nobody can pay for its top entry everyone who waits gains the
\* lowest top cost, and then the peer with that entry can: the loop runs once
\* or twice.
pop_untrusted(q) ==
  LET waiting == Waiting(q)
      lowest == Min({top_cost(q, p) : p \in waiting})
      Able(k) == {p \in waiting : q.lanes[p].deficit + k * lowest >= top_cost(q, p)}
      rounds == Min({k \in 0 .. 1 : Able(k) # {}})
      idx == FirstFrom(q, Able(rounds))
      p == q.order[idx]
      rest == Tail(q.lanes[p].queue)
      Deficit(x) == q.lanes[x].deficit + (IF x \in waiting THEN rounds * lowest ELSE 0)
  IN [queue |->
        [q EXCEPT !.lanes =
                    Put([x \in DOMAIN @ |-> [@[x] EXCEPT !.deficit = Deficit(x)]], p,
                        [queue |-> rest,
                         deficit |-> IF rest = <<>> THEN 0 ELSE Deficit(p) - top_cost(q, p)]),
                  !.cursor = idx % Len(q.order),
                  !.total_untrusted = @ - 1],
      peer |-> p, entry |-> Head(q.lanes[p].queue)]

\* The untrusted entries in the order of service, each with its peer and the
\* queue it leaves.
Service(q) ==
  LET Step(done, k) == Append(done, pop_untrusted(IF done = <<>> THEN q ELSE Last(done).queue))
  IN FoldLeft(Step, <<>>, [k \in 1 .. q.total_untrusted |-> k])

\* One entry of drain_batch: the high lane first, then the untrusted ones.
pop(q) ==
  IF q.high # <<>> THEN [queue |-> [q EXCEPT !.high = Tail(@)], entry |-> Head(q.high)]
  ELSE pop_untrusted(q)

is_empty(q) == q.high = <<>> /\ q.total_untrusted = 0
=============================================================================
