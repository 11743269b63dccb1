------------------------------ MODULE BlockQueue ------------------------------
(***************************************************************************)
(* The byte-budgeted reorder buffer between the fetch producer and the     *)
(* confirm consumer (node/src/sync/queue.rs).  Every operation runs under  *)
(* one mutex, so each is one atomic step; `resident_bytes` is stored under *)
(* that same mutex and is therefore not a variable of its own.             *)
(*                                                                         *)
(* A block is abstracted to its height, its wire size and `epoch`, the     *)
(* generation the queue had when the block's fetch was sent.  The code     *)
(* keeps no such field: it is what the stale-branch guard is about, and    *)
(* only properties read it.  The generation is a u64 that wraps; a fetch   *)
(* would have to outlive 2^64 rebases to see it, so it is a natural here.  *)
(***************************************************************************)
EXTENDS Integers, FiniteSets, FiniteSetsExt

CONSTANTS
  MaxHeight,   \* highest block height the environment knows
  Sizes,       \* wire sizes a block can have (approx_block_bytes)
  Budget       \* byte ceiling W (READAHEAD_BYTE_BUDGET)

ASSUME QueueConstants ==
  /\ MaxHeight \in Nat
  /\ Sizes \subseteq Nat \ {0} /\ Sizes # {} /\ IsFiniteSet(Sizes)
  /\ Budget \in Nat \ {0}

VARIABLES
  slots,       \* height -> slot, for the heights the queue holds
  bytes,       \* resident bytes B
  lowWater,    \* the consumer's next height
  generation   \* bumped by every rebase

queueVars == <<slots, bytes, lowWater, generation>>

Heights == 0 .. MaxHeight

\* What a height of the buffer holds: Slot::InFlight or Slot::Present.
InFlight == [kind |-> "InFlight"]
Present(nbytes, epoch) == [kind |-> "Present", nbytes |-> nbytes, epoch |-> epoch]
Slot == {InFlight} \cup [kind : {"Present"}, nbytes : Sizes, epoch : Nat]

IsPresent(h) == h \in DOMAIN slots /\ slots[h].kind = "Present"
PresentHeights == {h \in DOMAIN slots : slots[h].kind = "Present"}

\* Remove the heights in S from the buffer; put slot s at height h.
Without(S) == [h \in DOMAIN slots \ S |-> slots[h]]
With(h, s) == [g \in DOMAIN slots \cup {h} |-> IF g = h THEN s ELSE slots[g]]

-----------------------------------------------------------------------------
\* The reads the scheduler, the consumer and the driver make.

can_admitAlways == TRUE

can_admit == bytes < Budget

head_ready == IsPresent(lowWater)

\* One past the highest slot held, or lowWater when the buffer is empty.
next_fetch_height ==
  IF DOMAIN slots = {} THEN lowWater
  ELSE 1 + (CHOOSE h \in DOMAIN slots : \A g \in DOMAIN slots : g <= h)

\* The heights drain_ready_window(max) and peek_ready_window(max) surface:
\* the longest run of Present slots from lowWater, cut at max.
ReadyWindow(max) ==
  {h \in lowWater .. lowWater + max - 1 : \A g \in lowWater .. h : IsPresent(g)}

-----------------------------------------------------------------------------
\* The operations.

QueueInit(start) ==
  /\ slots = [h \in {} |-> InFlight]
  /\ bytes = 0
  /\ lowWater = start
  /\ generation = 0

admit(h) ==
  /\ slots' = IF h < lowWater \/ h \in DOMAIN slots THEN slots ELSE With(h, InFlight)
  /\ UNCHANGED <<bytes, lowWater, generation>>

\* The three early returns of complete(): a stale generation, a height the
\* consumer has passed, a duplicate of a resident block.
DroppedNoDuplicate(h, gen) == gen # generation \/ h < lowWater
Dropped(h, gen) == gen # generation \/ h < lowWater \/ IsPresent(h)

complete(h, nbytes, gen, epoch) ==
  /\ IF Dropped(h, gen)
     THEN UNCHANGED <<slots, bytes>>
     ELSE /\ slots' = With(h, Present(nbytes, epoch))
          /\ bytes' = bytes + nbytes
  /\ UNCHANGED <<lowWater, generation>>

drain_ready_window(max) ==
  LET window == ReadyWindow(max) IN
  /\ slots' = Without(window)
  /\ bytes' = bytes - MapThenSumSet(LAMBDA h : slots[h].nbytes, window)
  /\ lowWater' = lowWater + Cardinality(window)
  /\ UNCHANGED generation

drain_next == drain_ready_window(1)

rebase(newLowWater) ==
  /\ slots' = [h \in {} |-> InFlight]
  /\ bytes' = 0
  /\ lowWater' = newLowWater
  /\ generation' = generation + 1

reclaim(h) ==
  /\ slots' = IF h \in DOMAIN slots /\ slots[h] = InFlight THEN Without({h}) ELSE slots
  /\ UNCHANGED <<bytes, lowWater, generation>>

-----------------------------------------------------------------------------
(***************************************************************************)
(* The queue under any callers: hedged fetches complete the same height    *)
(* twice, late completions carry any generation the queue has had, and     *)
(* claims are reclaimed at any time.                                       *)
(***************************************************************************)
QueueNext ==
  \/ \E h \in Heights : admit(h) \/ reclaim(h)
  \/ \E h \in Heights, n \in Sizes, g \in 0 .. generation : complete(h, n, g, g)
  \/ lowWater < MaxHeight /\ drain_next
  \/ \E max \in 2 .. 3 : lowWater + max <= MaxHeight /\ drain_ready_window(max)
  \/ \E h \in Heights : rebase(h)

QueueSpec == QueueInit(0) /\ [][QueueNext]_queueVars

-----------------------------------------------------------------------------
\* The queue's state has the types of `struct Inner`.
QueueTypeOK ==
  /\ DOMAIN slots \subseteq Heights
  /\ \A h \in DOMAIN slots : slots[h] \in Slot
  /\ bytes \in Nat
  /\ lowWater \in 0 .. MaxHeight + 1
  /\ generation \in Nat

\* The byte charge is exactly what is resident, whatever order completions,
\* duplicates, drains, reclaims and rebases come in: the counter that gates
\* the producer (can_admit) never leaks, so it cannot wedge at the ceiling.
BytesExact == bytes = MapThenSumSet(LAMBDA h : slots[h].nbytes, PresentHeights)

\* A height the consumer has passed is never in the buffer again: a late or
\* hedged completion cannot put a consumed block back (queue.rs "A height is in
\* exactly one of {absent, InFlight, Present, consumed}").
NothingBelowHead == \A h \in DOMAIN slots : h >= lowWater

\* Every resident block was fetched after the last rebase: a fetch that spans
\* a rebase never lands its block on the new branch (the ABA guard of complete).
OnlyCurrentGeneration == \A h \in PresentHeights : slots[h].epoch = generation
=============================================================================
