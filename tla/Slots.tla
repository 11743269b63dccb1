-------------------------------- MODULE Slots --------------------------------
(***************************************************************************)
(* Sub-slots and signage points from the peak's slot onward                *)
(* (node/src/slots.rs), the tasks that keep them (full-node/src/daemon.rs: *)
(* the peak announcer, the tip follower, the slot-gossip inbox), and the   *)
(* farmer's candidate, built from them and from the store in three steps.  *)
(*                                                                         *)
(* A chain of sub-slots is known by two hashes: the challenge chain, which *)
(* branches can share, and the reward chain, which every block of a branch *)
(* changes.  A block stands for the reward-chain challenge its infusion    *)
(* gives, an end-of-sub-slot bundle for its reward-chain hash.  Gossip is  *)
(* genuine: its VDFs verify against the infusion it names and no other.    *)
(* Sub-slot iterations and difficulty are constant.                        *)
(***************************************************************************)
EXTENDS Integers, Sequences, SequencesExt, FiniteSets, FiniteSetsExt, TLC

CONSTANTS
  Blocks, Parent, Weight,
  Iters,              \* block -> total iterations at its infusion
  Overflow,           \* blocks with their signage point in the slot before
  Finished,           \* block -> the bundles between its parent and it
  Bundles,            \* bundle -> [cc, rc, hash]: the challenges it ends, and its
                      \* own challenge-chain hash
  Points,             \* signage points [cc, index, rc]
  SubSlotIters, NumSps,
  MaxKeys, MaxPerKey, \* FUTURE_CACHE_MAX_KEYS, FUTURE_*_MAX_PER_KEY
  FeedCap,            \* the announcer's channel
  MaxBatch            \* bound on the gossip drained at once

GENESIS == "genesis challenge"
None == "none"
Empty == "empty"

ASSUME SlotAssumption ==
  /\ {SubSlotIters, NumSps, MaxKeys, MaxPerKey, FeedCap, MaxBatch} \subseteq Nat \ {0}
  /\ SubSlotIters % NumSps = 0
  /\ {GENESIS, None, Empty} \cap (Blocks \cup DOMAIN Bundles) = {}

VARIABLES
  peak,               \* of the store
  feed, follower,     \* confirmed peaks on their way: the announcer's, the tip follower's
  state,              \* SlotState: [slots, future_eos, future_sp]
  inbox,              \* Empty, or the peak read for the gossip drained
  build               \* the candidate under way

vars == <<peak, feed, follower, state, inbox, build>>

Interval == SubSlotIters \div NumSps
NoPoints == [i \in 1 .. NumSps - 1 |-> None]
SubSlot(eos, sps, start) == [eos |-> eos, sps |-> sps, start |-> start]
GenesisSlot == SubSlot(None, NoPoints, 0)

\* The challenges that a slot starts with.
CcOf(slot) == IF slot.eos = None THEN GENESIS ELSE Bundles[slot.eos].hash
RcOf(slot) == IF slot.eos = None THEN GENESIS ELSE slot.eos

NoBuild == [at |-> "idle"]

Init ==
  /\ peak = None /\ feed = <<>> /\ follower = None
  /\ state = [slots |-> <<GenesisSlot>>, future_eos |-> <<>>, future_sp |-> <<>>]
  /\ inbox = Empty /\ build = NoBuild

-----------------------------------------------------------------------------
(* The chain in the store.                                                 *)

first_in_sub_slot(b) == Finished[b] # <<>>

\* Each block and its ancestors, the nearest first.
Ancestry ==
  LET Up(b) == LET up[n \in 1 .. Cardinality(Blocks)] ==
                     IF n = 1 THEN b ELSE IF up[n - 1] = None THEN None ELSE Parent[up[n - 1]]
               IN SelectSeq([n \in 1 .. Cardinality(Blocks) |-> up[n]], LAMBDA c : c # None)
  IN [b \in Blocks |-> Up(b)]

Chain(b) == IF b = None THEN <<>> ELSE Ancestry[b]

\* The nearest of b and its ancestors that begins a sub-slot, None at genesis.
SlotStart(b) ==
  LET firsts == SelectSeq(Chain(b), first_in_sub_slot)
  IN IF firsts = <<>> THEN None ELSE Head(firsts)

IpStart(b) == (Iters[b] \div SubSlotIters) * SubSlotIters
SpStart(b) == IF b \in Overflow THEN IpStart(b) - SubSlotIters ELSE IpStart(b)

\* The bundles that end the slots before the peak's signage point and infusion.
sp_and_ip_sub_slots(b) ==
  LET curr == SlotStart(b)
      bundles == Finished[curr]
      earlier == IF Parent[curr] = None THEN None ELSE SlotStart(Parent[curr])
  IN IF curr = None THEN [sp |-> None, ip |-> None]
     ELSE [ip |-> Last(bundles),
           sp |-> IF b \notin Overflow THEN None
                  ELSE IF Len(bundles) > 1 THEN bundles[Len(bundles) - 1]
                  ELSE IF earlier = None THEN None ELSE Last(Finished[earlier])]

-----------------------------------------------------------------------------
(* The caches of what waits for an infusion: a full one refuses.           *)

append(cache, key, x) ==
  IF key \in DOMAIN cache
  THEN IF Len(cache[key]) < MaxPerKey THEN [cache EXCEPT ![key] = Append(@, x)] ELSE cache
  ELSE IF Cardinality(DOMAIN cache) < MaxKeys THEN (key :> <<x>>) @@ cache ELSE cache

take(cache, key) == Restrict(cache, DOMAIN cache \ {key})
Cached(cache, key) == IF key \in DOMAIN cache THEN cache[key] ELSE <<>>

-----------------------------------------------------------------------------
(* Gossip against the peak p that its reader saw.                          *)

HasSlot(s, e) == \E k \in DOMAIN s.slots : s.slots[k].eos = e

\* Mutant: the bundle's challenge-chain challenge is not compared.
AppendsAny(s, e, p) ==
  IF ~HasSlot(s, e) /\ (p = None \/ Bundles[e].rc = p)
  THEN [s EXCEPT !.slots = Append(@, SubSlot(e, NoPoints, Last(s.slots).start + SubSlotIters))] ELSE s

\* An empty slot ends on the last bundle's reward chain, one with an infusion on
\* the peak's; a bundle on another infusion waits for it.
new_finished_sub_slot(s, e, p) ==
  LET last == Last(s.slots)
      end == last.start + SubSlotIters
      added == [s EXCEPT !.slots = Append(@, SubSlot(e, NoPoints, end))]
  IN IF HasSlot(s, e) \/ Bundles[e].cc # CcOf(last) THEN s
     ELSE IF p # None /\ Iters[p] > last.start
     THEN IF end < Iters[p] THEN s
          ELSE IF Bundles[e].rc = p THEN added
          ELSE [s EXCEPT !.future_eos = append(@, Bundles[e].rc, e)]
     ELSE IF Bundles[e].rc = RcOf(last) THEN added ELSE s

PointIters(slot, index) == slot.start + index * Interval

\* The reward-chain challenge before a point, walking back from the peak: the
\* first block at or before the point, else the slot's start, which the walk also
\* falls back to at the first block of a slot.
ExpectedRc(slot, index, p) ==
  LET chain == Chain(p)
      stop == {n \in DOMAIN chain : \/ Iters[chain[n]] <= PointIters(slot, index)
                                    \/ first_in_sub_slot(chain[n])}
      c == chain[Min(stop)]
  IN IF \/ p = None \/ slot.start > Iters[p] \/ stop = {} \/ Iters[c] > PointIters(slot, index)
     THEN RcOf(slot) ELSE c

SlotWith(s, cc) == {k \in DOMAIN s.slots : CcOf(s.slots[k]) = cc}

Accepts(s, sp, p) ==
  LET ks == SlotWith(s, sp.cc)
  IN ks # {} /\ ExpectedRc(s.slots[Min(ks)], sp.index, p) = sp.rc

new_signage_point(s, sp, p) ==
  IF Accepts(s, sp, p)
  THEN [s EXCEPT !.slots[Min(SlotWith(s, sp.cc))].sps[sp.index] = sp.rc]
  ELSE [s EXCEPT !.future_sp = append(@, sp.rc, sp)]

-----------------------------------------------------------------------------
(* A new peak.                                                             *)

\* The points of the slot that ends the given bundle, those before b.
KeptPoints(s, e, b) ==
  LET ks == {k \in DOMAIN s.slots : s.slots[k].eos = e}
  IN IF e = None \/ ks = {} THEN NoPoints
     ELSE LET slot == s.slots[Min(ks)]
          IN [i \in DOMAIN slot.sps |-> IF PointIters(slot, i) < Iters[b] THEN slot.sps[i] ELSE None]

\* The slot list around b.
Reset(s, b) ==
  LET ctx == sp_and_ip_sub_slots(b)
      sp == IF ctx.sp # None \/ SpStart(b) = 0 THEN <<SubSlot(ctx.sp, KeptPoints(s, ctx.sp, b), SpStart(b))>> ELSE <<>>
  IN [s EXCEPT !.slots = IF ctx.ip = None THEN <<GenesisSlot>>
                         ELSE Append(sp, SubSlot(ctx.ip, KeptPoints(s, ctx.ip, b), IpStart(b)))]

\* Then what waited for b, as far as the first bundle that is accepted.
ReleaseEos(s, b) ==
  LET Step(t, e) == IF \E x \in ToSet(Cached(s.future_eos, b)) : HasSlot(t, x) THEN t ELSE new_finished_sub_slot(t, e, b)
  IN FoldLeft(Step, [s EXCEPT !.future_eos = take(@, b)], Cached(s.future_eos, b))

ReleaseSp(s, b) ==
  FoldLeft(LAMBDA t, sp : new_signage_point(t, sp, b), [s EXCEPT !.future_sp = take(@, b)], Cached(s.future_sp, b))

\* Mutant: what waited is replayed against the slots of the peak before.
ReleasesFirst(s, b) == Reset(ReleaseSp(ReleaseEos(s, b), b), b)

new_peak(s, b) == ReleaseSp(ReleaseEos(Reset(s, b), b), b)

-----------------------------------------------------------------------------
(* The tasks.  A window confirms one or more blocks and reports the last.  *)

Heavier(b) == IF peak = None THEN TRUE ELSE Weight[b] > Weight[peak]

\* The block processor: a full channel drops the report.
Confirm(b) ==
  /\ Heavier(b) /\ peak' = b
  /\ feed' = IF Len(feed) < FeedCap THEN Append(feed, b) ELSE feed
  /\ UNCHANGED <<follower, state, inbox, build>>

\* The tip follower, or the infusion of a block of our own: it reports before it
\* goes on.
TipConfirm(b) ==
  /\ follower = None
  /\ Heavier(b) /\ peak' = b /\ follower' = b
  /\ UNCHANGED <<feed, state, inbox, build>>

Announce ==
  /\ feed # <<>> /\ feed' = Tail(feed)
  /\ state' = new_peak(state, Head(feed))
  /\ UNCHANGED <<peak, follower, inbox, build>>

TipAnnounce ==
  /\ follower # None /\ follower' = None
  /\ state' = new_peak(state, follower)
  /\ UNCHANGED <<peak, feed, inbox, build>>

\* process_sp_inbox drains its inbox, reads the peak, and then waits for the slot
\* state's lock, under which it goes through the whole batch.
Gather ==
  /\ inbox = Empty /\ inbox' = peak
  /\ UNCHANGED <<peak, feed, follower, state, build>>

Events == ({"SignagePoint"} \X Points) \cup ({"EndOfSubSlot"} \X DOMAIN Bundles)

Handle(s, event, p) ==
  IF event[1] = "SignagePoint" THEN new_signage_point(s, event[2], p) ELSE new_finished_sub_slot(s, event[2], p)

\* What up to MaxBatch events, one after the other, can make of the slot state.
Handled(p) ==
  FoldLeft(LAMBDA S, k : S \cup {Handle(s, event, p) : s \in S, event \in Events}, {state}, [k \in 1 .. MaxBatch |-> k])

Process ==
  /\ inbox # Empty /\ inbox' = Empty
  /\ state' \in Handled(inbox)
  /\ UNCHANGED <<peak, feed, follower, build>>

-----------------------------------------------------------------------------
(* A farmer declares a proof for a point it was told of.                   *)

backtrack_rc_challenge(s, rc) ==
  FoldRight(LAMBDA slot, c : IF slot.eos # None /\ slot.eos = c THEN Bundles[c].rc ELSE c, s.slots, rc)

\* The block of p's chain that gave the challenge, or that comes before the bundle
\* that did.
backtrack_prev_block(p, rc) ==
  LET chain == Chain(p)
      hits == {n \in DOMAIN chain : chain[n] = rc \/ (Finished[chain[n]] # <<>> /\ Last(Finished[chain[n]]) = rc)}
  IN IF hits = {} THEN {} ELSE LET c == chain[Min(hits)] IN {IF c = rc THEN c ELSE Parent[c]}

challenge_in_chain(b) ==
  IF b = None THEN GENESIS
  ELSE IF SlotStart(b) = None THEN None ELSE Bundles[Last(Finished[SlotStart(b)])].hash

\* Mutant: the bundles of empty slots in between are left out.
LastBundle(s, from, to) ==
  IF from = to THEN {<<>>}
  ELSE {<<s.slots[k].eos>> : k \in {x \in 2 .. Len(s.slots) : CcOf(s.slots[x]) = to}}

\* The runs of bundles from the one that ends slot `from` to the one that begins
\* slot `to`; the first slot of the list is passed over.
get_finished_sub_slots(s, from, to) ==
  LET Begins(k) == s.slots[k].eos # None /\ Bundles[s.slots[k].eos].cc = from
      starts == {k \in 2 .. Len(s.slots) : Begins(k)}
      ends == {k \in 2 .. Len(s.slots) : CcOf(s.slots[k]) = to /\ \E j \in starts : j <= k}
  IN IF from = to THEN {<<>>}
     ELSE IF ends = {} THEN {}
     ELSE {[k \in 1 .. Min(ends) - Min(starts) + 1 |-> s.slots[Min(starts) + k - 1].eos]}

\* The inputs that the slot state gives, under its lock.  The start of a slot is
\* its point 0; of the first slot it has no reward-chain challenge.
Declare ==
  /\ build.at = "idle"
  /\ \E k \in DOMAIN state.slots, index \in 0 .. NumSps - 1 :
       LET slot == state.slots[k]
           rc == IF index > 0 THEN slot.sps[index]
                 ELSE IF slot.eos = None THEN None ELSE Bundles[slot.eos].rc
       IN /\ index > 0 => rc # None
          /\ build' = [at |-> "declared", cc |-> CcOf(slot), index |-> index, rc |-> rc,
                       target |-> backtrack_rc_challenge(state, rc),
                       pos |-> state.slots[Min(SlotWith(state, CcOf(slot)))].eos]
  /\ UNCHANGED <<peak, feed, follower, state, inbox>>

\* The previous block, from the store.
FindPrev ==
  /\ build.at = "declared"
  /\ LET prevs == IF peak = None THEN {None} ELSE backtrack_prev_block(peak, build.target)
     IN build' = IF prevs = {} THEN NoBuild
                 ELSE [prev |-> CHOOSE b \in prevs : TRUE, at |-> "linked"] @@ build
  /\ UNCHANGED <<peak, feed, follower, state, inbox>>

\* Mutant: the bundles may end in another one than the point's own.
AnyRun(s, cand) ==
  {run \in get_finished_sub_slots(s, challenge_in_chain(cand.prev), cand.cc) : challenge_in_chain(cand.prev) # None}

\* The finished sub-slots, under the lock again: none when they do not connect, or
\* end in another bundle than the point's own.
Candidates(s, cand) ==
  LET from == challenge_in_chain(cand.prev)
  IN {run \in get_finished_sub_slots(s, from, cand.cc) :
        /\ from # None
        /\ cand.pos # None /\ run # <<>> => Last(run) = cand.pos}

\* A member of Candidates goes to the farmer, if there is one.
Assemble ==
  /\ build.at = "linked" /\ build' = NoBuild
  /\ UNCHANGED <<peak, feed, follower, state, inbox>>

Next ==
  \/ \E b \in Blocks : Confirm(b) \/ TipConfirm(b)
  \/ Announce \/ TipAnnounce \/ Gather \/ Process
  \/ Declare \/ FindPrev \/ Assemble

Spec == Init /\ [][Next]_vars

-----------------------------------------------------------------------------
\* Whatever the lists were built from, peaks of two branches out of order and
\* gossip checked against a peak of the past included, each slot held ends where
\* the next begins, one sub-slot of iterations later.
SlotsConnected ==
  \A k \in 1 .. Len(state.slots) - 1 :
    LET next == state.slots[k + 1]
    IN /\ next.eos # None /\ Bundles[next.eos].cc = CcOf(state.slots[k])
       /\ next.start = state.slots[k].start + SubSlotIters

\* What waited for an infusion is held once its block is reported, whatever peaks
\* came in between, and no longer waits.
ReleasesParked ==
  [][\A b \in Blocks :
       (follower = b /\ follower' = None) \/ (feed = <<b>> \o feed') =>
         /\ b \notin DOMAIN state'.future_eos \cup DOMAIN state'.future_sp
         /\ \A e \in ToSet(Cached(state.future_eos, b)) : HasSlot(state', e)
         /\ \A sp \in ToSet(Cached(state.future_sp, b)) :
              \E k \in SlotWith(state', sp.cc) : state'.slots[k].sps[sp.index] = sp.rc]_vars

\* "every cache is dropped wholesale when its key's infusion arrives or the slot
\* list resets" (slots.rs): nothing waits for a block that the peak reported builds
\* on.  It does not hold: a window of several blocks reports its last one only, and
\* what waits for the others keeps its place in the cache.
PastIsDropped ==
  [][\A b \in Blocks :
       (follower = b /\ follower' = None) \/ (feed = <<b>> \o feed') =>
         ToSet(Chain(b)) \cap (DOMAIN state'.future_eos \cup DOMAIN state'.future_sp) = {}]_vars

\* A candidate is put together from two reads of the slots and one of the store,
\* each of which may see another branch; its bundles nevertheless continue the
\* reward chain of its previous block without a gap, up to the point that it
\* answers, in the slot of that point.
CandidateSound ==
  build.at = "linked" =>
    \A f \in Candidates(state, build) :
      LET Link(k) == IF k > 0 THEN f[k] ELSE IF build.prev = None THEN GENESIS ELSE build.prev
      IN /\ \A k \in DOMAIN f : Bundles[f[k]].rc = Link(k - 1)
         /\ build.index > 0 => build.rc = Link(Len(f))
         /\ build.cc = IF f = <<>> THEN challenge_in_chain(build.prev) ELSE Bundles[Last(f)].hash
=============================================================================
