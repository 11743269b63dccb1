---------------------------- MODULE PipelineProofs ----------------------------
(***************************************************************************)
(* The block queue alone, and the sync pipeline around it: no block lands  *)
(* behind the consumer or on another branch, the buffer has no hole, and a *)
(* parked consumer is owed exactly one reply.                              *)
(***************************************************************************)
EXTENDS SyncPipeline, SetFacts

-----------------------------------------------------------------------------
(* The inductive invariant of the pipeline, in named parts.                *)

Dispatched == {"from", "take", "direct", "complete"}
Aimed == {"take", "direct", "complete"}
Fetched == {"direct", "complete"}
Serving == {"backtrack", "unmark", "head", "rebase"}

\* The windows of the readahead, and those sent at generation g or later.
Window == [from : Heights, to : Heights, epoch : Nat]
SentSince(windows, g) == \A k \in 1 .. Len(windows) : windows[k].epoch \in g .. generation

\* The types of the tasks' locals.  The byte counter is left out: that it
\* stays a natural is a fact about the sum of the resident sizes.
QueueTypes ==
  /\ DOMAIN slots \subseteq Heights
  /\ lowWater \in 0 .. MaxHeight + 1
  /\ generation \in Nat

ProducerTypes ==
  /\ prod \in [pc : {"start", "band", "gen", "from", "take", "direct", "complete"},
               lastGen : Nat, gen : Nat, next : Heights, to : Heights, epoch : Nat]
  /\ readahead \in Seq(Window)

ConsumerTypes ==
  /\ peak \in -1 .. Target
  /\ cons \in [pc : {"idle", "marked", "drained", "confirmed", "send", "waiting"},
               from : Heights, to : 0 .. MaxHeight + 1,
               outcome : Kinds \cup {"none", "done"}]
  /\ cons.pc = "confirmed" => cons.outcome \in Kinds \cup {"done"}
  /\ cons.pc = "send" => cons.outcome \in Kinds

Request == [kind : Kinds, awaited : BOOLEAN]

DriverTypes ==
  /\ drv \in [pc : {"tick", "backtrack", "unmark", "head", "rebase", "peek", "compare",
                    "realign", "watch", "reclaim"},
              head : 0 .. MaxHeight + 1,
              request : Request \cup {NoRequest}]
  /\ requests \in Seq(Request)

Types == QueueTypes /\ ProducerTypes /\ ConsumerTypes /\ DriverTypes

\* A dispatch carries the generation it read, and what it fetched or took
\* from the readahead was sent no earlier than that generation.
Generations ==
  /\ prod.lastGen <= generation
  /\ prod.pc \in Dispatched => prod.gen = prod.lastGen
  /\ prod.pc \in Fetched => prod.epoch \in prod.lastGen .. generation
  /\ SentSince(readahead, prod.lastGen)

\* The buffer is a run of present blocks of this generation from lowWater on;
\* a dispatch of this generation aims at the first height past the run.
Run ==
  /\ \A h \in DOMAIN slots : slots[h].kind = "Present" /\ slots[h].epoch = generation
  /\ \E top \in lowWater .. MaxHeight + 1 : DOMAIN slots = lowWater .. top - 1
  /\ prod.pc \in Aimed => prod.next <= prod.to
  /\ prod.pc \in Aimed /\ prod.gen = generation =>
       lowWater <= prod.next /\ DOMAIN slots = lowWater .. prod.next - 1

\* At most one request is awaited, by a consumer that waits for it.
Owed ==
  /\ drv.request.awaited => drv.pc \in Serving
  /\ \A k \in 1 .. Len(requests) : requests[k].awaited => ~drv.request.awaited
  /\ \A j, k \in 1 .. Len(requests) : requests[j].awaited /\ requests[k].awaited => j = k
  /\ cons.pc = "waiting" <=>
       drv.request.awaited \/ \E k \in 1 .. Len(requests) : requests[k].awaited

PInv == Types /\ Generations /\ Run /\ Owed

-----------------------------------------------------------------------------
(* The ends of the tasks' passes.                                          *)

\* A finished pass of the producer keeps the generation of its last dispatch.
LEMMA NextPassOK ==
  ASSUME ProducerTypes
  PROVE  /\ NextPass.pc = "start" /\ NextPass.lastGen = prod.lastGen
         /\ NextPass \in [pc : {"start"}, lastGen : Nat, gen : Nat,
                          next : Heights, to : Heights, epoch : Nat]
<1>1. 0 \in Heights
  BY QueueConstants DEF Heights
<1> QED BY <1>1 DEF NextPass, ProducerTypes

\* A consumer back at its loop's head waits for nothing.
LEMMA IdleOK ==
  ASSUME ConsumerTypes
  PROVE  /\ Idle.pc = "idle"
         /\ Idle \in [pc : {"idle"}, from : Heights, to : 0 .. MaxHeight + 1,
                      outcome : {"none"}]
<1>1. 0 \in Heights /\ 0 \in 0 .. MaxHeight + 1
  BY QueueConstants DEF Heights
<1> QED BY <1>1 DEF Idle, ConsumerTypes

-----------------------------------------------------------------------------
(* The queue's operators.                                                  *)

\* The window that drain_ready_window surfaces is a run of resident heights
\* from the consumer's head, as long as it has heights.
LEMMA ReadyWindowRun ==
  ASSUME lowWater \in Nat, NEW max \in Nat
  PROVE  /\ Cardinality(ReadyWindow(max)) \in 0 .. max
         /\ ReadyWindow(max) = lowWater .. lowWater + Cardinality(ReadyWindow(max)) - 1
         /\ \A h \in ReadyWindow(max) : IsPresent(h)
<1> DEFINE W == ReadyWindow(max)
<1>1. W \subseteq lowWater .. lowWater + max - 1
  BY DEF ReadyWindow
<1>2. \A h \in W : \A g \in lowWater .. h : g \in W
  BY DEF ReadyWindow
<1>3. \A h \in W : IsPresent(h)
  BY DEF ReadyWindow
<1>4. Cardinality(W) \in 0 .. max /\ W = lowWater .. lowWater + Cardinality(W) - 1
  <2> HIDE DEF W
  <2> QED BY <1>1, <1>2, PrefixIsInterval
<1> QED BY <1>3, <1>4

\* A drain of a buffer that is a run up to top leaves the run up to top.
LEMMA DrainKeepsRun ==
  ASSUME lowWater \in Nat, NEW top \in Nat, lowWater <= top,
         DOMAIN slots = lowWater .. top - 1,
         NEW max \in Nat, drain_ready_window(max)
  PROVE  /\ lowWater' \in lowWater .. top /\ DOMAIN slots' = lowWater' .. top - 1
         /\ \A h \in DOMAIN slots' : h \in DOMAIN slots /\ slots'[h] = slots[h]
<1> DEFINE W == ReadyWindow(max)
<1>1. /\ Cardinality(W) \in 0 .. max
      /\ W = lowWater .. lowWater + Cardinality(W) - 1
      /\ \A h \in W : IsPresent(h)
  BY ReadyWindowRun
<1>2. slots' = [h \in DOMAIN slots \ W |-> slots[h]] /\ lowWater' = lowWater + Cardinality(W)
  BY DEF drain_ready_window, Without
<1> HIDE DEF W
<1>3. lowWater + Cardinality(W) <= top
  <2>1. CASE Cardinality(W) = 0
    BY <2>1
  <2>2. CASE Cardinality(W) # 0
    <3>1. lowWater + Cardinality(W) - 1 \in W
      BY <1>1, <2>2
    <3>2. lowWater + Cardinality(W) - 1 \in DOMAIN slots
      BY <1>1, <3>1 DEF IsPresent
    <3> QED BY <3>2, <1>1
  <2> QED BY <2>1, <2>2
<1>4. DOMAIN slots \ W = lowWater' .. top - 1
  BY <1>1, <1>2, <1>3
<1> QED BY <1>1, <1>2, <1>3, <1>4

\* The fetch frontier of a run is the first height past it.
LEMMA FrontierOfRun ==
  ASSUME lowWater \in Nat, NEW top \in Nat, lowWater <= top,
         DOMAIN slots = lowWater .. top - 1
  PROVE  next_fetch_height = top
<1>1. CASE lowWater = top
  <2>1. DOMAIN slots = {}
    BY <1>1
  <2> QED BY <1>1, <2>1 DEF next_fetch_height
<1>2. CASE lowWater < top
  <2> DEFINE S == DOMAIN slots
             m == CHOOSE h \in S : \A g \in S : g <= h
  <2>1. top - 1 \in S /\ \A g \in S : g <= top - 1
    BY <1>2
  <2>2. m \in S /\ \A g \in S : g <= m
    <3> HIDE DEF S
    <3> QED BY <2>1
  <2>3. m = top - 1
    BY <2>1, <2>2
  <2>4. next_fetch_height = 1 + m
    BY <2>1 DEF next_fetch_height
  <2> HIDE DEF m, S
  <2> QED BY <2>3, <2>4
<1> QED BY <1>1, <1>2

-----------------------------------------------------------------------------
(* The queue under any callers.                                            *)

QInv ==
  /\ lowWater \in Nat /\ generation \in Nat
  /\ \A h \in DOMAIN slots : h \in Nat
  /\ NothingBelowHead /\ OnlyCurrentGeneration

\* Every operation of the queue keeps consumed heights out of the buffer and
\* the resident blocks on the current branch.
LEMMA QueueStep == QInv /\ [QueueNext]_queueVars => QInv'
<1> SUFFICES ASSUME QInv, [QueueNext]_queueVars PROVE QInv'
  OBVIOUS
<1> USE QueueConstants
<1>1. ASSUME NEW h \in Heights, admit(h) PROVE QInv'
  BY <1>1 DEF QInv, admit, With, InFlight, NothingBelowHead, OnlyCurrentGeneration,
              PresentHeights, Heights
<1>2. ASSUME NEW h \in Heights, reclaim(h) PROVE QInv'
  BY <1>2 DEF QInv, reclaim, Without, NothingBelowHead, OnlyCurrentGeneration,
              PresentHeights, Heights
<1>3. ASSUME NEW h \in Heights, NEW n \in Sizes, NEW g \in 0 .. generation, complete(h, n, g, g)
      PROVE  QInv'
  BY <1>3 DEF QInv, complete, Dropped, With, Present, NothingBelowHead, OnlyCurrentGeneration,
              PresentHeights, Heights
<1>4. ASSUME NEW max \in Nat, drain_ready_window(max) PROVE QInv'
  <2> DEFINE W == ReadyWindow(max)
  <2>1. Cardinality(W) \in 0 .. max /\ W = lowWater .. lowWater + Cardinality(W) - 1
    BY ReadyWindowRun DEF QInv
  <2>2. /\ slots' = [h \in DOMAIN slots \ W |-> slots[h]] /\ lowWater' = lowWater + Cardinality(W)
        /\ generation' = generation
    BY <1>4 DEF drain_ready_window, Without
  <2> HIDE DEF W
  <2>3. NothingBelowHead'
    BY <2>1, <2>2 DEF QInv, NothingBelowHead
  <2>4. OnlyCurrentGeneration'
    BY <2>2 DEF QInv, OnlyCurrentGeneration, PresentHeights
  <2> QED BY <2>1, <2>2, <2>3, <2>4 DEF QInv
<1>5. ASSUME NEW h \in Heights, rebase(h) PROVE QInv'
  BY <1>5 DEF QInv, rebase, NothingBelowHead, OnlyCurrentGeneration, PresentHeights, Heights
<1>6. CASE UNCHANGED queueVars
  BY <1>6 DEF queueVars, QInv, NothingBelowHead, OnlyCurrentGeneration, PresentHeights
<1> QED BY <1>1, <1>2, <1>3, <1>4, <1>5, <1>6 DEF QueueNext, drain_next

\* The two parts of QInv hold throughout.
LEMMA QueueInvariant == QueueSpec => []QInv
<1>1. QueueInit(0) => QInv
  BY DEF QueueInit, QInv, NothingBelowHead, OnlyCurrentGeneration, PresentHeights
<1> QED BY <1>1, QueueStep, PTL DEF QueueSpec

\* Whatever its callers do, the queue never holds a height the consumer has
\* passed: a late or hedged completion cannot put a consumed block back.
THEOREM QueueNeverBehind == QueueSpec => []NothingBelowHead
<1>1. QInv => NothingBelowHead
  BY DEF QInv
<1> QED BY <1>1, QueueInvariant, PTL

\* Whatever its callers do, a fetch that spans a rebase leaves no block on the
\* new branch.
THEOREM QueueOneBranch == QueueSpec => []OnlyCurrentGeneration
<1>1. QInv => OnlyCurrentGeneration
  BY DEF QInv
<1> QED BY <1>1, QueueInvariant, PTL

-----------------------------------------------------------------------------
(* The producer's steps.                                                   *)

\* What take() keeps of the readahead are windows of the readahead.
LEMMA FreshOK ==
  ASSUME NEW W \in Seq(Window), NEW h \in Nat, NEW g \in Nat, SentSince(W, g)
  PROVE  Fresh(W, h) \in Seq(Window) /\ SentSince(Fresh(W, h), g)
<1> DEFINE kept == {k \in 1 .. Len(W) : W[k].to >= h}
<1>1. CASE kept = {}
  BY <1>1 DEF Fresh, SentSince
<1>2. CASE kept # {}
  <2>1. kept \subseteq Nat
    OBVIOUS
  <2>2. \E m \in kept : \A k \in kept : m <= k
    <3> HIDE DEF kept
    <3> QED BY <1>2, <2>1, LeastOf
  <2>3. Min(kept) \in kept
    <3> HIDE DEF kept
    <3> QED BY <2>2 DEF Min
  <2>4. Fresh(W, h) = SubSeq(W, Min(kept), Len(W))
    BY <1>2 DEF Fresh
  <2>5. PICK m \in 1 .. Len(W) : m = Min(kept)
    BY <2>3
  <2>6. Fresh(W, h) = SubSeq(W, m, Len(W))
    BY <2>4, <2>5
  <2> HIDE DEF kept
  <2>7. Fresh(W, h) \in Seq(Window)
    BY <2>6
  <2>8. \A k \in 1 .. Len(Fresh(W, h)) : \E j \in 1 .. Len(W) : Fresh(W, h)[k] = W[j]
    BY <2>6
  <2> QED BY <2>7, <2>8 DEF SentSince
<1> QED BY <1>1, <1>2

\* The tail of the readahead is made of its windows.
LEMMA TailOK ==
  ASSUME NEW W \in Seq(Window), W # <<>>, NEW g \in Nat, SentSince(W, g)
  PROVE  /\ Tail(W) \in Seq(Window) /\ SentSince(Tail(W), g)
         /\ Head(W) \in Window /\ Head(W).epoch \in g .. generation
BY DEF SentSince

\* fill() appends windows that are dispatched now.
LEMMA FilledOK ==
  ASSUME generation \in Nat,
         NEW W \in Seq(Window), NEW g \in Nat, g <= generation, SentSince(W, g),
         NEW h \in Nat, NEW n \in Nat,
         \A k \in 1 .. Len(Filled(W, h, n)) : Filled(W, h, n)[k].from <= Target
  PROVE  Filled(W, h, n) \in Seq(Window) /\ SentSince(Filled(W, h, n), g)
<1> USE QueueConstants, PipelineConstants
<1> DEFINE start == IF W = <<>> THEN h ELSE W[Len(W)].to + 1
           from(k) == start + (k - 1) * Batch
           added == [k \in 1 .. n |-> [from |-> from(k), to |-> WindowEnd(from(k)),
                                       epoch |-> generation]]
<1>1. start \in Nat
  <2>1. CASE W = <<>>
    BY <2>1
  <2>2. CASE W # <<>>
    <3>1. W[Len(W)] \in Window
      BY <2>2
    <3> QED BY <2>2, <3>1 DEF Window, Heights
  <2> QED BY <2>1, <2>2
<1>2. Filled(W, h, n) = W \o added
  BY DEF Filled
<1>3. \A k \in 1 .. n : (k - 1) * Batch \in Nat
  OBVIOUS
<1> HIDE DEF start
<1>4. \A k \in 1 .. n : from(k) \in Nat
  BY <1>1, <1>3
<1> HIDE DEF from
<1>5. Len(added) = n /\ \A k \in 1 .. n : added[k].from = from(k)
  OBVIOUS
<1>6. Len(W \o added) = Len(W) + n /\ \A k \in 1 .. n : (W \o added)[Len(W) + k] = added[k]
  OBVIOUS
<1>7. \A k \in 1 .. n : from(k) <= Target
  <2> SUFFICES ASSUME NEW k \in 1 .. n PROVE from(k) <= Target
    OBVIOUS
  <2>1. Len(W) + k \in 1 .. Len(Filled(W, h, n)) /\ Filled(W, h, n)[Len(W) + k] = added[k]
    BY <1>2, <1>5, <1>6
  <2> HIDE DEF added
  <2> QED BY <2>1, <1>5
<1>8. \A k \in 1 .. n : added[k] \in Window
  BY <1>4, <1>7 DEF Window, Heights, WindowEnd
<1>9. added \in Seq(Window)
  BY <1>8
<1>10. \A k \in 1 .. n : added[k].epoch = generation
  OBVIOUS
<1> HIDE DEF added
<1>11. W \o added \in Seq(Window)
  BY <1>9
<1>12. \A k \in 1 .. Len(W \o added) : (W \o added)[k].epoch \in g .. generation
  BY <1>5, <1>9, <1>10, <1>6 DEF SentSince
<1> QED BY <1>2, <1>11, <1>12 DEF SentSince

\* take() then fill(): the readahead keeps its type and its epochs.
LEMMA TakeThenFillOK ==
  ASSUME generation \in Nat, NEW ahead \in Seq(Window), NEW g \in Nat, g <= generation,
         SentSince(ahead, g), prod.to \in Nat, NEW step, TakeThenFill(ahead, step)
  PROVE  readahead' \in Seq(Window) /\ SentSince(readahead', g)
<1> USE PipelineConstants
<1>1. CASE prod.to < Target
  <2>1. PICK n \in 0 .. Depth :
          /\ readahead' = Filled(ahead, prod.to + 1, n)
          /\ \A k \in 1 .. Len(readahead') : readahead'[k].from <= Target
    BY <1>1 DEF TakeThenFill
  <2>2. prod.to + 1 \in Nat /\ n \in Nat
    OBVIOUS
  <2> QED BY <2>1, <2>2, FilledOK
<1>2. CASE ~(prod.to < Target)
  BY <1>2 DEF TakeThenFill
<1> QED BY <1>1, <1>2

\* The producer keeps the invariant, whatever rebase or drain came between its
\* reads.
LEMMA ProducerStep == PInv /\ Producer => PInv'
<1> SUFFICES ASSUME PInv, Producer PROVE PInv'
  OBVIOUS
<1> USE QueueConstants, PipelineConstants DEF PInv
<1>1. ASSUME producerFrame PROVE Owed' /\ ConsumerTypes' /\ DriverTypes'
  BY <1>1 DEF producerFrame, Owed, Types, ConsumerTypes, DriverTypes
<1>0. <<>> \in Seq(Window) /\ Len(<<>>) = 0
  OBVIOUS
<1> USE DEF Types
<1>2. CASE PAdmit
  <2>1. QueueTypes' /\ ProducerTypes'
    BY <1>2 DEF PAdmit, queueVars, QueueTypes, ProducerTypes
  <2>2. Generations'
    BY <1>2 DEF PAdmit, queueVars, Generations, ProducerTypes, SentSince, Dispatched, Fetched
  <2>3. Run'
    BY <1>2 DEF PAdmit, queueVars, Run, ProducerTypes, Aimed
  <2> QED BY <1>1, <1>2, <2>1, <2>2, <2>3 DEF PAdmit
<1>3. CASE PBand
  <2>0. /\ prod' = [prod EXCEPT !.pc = "gen"] \/ prod' = NextPass
        /\ readahead' = readahead \/ readahead' = <<>>
        /\ UNCHANGED <<slots, lowWater, generation>>
    BY <1>3 DEF PBand, queueVars
  <2>1. QueueTypes' /\ ProducerTypes'
    BY <1>0, <2>0, NextPassOK DEF QueueTypes, ProducerTypes
  <2>2. Generations'
    <3>1. SentSince(readahead, prod.lastGen)'
      <4>1. prod'.lastGen = prod.lastGen
        BY <2>0, NextPassOK DEF ProducerTypes
      <4>2. CASE readahead' = <<>>
        BY <4>2 DEF SentSince
      <4>3. CASE readahead' = readahead
        BY <2>0, <4>1, <4>3 DEF Generations, SentSince
      <4> QED BY <2>0, <4>2, <4>3
    <3> QED BY <2>0, <3>1, NextPassOK DEF Generations, ProducerTypes, Dispatched, Fetched
  <2>3. Run'
    BY <2>0, NextPassOK DEF Run, ProducerTypes, Aimed
  <2> QED BY <1>1, <1>3, <2>1, <2>2, <2>3 DEF PBand
<1>4. CASE PReadGen
  <2>0. /\ prod' = [prod EXCEPT !.pc = "from", !.gen = generation, !.lastGen = generation]
        /\ readahead' = <<>> \/ (readahead' = readahead /\ generation = prod.lastGen)
        /\ UNCHANGED <<slots, lowWater, generation>>
    BY <1>4 DEF PReadGen, queueVars
  <2>1. QueueTypes' /\ ProducerTypes'
    BY <1>0, <2>0 DEF QueueTypes, ProducerTypes
  <2>2. Generations'
    <3>1. prod'.lastGen = generation /\ prod'.gen = generation /\ prod'.pc = "from"
      BY <2>0 DEF ProducerTypes
    <3>2. SentSince(readahead, prod.lastGen)'
      BY <2>0, <3>1 DEF Generations, SentSince
    <3> QED BY <2>0, <3>1, <3>2 DEF Generations, QueueTypes, Dispatched, Fetched
  <2>3. Run'
    BY <1>4 DEF PReadGen, queueVars, Run, ProducerTypes, Aimed
  <2> QED BY <1>1, <1>4, <2>1, <2>2, <2>3 DEF PReadGen
<1>5. CASE PReadFrom
  <2>1. PICK top \in lowWater .. MaxHeight + 1 : DOMAIN slots = lowWater .. top - 1
    BY DEF Run
  <2>2. lowWater \in Nat /\ top \in Nat /\ lowWater <= top
    BY <2>1 DEF QueueTypes
  <2>3. next_fetch_height = top
    BY <2>1, <2>2, FrontierOfRun
  <2>4. top <= Target => WindowEnd(top) \in Heights /\ top <= WindowEnd(top)
    BY <2>2 DEF WindowEnd, Heights
  <2>5. prod' = IF top > Target
                THEN NextPass
                ELSE [prod EXCEPT !.pc = "take", !.next = top, !.to = WindowEnd(top)]
    BY <1>5, <2>3 DEF PReadFrom
  <2>6. UNCHANGED <<slots, lowWater, generation, readahead>> /\ producerFrame /\ prod.pc = "from"
    BY <1>5 DEF PReadFrom, queueVars
  <2>7. Types'
    <3>1. top <= Target => top \in Heights
      BY <2>2 DEF Heights
    <3>2. ProducerTypes'
      <4>1. CASE top > Target
        BY <2>5, <2>6, <4>1, NextPassOK DEF ProducerTypes
      <4>2. CASE top <= Target
        <5>1. prod' = [prod EXCEPT !.pc = "take", !.next = top, !.to = WindowEnd(top)]
          BY <2>2, <2>5, <4>2
        <5> QED BY <2>4, <2>6, <3>1, <4>2, <5>1 DEF ProducerTypes
      <4> QED BY <2>2, <4>1, <4>2
    <3>3. QueueTypes'
      BY <2>6 DEF QueueTypes
    <3> QED BY <1>1, <2>6, <3>2, <3>3
  <2>8. Generations'
    BY <2>5, <2>6, NextPassOK DEF Generations, ProducerTypes, SentSince, Dispatched, Fetched
  <2>9. Run'
    <3>1. CASE top > Target
      <4>1. prod'.pc = "start"
        BY <2>2, <2>5, <3>1, NextPassOK
      <4> QED BY <2>6, <4>1 DEF Run, Aimed
    <3>2. CASE top <= Target
      <4>1. prod'.next = top /\ prod'.to = WindowEnd(top) /\ prod'.gen = prod.gen
        BY <2>2, <2>5, <3>2 DEF ProducerTypes
      <4> QED BY <2>1, <2>2, <2>4, <2>6, <3>2, <4>1 DEF Run, Aimed
    <3> QED BY <2>2, <3>1, <3>2
  <2> QED BY <1>1, <2>6, <2>7, <2>8, <2>9
<1>6. ASSUME NEW ahead \in Seq(Window), SentSince(ahead, prod.lastGen), NEW e \in Nat,
             e \in prod.lastGen .. generation, prod.pc = "take",
             \/ TakeThenFill(ahead, [prod EXCEPT !.pc = "complete", !.epoch = e])
             \/ TakeThenFill(ahead, [prod EXCEPT !.pc = "direct", !.epoch = e])
      PROVE  PInv'
  <2>1. /\ prod' \in {[prod EXCEPT !.pc = "complete", !.epoch = e],
                      [prod EXCEPT !.pc = "direct", !.epoch = e]}
        /\ UNCHANGED <<slots, lowWater, generation>> /\ producerFrame
    BY <1>6 DEF TakeThenFill, queueVars
  <2>2. generation \in Nat /\ prod.lastGen \in Nat /\ prod.lastGen <= generation /\ prod.to \in Nat
    BY DEF QueueTypes, ProducerTypes, Generations, Heights
  <2>3. readahead' \in Seq(Window) /\ SentSince(readahead', prod.lastGen)
    BY <1>6, <2>2, TakeThenFillOK
  <2>4. Types'
    BY <1>1, <2>1, <2>3 DEF QueueTypes, ProducerTypes
  <2>5. prod'.pc \in Fetched /\ prod'.epoch = e /\ prod'.lastGen = prod.lastGen
        /\ prod'.gen = prod.gen /\ prod'.next = prod.next /\ prod'.to = prod.to
    BY <2>1 DEF ProducerTypes, Fetched
  <2>6. Generations'
    BY <1>6, <2>1, <2>3, <2>5 DEF Generations, SentSince, Dispatched
  <2>7. Run'
    BY <1>6, <2>1, <2>5 DEF Run, Aimed
  <2> QED BY <1>1, <2>1, <2>4, <2>6, <2>7
<1>7. ASSUME prod.pc = "take"
      PROVE  LET W == Fresh(readahead, prod.next) IN
             /\ W \in Seq(Window) /\ SentSince(W, prod.lastGen)
             /\ W # <<>> => /\ Tail(W) \in Seq(Window) /\ SentSince(Tail(W), prod.lastGen)
                            /\ Head(W).epoch \in prod.lastGen .. generation /\ Head(W).epoch \in Nat
  <2>1. /\ readahead \in Seq(Window) /\ prod.next \in Nat /\ prod.lastGen \in Nat
        /\ SentSince(readahead, prod.lastGen) /\ generation \in Nat
    BY DEF QueueTypes, ProducerTypes, Generations, Heights
  <2> DEFINE W == Fresh(readahead, prod.next)
  <2>2. W \in Seq(Window) /\ SentSince(W, prod.lastGen)
    BY <2>1, FreshOK
  <2> HIDE DEF W
  <2>3. W # <<>> => /\ Tail(W) \in Seq(Window) /\ SentSince(Tail(W), prod.lastGen)
                    /\ Head(W).epoch \in prod.lastGen .. generation
    BY <2>1, <2>2, TailOK
  <2>4. \A e \in prod.lastGen .. generation : e \in Nat
    BY <2>1
  <2> QED BY <2>2, <2>3, <2>4 DEF W
<1>8. CASE PTakeHit
  <2> DEFINE W == Fresh(readahead, prod.next)
  <2>1. /\ prod.pc = "take" /\ W # <<>>
        /\ TakeThenFill(Tail(W), [prod EXCEPT !.pc = "complete", !.epoch = Head(W).epoch])
    BY <1>8 DEF PTakeHit, HeadMatches
  <2>2. /\ Tail(W) \in Seq(Window) /\ SentSince(Tail(W), prod.lastGen)
        /\ Head(W).epoch \in prod.lastGen .. generation /\ Head(W).epoch \in Nat
    BY <1>7, <2>1
  <2> HIDE DEF W
  <2> QED BY <1>6, <2>1, <2>2
<1>9. CASE PTakeMiss
  <2> DEFINE W == Fresh(readahead, prod.next)
  <2>1. prod.pc = "take"
    BY <1>9 DEF PTakeMiss
  <2>2. generation \in Nat /\ generation \in prod.lastGen .. generation
    BY DEF QueueTypes, Generations
  <2>3. CASE TakeThenFill(<<>>, [prod EXCEPT !.pc = "direct", !.epoch = generation])
    <3>1. <<>> \in Seq(Window) /\ SentSince(<<>>, prod.lastGen)
      BY DEF SentSince
    <3> QED BY <1>6, <2>1, <2>2, <2>3, <3>1
  <2>4. CASE W # <<>> /\ TakeThenFill(Tail(W), [prod EXCEPT !.pc = "direct", !.epoch = generation])
    <3>1. Tail(W) \in Seq(Window) /\ SentSince(Tail(W), prod.lastGen)
      BY <1>7, <2>1, <2>4
    <3> HIDE DEF W
    <3> QED BY <1>6, <2>1, <2>2, <2>4, <3>1
  <2> QED BY <1>9, <2>3, <2>4 DEF PTakeMiss, HeadMatches
<1>10. CASE PFetchFails
  <2>1. QueueTypes' /\ ProducerTypes'
    BY <1>10, NextPassOK DEF PFetchFails, queueVars, QueueTypes, ProducerTypes
  <2>2. Generations'
    BY <1>10, NextPassOK DEF PFetchFails, queueVars, Generations, ProducerTypes, SentSince, Dispatched, Fetched
  <2>3. Run'
    BY <1>10, NextPassOK DEF PFetchFails, queueVars, Run, ProducerTypes, Aimed
  <2> QED BY <1>1, <1>10, <2>1, <2>2, <2>3 DEF PFetchFails
<1>11. CASE PDirect
  <2>1. QueueTypes' /\ ProducerTypes'
    BY <1>11 DEF PDirect, queueVars, QueueTypes, ProducerTypes
  <2>2. Generations'
    BY <1>11 DEF PDirect, queueVars, Generations, ProducerTypes, SentSince, Dispatched, Fetched
  <2>3. Run'
    BY <1>11 DEF PDirect, queueVars, Run, ProducerTypes, Aimed
  <2> QED BY <1>1, <1>11, <2>1, <2>2, <2>3 DEF PDirect
<1>12. CASE PComplete
  <2>1. PICK n \in Sizes : complete(prod.next, n, prod.gen, prod.epoch)
    BY <1>12 DEF PComplete
  <2>2. /\ prod.pc = "complete" /\ UNCHANGED <<lowWater, generation, readahead>> /\ producerFrame
        /\ prod' = IF prod.next = prod.to
                   THEN NextPass
                   ELSE [prod EXCEPT !.next = prod.next + 1]
    BY <1>12, <2>1 DEF PComplete, complete
  <2>3. prod.next \in Heights /\ prod.to \in Heights /\ prod.next <= prod.to
    BY <2>2 DEF ProducerTypes, Run, Aimed
  <2>4. /\ prod' \in [pc : {"start", "complete"},
                      lastGen : Nat, gen : Nat, next : Heights, to : Heights, epoch : Nat]
        /\ prod'.lastGen = prod.lastGen
        /\ prod'.pc = "complete" =>
             /\ prod'.gen = prod.gen /\ prod'.epoch = prod.epoch /\ prod'.to = prod.to
             /\ prod'.next = prod.next + 1 /\ prod.next # prod.to
    <3>1. CASE prod.next = prod.to
      BY <2>2, <3>1, NextPassOK
    <3>2. CASE prod.next # prod.to
      <4>1. prod.next + 1 \in Heights
        BY <2>3, <3>2 DEF Heights
      <4> QED BY <2>2, <3>2, <4>1 DEF ProducerTypes
    <3> QED BY <3>1, <3>2
  <2>5. Generations'
    BY <2>2, <2>4 DEF Generations, SentSince, Dispatched, Fetched
  <2>6. CASE Dropped(prod.next, prod.gen)
    <3>1. slots' = slots
      BY <2>1, <2>6 DEF complete
    <3>2. prod.gen # generation
      <4> SUFFICES ASSUME prod.gen = generation PROVE FALSE
        OBVIOUS
      <4>1. lowWater <= prod.next /\ DOMAIN slots = lowWater .. prod.next - 1
        BY <2>2 DEF Run, Aimed
      <4>2. lowWater \in Nat /\ prod.next \in Nat
        BY DEF QueueTypes, ProducerTypes, Heights
      <4> QED BY <2>6, <4>1, <4>2 DEF Dropped, IsPresent
    <3>3. Types'
      BY <1>1, <2>2, <2>4, <3>1 DEF QueueTypes, ProducerTypes
    <3>4. Run'
      <4>1. (prod.pc \in Aimed => prod.next <= prod.to)'
        BY <2>3, <2>4 DEF Aimed, Heights
      <4>2. prod'.pc \in Aimed => prod'.gen # generation'
        BY <2>2, <2>4, <3>2 DEF Aimed
      <4> QED BY <2>2, <3>1, <4>1, <4>2 DEF Run
    <3> QED BY <1>1, <2>2, <2>5, <3>3, <3>4
  <2>7. CASE ~Dropped(prod.next, prod.gen)
    <3>1. slots' = [g \in DOMAIN slots \cup {prod.next} |->
                      IF g = prod.next THEN Present(n, prod.epoch) ELSE slots[g]]
      BY <2>1, <2>7 DEF complete, With
    <3>2. prod.gen = generation
      BY <2>7 DEF Dropped
    <3>3. prod.epoch = generation
      BY <2>2, <3>2 DEF Generations, QueueTypes, ProducerTypes, Dispatched, Fetched
    <3>4. lowWater <= prod.next /\ DOMAIN slots = lowWater .. prod.next - 1
      BY <2>2, <3>2 DEF Run, Aimed
    <3>5. lowWater \in Nat /\ prod.next \in Nat /\ prod.next <= MaxHeight
      BY DEF QueueTypes, ProducerTypes, Heights
    <3>6. DOMAIN slots' = lowWater .. prod.next
      BY <3>1, <3>4, <3>5
    <3>7. Types'
      <4>1. DOMAIN slots' \subseteq Heights
        BY <3>5, <3>6 DEF Heights
      <4>2. QueueTypes'
        BY <2>2, <4>1 DEF QueueTypes
      <4>3. ProducerTypes'
        BY <2>2, <2>4 DEF ProducerTypes
      <4> QED BY <1>1, <2>2, <4>2, <4>3
    <3>8. Run'
      <4>1. (\A h \in DOMAIN slots : slots[h].kind = "Present" /\ slots[h].epoch = generation)'
        BY <2>2, <3>1, <3>3 DEF Run, Present
      <4>2. (\E top \in lowWater .. MaxHeight + 1 : DOMAIN slots = lowWater .. top - 1)'
        <5>0. lowWater' = lowWater
          BY <2>2
        <5>1. prod.next + 1 \in lowWater' .. MaxHeight + 1
          BY <5>0, <3>4, <3>5
        <5>2. DOMAIN slots' = lowWater' .. (prod.next + 1) - 1
          BY <5>0, <3>5, <3>6
        <5> QED BY <5>1, <5>2
      <4>3. (prod.pc \in Aimed => prod.next <= prod.to)'
        BY <2>2, <2>3, <2>4 DEF Aimed, Heights
      <4>4. (prod.pc \in Aimed /\ prod.gen = generation =>
               lowWater <= prod.next /\ DOMAIN slots = lowWater .. prod.next - 1)'
        <5>1. prod'.pc \in Aimed => prod'.next = prod.next + 1
          BY <2>4 DEF Aimed
        <5>2. lowWater' = lowWater /\ lowWater <= prod.next + 1
              /\ DOMAIN slots' = lowWater .. (prod.next + 1) - 1
          BY <2>2, <3>4, <3>5, <3>6
        <5> QED BY <5>1, <5>2
      <4> QED BY <4>1, <4>2, <4>3, <4>4 DEF Run
    <3> QED BY <1>1, <2>2, <2>5, <3>7, <3>8
  <2> QED BY <2>6, <2>7
<1> QED BY <1>2, <1>3, <1>4, <1>5, <1>8, <1>9, <1>10, <1>11, <1>12 DEF Producer

-----------------------------------------------------------------------------
(* What the other tasks do to the queue under the producer.                *)

\* A rebase, at whatever point of the producer's loop it comes, empties the
\* buffer and makes the dispatch in progress stale.
LEMMA RebaseOK ==
  ASSUME Types, Generations, Run, NEW h \in 0 .. MaxHeight + 1, rebase(h),
         UNCHANGED <<prod, readahead>>
  PROVE  QueueTypes' /\ ProducerTypes' /\ Generations' /\ Run'
<1> USE QueueConstants DEF Types
<1>1. /\ DOMAIN slots' = {} /\ lowWater' = h /\ generation' = generation + 1
      /\ UNCHANGED <<prod, readahead>>
  BY DEF rebase
<1>2. QueueTypes' /\ ProducerTypes'
  BY <1>1 DEF QueueTypes, ProducerTypes
<1>3. Generations'
  <2>1. \A e \in prod.lastGen .. generation : e \in prod.lastGen .. generation'
    BY <1>1 DEF QueueTypes, ProducerTypes
  <2>2. SentSince(readahead, prod.lastGen)'
    BY <1>1, <2>1 DEF Generations, SentSince
  <2> QED BY <1>1, <2>1, <2>2 DEF Generations, QueueTypes, ProducerTypes
<1>4. Run'
  <2>1. prod.pc \in Aimed => prod.gen # generation'
    BY <1>1 DEF Generations, Aimed, Dispatched, QueueTypes, ProducerTypes
  <2>2. h \in lowWater' .. MaxHeight + 1 /\ DOMAIN slots' = lowWater' .. h - 1
    BY <1>1
  <2> QED BY <1>1, <2>1, <2>2 DEF Run
<1> QED BY <1>2, <1>3, <1>4

\* A drain moves the head along the run and leaves the frontier alone.
LEMMA DrainOK ==
  ASSUME Types, Generations, Run, drain_ready_window(Batch), UNCHANGED <<prod, readahead>>
  PROVE  /\ QueueTypes' /\ ProducerTypes' /\ Generations' /\ Run'
         /\ lowWater' # lowWater => lowWater \in Heights
<1> USE QueueConstants, PipelineConstants DEF Types
<1>1. PICK top \in lowWater .. MaxHeight + 1 : DOMAIN slots = lowWater .. top - 1
  BY DEF Run
<1>2. lowWater \in Nat /\ top \in Nat /\ lowWater <= top /\ Batch \in Nat
  BY <1>1 DEF QueueTypes
<1>3. /\ lowWater' \in lowWater .. top /\ DOMAIN slots' = lowWater' .. top - 1
      /\ \A h \in DOMAIN slots' : h \in DOMAIN slots /\ slots'[h] = slots[h]
  BY <1>1, <1>2, DrainKeepsRun
<1>4. generation' = generation /\ UNCHANGED <<prod, readahead>>
  BY DEF drain_ready_window
<1>5. QueueTypes' /\ ProducerTypes'
  BY <1>1, <1>2, <1>3, <1>4 DEF QueueTypes, ProducerTypes, Heights
<1>6. Generations'
  BY <1>4 DEF Generations, SentSince
<1>7. Run'
  <2>1. (\A h \in DOMAIN slots : slots[h].kind = "Present" /\ slots[h].epoch = generation)'
    BY <1>3, <1>4 DEF Run
  <2>2. top \in lowWater' .. MaxHeight + 1
    BY <1>1, <1>2, <1>3
  <2>3. ASSUME prod.pc \in Aimed, prod.gen = generation
        PROVE  lowWater' <= prod.next /\ DOMAIN slots' = lowWater' .. prod.next - 1
    <3>1. lowWater <= prod.next /\ DOMAIN slots = lowWater .. prod.next - 1
      BY <2>3 DEF Run
    <3>2. prod.next \in Nat
      BY DEF ProducerTypes, Heights
    <3>3. /\ lowWater' \in lowWater .. prod.next
          /\ DOMAIN slots' = lowWater' .. prod.next - 1
      BY <1>2, <3>1, <3>2, DrainKeepsRun
    <3> QED BY <3>3, <1>2, <3>2
  <2> QED BY <1>3, <1>4, <2>1, <2>2, <2>3 DEF Run
<1>8. lowWater' # lowWater => lowWater \in Heights
  BY <1>1, <1>2, <1>3 DEF Heights
<1> QED BY <1>5, <1>6, <1>7, <1>8

-----------------------------------------------------------------------------
(* The consumer's steps.                                                   *)

\* A request that nobody awaits is left as it is by a timeout.
LEMMA Unawaited ==
  ASSUME NEW k
  PROVE  LET r == [kind |-> k, awaited |-> FALSE] IN [r EXCEPT !.awaited = FALSE] = r
<1> DEFINE r == [kind |-> k, awaited |-> FALSE]
           q == [r EXCEPT !.awaited = FALSE]
<1>1. q.kind = k
  OBVIOUS
<1>2. q.awaited = FALSE
  OBVIOUS
<1>3. q = [x \in {"kind", "awaited"} |-> q[x]]
  OBVIOUS
<1>4. r = [x \in {"kind", "awaited"} |-> r[x]]
  OBVIOUS
<1>5. r.kind = k /\ r.awaited = FALSE
  OBVIOUS
<1> HIDE DEF q, r
<1>7. \A x \in {"kind", "awaited"} : q[x] = r[x]
  BY <1>1, <1>2, <1>5, Zenon
<1>6. q = r
  BY <1>3, <1>4, <1>7, Zenon
<1> QED BY <1>6 DEF q, r

\* The consumer keeps the invariant: only its drain touches the buffer, and only
\* its send and its timeout touch what is owed.
LEMMA ConsumerStep == PInv /\ Consumer => PInv'
<1> SUFFICES ASSUME PInv, Consumer PROVE PInv'
  OBVIOUS
<1> USE QueueConstants, PipelineConstants DEF PInv, Types
<1>1. ASSUME UNCHANGED <<queueVars, prod, readahead>>
      PROVE  QueueTypes' /\ ProducerTypes' /\ Generations' /\ Run'
  BY <1>1 DEF queueVars, QueueTypes, ProducerTypes, Generations, SentSince, Run
<1>2. ASSUME UNCHANGED <<drv, requests>>, cons.pc # "waiting", cons'.pc # "waiting"
      PROVE  DriverTypes' /\ Owed'
  BY <1>2 DEF DriverTypes, Owed
<1>3. CASE CMark
  <2>1. ConsumerTypes' /\ cons.pc = "idle" /\ cons'.pc = "marked"
    BY <1>3 DEF CMark, ConsumerTypes
  <2>2. UNCHANGED <<queueVars, prod, readahead, drv, requests>>
    BY <1>3 DEF CMark, consumerFrame
  <2> QED BY <1>1, <1>2, <2>1, <2>2
<1>4. CASE CDrain
  <2>1. /\ drain_ready_window(Batch) /\ cons.pc = "marked"
        /\ UNCHANGED <<peak, requests, drv, prod, readahead>>
    BY <1>4 DEF CDrain, consumerFrame
  <2>2. /\ QueueTypes' /\ ProducerTypes' /\ Generations' /\ Run'
        /\ lowWater' # lowWater => lowWater \in Heights
    BY <2>1, DrainOK
  <2>3. ConsumerTypes' /\ cons'.pc # "waiting"
    <3>1. CASE ReadyWindow(Batch) = {}
      <4>1. cons' = Idle
        BY <1>4, <3>1 DEF CDrain
      <4> QED BY <2>1, <4>1, IdleOK DEF ConsumerTypes
    <3>2. CASE ReadyWindow(Batch) # {}
      <4>1. cons' = [cons EXCEPT !.pc = "drained", !.from = lowWater, !.to = lowWater']
        BY <1>4, <3>2 DEF CDrain
      <4>2. lowWater' # lowWater
        <5>1. lowWater \in Nat /\ Batch \in Nat
          BY DEF QueueTypes
        <5>2. /\ Cardinality(ReadyWindow(Batch)) \in 0 .. Batch
              /\ ReadyWindow(Batch) = lowWater .. lowWater + Cardinality(ReadyWindow(Batch)) - 1
          BY <5>1, ReadyWindowRun
        <5>3. lowWater' = lowWater + Cardinality(ReadyWindow(Batch))
          BY <2>1 DEF drain_ready_window
        <5> QED BY <3>2, <5>1, <5>2, <5>3
      <4> QED BY <2>1, <2>2, <4>1, <4>2 DEF ConsumerTypes, QueueTypes
    <3> QED BY <3>1, <3>2
  <2> QED BY <1>2, <2>1, <2>2, <2>3
<1>5. CASE CConfirm
  <2>1. cons.pc = "drained" /\ UNCHANGED <<queueVars, prod, readahead, drv, requests>>
    BY <1>5 DEF CConfirm, consumerFrame
  <2>2. \E k \in Kinds \cup {"done"} : cons' = [cons EXCEPT !.pc = "confirmed", !.outcome = k]
    BY <1>5 DEF CConfirm, Kinds
  <2>3. peak' \in -1 .. Target
    <3>1. peak \in -1 .. Target /\ cons.from \in 0 .. Target /\ cons.to \in 0 .. Target + 1
      BY DEF ConsumerTypes, Heights
    <3>2. peak' = peak \/ (cons.to > peak + 1 /\ peak' = cons.to - 1)
          \/ peak' \in cons.from .. cons.to - 1
      BY <1>5 DEF CConfirm
    <3> QED BY <3>1, <3>2
  <2>4. ConsumerTypes' /\ cons'.pc # "waiting"
    BY <2>2, <2>3 DEF ConsumerTypes
  <2> QED BY <1>1, <1>2, <2>1, <2>4
<1>6. CASE CFinish
  <2>1. /\ cons.pc = "confirmed" /\ UNCHANGED <<queueVars, prod, readahead, drv, requests, peak>>
        /\ cons' = IF cons.outcome = "done" THEN Idle ELSE [cons EXCEPT !.pc = "send"]
    BY <1>6 DEF CFinish, consumerFrame
  <2>2. ConsumerTypes' /\ cons'.pc # "waiting"
    BY <2>1, IdleOK DEF ConsumerTypes
  <2> QED BY <1>1, <1>2, <2>1, <2>2
<1>7. CASE CSend
  <2> DEFINE r == [kind |-> cons.outcome, awaited |-> TRUE]
  <2>1. /\ cons.pc = "send" /\ requests' = Append(requests, r)
        /\ cons' = [cons EXCEPT !.pc = "waiting"]
        /\ UNCHANGED <<queueVars, prod, readahead, drv, peak>>
    BY <1>7 DEF CSend, consumerFrame
  <2>2. ConsumerTypes' /\ cons'.pc = "waiting"
    BY <2>1 DEF ConsumerTypes
  <2>3. r \in Request /\ r.awaited
    BY <2>1 DEF ConsumerTypes, Request
  <2> HIDE DEF r
  <2>4. requests' \in Seq(Request)
    BY <2>1, <2>3 DEF DriverTypes
  <2>5. DriverTypes'
    BY <2>1, <2>4 DEF DriverTypes
  <2>6. ~drv.request.awaited /\ \A k \in 1 .. Len(requests) : ~requests[k].awaited
    BY <2>1 DEF Owed
  <2>7. /\ Len(requests') = Len(requests) + 1 /\ Len(requests) \in Nat
        /\ requests'[Len(requests) + 1] = r
        /\ \A k \in 1 .. Len(requests) : requests'[k] = requests[k]
    BY <2>1 DEF DriverTypes
  <2>8. \A k \in 1 .. Len(requests') : requests'[k].awaited <=> k = Len(requests) + 1
    <3> SUFFICES ASSUME NEW k \in 1 .. Len(requests')
                 PROVE  requests'[k].awaited <=> k = Len(requests) + 1
      OBVIOUS
    <3>1. CASE k = Len(requests) + 1
      BY <2>3, <2>7, <3>1
    <3>2. CASE k # Len(requests) + 1
      <4>1. k \in 1 .. Len(requests)
        BY <2>7, <3>2
      <4> QED BY <2>6, <2>7, <3>2, <4>1
    <3> QED BY <3>1, <3>2
  <2>9. Len(requests) + 1 \in 1 .. Len(requests')
    BY <2>7
  <2>10. Owed'
    BY <2>1, <2>2, <2>6, <2>8, <2>9, Zenon DEF Owed
  <2> QED BY <1>1, <2>1, <2>2, <2>5, <2>10
<1>8. CASE CTimeout
  <2>1. /\ cons' = Idle
        /\ requests' = [k \in 1 .. Len(requests) |-> [requests[k] EXCEPT !.awaited = FALSE]]
        /\ drv' = [drv EXCEPT !.request.awaited = FALSE]
        /\ UNCHANGED <<queueVars, prod, readahead, peak>>
    BY <1>8 DEF CTimeout
  <2>2. ConsumerTypes' /\ cons'.pc = "idle"
    BY <2>1, IdleOK DEF ConsumerTypes
  <2>3. requests' \in Seq(Request) /\ Len(requests') = Len(requests)
        /\ \A k \in 1 .. Len(requests') : ~requests'[k].awaited
    <3>1. Len(requests) \in Nat /\ \A k \in 1 .. Len(requests) :
            requests[k] \in Request
      BY DEF DriverTypes
    <3>2. \A k \in 1 .. Len(requests) :
            /\ [requests[k] EXCEPT !.awaited = FALSE] \in Request
            /\ [requests[k] EXCEPT !.awaited = FALSE].awaited = FALSE
      BY <3>1 DEF Request
    <3>3. Len(requests') = Len(requests)
      BY <2>1, <3>1
    <3>4. \A k \in 1 .. Len(requests) :
            requests'[k] \in Request /\ requests'[k].awaited = FALSE
      BY <2>1, <3>2
    <3>5. requests' \in Seq(Request)
      <4>1. requests' \in [1 .. Len(requests) -> Request]
        BY <2>1, <3>2
      <4> QED BY <3>1, <4>1
    <3> QED BY <3>3, <3>4, <3>5
  <2>4. /\ ~drv'.request.awaited /\ drv'.pc = drv.pc /\ drv'.head = drv.head
        /\ drv'.request \in Request \cup {NoRequest}
    <3> DEFINE q == [drv.request EXCEPT !.awaited = FALSE]
    <3>1. CASE drv.request = NoRequest
      <4>1. q = NoRequest
        <5>1. q = [NoRequest EXCEPT !.awaited = FALSE]
          BY <3>1
        <5>2. [NoRequest EXCEPT !.awaited = FALSE] = NoRequest
          BY Unawaited DEF NoRequest
        <5> QED BY <5>1, <5>2
      <4>2. drv' = [drv EXCEPT !.request = NoRequest]
        BY <2>1, <4>1
      <4>3. NoRequest.awaited = FALSE
        BY DEF NoRequest
      <4> QED BY <4>2, <4>3 DEF DriverTypes
    <3>2. CASE drv.request \in Request
      <4>1. q \in Request /\ q.awaited = FALSE
        BY <3>2 DEF Request
      <4>2. drv' = [drv EXCEPT !.request = q]
        BY <2>1
      <4> HIDE DEF q
      <4> QED BY <4>1, <4>2 DEF DriverTypes
    <3> QED BY <3>1, <3>2 DEF DriverTypes
  <2>5. DriverTypes'
    BY <2>1, <2>3, <2>4 DEF DriverTypes
  <2>6. Owed'
    BY <2>2, <2>3, <2>4 DEF Owed
  <2> QED BY <1>1, <2>1, <2>2, <2>5, <2>6
<1> QED BY <1>3, <1>4, <1>5, <1>6, <1>7, <1>8 DEF Consumer

-----------------------------------------------------------------------------
(* The driver's and the tip follower's steps.                              *)

\* The driver keeps the invariant: it rebases, and it takes a request and
\* replies to it.
LEMMA DriverStep == PInv /\ Driver => PInv'
<1> SUFFICES ASSUME PInv, Driver PROVE PInv'
  OBVIOUS
<1> USE QueueConstants, PipelineConstants DEF PInv, Types
<1>0. 0 \in 0 .. MaxHeight + 1
  OBVIOUS
<1>1. ASSUME UNCHANGED <<queueVars, prod, readahead>>
      PROVE  QueueTypes' /\ ProducerTypes' /\ Generations' /\ Run'
  BY <1>1 DEF queueVars, QueueTypes, ProducerTypes, Generations, SentSince, Run
<1>2. ASSUME UNCHANGED <<peak, cons>> PROVE ConsumerTypes'
  BY <1>2 DEF ConsumerTypes
<1>3. ASSUME UNCHANGED <<requests, cons>>, drv'.request = drv.request,
             drv.pc \in Serving => drv'.pc \in Serving
      PROVE  Owed'
  BY <1>3 DEF Owed
<1>4. follow_head \in 0 .. MaxHeight + 1
  BY DEF follow_head, ConsumerTypes
<1>5. CASE DReceive
  <2> DEFINE r == Head(requests)
  <2>1. /\ drv.pc = "tick" /\ requests # <<>> /\ requests' = Tail(requests)
        /\ \/ drv' = [drv EXCEPT !.pc = "backtrack", !.request = r]
           \/ drv' = [drv EXCEPT !.pc = "head", !.request = r]
        /\ UNCHANGED <<queueVars, peak, cons, prod, readahead>>
    BY <1>5 DEF DReceive, driverFrame
  <2>2. /\ r \in Request /\ r = requests[1] /\ 1 \in 1 .. Len(requests)
        /\ requests' \in Seq(Request)
        /\ Len(requests) \in Nat /\ Len(requests') = Len(requests) - 1
        /\ \A k \in 1 .. Len(requests') : requests'[k] = requests[k + 1]
    BY <2>1 DEF DriverTypes
  <2> HIDE DEF r
  <2>3. DriverTypes' /\ drv'.request = r /\ drv'.pc \in Serving
    BY <2>1, <2>2 DEF DriverTypes, Serving
  <2>4. ~drv.request.awaited
    BY <2>1 DEF Owed, Serving
  <2>5. \A k \in 1 .. Len(requests') : k + 1 \in 1 .. Len(requests) /\ k + 1 # 1
    BY <2>2
  <2>6. \A j, k \in 1 .. Len(requests') : j + 1 = k + 1 => j = k
    OBVIOUS
  <2>7. \A k \in 1 .. Len(requests) : k = 1 \/ \E j \in 1 .. Len(requests') : k = j + 1
    <3> SUFFICES ASSUME NEW k \in 1 .. Len(requests), k # 1
                 PROVE  \E j \in 1 .. Len(requests') : k = j + 1
      OBVIOUS
    <3>1. k - 1 \in 1 .. Len(requests') /\ k = (k - 1) + 1
      BY <2>2
    <3> QED BY <3>1
  <2>8. (\A k \in 1 .. Len(requests) : requests[k].awaited => ~drv.request.awaited)'
    BY <2>2, <2>3, <2>5 DEF Owed
  <2>9. (\A j, k \in 1 .. Len(requests) : requests[j].awaited /\ requests[k].awaited => j = k)'
    BY <2>2, <2>5, <2>6 DEF Owed
  <2>10. (cons.pc = "waiting" <=>
           drv.request.awaited \/ \E k \in 1 .. Len(requests) : requests[k].awaited)'
    <3>1. (\E k \in 1 .. Len(requests) : requests[k].awaited) <=>
            r.awaited \/ \E j \in 1 .. Len(requests') : requests'[j].awaited
      <4>1. ASSUME NEW k \in 1 .. Len(requests), requests[k].awaited
            PROVE  r.awaited \/ \E j \in 1 .. Len(requests') : requests'[j].awaited
        BY <2>2, <2>7, <4>1
      <4>2. ASSUME NEW j \in 1 .. Len(requests'), requests'[j].awaited
            PROVE  \E k \in 1 .. Len(requests) : requests[k].awaited
        BY <2>2, <2>5, <4>2
      <4> QED BY <2>2, <4>1, <4>2
    <3>2. cons.pc = "waiting" <=> \E k \in 1 .. Len(requests) : requests[k].awaited
      BY <2>4 DEF Owed
    <3> QED BY <2>1, <2>3, <3>1, <3>2
  <2> QED BY <1>1, <1>2, <2>1, <2>3, <2>8, <2>9, <2>10 DEF Owed
<1>6. CASE DBacktrack
  <2>1. /\ drv.pc = "backtrack" /\ drv' = [drv EXCEPT !.pc = "unmark"]
        /\ peak' \in -1 .. Target
        /\ UNCHANGED <<queueVars, requests, cons, prod, readahead>>
    BY <1>6 DEF DBacktrack, driverFrame, ConsumerTypes
  <2>2. DriverTypes' /\ drv'.request = drv.request /\ drv'.pc \in Serving
    BY <2>1 DEF DriverTypes, Serving
  <2>3. ConsumerTypes'
    BY <2>1 DEF ConsumerTypes
  <2> QED BY <1>1, <1>3, <2>1, <2>2, <2>3
<1>7. CASE DUnmark
  <2>1. /\ drv.pc = "unmark" /\ drv' = [drv EXCEPT !.pc = "head"]
        /\ UNCHANGED <<queueVars, peak, requests, cons, prod, readahead>>
    BY <1>7 DEF DUnmark, driverFrame
  <2>2. DriverTypes' /\ drv'.request = drv.request /\ drv'.pc \in Serving
    BY <2>1 DEF DriverTypes, Serving
  <2> QED BY <1>1, <1>2, <1>3, <2>1, <2>2
<1>8. CASE DReadHead
  <2>1. /\ drv.pc \in {"head", "peek"}
        /\ drv' = [drv EXCEPT !.pc = IF drv.pc = "head" THEN "rebase" ELSE "compare",
                              !.head = follow_head]
        /\ UNCHANGED <<queueVars, peak, requests, cons, prod, readahead>>
    BY <1>8 DEF DReadHead, driverFrame
  <2>2. DriverTypes' /\ drv'.request = drv.request /\ (drv.pc \in Serving => drv'.pc \in Serving)
    BY <1>4, <2>1 DEF DriverTypes, Serving
  <2> QED BY <1>1, <1>2, <1>3, <2>1, <2>2
<1>9. CASE DRebaseReply
  <2>1. /\ drv.pc = "rebase" /\ rebase(drv.head)
        /\ cons' = IF drv.request.awaited THEN Idle ELSE cons
        /\ drv' = [drv EXCEPT !.pc = "tick", !.head = 0, !.request = NoRequest]
        /\ UNCHANGED <<peak, requests, prod, readahead>>
    BY <1>9 DEF DRebaseReply, driverFrame
  <2>2. drv.head \in 0 .. MaxHeight + 1
    BY DEF DriverTypes
  <2>3. QueueTypes' /\ ProducerTypes' /\ Generations' /\ Run'
    BY <2>1, <2>2, RebaseOK
  <2>4. DriverTypes' /\ drv'.request = NoRequest
    BY <1>0, <2>1 DEF DriverTypes
  <2>5. ~drv'.request.awaited
    BY <2>4 DEF NoRequest
  <2>6. CASE drv.request.awaited
    <3>1. ConsumerTypes' /\ cons'.pc = "idle"
      BY <2>1, <2>6, IdleOK DEF ConsumerTypes
    <3>2. Owed'
      BY <2>1, <2>5, <2>6, <3>1 DEF Owed
    <3> QED BY <2>3, <2>4, <3>1, <3>2
  <2>7. CASE ~drv.request.awaited
    <3>1. ConsumerTypes' /\ cons' = cons
      BY <2>1, <2>7 DEF ConsumerTypes
    <3>2. Owed'
      BY <2>1, <2>5, <2>7, <3>1 DEF Owed
    <3> QED BY <2>3, <2>4, <3>1, <3>2
  <2> QED BY <2>6, <2>7
<1>10. CASE DReconcile
  <2>1. /\ drv.pc = "tick" /\ drv' = [drv EXCEPT !.pc = IF inflight THEN "watch" ELSE "peek"]
        /\ UNCHANGED <<queueVars, peak, requests, cons, prod, readahead>>
    BY <1>10 DEF DReconcile, driverFrame
  <2>2. DriverTypes' /\ drv'.request = drv.request /\ drv.pc \notin Serving
    BY <2>1 DEF DriverTypes, Serving
  <2> QED BY <1>1, <1>2, <1>3, <2>1, <2>2
<1>11. CASE DCompare
  <2>1. /\ drv.pc = "compare"
        /\ \/ drv' = [drv EXCEPT !.pc = "realign"]
           \/ drv' = [drv EXCEPT !.pc = "watch", !.head = 0]
        /\ UNCHANGED <<queueVars, peak, requests, cons, prod, readahead>>
    BY <1>11 DEF DCompare, driverFrame
  <2>2. DriverTypes' /\ drv'.request = drv.request /\ drv.pc \notin Serving
    BY <1>0, <2>1 DEF DriverTypes, Serving
  <2> QED BY <1>1, <1>2, <1>3, <2>1, <2>2
<1>12. CASE DRealign \/ DReclaim
  <2>1. /\ drv.pc \in {"realign", "reclaim"} /\ rebase(drv.head)
        /\ \/ drv' = [drv EXCEPT !.pc = "watch", !.head = 0]
           \/ drv' = [drv EXCEPT !.pc = "tick", !.head = 0]
        /\ UNCHANGED <<peak, requests, cons, prod, readahead>>
    BY <1>12 DEF DRealign, DReclaim, driverFrame
  <2>2. drv.head \in 0 .. MaxHeight + 1
    BY DEF DriverTypes
  <2>3. QueueTypes' /\ ProducerTypes' /\ Generations' /\ Run'
    BY <2>1, <2>2, RebaseOK
  <2>4. DriverTypes' /\ drv'.request = drv.request /\ drv.pc \notin Serving
    BY <1>0, <2>1 DEF DriverTypes, Serving
  <2> QED BY <1>2, <1>3, <2>1, <2>3, <2>4
<1>13. CASE DWatch
  <2>1. /\ drv.pc = "watch"
        /\ \/ drv' = [drv EXCEPT !.pc = "reclaim", !.head = lowWater]
           \/ drv' = [drv EXCEPT !.pc = "tick", !.head = 0]
        /\ UNCHANGED <<queueVars, peak, requests, cons, prod, readahead>>
    BY <1>13 DEF DWatch, driverFrame
  <2>2. DriverTypes' /\ drv'.request = drv.request /\ drv.pc \notin Serving
    BY <1>0, <2>1 DEF DriverTypes, Serving, QueueTypes
  <2> QED BY <1>1, <1>2, <1>3, <2>1, <2>2
<1> QED BY <1>5, <1>6, <1>7, <1>8, <1>9, <1>10, <1>11, <1>12, <1>13 DEF Driver

\* The tip follower moves the peak and nothing the invariant relates.
LEMMA FollowerStep == PInv /\ Follower => PInv'
<1> SUFFICES ASSUME PInv, Follower PROVE PInv'
  OBVIOUS
<1> USE QueueConstants, PipelineConstants DEF PInv, Types
<1>1. UNCHANGED <<slots, lowWater, generation, requests, prod, readahead, cons, drv>>
  BY DEF Follower, TBegin, TStep, TEnd, tipFrame, queueVars
<1>2. peak' \in -1 .. Target
  BY DEF Follower, TBegin, TStep, TEnd, ConsumerTypes
<1>3. QueueTypes' /\ ProducerTypes' /\ Generations' /\ Run'
  BY <1>1 DEF QueueTypes, ProducerTypes, Generations, SentSince, Run
<1>4. ConsumerTypes'
  BY <1>1, <1>2 DEF ConsumerTypes
<1>5. DriverTypes' /\ Owed'
  BY <1>1 DEF DriverTypes, Owed
<1> QED BY <1>3, <1>4, <1>5

-----------------------------------------------------------------------------
(* The theorems.                                                           *)

\* The invariant holds in every state of the pipeline.
LEMMA PipelineInvariant == Spec => []PInv
<1> USE QueueConstants, PipelineConstants
<1>1. Init => PInv
  <2> SUFFICES ASSUME Init PROVE PInv
    OBVIOUS
  <2>1. /\ DOMAIN slots = {} /\ generation = 0 /\ lowWater = peak + 1 /\ peak \in {-1, 0}
        /\ requests = <<>> /\ readahead = <<>>
        /\ prod = [pc |-> "start", lastGen |-> 0, gen |-> 0, next |-> 0, to |-> 0, epoch |-> 0]
        /\ cons = [pc |-> "idle", from |-> 0, to |-> 0, outcome |-> "none"]
        /\ drv = [pc |-> "tick", head |-> 0, request |-> NoRequest]
    BY DEF Init, QueueInit, follow_head
  <2>2. QueueTypes /\ ProducerTypes /\ ConsumerTypes /\ DriverTypes
    BY <2>1 DEF QueueTypes, ProducerTypes, ConsumerTypes, DriverTypes, Heights
  <2>3. Generations
    BY <2>1 DEF Generations, SentSince, Dispatched, Fetched
  <2>4. Run
    <3>1. lowWater \in lowWater .. MaxHeight + 1 /\ DOMAIN slots = lowWater .. lowWater - 1
      BY <2>1
    <3> QED BY <2>1, <3>1 DEF Run, Aimed
  <2>5. Owed
    BY <2>1 DEF Owed, NoRequest
  <2> QED BY <2>2, <2>3, <2>4, <2>5 DEF PInv, Types
<1>2. PInv /\ UNCHANGED vars => PInv'
  <2> SUFFICES ASSUME PInv, UNCHANGED vars PROVE PInv'
    OBVIOUS
  <2>1. Types'
    BY DEF vars, taskVars, PInv, Types, QueueTypes, ProducerTypes, ConsumerTypes, DriverTypes
  <2>2. Generations' /\ Run'
    BY DEF vars, taskVars, PInv, Generations, SentSince, Run
  <2>3. Owed'
    BY DEF vars, taskVars, PInv, Owed
  <2> QED BY <2>1, <2>2, <2>3 DEF PInv
<1>3. PInv /\ [Next]_vars => PInv'
  BY <1>2, ProducerStep, ConsumerStep, DriverStep, FollowerStep DEF Next
<1> QED BY <1>1, <1>3, PTL DEF Spec

\* In the pipeline the buffer is a gapless run of heights from the consumer's
\* head, across every interleaving of fetches, drains and rebases.
THEOREM BufferHasNoHoles == Spec => []NoHoles
<1>1. PInv => NoHoles
  <2> SUFFICES ASSUME PInv PROVE NoHoles
    OBVIOUS
  <2>1. PICK top \in lowWater .. MaxHeight + 1 : DOMAIN slots = lowWater .. top - 1
    BY DEF PInv, Run
  <2>2. lowWater \in Nat /\ top \in Nat /\ lowWater <= top
    BY <2>1, QueueConstants DEF PInv, Types, QueueTypes
  <2>3. Cardinality(lowWater .. top - 1) = IF lowWater > top - 1 THEN 0 ELSE top - 1 - lowWater + 1
    BY <2>2, FS_Interval
  <2> QED BY <2>1, <2>2, <2>3 DEF NoHoles
<1> QED BY <1>1, PipelineInvariant, PTL

\* In the pipeline every resident block was fetched after the last rebase: no
\* window taken from the readahead or fetched directly lands on a later branch.
THEOREM PipelineOneBranch == Spec => []OnlyCurrentGeneration
<1>1. PInv => OnlyCurrentGeneration
  BY DEF PInv, Run, OnlyCurrentGeneration, PresentHeights
<1> QED BY <1>1, PipelineInvariant, PTL

\* A consumer parked on a recovery reply is owed one by exactly one request,
\* whatever requests earlier timeouts abandoned.
THEOREM ReplyIsOwed == Spec => []ReplyOwed
<1>1. PInv => ReplyOwed
  <2> SUFFICES ASSUME PInv PROVE ReplyOwed
    OBVIOUS
  <2> DEFINE owed == {k \in 1 .. Len(requests) : requests[k].awaited}
  <2>1. CASE cons.pc # "waiting"
    BY <2>1 DEF PInv, Owed, ReplyOwed
  <2>2. CASE cons.pc = "waiting" /\ drv.request.awaited
    <3>1. owed = {}
      BY <2>2 DEF PInv, Owed
    <3>2. Cardinality(owed) + 1 = 1
      BY <3>1, FS_EmptySet
    <3> HIDE DEF owed
    <3> QED BY <2>2, <3>2 DEF ReplyOwed, owed
  <2>3. CASE cons.pc = "waiting" /\ ~drv.request.awaited
    <3>1. \E k \in 1 .. Len(requests) : owed = {k}
      BY <2>3 DEF PInv, Owed
    <3>2. Cardinality(owed) = 1
      BY <3>1, FS_Singleton
    <3> HIDE DEF owed
    <3>3. Cardinality(owed) + 0 = 1
      BY <3>2
    <3> QED BY <2>3, <3>3 DEF ReplyOwed, owed
  <2> QED BY <2>1, <2>2, <2>3
<1> QED BY <1>1, PipelineInvariant, PTL

-----------------------------------------------------------------------------
(* The byte charge.  Total(b, S) is the size of the blocks of b at the     *)
(* heights S; it obeys the laws of a sum.                                  *)

Total(b, S) == MapThenSumSet(LAMBDA h : b[h].nbytes, S)

\* Total is the sum of any function that gives the sizes.
LEMMA TotalIsSum ==
  ASSUME NEW S, IsFiniteSet(S), NEW b, \A h \in S : b[h].nbytes \in Int,
         NEW f, \A h \in S : f[h] = b[h].nbytes
  PROVE  Total(b, S) = Sum(f, S)
<1> DEFINE P(g) == g = [s \in SUBSET S |-> IF s = {} THEN 0
                                           ELSE b[Chosen(s)].nbytes + g[s \ {Chosen(s)}]]
           I == CHOOSE g : P(g)
<1>1. \A s \in SUBSET S : s # {} => b[Chosen(s)].nbytes = f[Chosen(s)]
  BY DEF Chosen
<1>2. \A g : P(g) <=> Sums(g, f, S)
  BY <1>1 DEF Sums
<1>3. \E g : Sums(g, f, S)
  <2>1. \A h \in S : f[h] \in Int
    OBVIOUS
  <2> QED BY <2>1, SumsExist
<1>4. Total(b, S) = I[S]
  BY DEF Total, MapThenSumSet, MapThenFoldSet, Chosen
<1> HIDE DEF P
<1>5. P(I)
  BY <1>2, <1>3, Zenon
<1> HIDE DEF I
<1>6. Sums(I, f, S)
  BY <1>2, <1>5
<1>7. \A h \in S : f[h] \in Int
  OBVIOUS
<1>8. Sum(f, S) = I[S]
  BY <1>6, <1>7, SumDef
<1> QED BY <1>4, <1>8

\* No heights, no bytes.
LEMMA TotalEmpty ==
  ASSUME NEW b PROVE Total(b, {}) = 0
<1> DEFINE f == [h \in {} |-> b[h].nbytes]
<1>1. Total(b, {}) = Sum(f, {})
  BY TotalIsSum, FS_EmptySet
<1> HIDE DEF f
<1> QED BY <1>1, SumEmpty

\* Total depends on the sizes at its heights alone.
LEMMA TotalSame ==
  ASSUME NEW S, IsFiniteSet(S), NEW b, NEW c,
         \A h \in S : b[h].nbytes \in Int /\ c[h].nbytes = b[h].nbytes
  PROVE  Total(c, S) = Total(b, S)
<1> DEFINE f == [h \in S |-> b[h].nbytes]
<1>1. \A h \in S : f[h] = b[h].nbytes /\ f[h] = c[h].nbytes
  OBVIOUS
<1> HIDE DEF f
<1>2. Total(b, S) = Sum(f, S)
  BY <1>1, TotalIsSum
<1>3. Total(c, S) = Sum(f, S)
  BY <1>1, TotalIsSum
<1> QED BY <1>2, <1>3

\* One more height adds its block's size.
LEMMA TotalAdd ==
  ASSUME NEW S, IsFiniteSet(S), NEW x, x \notin S, NEW b,
         \A h \in S \cup {x} : b[h].nbytes \in Int
  PROVE  Total(b, S \cup {x}) = Total(b, S) + b[x].nbytes
<1> DEFINE f == [h \in S \cup {x} |-> b[h].nbytes]
<1>1. \A h \in S \cup {x} : f[h] = b[h].nbytes /\ f[h] \in Int
  OBVIOUS
<1> HIDE DEF f
<1>2. Total(b, S) = Sum(f, S)
  BY <1>1, TotalIsSum
<1>3. Total(b, S \cup {x}) = Sum(f, S \cup {x})
  BY <1>1, TotalIsSum, FS_AddElement
<1>4. Sum(f, S \cup {x}) = Sum(f, S) + f[x]
  BY <1>1, SumAdd
<1> QED BY <1>1, <1>2, <1>3, <1>4

\* The total of two disjoint sets of heights is the sum of their totals.
LEMMA TotalUnion ==
  ASSUME NEW A, IsFiniteSet(A), NEW B, IsFiniteSet(B), A \cap B = {}, NEW b,
         \A h \in A \cup B : b[h].nbytes \in Nat
  PROVE  /\ Total(b, A \cup B) = Total(b, A) + Total(b, B)
         /\ Total(b, A) \in Nat /\ Total(b, B) \in Nat
<1> DEFINE f == [h \in A \cup B |-> b[h].nbytes]
<1>1. \A h \in A \cup B : f[h] = b[h].nbytes /\ f[h] \in Nat /\ f[h] \in Int
  OBVIOUS
<1> HIDE DEF f
<1>2. Total(b, A) = Sum(f, A) /\ Total(b, B) = Sum(f, B)
  BY <1>1, TotalIsSum
<1>3. Total(b, A \cup B) = Sum(f, A \cup B)
  BY <1>1, TotalIsSum, FS_Union
<1>4. Sum(f, A \cup B) = Sum(f, A) + Sum(f, B)
  BY <1>1, SumUnion
<1>5. Sum(f, A) \in Nat /\ Sum(f, B) \in Nat
  BY <1>1, SumNat
<1> QED BY <1>2, <1>3, <1>4, <1>5

\* What the queue's byte counter rests on.
Charged ==
  /\ DOMAIN slots \subseteq Heights
  /\ \A h \in DOMAIN slots : slots[h] \in Slot
  /\ lowWater \in Nat
  /\ BytesExact

\* Sizes are numbers.
LEMMA SizesAreInts == \A n \in Sizes : n \in Nat /\ n \in Int
  BY QueueConstants

\* BytesExact in terms of Total, before and after a step.
LEMMA ExactIsTotal ==
  /\ BytesExact <=> bytes = Total(slots, PresentHeights)
  /\ BytesExact' <=> bytes' = Total(slots', PresentHeights')
<1>1. BytesExact <=> bytes = Total(slots, PresentHeights)
  BY DEF BytesExact, Total
<1>2. BytesExact' <=> bytes' = Total(slots', PresentHeights')
  BY DEF BytesExact, Total, MapThenSumSet, MapThenFoldSet
<1> QED BY <1>1, <1>2

\* The resident heights are finitely many, each with a size, and the counter is
\* their total.
LEMMA PresentFinite ==
  ASSUME Charged
  PROVE  /\ IsFiniteSet(PresentHeights) /\ PresentHeights \subseteq Heights
         /\ \A h \in PresentHeights : slots[h].nbytes \in Sizes
         /\ bytes = Total(slots, PresentHeights)
<1>1. PresentHeights \subseteq Heights
  BY DEF Charged, PresentHeights
<1>2. IsFiniteSet(Heights)
  BY FS_Interval, QueueConstants DEF Heights
<1>3. IsFiniteSet(PresentHeights)
  BY <1>1, <1>2, FS_Subset
<1>4. \A h \in PresentHeights : slots[h].nbytes \in Sizes
  BY DEF Charged, PresentHeights, Slot, InFlight
<1>5. bytes = Total(slots, PresentHeights)
  BY ExactIsTotal DEF Charged
<1> QED BY <1>1, <1>3, <1>4, <1>5

\* The counter never goes below zero.
LEMMA ChargeIsNat ==
  ASSUME Charged PROVE bytes \in Nat
<1>1. /\ IsFiniteSet(PresentHeights) /\ \A g \in PresentHeights : slots[g].nbytes \in Sizes
      /\ bytes = Total(slots, PresentHeights)
  BY PresentFinite
<1>2. \A g \in PresentHeights \cup {} : slots[g].nbytes \in Nat
  BY <1>1, SizesAreInts
<1>3. Total(slots, PresentHeights) \in Nat
  BY <1>1, <1>2, TotalUnion, FS_EmptySet
<1> QED BY <1>1, <1>3

\* complete() charges what it makes resident.
LEMMA CompleteCharged ==
  ASSUME Charged, NEW h \in Heights, NEW n \in Sizes, NEW gen, NEW e \in Nat,
         complete(h, n, gen, e)
  PROVE  Charged' /\ (bytes' = bytes \/ bytes' = bytes + n)
<1> USE QueueConstants
<1>1. CASE Dropped(h, gen)
  <2>1. UNCHANGED <<slots, bytes, lowWater>>
    BY <1>1 DEF complete
  <2>2. PresentHeights' = PresentHeights
    BY <2>1 DEF PresentHeights
  <2> QED BY <2>1, <2>2, ExactIsTotal DEF Charged
<1>2. CASE ~Dropped(h, gen)
  <2>1. /\ slots' = [g \in DOMAIN slots \cup {h} |-> IF g = h THEN Present(n, e) ELSE slots[g]]
        /\ bytes' = bytes + n /\ lowWater' = lowWater
    BY <1>2 DEF complete, With
  <2>2. h \notin PresentHeights
    BY <1>2 DEF Dropped, IsPresent, PresentHeights
  <2>3. /\ IsFiniteSet(PresentHeights) /\ PresentHeights \subseteq Heights
        /\ \A g \in PresentHeights : slots[g].nbytes \in Sizes
        /\ bytes = Total(slots, PresentHeights)
    BY PresentFinite
  <2>4. Present(n, e) \in Slot /\ Present(n, e).nbytes = n /\ Present(n, e).kind = "Present"
    BY DEF Slot, Present
  <2>5. DOMAIN slots' \subseteq Heights /\ \A g \in DOMAIN slots' : slots'[g] \in Slot
    BY <2>1, <2>4 DEF Charged
  <2>6. PresentHeights' = PresentHeights \cup {h}
    BY <2>1, <2>4 DEF PresentHeights
  <2>7. /\ slots'[h].nbytes = n
        /\ \A g \in PresentHeights : slots'[g].nbytes = slots[g].nbytes
    BY <2>1, <2>2, <2>4 DEF PresentHeights
  <2>8. \A g \in PresentHeights \cup {h} : slots'[g].nbytes \in Int
    BY <2>3, <2>7, SizesAreInts
  <2>9. Total(slots', PresentHeights \cup {h}) = Total(slots', PresentHeights) + slots'[h].nbytes
    BY <2>2, <2>3, <2>8, TotalAdd
  <2>10. Total(slots', PresentHeights) = Total(slots, PresentHeights)
    <3>1. \A g \in PresentHeights : slots[g].nbytes \in Int
      BY <2>3, SizesAreInts
    <3> QED BY <2>3, <2>7, <3>1, TotalSame
  <2>11. bytes' = Total(slots', PresentHeights')
    BY <2>1, <2>3, <2>6, <2>7, <2>9, <2>10
  <2>12. BytesExact'
    BY <2>11, ExactIsTotal
  <2> QED BY <2>1, <2>5, <2>12 DEF Charged
<1> QED BY <1>1, <1>2

\* A drain takes back what the drained blocks were charged.
LEMMA DrainCharged ==
  ASSUME Charged, NEW max \in Nat, drain_ready_window(max)
  PROVE  Charged' /\ bytes' <= bytes /\ bytes \in Nat /\ bytes' \in Nat
<1> USE QueueConstants
<1> DEFINE W == ReadyWindow(max)
           R == PresentHeights \ W
<1>1. /\ Cardinality(W) \in 0 .. max
      /\ W = lowWater .. lowWater + Cardinality(W) - 1
      /\ \A h \in W : IsPresent(h)
  BY ReadyWindowRun DEF Charged
<1>2. /\ slots' = [h \in DOMAIN slots \ W |-> slots[h]]
      /\ lowWater' = lowWater + Cardinality(W)
      /\ bytes' = bytes - Total(slots, W)
  BY DEF drain_ready_window, Without, Total
<1>3. /\ IsFiniteSet(PresentHeights) /\ PresentHeights \subseteq Heights
      /\ \A g \in PresentHeights : slots[g].nbytes \in Sizes
      /\ bytes = Total(slots, PresentHeights)
  BY PresentFinite
<1> HIDE DEF W
<1>4. W \subseteq PresentHeights
  BY <1>1 DEF IsPresent, PresentHeights
<1>5. PresentHeights = R \cup W /\ R \cap W = {}
  BY <1>4
<1>6. IsFiniteSet(R) /\ IsFiniteSet(W)
  BY <1>3, <1>4, FS_Subset
<1>7. PresentHeights' = R
  BY <1>2 DEF PresentHeights
<1>8. \A h \in R \cup W : slots[h].nbytes \in Nat
  BY <1>3, <1>5
<1> HIDE DEF R
<1>9. /\ Total(slots, R \cup W) = Total(slots, R) + Total(slots, W)
      /\ Total(slots, R) \in Nat /\ Total(slots, W) \in Nat
  BY <1>5, <1>6, <1>8, TotalUnion
<1>10. Total(slots', R) = Total(slots, R)
  <2>1. \A h \in R : slots[h].nbytes \in Int /\ slots'[h].nbytes = slots[h].nbytes
    BY <1>2, <1>5, <1>8 DEF PresentHeights
  <2> QED BY <1>6, <2>1, TotalSame
<1>11. bytes = Total(slots, R) + Total(slots, W)
  BY <1>3, <1>5, <1>9
<1>12. bytes' = Total(slots', R)
  BY <1>2, <1>9, <1>10, <1>11
<1>13. BytesExact'
  BY <1>7, <1>12, ExactIsTotal
<1>14. DOMAIN slots' \subseteq Heights /\ (\A g \in DOMAIN slots' : slots'[g] \in Slot)
       /\ lowWater' \in Nat
  BY <1>1, <1>2 DEF Charged
<1> QED BY <1>9, <1>10, <1>11, <1>12, <1>13, <1>14 DEF Charged

\* A rebase empties the buffer and the counter together.
LEMMA RebaseCharged ==
  ASSUME NEW h \in Nat, rebase(h)
  PROVE  Charged' /\ bytes' = 0
<1>1. DOMAIN slots' = {} /\ bytes' = 0 /\ lowWater' = h
  BY DEF rebase
<1>2. PresentHeights' = {}
  BY <1>1 DEF PresentHeights
<1>3. Total(slots', {}) = 0
  BY TotalEmpty
<1>4. BytesExact'
  BY <1>1, <1>2, <1>3, ExactIsTotal
<1> QED BY <1>1, <1>4 DEF Charged

\* A claim and its release charge nothing.
LEMMA ClaimCharged ==
  ASSUME Charged, NEW h \in Heights, admit(h) \/ reclaim(h)
  PROVE  Charged'
<1>1. /\ DOMAIN slots' \subseteq Heights /\ (\A g \in DOMAIN slots' : slots'[g] \in Slot)
      /\ UNCHANGED <<bytes, lowWater>>
  BY DEF admit, reclaim, With, Without, Charged, Slot
<1>2. PresentHeights' = PresentHeights
  BY DEF admit, reclaim, With, Without, InFlight, PresentHeights
<1>3. \A g \in PresentHeights : slots'[g].nbytes = slots[g].nbytes
  BY DEF admit, reclaim, With, Without, InFlight, PresentHeights
<1>4. /\ IsFiniteSet(PresentHeights) /\ PresentHeights \subseteq Heights
      /\ \A g \in PresentHeights : slots[g].nbytes \in Sizes
      /\ bytes = Total(slots, PresentHeights)
  BY PresentFinite
<1>5. Total(slots', PresentHeights) = Total(slots, PresentHeights)
  <2>1. \A g \in PresentHeights : slots[g].nbytes \in Int
    BY <1>4, SizesAreInts
  <2> QED BY <1>3, <1>4, <2>1, TotalSame
<1>6. BytesExact'
  BY <1>1, <1>2, <1>4, <1>5, ExactIsTotal
<1> QED BY <1>1, <1>6 DEF Charged

\* The empty queue is charged nothing.
LEMMA InitCharged ==
  ASSUME NEW start \in Nat, QueueInit(start)
  PROVE  Charged
<1>1. DOMAIN slots = {} /\ bytes = 0 /\ lowWater = start
  BY DEF QueueInit
<1>2. PresentHeights = {}
  BY <1>1 DEF PresentHeights
<1>3. BytesExact
  BY <1>1, <1>2, TotalEmpty, ExactIsTotal
<1> QED BY <1>1, <1>3 DEF Charged

\* Whatever its callers do, the counter that gates the producer is exactly
\* the size of the resident blocks: no order of completions, duplicates,
\* drains, reclaims and rebases makes it leak.
THEOREM QueueBytesExact == QueueSpec => []BytesExact
<1> USE QueueConstants
<1>1. QueueInit(0) => Charged
  BY InitCharged
<1>2. Charged /\ QInv /\ [QueueNext]_queueVars => Charged'
  <2> SUFFICES ASSUME Charged, QInv, [QueueNext]_queueVars PROVE Charged'
    OBVIOUS
  <2>1. ASSUME NEW h \in Heights, admit(h) \/ reclaim(h) PROVE Charged'
    BY <2>1, ClaimCharged
  <2>2. ASSUME NEW h \in Heights, NEW n \in Sizes, NEW g \in 0 .. generation,
               complete(h, n, g, g)
        PROVE  Charged'
    <3>1. g \in Nat
      BY DEF QInv
    <3> QED BY <2>2, <3>1, CompleteCharged
  <2>3. ASSUME NEW max \in Nat, drain_ready_window(max) PROVE Charged'
    BY <2>3, DrainCharged
  <2>4. ASSUME NEW h \in Heights, rebase(h) PROVE Charged'
    <3>1. h \in Nat
      BY DEF Heights
    <3> QED BY <2>4, <3>1, RebaseCharged
  <2>5. CASE UNCHANGED queueVars
    <3>1. PresentHeights' = PresentHeights /\ UNCHANGED <<slots, bytes, lowWater>>
      BY <2>5 DEF queueVars, PresentHeights
    <3> QED BY <3>1, ExactIsTotal DEF Charged
  <2> QED BY <2>1, <2>2, <2>3, <2>4, <2>5 DEF QueueNext, drain_next
<1>3. Charged => BytesExact
  BY DEF Charged
<1> QED BY <1>1, <1>2, <1>3, QueueInvariant, PTL DEF QueueSpec

-----------------------------------------------------------------------------
(* The byte budget of the pipeline.                                        *)

\* What a step of the pipeline does to the queue: the producer completes one
\* block, and everything else keeps or lowers the charge.
LEMMA QueueUse ==
  ASSUME PInv, Charged, [Next]_vars
  PROVE  /\ Charged'
         /\ \/ bytes' = bytes
            \/ bytes' \in Nat /\ bytes' <= bytes /\ UNCHANGED prod
            \/ PComplete /\ \E n \in Sizes : bytes' = bytes + n
<1> USE QueueConstants, PipelineConstants
<1>0. /\ lowWater \in Nat /\ drv.head \in Nat /\ generation \in Nat /\ bytes \in Nat
      /\ prod.next \in Heights /\ prod.epoch \in Nat /\ Batch \in Nat
  <2>1. /\ lowWater \in Nat /\ drv.head \in Nat /\ generation \in Nat
        /\ prod.next \in Heights /\ prod.epoch \in Nat /\ Batch \in Nat
    BY DEF PInv, Types, QueueTypes, ProducerTypes, DriverTypes
  <2>2. bytes \in Nat
    BY ChargeIsNat
  <2> QED BY <2>1, <2>2
<1>1. ASSUME UNCHANGED queueVars PROVE Charged' /\ bytes' = bytes
  <2>1. PresentHeights' = PresentHeights /\ UNCHANGED <<slots, bytes, lowWater>>
    BY <1>1 DEF queueVars, PresentHeights
  <2> QED BY <2>1, ExactIsTotal DEF Charged
<1>2. CASE PComplete
  <2>1. PICK n \in Sizes : complete(prod.next, n, prod.gen, prod.epoch)
    BY <1>2 DEF PComplete
  <2>2. Charged' /\ (bytes' = bytes \/ bytes' = bytes + n)
    BY <1>0, <2>1, CompleteCharged
  <2> QED BY <1>2, <2>2
<1>3. CASE CDrain
  <2>1. drain_ready_window(Batch) /\ UNCHANGED prod
    BY <1>3 DEF CDrain, consumerFrame
  <2>2. Charged' /\ bytes' <= bytes /\ bytes' \in Nat
    BY <1>0, <2>1, DrainCharged
  <2> QED BY <2>1, <2>2
<1>4. CASE DRebaseReply \/ DRealign \/ DReclaim
  <2>1. rebase(drv.head) /\ UNCHANGED prod
    BY <1>4 DEF DRebaseReply, DRealign, DReclaim, driverFrame
  <2>2. Charged' /\ bytes' = 0
    BY <1>0, <2>1, RebaseCharged
  <2> QED BY <1>0, <2>1, <2>2
<1>5. CASE PAdmit \/ PBand \/ PReadGen \/ PReadFrom \/ PFetchFails \/ PDirect
  <2>1. UNCHANGED queueVars
    BY <1>5 DEF PAdmit, PBand, PReadGen, PReadFrom, PFetchFails, PDirect
  <2> QED BY <1>1, <2>1
<1>6. CASE PTakeHit \/ PTakeMiss
  <2>1. UNCHANGED queueVars
    BY <1>6 DEF PTakeHit, PTakeMiss, TakeThenFill
  <2> QED BY <1>1, <2>1
<1>7. CASE CMark \/ CConfirm \/ CFinish \/ CSend \/ CTimeout
  <2>1. UNCHANGED queueVars
    BY <1>7 DEF CMark, CConfirm, CFinish, CSend, CTimeout
  <2> QED BY <1>1, <2>1
<1>8. CASE DReceive \/ DBacktrack \/ DUnmark \/ DReadHead \/ DReconcile \/ DCompare \/ DWatch
  <2>1. UNCHANGED queueVars
    BY <1>8 DEF DReceive, DBacktrack, DUnmark, DReadHead, DReconcile, DCompare, DWatch
  <2> QED BY <1>1, <2>1
<1>9. CASE Follower
  <2>1. UNCHANGED queueVars
    BY <1>9 DEF Follower, TBegin, TStep, TEnd, tipFrame
  <2> QED BY <1>1, <2>1
<1>10. CASE UNCHANGED vars
  <2>1. UNCHANGED queueVars
    BY <1>10 DEF vars, queueVars
  <2> QED BY <1>1, <2>1
<1> QED BY <1>2, <1>3, <1>4, <1>5, <1>6, <1>7, <1>8, <1>9, <1>10
        DEF Next, Producer, Consumer, Driver

\* The byte charge is exact in every state of the pipeline.
LEMMA PipelineCharged == Spec => []Charged
<1>1. Init => Charged
  <2> SUFFICES ASSUME Init PROVE Charged
    OBVIOUS
  <2>1. follow_head \in Nat /\ QueueInit(follow_head)
    BY DEF Init, follow_head
  <2> QED BY <2>1, InitCharged
<1>2. PInv /\ Charged /\ [Next]_vars => Charged'
  BY QueueUse
<1> QED BY <1>1, <1>2, PipelineInvariant, PTL DEF Spec

\* The byte counter stays exact under the pipeline's tasks too.
THEOREM PipelineBytesExact == Spec => []BytesExact
<1>1. Charged => BytesExact
  BY DEF Charged
<1> QED BY <1>1, PipelineCharged, PTL

\* The largest block.
Largest == Max(Sizes)

\* Max(Sizes) is a size and bounds the sizes.
LEMMA LargestIs == Largest \in Nat /\ \A n \in Sizes : n <= Largest
<1>1. \E m \in Sizes : \A n \in Sizes : n <= m
  <2>1. Sizes \subseteq Nat /\ Sizes # {} /\ IsFiniteSet(Sizes)
    BY QueueConstants
  <2> QED BY <2>1, FiniteHasTop
<1>2. Largest \in Sizes /\ \A n \in Sizes : n <= Largest
  <2>1. PICK m \in Sizes : \A n \in Sizes : n <= m
    BY <1>1
  <2>2. \A n \in Sizes : m >= n
    BY <2>1, SizesAreInts
  <2>3. \E x \in Sizes : \A y \in Sizes : x >= y
    BY <2>2
  <2>4. Largest \in Sizes /\ \A y \in Sizes : Largest >= y
    BY <2>3, Zenon DEF Largest, Max
  <2> QED BY <2>4, SizesAreInts
<1> QED BY <1>2, SizesAreInts

\* Before a window is fetched the charge is below the budget; with k blocks of
\* the window still to come it is at most the others above it.
Allowance(k) == (Batch - k) * Largest

Below(bound) == bytes < Budget + bound

Overshoot ==
  /\ Below(Allowance(0))
  /\ prod.pc \in {"band", "gen", "from", "take", "direct"} => Below(0)
  /\ prod.pc \in Aimed => prod.to - prod.next + 1 <= Batch
  /\ prod.pc = "complete" => Below(Allowance(prod.to - prod.next + 1))

\* The allowance of one block more is larger by the largest block.
LEMMA AllowanceStep ==
  ASSUME NEW k \in Int, k <= Batch
  PROVE  /\ Allowance(k) \in Nat
         /\ Allowance(k - 1) = Allowance(k) + Largest
         /\ k >= 0 => Allowance(k) <= Allowance(0)
<1>1. Largest \in Nat /\ Batch \in Nat
  BY LargestIs, PipelineConstants
<1>2. \A m, a \in Int : (m + 1) * a = m * a + a
  OBVIOUS
<1>3. \A m, a \in Nat : m * a \in Nat
  OBVIOUS
<1>4. Batch - k \in Nat /\ Batch - (k - 1) = (Batch - k) + 1 /\ Batch - k \in Int /\ Largest \in Int
  BY <1>1
<1>5. Allowance(k) \in Nat
  BY <1>1, <1>3, <1>4 DEF Allowance
<1>6. Allowance(k - 1) = Allowance(k) + Largest
  <2>1. (Batch - (k - 1)) * Largest = (Batch - k) * Largest + Largest
    BY <1>2, <1>4
  <2> QED BY <2>1 DEF Allowance
<1>7. ASSUME k >= 0 PROVE Allowance(k) <= Allowance(0)
  <2>1. \A m, d, a \in Nat : (m + d) * a = m * a + d * a
    OBVIOUS
  <2>2. k \in Nat /\ Batch - 0 = (Batch - k) + k
    BY <1>1, <1>7
  <2>3. (Batch - 0) * Largest = (Batch - k) * Largest + k * Largest
    BY <1>1, <1>4, <2>1, <2>2
  <2>4. k * Largest \in Nat
    BY <1>1, <1>3, <2>2
  <2> QED BY <1>5, <2>3, <2>4 DEF Allowance
<1> QED BY <1>5, <1>6, <1>7

\* Every step keeps the charge within the allowance of the window in progress.
LEMMA OvershootStep == PInv /\ Charged /\ Overshoot /\ [Next]_vars => Overshoot'
<1> SUFFICES ASSUME PInv, Charged, Overshoot, [Next]_vars PROVE Overshoot'
  OBVIOUS
<1> USE QueueConstants, PipelineConstants
<1>1. /\ \/ bytes' = bytes
         \/ bytes' \in Nat /\ bytes' <= bytes /\ UNCHANGED prod
         \/ PComplete /\ \E n \in Sizes : bytes' = bytes + n
      /\ Charged'
  BY QueueUse
<1>2. bytes \in Int /\ bytes' \in Int
  BY <1>1, ChargeIsNat, SizesAreInts
<1>3. /\ prod.next \in Nat /\ prod.to \in Nat /\ Budget \in Nat /\ Batch \in Nat
      /\ prod.pc \in Aimed => prod.next <= prod.to
  BY DEF PInv, Types, ProducerTypes, Heights, Run
<1>4. Allowance(0) \in Nat
  BY <1>3, AllowanceStep
<1>5. prod.pc \in Aimed => /\ Allowance(prod.to - prod.next + 1) \in Nat
                           /\ Allowance(prod.to - prod.next + 1) <= Allowance(0)
  <2> SUFFICES ASSUME prod.pc \in Aimed
               PROVE  /\ Allowance(prod.to - prod.next + 1) \in Nat
                      /\ Allowance(prod.to - prod.next + 1) <= Allowance(0)
    OBVIOUS
  <2>1. /\ prod.to - prod.next + 1 \in Int /\ prod.to - prod.next + 1 <= Batch
        /\ prod.to - prod.next + 1 >= 0
    BY <1>3 DEF Overshoot
  <2> QED BY <2>1, AllowanceStep
<1>6. CASE UNCHANGED prod /\ bytes' <= bytes
  <2>1. \A a \in Nat : Below(a) => Below(a)'
    BY <1>2, <1>3, <1>6 DEF Below
  <2>2. prod.pc = "complete" => prod.pc \in Aimed
    BY DEF Aimed
  <2> QED BY <1>4, <1>5, <1>6, <2>1, <2>2 DEF Overshoot, Allowance
<1>7. CASE bytes' = bytes /\ prod'.pc \notin Aimed
           /\ (prod'.pc \in {"band", "gen", "from"} => Below(0))
  <2>1. \A a \in Nat : Below(a) => Below(a)'
    BY <1>2, <1>3, <1>7 DEF Below
  <2>2. Below(Allowance(0))' /\ (prod'.pc \in {"band", "gen", "from"} => Below(0)')
    BY <1>4, <1>7, <2>1 DEF Overshoot, Allowance
  <2> QED BY <1>7, <2>2 DEF Overshoot, Aimed
<1>8. CASE PComplete
  <2>1. /\ prod.pc = "complete" /\ prod.next <= prod.to
        /\ prod' = IF prod.next = prod.to
                   THEN NextPass
                   ELSE [prod EXCEPT !.next = prod.next + 1]
    BY <1>3, <1>8 DEF PComplete, Aimed
  <2> DEFINE k == prod.to - prod.next + 1
  <2>2. Below(Allowance(k)) /\ k \in Int /\ k <= Batch /\ k - 1 <= Batch /\ k - 1 >= 0
    BY <1>3, <2>1 DEF Overshoot, Aimed
  <2>3. /\ Allowance(k - 1) = Allowance(k) + Largest /\ Allowance(k) \in Nat
        /\ Allowance(k - 1) <= Allowance(0) /\ Allowance(k - 1) \in Nat
    <3> HIDE DEF k
    <3> QED BY <2>2, AllowanceStep
  <2>4. bytes' <= bytes + Largest
    <3>1. Largest \in Nat /\ \A n \in Sizes : n <= Largest /\ n \in Nat
      BY LargestIs, SizesAreInts
    <3> QED BY <1>1, <1>2, <3>1
  <2>5. bytes' < Budget + Allowance(k - 1) /\ bytes' < Budget + Allowance(0)
    <3>1. Largest \in Nat
      BY LargestIs
    <3> HIDE DEF k
    <3> QED BY <1>2, <1>3, <1>4, <2>2, <2>3, <2>4, <3>1 DEF Below
  <2>6. CASE prod.next = prod.to
    <3>1. prod'.pc = "start"
      BY <2>1, <2>6, NextPassOK DEF PInv, Types
    <3> QED BY <2>5, <3>1 DEF Overshoot, Below, Allowance, Aimed
  <2>7. CASE prod.next # prod.to
    <3>1. prod'.pc = "complete" /\ prod'.next = prod.next + 1 /\ prod'.to = prod.to
      BY <2>1, <2>7 DEF PInv, Types, ProducerTypes
    <3>2. prod'.to - prod'.next + 1 = k - 1
      BY <1>3, <3>1
    <3> HIDE DEF k
    <3> QED BY <2>2, <2>5, <3>1, <3>2 DEF Overshoot, Below, Allowance
  <2> QED BY <2>6, <2>7
<1>9. CASE PAdmit \/ PBand \/ PReadGen \/ PFetchFails
  <2>1. bytes' = bytes
    BY <1>9 DEF PAdmit, PBand, PReadGen, PFetchFails, queueVars
  <2>2. prod'.pc \notin Aimed
    BY <1>9, NextPassOK DEF PAdmit, PBand, PReadGen, PFetchFails, PInv, Types, ProducerTypes, Aimed
  <2>3. CASE PAdmit
    BY <1>2, <1>3, <1>7, <2>1, <2>2, <2>3 DEF PAdmit, can_admit, Below
  <2>4. CASE PBand \/ PReadGen
    <3>1. prod.pc \in {"band", "gen"}
      BY <2>4 DEF PBand, PReadGen
    <3> QED BY <1>7, <2>1, <2>2, <3>1 DEF Overshoot
  <2>5. CASE PFetchFails
    <3>1. prod.pc \in {"take", "direct"}
      BY <2>5 DEF PFetchFails
    <3> QED BY <1>7, <2>1, <2>2, <3>1 DEF Overshoot
  <2> QED BY <1>9, <2>3, <2>4, <2>5
<1>10. ASSUME bytes' = bytes, Below(0), prod'.pc \in Aimed,
              prod'.next \in Nat, prod'.to \in Nat, prod'.to - prod'.next + 1 <= Batch,
              prod'.next <= prod'.to
       PROVE  Overshoot'
  <2>1. Allowance(prod'.to - prod'.next + 1) \in Nat
    <3>1. prod'.to - prod'.next + 1 \in Int
      BY <1>10
    <3> QED BY <1>10, <3>1, AllowanceStep
  <2>2. bytes' < Budget + 0 /\ bytes' < Budget + Allowance(0)
        /\ bytes' < Budget + Allowance(prod'.to - prod'.next + 1)
    BY <1>2, <1>3, <1>4, <1>10, <2>1 DEF Below
  <2> QED BY <1>10, <2>2 DEF Overshoot, Below, Allowance
<1>11. CASE PReadFrom
  <2>1. bytes' = bytes /\ prod.pc = "from" /\ Below(0)
    BY <1>11 DEF PReadFrom, queueVars, Overshoot
  <2>2. CASE next_fetch_height > Target
    <3>1. prod'.pc = "start"
      BY <1>11, <2>2, NextPassOK DEF PReadFrom, PInv, Types
    <3> QED BY <1>7, <2>1, <3>1 DEF Aimed
  <2>3. CASE ~(next_fetch_height > Target)
    <3>1. /\ prod'.pc = "take" /\ prod'.next = next_fetch_height
          /\ prod'.to = WindowEnd(next_fetch_height)
      BY <1>11, <2>3 DEF PReadFrom, PInv, Types, ProducerTypes
    <3>2. next_fetch_height \in Nat
      <4>1. PICK top \in lowWater .. MaxHeight + 1 : DOMAIN slots = lowWater .. top - 1
        BY DEF PInv, Run
      <4>2. lowWater \in Nat /\ top \in Nat /\ lowWater <= top
        BY <4>1 DEF PInv, Types, QueueTypes
      <4>3. next_fetch_height = top
        BY <4>1, <4>2, FrontierOfRun
      <4> QED BY <4>2, <4>3
    <3>3. /\ WindowEnd(next_fetch_height) \in Nat
          /\ WindowEnd(next_fetch_height) - next_fetch_height + 1 <= Batch
          /\ next_fetch_height <= WindowEnd(next_fetch_height)
      BY <2>3, <3>2 DEF WindowEnd
    <3> QED BY <1>10, <2>1, <3>1, <3>2, <3>3 DEF Aimed
  <2> QED BY <2>2, <2>3
<1>12. CASE PTakeHit \/ PTakeMiss \/ PDirect
  <2>1. bytes' = bytes /\ prod.pc \in {"take", "direct"}
    BY <1>12 DEF PTakeHit, PTakeMiss, PDirect, TakeThenFill, queueVars
  <2>2. prod'.pc \in {"direct", "complete"} /\ prod'.next = prod.next /\ prod'.to = prod.to
    BY <1>12 DEF PTakeHit, PTakeMiss, PDirect, TakeThenFill, PInv, Types, ProducerTypes
  <2>3. Below(0) /\ prod.to - prod.next + 1 <= Batch /\ prod.pc \in Aimed
    BY <2>1 DEF Overshoot, Aimed
  <2> QED BY <1>3, <1>10, <2>1, <2>2, <2>3 DEF Aimed
<1>13. CASE Consumer \/ Driver \/ Follower \/ UNCHANGED vars
  <2>1. UNCHANGED prod
    BY <1>13 DEF Consumer, Driver, Follower, CMark, CDrain, CConfirm, CFinish, CSend, CTimeout,
                 consumerFrame, DReceive, DBacktrack, DUnmark, DReadHead, DRebaseReply, DReconcile,
                 DCompare, DRealign, DWatch, DReclaim, driverFrame, TBegin, TStep, TEnd, tipFrame,
                 vars, taskVars
  <2>2. CASE bytes' <= bytes
    BY <1>6, <2>1, <2>2
  <2>3. CASE PComplete
    BY <1>8, <2>3
  <2> QED BY <1>1, <1>2, <2>2, <2>3
<1> QED BY <1>8, <1>9, <1>11, <1>12, <1>13 DEF Next, Producer

\* The buffer overshoots its byte budget by less than one window of the largest
\* blocks: can_admit is asked once per window, and nothing but the completion
\* of the window that was admitted raises the charge.
THEOREM OvershootBounded == Spec => []OvershootAtMostOneWindow
<1>1. Init => Overshoot
  <2> SUFFICES ASSUME Init PROVE Overshoot
    OBVIOUS
  <2>1. bytes = 0 /\ prod.pc = "start"
    BY DEF Init, QueueInit
  <2>2. Allowance(0) \in Nat /\ Budget \in Nat \ {0}
    BY AllowanceStep, PipelineConstants, QueueConstants
  <2> QED BY <2>1, <2>2 DEF Overshoot, Below, Aimed
<1>2. Overshoot => OvershootAtMostOneWindow
  <2>1. Allowance(0) = Batch * Max(Sizes)
    <3>1. Batch - 0 = Batch
      BY PipelineConstants
    <3> QED BY <3>1 DEF Allowance, Largest
  <2> QED BY <2>1 DEF Overshoot, Below, OvershootAtMostOneWindow
<1> QED BY <1>1, <1>2, OvershootStep, PipelineInvariant, PipelineCharged, PTL DEF Spec

-----------------------------------------------------------------------------
(* Type correctness.                                                       *)

\* The variables the invariants above do not mention.
Bounded ==
  /\ inflight \in BOOLEAN /\ tip \in {"idle", "step", "end"} /\ faults \in 0 .. MaxFaults
  /\ watchdog \in [low : 0 .. MaxHeight + 1, stall : 0 .. StallTicks - 1]
  /\ Len(requests) <= ChannelCap

\* Every step keeps the remaining variables within their bounds.
LEMMA BoundedStep == PInv /\ Bounded /\ [Next]_vars => Bounded'
<1> SUFFICES ASSUME PInv, Bounded, [Next]_vars PROVE Bounded'
  OBVIOUS
<1> USE QueueConstants, PipelineConstants
<1>1. requests \in Seq(Request) /\ lowWater \in 0 .. MaxHeight + 1
  BY DEF PInv, Types, DriverTypes, QueueTypes
<1>2. CASE Producer \/ UNCHANGED vars
  <2>1. UNCHANGED <<inflight, requests, watchdog, tip>>
    BY <1>2 DEF Producer, PAdmit, PBand, PReadGen, PReadFrom, PTakeHit, PTakeMiss, PFetchFails,
                PDirect, PComplete, TakeThenFill, producerFrame, vars, taskVars
  <2>2. faults' = faults \/ Fault
    BY <1>2 DEF Producer, PAdmit, PBand, PReadGen, PReadFrom, PTakeHit, PTakeMiss, PFetchFails,
                PDirect, PComplete, vars, taskVars
  <2> QED BY <2>1, <2>2 DEF Bounded, Fault
<1>3. CASE Consumer
  <2>1. UNCHANGED <<watchdog, tip>> /\ (faults' = faults \/ Fault)
    BY <1>3 DEF Consumer, CMark, CDrain, CConfirm, CFinish, CSend, CTimeout, consumerFrame
  <2>2. inflight' \in BOOLEAN
    BY <1>3 DEF Consumer, CMark, CDrain, CConfirm, CFinish, CSend, CTimeout, Bounded
  <2>3. Len(requests') <= ChannelCap
    <3>1. CASE CSend
      BY <1>1, <3>1 DEF CSend
    <3>2. CASE CTimeout
      <4>1. Len(requests') = Len(requests)
        BY <1>1, <3>2 DEF CTimeout
      <4> QED BY <4>1 DEF Bounded
    <3>3. CASE CMark \/ CDrain \/ CConfirm \/ CFinish
      BY <3>3 DEF CMark, CDrain, CConfirm, CFinish, Bounded
    <3> QED BY <1>3, <3>1, <3>2, <3>3 DEF Consumer
  <2> QED BY <2>1, <2>2, <2>3 DEF Bounded, Fault
<1>4. CASE DWatch
  <2>1. UNCHANGED <<inflight, requests, tip>> /\ (faults' = faults \/ Fault)
    BY <1>4 DEF DWatch, driverFrame
  <2>2. watchdog' \in [low : 0 .. MaxHeight + 1, stall : 0 .. StallTicks - 1]
    <3>1. \/ watchdog' = [watchdog EXCEPT !.stall = 0]
          \/ ~Due /\ watchdog' = [watchdog EXCEPT !.stall = watchdog.stall + 1]
          \/ watchdog' = [low |-> IF lowWater > watchdog.low THEN lowWater ELSE watchdog.low,
                          stall |-> 0]
      BY <1>4 DEF DWatch
    <3>2. 0 \in 0 .. StallTicks - 1
      OBVIOUS
    <3>3. ~Due => watchdog.stall + 1 \in 0 .. StallTicks - 1
      BY DEF Due, Bounded
    <3>4. lowWater \in 0 .. MaxHeight + 1
          /\ watchdog \in [low : 0 .. MaxHeight + 1, stall : 0 .. StallTicks - 1]
      BY <1>1 DEF Bounded, PInv, Types, QueueTypes
    <3> QED BY <3>1, <3>2, <3>3, <3>4
  <2> QED BY <2>1, <2>2 DEF Bounded, Fault
<1>5. CASE DReceive
  <2>1. UNCHANGED <<watchdog, faults, tip>> /\ inflight' \in BOOLEAN
        /\ requests # <<>> /\ requests' = Tail(requests)
    BY <1>5 DEF DReceive, driverFrame, Bounded
  <2>2. Len(requests') <= Len(requests) /\ Len(requests') \in Nat /\ Len(requests) \in Nat
    BY <1>1, <2>1
  <2> QED BY <2>1, <2>2 DEF Bounded
<1>6. CASE DBacktrack \/ DUnmark \/ DReadHead \/ DRebaseReply \/ DReconcile \/ DCompare
           \/ DRealign \/ DReclaim
  <2>1. UNCHANGED <<watchdog, requests, tip>> /\ (faults' = faults \/ Fault)
    BY <1>6 DEF DBacktrack, DUnmark, DReadHead, DRebaseReply, DReconcile, DCompare, DRealign,
                DReclaim, driverFrame
  <2>2. inflight' \in BOOLEAN
    BY <1>6 DEF DBacktrack, DUnmark, DReadHead, DRebaseReply, DReconcile, DCompare, DRealign,
                DReclaim, Bounded
  <2> QED BY <2>1, <2>2 DEF Bounded, Fault
<1>7. CASE Follower
  <2>1. UNCHANGED <<watchdog, requests>> /\ (faults' = faults \/ Fault)
    BY <1>7 DEF Follower, TBegin, TStep, TEnd, tipFrame
  <2>2. inflight' \in BOOLEAN /\ tip' \in {"idle", "step", "end"}
    BY <1>7 DEF Follower, TBegin, TStep, TEnd, Bounded
  <2> QED BY <2>1, <2>2 DEF Bounded, Fault
<1> QED BY <1>2, <1>3, <1>4, <1>5, <1>6, <1>7 DEF Next, Driver

\* The tasks' locals keep their types, the watchdog's clock its bound, the
\* recovery channel its capacity and the byte counter its sign.
THEOREM PipelineTypes == Spec => []TypeOK
<1> USE QueueConstants, PipelineConstants
<1>1. Init => Bounded
  <2> SUFFICES ASSUME Init PROVE Bounded
    OBVIOUS
  <2>1. follow_head \in 0 .. MaxHeight + 1 /\ watchdog = [low |-> follow_head, stall |-> 0]
    BY DEF Init, follow_head
  <2>2. requests = <<>> /\ inflight = FALSE /\ tip = "idle" /\ faults = 0
    BY DEF Init
  <2>3. Len(requests) <= ChannelCap
    BY <2>2
  <2>4. watchdog \in [low : 0 .. MaxHeight + 1, stall : 0 .. StallTicks - 1]
    BY <2>1
  <2>5. inflight \in BOOLEAN /\ tip \in {"idle", "step", "end"}
    BY <2>2, Zenon
  <2>6. faults \in 0 .. MaxFaults
    BY <2>2
  <2> QED BY <2>3, <2>4, <2>5, <2>6, Zenon DEF Bounded
<1>2. PInv /\ Charged /\ Bounded => TypeOK
  <2> SUFFICES ASSUME PInv, Charged, Bounded PROVE TypeOK
    OBVIOUS
  <2>1. bytes \in Nat
    BY ChargeIsNat
  <2>2. QueueTypeOK
    BY <2>1 DEF PInv, Types, QueueTypes, Charged, QueueTypeOK
  <2> QED BY <2>2 DEF TypeOK, PInv, Types, ProducerTypes, ConsumerTypes, DriverTypes, Bounded,
                      Window, Request
<1> QED BY <1>1, <1>2, BoundedStep, PipelineInvariant, PipelineCharged, PTL DEF Spec
=============================================================================
