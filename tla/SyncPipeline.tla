----------------------------- MODULE SyncPipeline -----------------------------
(***************************************************************************)
(* The decoupled sync pipeline of full-node/src/daemon.rs: four tasks that *)
(* share one BlockQueue, one confirmed peak and one in-flight marker.      *)
(*                                                                         *)
(*   producer  fetch_scheduler, which owns the WindowReadahead             *)
(*   consumer  block_processor, which drains windows and confirms them     *)
(*   driver    sync_driver, which serves recovery requests, reconciles the *)
(*             queue head with the peak and runs the stall watchdog        *)
(*   follower  tip_follower, which owns the band near the claimed tip      *)
(*                                                                         *)
(* A step is what a task does between two points where another task can    *)
(* run: an await, a lock it releases, an atomic it loads or stores.  The   *)
(* engine is abstracted to the height of the confirmed peak (-1: none);    *)
(* each call into it holds the Chaser lock and is one step.                *)
(***************************************************************************)
EXTENDS BlockQueue, Sequences

CONSTANTS
  Target,       \* height of the heaviest claimed peak
  Batch,        \* FOLLOW_BATCH
  NearTip,      \* SHORT_SYNC_BLOCKS_BEHIND_THRESHOLD
  Depth,        \* admissible readahead depth, in windows
  StallTicks,   \* RECLAIM_TIMEOUT in driver ticks
  ChannelCap,   \* RECOVERY_CHANNEL_CAP
  MaxFaults     \* bound: failed fetches and confirms, rewinds, watchdog firings,
                \* idle polls of an empty queue; reply timeouts are not bounded

ASSUME PipelineConstants ==
  /\ Target \in Nat /\ Target = MaxHeight
  /\ Batch \in Nat \ {0} /\ NearTip \in Nat /\ Depth \in Nat
  /\ StallTicks \in Nat \ {0} /\ ChannelCap \in Nat \ {0} /\ MaxFaults \in Nat

VARIABLES
  peak,        \* height of the engine's confirmed peak
  inflight,    \* follow_inflight_since # 0
  requests,    \* the consumer -> driver recovery channel
  prod,        \* the producer's locals and program counter
  readahead,   \* its prefetched windows, ascending
  cons,        \* the consumer's locals and program counter
  drv,         \* the driver's locals and program counter
  watchdog,    \* StallWatchdog
  tip,         \* the tip follower's program counter
  faults       \* faults so far

taskVars == <<peak, inflight, requests, prod, readahead, cons, drv, watchdog, tip, faults>>
vars == <<slots, bytes, lowWater, generation, taskVars>>

Kinds == {"Reset", "Orphan", "MissingRecord"}
NoRequest == [kind |-> "none", awaited |-> FALSE]

\* follow_head: where the queue should stand, given the confirmed peak.
follow_head == peak + 1

\* sync_target is None once nothing heavier is claimed; follow_fill_claimed
\* then leaves the near-tip band to the tip follower.
in_near_tip_band == peak >= 0 /\ Target - peak > 0 /\ Target - peak <= NearTip
FollowBand == peak < Target /\ ~in_near_tip_band

Fault == faults < MaxFaults /\ faults' = faults + 1

Init ==
  /\ peak \in {-1, 0}
  /\ QueueInit(follow_head)
  /\ inflight = FALSE
  /\ requests = <<>>
  /\ prod = [pc |-> "start", lastGen |-> 0, gen |-> 0, next |-> 0, to |-> 0, epoch |-> 0]
  /\ readahead = <<>>
  /\ cons = [pc |-> "idle", from |-> 0, to |-> 0, outcome |-> "none"]
  /\ drv = [pc |-> "tick", head |-> 0, request |-> NoRequest]
  /\ watchdog = [low |-> follow_head, stall |-> 0]
  /\ tip = "idle"
  /\ faults = 0

-----------------------------------------------------------------------------
(* The producer: fetch_scheduler.                                          *)

\* The end of a pass of the loop: the locals of its body go out of scope.
NextPass == [prod EXCEPT !.pc = "start", !.gen = 0, !.next = 0, !.to = 0, !.epoch = 0]

producerFrame ==
  UNCHANGED <<peak, inflight, requests, cons, drv, watchdog, tip>>

\* The loop's head: parked on wait_space until the queue admits.
PAdmit ==
  /\ prod.pc = "start" /\ can_admit
  /\ prod' = [prod EXCEPT !.pc = "band"]
  /\ UNCHANGED <<queueVars, readahead, faults>> /\ producerFrame

\* Only the follow band is the producer's; elsewhere it drops its windows.
PBand ==
  /\ prod.pc = "band"
  /\ IF FollowBand
     THEN prod' = [prod EXCEPT !.pc = "gen"] /\ UNCHANGED readahead
     ELSE prod' = NextPass /\ readahead' = <<>>
  /\ UNCHANGED <<queueVars, faults>> /\ producerFrame

\* The dispatch generation is read before the frontier; a change since the
\* last dispatch aborts the readahead.
PReadGenNoAbort ==
  /\ prod.pc = "gen"
  /\ prod' = [prod EXCEPT !.pc = "from", !.gen = generation, !.lastGen = generation]
  /\ UNCHANGED <<queueVars, readahead, faults>> /\ producerFrame

PReadGen ==
  /\ prod.pc = "gen"
  /\ prod' = [prod EXCEPT !.pc = "from", !.gen = generation, !.lastGen = generation]
  /\ readahead' = IF generation # prod.lastGen THEN <<>> ELSE readahead
  /\ UNCHANGED <<queueVars, faults>> /\ producerFrame

\* The last height of the window that starts at h.
WindowEnd(h) == IF h + Batch - 1 <= Target THEN h + Batch - 1 ELSE Target

PReadFrom ==
  /\ prod.pc = "from"
  /\ LET from == next_fetch_height IN
     prod' = IF from > Target
             THEN NextPass
             ELSE [prod EXCEPT !.pc = "take", !.next = from, !.to = WindowEnd(from)]
  /\ UNCHANGED <<queueVars, readahead, faults>> /\ producerFrame

\* Windows wholly below h are stale: take() and fill() pop them off the front.
Fresh(windows, h) ==
  LET kept == {k \in 1 .. Len(windows) : windows[k].to >= h} IN
  IF kept = {} THEN <<>> ELSE SubSeq(windows, Min(kept), Len(windows))

\* WindowReadahead::fill: dispatch adjacent windows from h, up to Depth.
\* The number the free peers allow is the network's choice.
Filled(windows, h, n) ==
  LET start == IF windows = <<>> THEN h ELSE windows[Len(windows)].to + 1
      from(k) == start + (k - 1) * Batch
  IN  windows \o [k \in 1 .. n |->
        [from |-> from(k), to |-> WindowEnd(from(k)), epoch |-> generation]]

\* WindowReadahead::take, then fill, then the direct fetch that replaces a
\* window the readahead did not hold.  `ahead` is what take() leaves.
TakeThenFill(ahead, step) ==
  /\ IF prod.to < Target
     THEN \E n \in 0 .. Depth :
            /\ Len(ahead) + n <= Depth
            /\ readahead' = Filled(ahead, prod.to + 1, n)
            /\ \A k \in 1 .. Len(readahead') : readahead'[k].from <= Target
     ELSE readahead' = ahead
  /\ prod' = step
  /\ UNCHANGED queueVars /\ producerFrame

HeadMatches(windows) ==
  windows # <<>> /\ Head(windows).from = prod.next /\ Head(windows).to = prod.to

PTakeHit ==
  LET windows == Fresh(readahead, prod.next) IN
  /\ prod.pc = "take" /\ HeadMatches(windows)
  /\ TakeThenFill(Tail(windows),
       [prod EXCEPT !.pc = "complete", !.epoch = Head(windows).epoch])
  /\ UNCHANGED faults

PTakeMiss ==
  LET windows == Fresh(readahead, prod.next) IN
  /\ prod.pc = "take"
  /\ \/ /\ ~HeadMatches(windows)
        /\ UNCHANGED faults
        /\ TakeThenFill(<<>>, [prod EXCEPT !.pc = "direct", !.epoch = generation])
     \/ /\ HeadMatches(windows)
        /\ Fault
        /\ TakeThenFill(Tail(windows), [prod EXCEPT !.pc = "direct", !.epoch = generation])

\* No live peer, or the direct fetch was rejected, mismatched or timed out.
PFetchFails ==
  /\ prod.pc \in {"take", "direct"} /\ Fault
  /\ prod' = NextPass
  /\ UNCHANGED <<queueVars, readahead>> /\ producerFrame

PDirectRestamps ==
  /\ prod.pc = "direct"
  /\ prod' = [prod EXCEPT !.pc = "complete", !.gen = generation]
  /\ UNCHANGED <<queueVars, readahead, faults>> /\ producerFrame

PDirect ==
  /\ prod.pc = "direct"
  /\ prod' = [prod EXCEPT !.pc = "complete"]
  /\ UNCHANGED <<queueVars, readahead, faults>> /\ producerFrame

\* One queue.complete per block of the window, the budget not consulted again.
PComplete ==
  /\ prod.pc = "complete"
  /\ \E n \in Sizes : complete(prod.next, n, prod.gen, prod.epoch)
  /\ prod' = IF prod.next = prod.to
             THEN NextPass
             ELSE [prod EXCEPT !.next = prod.next + 1]
  /\ UNCHANGED <<readahead, faults>> /\ producerFrame

Producer ==
  \/ PAdmit \/ PBand \/ PReadGen \/ PReadFrom
  \/ PTakeHit \/ PTakeMiss \/ PFetchFails \/ PDirect \/ PComplete


-----------------------------------------------------------------------------
(* The consumer: block_processor.                                          *)

\* Back at the loop's head, parked on `ready`.
Idle == [cons EXCEPT !.pc = "idle", !.from = 0, !.to = 0, !.outcome = "none"]

consumerFrame == UNCHANGED <<prod, readahead, drv, watchdog, tip>>

\* Woken by `ready`, it marks itself in flight first.  The idle tick may wake
\* it with nothing ready; then it holds the marker for an instant.
CMark ==
  /\ cons.pc = "idle"
  /\ IF head_ready THEN UNCHANGED faults ELSE Fault
  /\ inflight' = TRUE
  /\ cons' = [cons EXCEPT !.pc = "marked"]
  /\ UNCHANGED <<queueVars, peak, requests>> /\ consumerFrame

CDrain ==
  LET window == ReadyWindow(Batch) IN
  /\ cons.pc = "marked"
  /\ drain_ready_window(Batch)
  /\ IF window = {}
     THEN /\ inflight' = FALSE
          /\ cons' = Idle
     ELSE /\ cons' = [cons EXCEPT !.pc = "drained", !.from = lowWater, !.to = lowWater']
          /\ UNCHANGED inflight
  /\ UNCHANGED <<peak, requests, faults>> /\ consumerFrame

\* follow_step_blocks_pre on the window [from, to), and which request the match
\* on its result will make.  A step that returns the peak asks for a Reset only
\* when that peak is below the window's last height, so a window wholly at or
\* below the peak, which changes nothing, asks for nothing: the queue's head is
\* left behind the peak for the driver's reconcile.  A window whose parent is
\* unknown is an orphan.  Faults: a block is invalid, the store fails or a
\* record is missing (an error, perhaps after a prefix was confirmed), or the
\* peer served another branch, of which only a prefix, nothing, or, from at or
\* below the peak, all of it outweighs the peak.
CConfirm ==
  /\ cons.pc = "drained"
  /\ \/ /\ cons.from <= peak + 1
        /\ peak' = IF cons.to > peak + 1 THEN cons.to - 1 ELSE peak
        /\ cons' = [cons EXCEPT !.pc = "confirmed", !.outcome = "done"]
        /\ UNCHANGED faults
     \/ /\ cons.from > peak + 1
        /\ cons' = [cons EXCEPT !.pc = "confirmed", !.outcome = "Orphan"]
        /\ UNCHANGED <<peak, faults>>
     \/ /\ Fault
        /\ \E kind \in Kinds : cons' = [cons EXCEPT !.pc = "confirmed", !.outcome = kind]
        /\ UNCHANGED peak
     \/ /\ Fault /\ cons.from <= peak + 1
        /\ peak' \in cons.from .. cons.to - 1
        /\ cons' = [cons EXCEPT !.pc = "confirmed",
                                !.outcome = IF peak' < cons.to - 1 THEN "Reset" ELSE "done"]
  /\ UNCHANGED <<queueVars, inflight, requests>> /\ consumerFrame

\* The marker is cleared as soon as the step returns, before the outcome is
\* looked at.  A window that needs no recovery ends the pass; any other outcome
\* is delegated to the driver, and the consumer parks on the reply.
CFinish ==
  /\ cons.pc = "confirmed"
  /\ inflight' = FALSE
  /\ cons' = IF cons.outcome = "done" THEN Idle ELSE [cons EXCEPT !.pc = "send"]
  /\ UNCHANGED <<queueVars, peak, requests, faults>> /\ consumerFrame

CSend ==
  /\ cons.pc = "send" /\ Len(requests) < ChannelCap
  /\ requests' = Append(requests, [kind |-> cons.outcome, awaited |-> TRUE])
  /\ cons' = [cons EXCEPT !.pc = "waiting"]
  /\ UNCHANGED <<queueVars, peak, inflight, faults>> /\ consumerFrame

\* RESET_REPLY_TIMEOUT: the consumer goes on; the request stays where it is
\* and is served later, its reply going nowhere.
CTimeout ==
  /\ cons.pc = "waiting"
  /\ cons' = Idle
  /\ requests' = [k \in 1 .. Len(requests) |-> [requests[k] EXCEPT !.awaited = FALSE]]
  /\ drv' = [drv EXCEPT !.request.awaited = FALSE]
  /\ UNCHANGED <<queueVars, peak, inflight, prod, readahead, watchdog, tip, faults>>

Consumer == CMark \/ CDrain \/ CConfirm \/ CFinish \/ CSend \/ CTimeout

-----------------------------------------------------------------------------
(* The driver: one pass of sync_driver's loop per tick.                    *)

driverFrame == UNCHANGED <<prod, readahead, tip>>

\* recovery_rx.try_recv.  An orphan is backtracked with a rotation peer, when
\* there is one, under the in-flight marker; the other kinds move no peak.
DReceive ==
  /\ drv.pc = "tick" /\ requests # <<>>
  /\ requests' = Tail(requests)
  /\ \/ /\ Head(requests).kind = "Orphan"
        /\ inflight' = TRUE
        /\ drv' = [drv EXCEPT !.pc = "backtrack", !.request = Head(requests)]
     \/ /\ drv' = [drv EXCEPT !.pc = "head", !.request = Head(requests)]
        /\ UNCHANGED inflight
  /\ UNCHANGED <<queueVars, peak, cons, watchdog, faults>> /\ driverFrame

\* sync_backtrack (or the deep-fork bulk_sync after it) converges, rewinds to
\* a heavier but shorter branch, or fails and leaves the peak alone.
DBacktrack ==
  /\ drv.pc = "backtrack"
  /\ \/ UNCHANGED <<peak, faults>>
     \/ Fault /\ peak' \in 0 .. Target
  /\ drv' = [drv EXCEPT !.pc = "unmark"]
  /\ UNCHANGED <<queueVars, inflight, requests, cons, watchdog>> /\ driverFrame

DUnmark ==
  /\ drv.pc = "unmark"
  /\ inflight' = FALSE
  /\ drv' = [drv EXCEPT !.pc = "head"]
  /\ UNCHANGED <<queueVars, peak, requests, cons, watchdog, faults>> /\ driverFrame

\* rebase_to_peak reads the peak, then rebases; the reply follows.
DReadHead ==
  /\ drv.pc \in {"head", "peek"}
  /\ drv' = [drv EXCEPT !.pc = IF drv.pc = "head" THEN "rebase" ELSE "compare",
                        !.head = follow_head]
  /\ UNCHANGED <<queueVars, peak, inflight, requests, cons, watchdog, faults>> /\ driverFrame

DRebaseSharedReply ==
  /\ drv.pc = "rebase"
  /\ rebase(drv.head)
  /\ cons' = IF cons.pc = "waiting" THEN Idle ELSE cons
  /\ drv' = [drv EXCEPT !.pc = "tick", !.head = 0, !.request = NoRequest]
  /\ UNCHANGED <<peak, inflight, requests, watchdog, faults>> /\ driverFrame

DRebaseReply ==
  /\ drv.pc = "rebase"
  /\ rebase(drv.head)
  /\ cons' = IF drv.request.awaited THEN Idle ELSE cons
  /\ drv' = [drv EXCEPT !.pc = "tick", !.head = 0, !.request = NoRequest]
  /\ UNCHANGED <<peak, inflight, requests, watchdog, faults>> /\ driverFrame

\* The reconcile: skipped while the marker says a confirm is in flight.
DReconcile ==
  /\ drv.pc = "tick" /\ requests = <<>>
  /\ drv' = [drv EXCEPT !.pc = IF inflight THEN "watch" ELSE "peek"]
  /\ UNCHANGED <<queueVars, peak, inflight, requests, cons, watchdog, faults>> /\ driverFrame

DCompareNoRealign ==
  /\ drv.pc = "compare"
  /\ drv' = [drv EXCEPT !.pc = "watch", !.head = 0]
  /\ UNCHANGED <<queueVars, peak, inflight, requests, cons, watchdog, faults>> /\ driverFrame

DCompare ==
  /\ drv.pc = "compare"
  /\ drv' = IF lowWater # drv.head
            THEN [drv EXCEPT !.pc = "realign"]
            ELSE [drv EXCEPT !.pc = "watch", !.head = 0]
  /\ UNCHANGED <<queueVars, peak, inflight, requests, cons, watchdog, faults>> /\ driverFrame

DRealign ==
  /\ drv.pc = "realign"
  /\ rebase(drv.head)
  /\ drv' = [drv EXCEPT !.pc = "watch", !.head = 0]
  /\ UNCHANGED <<peak, inflight, requests, cons, watchdog, faults>> /\ driverFrame

\* The stall clock of the watchdog has reached RECLAIM_TIMEOUT at this tick.
Due == watchdog.stall + 1 >= StallTicks

\* StallWatchdog::poll on this tick's observations.  A marker older than the
\* reclaim bound no longer counts as a confirm in flight.
DWatch ==
  \E peersLive \in BOOLEAN, confirming \in {FALSE, inflight} :
    LET stalled == /\ lowWater <= watchdog.low
                   /\ peak < Target /\ Target > lowWater
                   /\ peersLive /\ ~confirming
    IN
    /\ drv.pc = "watch"
    /\ \/ /\ stalled /\ Due /\ Fault
          /\ watchdog' = [watchdog EXCEPT !.stall = 0]
          /\ drv' = [drv EXCEPT !.pc = "reclaim", !.head = lowWater]
       \/ /\ stalled /\ ~Due
          /\ watchdog' = [watchdog EXCEPT !.stall = @ + 1]
          /\ drv' = [drv EXCEPT !.pc = "tick", !.head = 0]
          /\ UNCHANGED faults
       \/ /\ ~stalled
          /\ watchdog' = [low |-> IF lowWater > watchdog.low THEN lowWater ELSE watchdog.low,
                          stall |-> 0]
          /\ drv' = [drv EXCEPT !.pc = "tick", !.head = 0]
          /\ UNCHANGED faults
    /\ UNCHANGED <<queueVars, peak, inflight, requests, cons>> /\ driverFrame

\* StallWatchdog::tick: rebase to the low_water it read.
DReclaim ==
  /\ drv.pc = "reclaim"
  /\ rebase(drv.head)
  /\ drv' = [drv EXCEPT !.pc = "tick", !.head = 0]
  /\ UNCHANGED <<peak, inflight, requests, cons, watchdog, faults>> /\ driverFrame

Driver ==
  \/ DReceive \/ DBacktrack \/ DUnmark \/ DReadHead \/ DRebaseReply
  \/ DReconcile \/ DCompare \/ DRealign \/ DWatch \/ DReclaim

-----------------------------------------------------------------------------
(* The tip follower: tip_follower and Node::sync_tip_step.                 *)

tipFrame == UNCHANGED <<queueVars, requests, prod, readahead, cons, drv, watchdog>>

TBegin ==
  /\ tip = "idle" /\ in_near_tip_band
  /\ inflight' = TRUE
  /\ tip' = "step"
  /\ UNCHANGED <<peak, faults>> /\ tipFrame

\* The forward fetch up to the claimed height confirms, at once or by
\* backtracking; or it fails and is left to the driver.
TStep ==
  /\ tip = "step"
  /\ \/ peak' = Target /\ UNCHANGED faults
     \/ Fault /\ UNCHANGED peak
  /\ tip' = "end"
  /\ UNCHANGED inflight /\ tipFrame

TEnd ==
  /\ tip = "end"
  /\ inflight' = FALSE
  /\ tip' = "idle"
  /\ UNCHANGED <<peak, faults>> /\ tipFrame

Follower == TBegin \/ TStep \/ TEnd

-----------------------------------------------------------------------------
Next == Producer \/ Consumer \/ Driver \/ Follower

Spec == Init /\ [][Next]_vars

\* Each task is a loop the runtime keeps scheduling: whenever it can take a
\* step it eventually does.  Faults are finite in number and need no fairness.
FairSpec ==
  /\ Spec
  /\ WF_vars(Producer) /\ WF_vars(Consumer) /\ WF_vars(Driver) /\ WF_vars(Follower)

-----------------------------------------------------------------------------
\* The tasks' locals keep their types: the watchdog's clock stays below its
\* bound and the recovery channel within its capacity.
TypeOK ==
  /\ QueueTypeOK
  /\ peak \in -1 .. Target
  /\ inflight \in BOOLEAN
  /\ requests \in Seq([kind : Kinds, awaited : BOOLEAN]) /\ Len(requests) <= ChannelCap
  /\ prod \in [pc : {"start", "band", "gen", "from", "take", "direct", "complete"},
               lastGen : Nat, gen : Nat, next : Heights, to : Heights,
               epoch : Nat]
  /\ readahead \in Seq([from : Heights, to : Heights, epoch : Nat])
  /\ cons \in [pc : {"idle", "marked", "drained", "confirmed", "send", "waiting"},
               from : Heights, to : 0 .. MaxHeight + 1,
               outcome : Kinds \cup {"none", "done"}]
  /\ drv \in [pc : {"tick", "backtrack", "unmark", "head", "rebase", "peek", "compare",
                    "realign", "watch", "reclaim"},
              head : 0 .. MaxHeight + 1,
              request : [kind : Kinds, awaited : BOOLEAN] \cup {NoRequest}]
  /\ watchdog \in [low : 0 .. MaxHeight + 1, stall : 0 .. StallTicks - 1]
  /\ tip \in {"idle", "step", "end"}
  /\ faults \in 0 .. MaxFaults

\* The buffer never has a hole: the heights it holds run without a gap from
\* the consumer's head.  The producer fetches only past the highest slot, so
\* a hole would never be filled again, and with the budget reached the two
\* tasks would wait for each other for good.  It takes the order in which the
\* producer reads the generation and the frontier, and the drop of stale
\* completions, to keep it so across rebases and drains.
NoHoles == DOMAIN slots = lowWater .. lowWater + Cardinality(DOMAIN slots) - 1

\* The overshoot of the byte budget is bounded by one fetched window, and a
\* window is what it can be: can_admit is asked once per window, before the
\* fetch, and then every block of the window is completed.
OvershootAtMostOneWindow == bytes < Budget + Batch * Max(Sizes)

\* What queue.rs promises of its byte ceiling: "checked pre-add, so overshoot is
\* at most one block".  The producer of daemon.rs asks per window, so it fails.
OvershootAtMostOneBlock == bytes < Budget + Max(Sizes)

\* A consumer parked on a recovery reply is owed one by exactly one request, in
\* the channel or in the driver's hands: it never waits for a reply that a
\* request abandoned by an earlier timeout has used up.
ReplyOwed ==
  LET owed == {k \in 1 .. Len(requests) : requests[k].awaited} IN
  IF cons.pc = "waiting"
  THEN Cardinality(owed) + (IF drv.request.awaited THEN 1 ELSE 0) = 1
  ELSE owed = {} /\ ~drv.request.awaited

\* Once faults stop, the pipeline reaches the claimed height and the queue's
\* head settles on the block after the peak, whatever windows were drained and
\* not confirmed, rewound, or rebased under a confirm in flight.
CatchesUp == <>[](peak = Target /\ lowWater = follow_head)
=============================================================================
