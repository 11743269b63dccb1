----------------------------- MODULE BodyDownload -----------------------------
(***************************************************************************)
(* The headers-first bulk download (node/src/sync/mod.rs, window.rs): a    *)
(* window of pending heights is split into reservations, one worker per    *)
(* peer fetches a reservation, checks it against the candidate headers and *)
(* writes it through; a miss gives the heights back.  When every worker    *)
(* has ended, what was downloaded is confirmed in height order.  An        *)
(* attempt that fails is repeated by the driver on the same store.  The    *)
(* candidate headers are one chain, 1 .. MaxHeight, with one record per    *)
(* height.                                                                 *)
(***************************************************************************)
EXTENDS Integers, Sequences, FiniteSets, FiniteSetsExt

CONSTANTS
  Workers,
  MaxHeight, Capacity, Batch,
  MaxFailures,        \* MAX_PEER_FETCH_FAILURES
  MaxFaults,          \* bound on store errors
  MaxAttempts         \* bound on attempts

Heights == 1 .. MaxHeight

ASSUME DownloadAssumption ==
  /\ MaxHeight \in Nat \ {0} /\ Capacity \in Nat \ {0} /\ Batch \in Nat \ {0}
  /\ MaxFailures \in Nat \ {0} /\ IsFiniteSet(Workers) /\ Workers # {}
  /\ MaxFaults \in Nat /\ MaxAttempts \in Nat \ {0}

VARIABLES
  written,            \* heights whose body is in the store
  known, reserved,    \* the window: pending heights; worker -> the heights it holds
  worker,             \* worker -> where it is, what it read, its consecutive misses
  bodies,             \* heights this attempt downloaded: the feed of the confirmation
  phase, attempts, faults,
  confirmed           \* heights confirmed, in order

vars == <<written, known, reserved, worker, bodies, phase, attempts, faults, confirmed>>

Fresh == [at |-> "read", pending |-> {}, failures |-> 0]
Ended == {"drained", "gave up", "error"}
get_unassociated(limit) ==
  LET missing == Heights \ written
  IN {h \in missing : Cardinality({x \in missing : x < h}) < limit}

Init ==
  /\ written = {} /\ known = {} /\ reserved = [w \in Workers |-> {}]
  /\ worker = [w \in Workers |-> Fresh]
  /\ bodies = {} /\ phase = "download" /\ attempts = 1 /\ faults = 0
  /\ confirmed = <<>>

-----------------------------------------------------------------------------
(* The window.  A worker holds at most one reservation, which stands for   *)
(* the id that the code gives it.                                          *)

reserved_set == UNION {reserved[w] : w \in Workers}

\* The lowest of the given heights that fit under the capacity.
refill(heights) ==
  LET live == Cardinality(known \cup reserved_set)
      new == (heights \ reserved_set) \ known
      Rank(h) == Cardinality({x \in new : x < h})
  IN known \cup {h \in new : live + Rank(h) < Capacity}

\* The run from the lowest pending height on, at most a batch long.
Run(pending) ==
  LET start == Min(pending)
  IN {h \in start .. start + Batch - 1 : start .. h \subseteq pending}

At(w, at) == [worker EXCEPT ![w].at = at, ![w].pending = {}]

-----------------------------------------------------------------------------
(* download_worker.                                                        *)

\* The store is read before the window is locked.
Read(w) ==
  /\ phase = "download" /\ worker[w].at = "read"
  /\ worker' = [worker EXCEPT ![w].at = "claim", ![w].pending = get_unassociated(Capacity)]
  /\ UNCHANGED <<written, known, reserved, bodies, phase, attempts, faults, confirmed>>

\* Mutant: heights that another worker holds are handed out again.
ClaimTwice(w) ==
  LET pending == known \cup worker[w].pending IN
  /\ worker[w].at = "claim"
  /\ pending # {}
  /\ worker' = At(w, "fetch")
  /\ reserved' = [reserved EXCEPT ![w] = Run(pending)]
  /\ known' = pending \ Run(pending)
  /\ UNCHANGED <<written, bodies, phase, attempts, faults, confirmed>>

\* refill and reserve under one lock: a run, or drained, or busy.
Claim(w) ==
  LET pending == refill(worker[w].pending) IN
  /\ worker[w].at = "claim"
  /\ IF pending = {}
     THEN worker' = At(w, IF reserved_set = {} THEN "drained" ELSE "read") /\ UNCHANGED <<known, reserved>>
     ELSE /\ worker' = At(w, "fetch")
          /\ reserved' = [reserved EXCEPT ![w] = Run(pending)]
          /\ known' = pending \ Run(pending)
  /\ UNCHANGED <<written, bodies, phase, attempts, faults, confirmed>>

\* The answer came in time, validate_downloaded_batch passed, and the bodies
\* are committed.
Write(w) ==
  /\ worker[w].at = "fetch"
  /\ written' = written \cup reserved[w]
  /\ worker' = At(w, "written")
  /\ UNCHANGED <<known, reserved, bodies, phase, attempts, faults, confirmed>>

\* The feed learns of them and the reservation is retired.
Complete(w) ==
  /\ worker[w].at = "written"
  /\ bodies' = bodies \cup reserved[w]
  /\ reserved' = [reserved EXCEPT ![w] = {}]
  /\ worker' = [worker EXCEPT ![w].at = "read", ![w].failures = 0]
  /\ UNCHANGED <<written, known, phase, attempts, faults, confirmed>>

\* Mutant: a peer that keeps failing is tried for ever.
MissForever(w) ==
  /\ worker[w].at = "fetch"
  /\ reserved' = [reserved EXCEPT ![w] = {}]
  /\ known' = known \cup reserved[w]
  /\ worker' = At(w, "read")
  /\ UNCHANGED <<written, bodies, phase, attempts, faults, confirmed>>

\* A timeout, a reject or a batch that does not match: reclaim, and give the
\* peer up if its channel is closed or it has missed too often in a row.
Miss(w) ==
  /\ worker[w].at = "fetch"
  /\ reserved' = [reserved EXCEPT ![w] = {}]
  /\ known' = known \cup reserved[w]
  /\ LET failures == worker[w].failures + 1
     IN \E closed \in BOOLEAN :
          worker' = [worker EXCEPT ![w].failures = failures,
                       ![w].at = IF closed \/ failures >= MaxFailures THEN "gave up" ELSE "read"]
  /\ UNCHANGED <<written, bodies, phase, attempts, faults, confirmed>>

\* A store error ends the worker at once, with whatever it holds.
Fault(w) ==
  /\ faults < MaxFaults /\ faults' = faults + 1
  /\ phase = "download" /\ worker[w].at \in {"read", "fetch"}
  /\ worker' = At(w, "error")
  /\ UNCHANGED <<written, known, reserved, bodies, phase, attempts, confirmed>>

-----------------------------------------------------------------------------
(* download_all and sync_range, and the driver's retry.                    *)

\* Mutant: no error means that everything came.
JoinUnchecked ==
  /\ phase = "download" /\ \A w \in Workers : worker[w].at \in Ended
  /\ phase' = IF \E w \in Workers : worker[w].at = "error" THEN "failed" ELSE "confirm"
  /\ UNCHANGED <<written, known, reserved, worker, bodies, attempts, faults, confirmed>>

\* The first error wins; without one the range must have come completely.
Join ==
  /\ phase = "download" /\ \A w \in Workers : worker[w].at \in Ended
  /\ phase' = IF (\E w \in Workers : worker[w].at = "error") \/ Heights \ written # {}
              THEN "failed" ELSE "confirm"
  /\ UNCHANGED <<written, known, reserved, worker, bodies, attempts, faults, confirmed>>

\* The feed in height order, to the end or to the first block whose add_block
\* fails.
Confirm ==
  /\ phase = "confirm"
  /\ \/ /\ bodies # {}
        /\ confirmed' = Append(confirmed, Min(bodies))
        /\ bodies' = bodies \ {Min(bodies)}
        /\ phase' = IF Cardinality(bodies) = 1 THEN "landed" ELSE "confirm"
        /\ UNCHANGED faults
     \/ bodies = {} /\ phase' = "landed" /\ UNCHANGED <<confirmed, bodies, faults>>
     \/ /\ bodies # {} /\ faults < MaxFaults /\ faults' = faults + 1
        /\ phase' = "failed" /\ UNCHANGED <<confirmed, bodies>>
  /\ UNCHANGED <<written, known, reserved, worker, attempts>>

Retry ==
  /\ phase = "failed" /\ attempts < MaxAttempts
  /\ attempts' = attempts + 1
  /\ phase' = "download" /\ bodies' = {} /\ known' = {}
  /\ reserved' = [w \in Workers |-> {}]
  /\ worker' = [w \in Workers |-> Fresh]
  /\ UNCHANGED <<written, faults, confirmed>>

Stop == (phase = "landed" \/ (phase = "failed" /\ attempts = MaxAttempts)) /\ UNCHANGED vars

Step(w) == Read(w) \/ Claim(w) \/ Write(w) \/ Complete(w) \/ Miss(w)

Next ==
  \/ \E w \in Workers : Step(w) \/ Fault(w)
  \/ Join \/ Confirm \/ Retry \/ Stop

Spec == Init /\ [][Next]_vars

\* Each worker is a task of its own, and a request ends by its timeout at the latest.
FairSpec == Spec /\ (\A w \in Workers : WF_vars(Step(w))) /\ WF_vars(Join) /\ WF_vars(Confirm)

-----------------------------------------------------------------------------
\* Every variable keeps its type.
DownloadTypeOK ==
  /\ written \subseteq Heights /\ known \subseteq Heights /\ bodies \subseteq Heights
  /\ reserved \in [Workers -> SUBSET Heights]
  /\ \A w \in Workers : /\ worker[w].at \in {"read", "claim", "fetch", "written"} \cup Ended
                        /\ worker[w].pending \subseteq Heights
                        /\ worker[w].failures \in 0 .. MaxFailures
  /\ phase \in {"download", "confirm", "failed", "landed"}
  /\ attempts \in 1 .. MaxAttempts /\ faults \in 0 .. MaxFaults

\* No height is in two hands: reservations are disjoint from one another and
\* from the pending heights, contiguous and at most a batch long, and the
\* window holds no more identifiers than its capacity, although workers refill
\* it from what they read of the store before they took the lock.
WindowExact ==
  /\ \A v, w \in Workers : v # w => reserved[v] \cap reserved[w] = {}
  /\ known \cap reserved_set = {}
  /\ Cardinality(known) + Cardinality(reserved_set) <= Capacity
  /\ \A w \in Workers : reserved[w] # {} =>
       /\ reserved[w] = Min(reserved[w]) .. Max(reserved[w])
       /\ Cardinality(reserved[w]) <= Batch

\* A worker leaves as drained only once every body is written: nobody goes home
\* while a run may still come back to the pool.
DrainedIsWritten ==
  phase = "download" => \A w \in Workers : worker[w].at = "drained" => Heights \ written = {}

\* What the confirmation is fed after a first attempt is the whole range, in
\* height order, however the runs were split, missed, reclaimed and re-fetched.
FeedIsWhole ==
  attempts = 1 /\ phase = "landed" => confirmed = [h \in Heights |-> h]

\* Without a store error every attempt comes to an end: it lands, or fails once
\* all peers have been given up.
AttemptEnds == [](faults = 0) => [](phase = "download" => <>(phase # "download"))

\* A worker's store error is returned by the attempt (sync_bodies: "or a
\* store/download error from a worker").
FaultIsReturned == (\E w \in Workers : worker[w].at = "error") ~> phase = "failed"

\* An attempt that lands has confirmed the whole candidate range.
LandsWhole == phase = "landed" => {confirmed[k] : k \in DOMAIN confirmed} = Heights
=============================================================================
