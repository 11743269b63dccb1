---------------------------- MODULE ChainedTable ----------------------------
(***************************************************************************)
(* The hash table of the mapped store (stores/src/mmap/tables.rs): bucket  *)
(* heads and record links hold index + 1, 0 ends a chain, and the record   *)
(* count is the allocation pointer.  One writer publishes batches          *)
(* (flush_coin_batch, add_block_records) or single entries                 *)
(* (persist_sub_epoch_segments) and sweeps the table (rollback_to);        *)
(* readers walk the chains at any time.  A payload is the height at which  *)
(* its entry was confirmed, 0 when it is vacant.                           *)
(***************************************************************************)
EXTENDS Integers, Sequences, SequencesExt, FiniteSets

CONSTANTS
  Keys, Bucket,       \* key -> its bucket
  MaxPayload,
  Modes,              \* how the table is written: "batch", "single"
  Torn,               \* whether a crash may leave a head without its count
  MaxCrashes          \* bound on crashes

ASSUME TableAssumption ==
  /\ IsFiniteSet(Keys) /\ MaxPayload \in Nat /\ MaxCrashes \in Nat
  /\ DOMAIN Bucket = Keys /\ Modes \subseteq {"batch", "single"} /\ Torn \in BOOLEAN

Buckets == {Bucket[k] : k \in Keys}
MaxRecords == Cardinality(Keys) * (MaxCrashes + 1)   \* a crash can waste a batch of records
Payloads == 1 .. MaxPayload
NoKey == "no key"
Absent == -1

VARIABLES
  mapped, synced,     \* the file as mapped, and as last synced: [count, heads, records]
  mode,
  op,                 \* the call under way: where it is, what it still has to do
  crashes

vars == <<mapped, synced, mode, op, crashes>>

Blank == [key |-> NoKey, next |-> 0, payload |-> 0]
Fresh == [count |-> 0, heads |-> [b \in Buckets |-> 0], records |-> [i \in 1 .. MaxRecords |-> Blank]]
Idle == [at |-> "idle", entries |-> <<>>, todo |-> <<>>, inserts |-> <<>>, written |-> 0, staged |-> {}]

Init ==
  /\ mapped = Fresh /\ synced = Fresh
  /\ mode \in Modes
  /\ op = Idle /\ crashes = 0

-----------------------------------------------------------------------------
(* Lookups.  Records are numbered from 1, the value of a link to them.     *)

\* The n-th link of a bucket's chain.
Walk(t, b) ==
  LET link[n \in 0 .. MaxRecords] ==
        IF n = 0 THEN t.heads[b]
        ELSE IF link[n - 1] = 0 THEN 0 ELSE t.records[link[n - 1]].next
  IN link

\* The chain's first record of the key, 0 if there is none.
find(t, k) ==
  LET link == Walk(t, Bucket[k])
      hits == {n \in 0 .. MaxRecords : link[n] # 0 /\ t.records[link[n]].key = k}
  IN IF hits = {} THEN 0 ELSE link[CHOOSE n \in hits : \A x \in hits : n <= x]

Held(t, i) == IF i = 0 THEN Absent ELSE t.records[i].payload
Lookup(t, k) == Held(t, find(t, k))

set_payload(t, i, p) == [t EXCEPT !.records[i].payload = p]

-----------------------------------------------------------------------------
(* Publishing: each entry updates its record in place or is put aside to   *)
(* be inserted (a sweep's is dropped).                                     *)

Call(entries) == [Idle EXCEPT !.at = "find", !.entries = entries, !.todo = entries]

Publish(entries) ==
  /\ op = Idle
  /\ mode = "single" => Len(entries) = 1
  /\ op' = Call(entries)
  /\ UNCHANGED <<mapped, synced, mode, crashes>>

FindOrUpdate ==
  /\ op.at = "find" /\ op.todo # <<>>
  /\ LET e == Head(op.todo)
         i == find(mapped, e.key)
     IN IF i # 0
        THEN /\ mapped' = set_payload(mapped, i, e.payload)
             /\ op' = [op EXCEPT !.todo = Tail(@)]
        ELSE /\ op' = [op EXCEPT !.todo = Tail(@),
                                  !.inserts = IF e.payload = 0 THEN @ ELSE Append(@, e)]
             /\ UNCHANGED mapped
  /\ UNCHANGED <<synced, mode, crashes>>

Found ==
  /\ op.at = "find" /\ op.todo = <<>>
  /\ op' = [op EXCEPT !.at = IF op.inserts = <<>> THEN "sync" ELSE "write"]
  /\ UNCHANGED <<mapped, synced, mode, crashes>>

\* Mutant: the batch does not thread its own entries of one bucket.
StagedHeadUnthreaded(b) == mapped.heads[b]

\* The head that the batch has staged for a bucket, else the published one.
StagedHead(b) ==
  LET mine == {i \in 1 .. op.written : Bucket[op.inserts[i].key] = b}
  IN IF mine = {} THEN mapped.heads[b]
     ELSE mapped.count + (CHOOSE i \in mine : \A x \in mine : x <= i)

\* Phase A of insert_batch, and the record of a single insert.
WriteRecord ==
  /\ op.at = "write" /\ op.written < Len(op.inserts)
  /\ mapped.count + op.written < MaxRecords   \* always so on the runs; the file itself grows
  /\ LET i == op.written + 1
         e == op.inserts[i]
     IN /\ mapped' = [mapped EXCEPT !.records[mapped.count + i] =
                        [key |-> e.key, next |-> StagedHead(Bucket[e.key]), payload |-> e.payload]]
        /\ op' = [op EXCEPT !.written = i]
  /\ UNCHANGED <<synced, mode, crashes>>

\* Mutant: the batch's heads are published before the count.
PublishCountLate ==
  /\ op.at = "count"
  /\ LET linked == [b \in Buckets |-> IF \E s \in op.staged : s[1] = b
                                     THEN (CHOOSE s \in op.staged : s[1] = b)[2] ELSE mapped.heads[b]]
     IN IF mode = "batch" /\ mapped.heads # linked
        THEN mapped' = [mapped EXCEPT !.heads = linked] /\ UNCHANGED op
        ELSE /\ mapped' = [mapped EXCEPT !.count = @ + Len(op.inserts)]
             /\ op' = [op EXCEPT !.at = "sync"]
  /\ UNCHANGED <<synced, mode, crashes>>

\* The one ordering point: record bytes before any link or count.
SyncRecords ==
  /\ op.at = "write" /\ op.written = Len(op.inserts)
  /\ synced' = mapped
  /\ op' = [op EXCEPT !.at = IF mode = "batch" THEN "count" ELSE "link",
                      !.staged = {<<Bucket[e.key], StagedHead(Bucket[e.key])>> : e \in ToSet(op.inserts)}]
  /\ UNCHANGED <<mapped, mode, crashes>>

\* Phase B: the count first; a single insert sets it last.
PublishCount ==
  /\ op.at = "count"
  /\ mapped' = [mapped EXCEPT !.count = @ + Len(op.inserts)]
  /\ op' = [op EXCEPT !.at = IF mode = "batch" THEN "link" ELSE "sync"]
  /\ UNCHANGED <<synced, mode, crashes>>

\* The bucket heads, in the order of a hash map.
Link ==
  /\ op.at = "link"
  /\ \E s \in op.staged :
       /\ mapped' = [mapped EXCEPT !.heads[s[1]] = s[2]]
       /\ LET left == op.staged \ {s}
          IN op' = [op EXCEPT !.staged = left,
                              !.at = IF left # {} THEN "link" ELSE IF mode = "batch" THEN "sync" ELSE "count"]
  /\ UNCHANGED <<synced, mode, crashes>>

SyncTable ==
  /\ op.at = "sync"
  /\ synced' = mapped /\ op' = Idle
  /\ UNCHANGED <<mapped, mode, crashes>>

-----------------------------------------------------------------------------
(* The sweep of rollback_to and rollback_to_in: the keys to vacate are     *)
(* those of the records, one by one, that for_each finds above the fork;   *)
(* the record it vacates is the one that find returns.                     *)

for_each(t) == {t.records[i] : i \in 1 .. t.count}

Sweep(fork) ==
  LET above == {r.key : r \in {x \in for_each(mapped) : x.payload > fork}} IN
  /\ op = Idle /\ mode = "batch" /\ above # {}
  /\ op' = Call(SetToSeq({[key |-> k, payload |-> 0] : k \in above}))
  /\ UNCHANGED <<mapped, synced, mode, crashes>>

-----------------------------------------------------------------------------
(* Crashes, at any point of a call or between two.  What was mapped        *)
(* survives the end of the process; a power loss leaves at each place that *)
(* was written since the last sync either value.  Nothing orders the count *)
(* and the heads on the disk, and a single insert links before it counts:  *)
(* only with Torn do the crashes happen that keep a head past the count.   *)

Covered(t) == \A b \in Buckets : t.heads[b] <= t.count

Kill ==
  /\ Torn \/ Covered(mapped)
  /\ crashes < MaxCrashes /\ crashes' = crashes + 1
  /\ op # Idle /\ op' = Idle
  /\ UNCHANGED <<mapped, synced, mode>>

PowerLoss ==
  /\ crashes < MaxCrashes /\ crashes' = crashes + 1
  /\ mapped # synced
  /\ \E c \in {mapped.count, synced.count},
        kept \in SUBSET {b \in Buckets : mapped.heads[b] # synced.heads[b]},
        lost \in SUBSET {i \in 1 .. MaxRecords : mapped.records[i] # synced.records[i]} :
       mapped' = [count |-> c,
                  heads |-> [b \in Buckets |-> IF b \in kept THEN mapped.heads[b] ELSE synced.heads[b]],
                  records |-> [i \in 1 .. MaxRecords |->
                                 IF i \in lost THEN synced.records[i] ELSE mapped.records[i]]]
  /\ Torn \/ Covered(mapped')
  /\ synced' = mapped' /\ op' = Idle
  /\ UNCHANGED mode

\* A batch holds a key once.
Entries ==
  LET Batch(S, f) == LET keys == SetToSeq(S) IN [i \in DOMAIN keys |-> [key |-> keys[i], payload |-> f[keys[i]]]]
  IN UNION {{Batch(S, f) : f \in [S -> Payloads]} : S \in (SUBSET Keys) \ {{}}}

Next ==
  \/ \E entries \in Entries : Publish(entries)
  \/ FindOrUpdate \/ Found \/ WriteRecord \/ SyncRecords \/ PublishCount \/ Link \/ SyncTable
  \/ \E fork \in 0 .. MaxPayload : Sweep(fork)
  \/ Kill \/ PowerLoss

Spec == Init /\ [][Next]_vars

-----------------------------------------------------------------------------
\* Whenever a reader looks, each chain ends and holds only allocated records
\* of its own bucket: no later insert can overwrite a linked record or tie a
\* chain into a loop.  So it is after every crash that leaves no head past
\* the count (Torn = FALSE): a process killed anywhere in insert_batch, a
\* power loss at any of its writes that loses the count only with the heads.
ChainsSound ==
  \A b \in Buckets :
    LET link == Walk(mapped, b)
        unpublished == IF mode = "single" /\ op.at = "count" THEN 1 ELSE 0
    IN /\ link[MaxRecords] = 0
       /\ \A n \in 0 .. MaxRecords : link[n] # 0 =>
            /\ link[n] <= mapped.count + unpublished
            /\ mapped.records[link[n]].key \in {k \in Keys : Bucket[k] = b}

\* What insert_batch says of any torn shutdown: it "loses records (invisible,
\* past-count, or unlinked) but never corrupts a chain".  Every walk ends and
\* stays in its bucket.  False with Torn: the next call writes its records
\* over the linked ones that the count no longer covers.
ChainsSurvive ==
  \A b \in Buckets :
    LET link == Walk(mapped, b)
    IN /\ link[MaxRecords] = 0
       /\ \A n \in 0 .. MaxRecords : link[n] # 0 => mapped.records[link[n]].key \in {k \in Keys : Bucket[k] = b}

\* What a lookup finds changes only by a call that writes this key, or by a
\* power loss: to the record that was found, mapped or synced, with what it
\* held, mapped or synced; and a call that is through has all its entries
\* found.  Torn and wasted records of other calls never hide, change or bring
\* back a key, whatever crash of the kind of ChainsSound comes when.
LookupsMove ==
  [][/\ \A k \in Keys :
         \/ Lookup(mapped', k) = Lookup(mapped, k)
         \/ \E e \in ToSet(op.entries) : e.key = k
         \/ crashes' # crashes /\ \E t, u \in {mapped, synced} : Lookup(mapped', k) = Held(u, find(t, k))
     /\ SyncTable => \A e \in ToSet(op.entries) :
          Lookup(mapped, e.key) = e.payload \/ (e.payload = 0 /\ Lookup(mapped, e.key) = Absent)]_vars

\* A sweep vacates only entries above the fork: records that a torn shutdown
\* lost are "invisible, past-count, or unlinked" (tables.rs, insert_batch).
SweepsExact ==
  [][\A fork \in 0 .. MaxPayload :
       Sweep(fork) => \A e \in ToSet(op'.todo) : Lookup(mapped, e.key) = Absent \/ Lookup(mapped, e.key) > fork]_vars
=============================================================================
