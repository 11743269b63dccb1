----------------------------- MODULE GossipProofs -----------------------------
(***************************************************************************)
(* Transaction gossip, for every set of peers and bundles and every cap:   *)
(* what is admitted is announced, and the inbox counts what its lanes      *)
(* hold, in fee order and within both caps.                                *)
(***************************************************************************)
EXTENDS TxGossip, SetFacts, SequenceTheorems

-----------------------------------------------------------------------------
(* Announcing what was admitted.                                           *)

Owing(t, n) == {s \in Submitters : t[s] = Holding("announce", n)}

Aside == {"pending", "conflict"} \X (Txs \ Fits)

\* What is counted, and who still owes an announcement.
CountTypes ==
  /\ told \in [Txs -> Nat] /\ tx_announce \in [Txs -> Nat] /\ entered \in [Txs -> Nat]
  /\ follower \in [todo : SUBSET Aside, owed : [Txs -> Nat], quiet : BOOLEAN]
  /\ aside \subseteq Aside
  /\ DOMAIN task = Submitters
  /\ \A s \in Submitters : task[s].step = "announce" => \E n \in Txs : task[s] = Holding("announce", n)

CountInv == CountTypes /\ AnnouncedPerAdmission

\* There are finitely many submitters, and so are those that owe.
LEMMA OwingNat ==
  ASSUME NEW t, NEW n
  PROVE  IsFiniteSet(Owing(t, n)) /\ Cardinality(Owing(t, n)) \in Nat
<1>1. IsFiniteSet({"worker", "rpc", "wallet"})
  <2>1. IsFiniteSet({}) /\ {"worker", "rpc", "wallet"} = (({} \cup {"worker"}) \cup {"rpc"}) \cup {"wallet"}
    BY FS_EmptySet
  <2>2. IsFiniteSet({} \cup {"worker"})
    BY <2>1, FS_AddElement
  <2>3. IsFiniteSet(({} \cup {"worker"}) \cup {"rpc"})
    BY <2>2, FS_AddElement
  <2>4. IsFiniteSet((({} \cup {"worker"}) \cup {"rpc"}) \cup {"wallet"})
    BY <2>3, FS_AddElement
  <2> QED BY <2>1, <2>4
<1>2. Owing(t, n) \subseteq {"worker", "rpc", "wallet"}
  BY GossipAssumption DEF Owing, Submitters
<1>3. IsFiniteSet(Owing(t, n))
  BY <1>1, <1>2, FS_Subset
<1> QED BY <1>3, FS_CardinalityType

\* Only s has moved on.
Moves(t, u, s) == \A x \in Submitters \ {s} : u[x] = t[x]

\* A submitter that comes to owe an announcement.
LEMMA OwesOne ==
  ASSUME NEW t, NEW u, NEW s \in Submitters, Moves(t, u, s), t[s].step # "announce",
         NEW n, u[s] = Holding("announce", n), NEW m
  PROVE  Cardinality(Owing(u, m)) = Cardinality(Owing(t, m)) + IF m = n THEN 1 ELSE 0
<1>1. \A x : Holding("announce", x).step = "announce" /\ Holding("announce", x).name = x
  BY DEF Holding
<1>2. s \notin Owing(t, m)
  BY <1>1 DEF Owing
<1>3. CASE m = n
  <2>1. Owing(u, m) = Owing(t, m) \cup {s}
    BY <1>3 DEF Owing, Moves
  <2> QED BY <1>2, <1>3, <2>1, OwingNat, FS_AddElement
<1>4. CASE m # n
  <2>1. Holding("announce", n) # Holding("announce", m)
    BY <1>1, <1>4
  <2>2. Owing(u, m) = Owing(t, m)
    BY <1>2, <2>1 DEF Owing, Moves
  <2> QED BY <1>4, <2>2, OwingNat
<1> QED BY <1>3, <1>4

\* A submitter that goes on without owing one.
LEMMA OwesNone ==
  ASSUME NEW t, NEW u, NEW s \in Submitters, Moves(t, u, s),
         t[s].step # "announce", u[s].step # "announce", NEW m
  PROVE  Owing(u, m) = Owing(t, m)
<1>1. \A x : Holding("announce", x).step = "announce"
  BY DEF Holding
<1> QED BY <1>1 DEF Owing, Moves

\* A submitter that has queued the one it owed.
LEMMA OwesLess ==
  ASSUME NEW t, NEW u, NEW s \in Submitters, Moves(t, u, s), NEW n, t[s] = Holding("announce", n),
         u[s].step # "announce", NEW m
  PROVE  Cardinality(Owing(u, m)) = Cardinality(Owing(t, m)) - IF m = n THEN 1 ELSE 0
<1>1. Cardinality(Owing(t, m)) = Cardinality(Owing(u, m)) + IF m = n THEN 1 ELSE 0
  <2>1. Moves(u, t, s)
    BY DEF Moves
  <2> QED BY <2>1, OwesOne
<1>2. Cardinality(Owing(t, m)) \in Nat /\ Cardinality(Owing(u, m)) \in Nat
  BY OwingNat
<1> QED BY <1>1, <1>2

\* What fits is never set aside, and a resident succeeds.
LEMMA OutcomeOK ==
  ASSUME NEW n \in Txs, NEW r \in Outcomes(n)
  PROVE  /\ r.ok \in BOOLEAN
         /\ r.to \subseteq {"pending", "conflict"} \X {n}
         /\ n \in Fits => r.to = {}
<1> DEFINE rivals == {m \in resident : <<n, m>> \in Rivals}
           loses == \E m \in rivals : <<n, m>> \notin Beats
           Result(ok, gone, to) == [ok |-> ok, gone |-> gone, to |-> to]
<1>1. CASE n \in resident
  <2>1. r = Result(TRUE, {}, {})
    BY <1>1 DEF Outcomes
  <2> QED BY <2>1
<1>2. CASE n \notin resident
  <2>1. /\ \/ \E gone : r = Result(TRUE, gone, {}) \/ r = Result(FALSE, gone, {})
           \/ \E cache \in {"pending", "conflict"} : r = Result(FALSE, {}, {<<cache, n>>})
        /\ <<"pending", n>> \in r.to => n \in Locked
        /\ <<"conflict", n>> \in r.to => loses
    BY <1>2 DEF Outcomes
  <2>2. n \in Fits => n \notin Locked /\ ~loses
    <3>1. ASSUME n \in Fits, NEW m, <<n, m>> \in Rivals PROVE FALSE
      <4>1. <<n, m>>[1] # n
        BY <3>1, Zenon DEF Fits
      <4> QED BY <4>1
    <3> QED BY <3>1 DEF Fits
  <2> HIDE DEF loses
  <2>3. CASE \E gone : r = Result(TRUE, gone, {}) \/ r = Result(FALSE, gone, {})
    <3>1. PICK gone : r = Result(TRUE, gone, {}) \/ r = Result(FALSE, gone, {})
      BY <2>3
    <3>2. (r.ok = TRUE \/ r.ok = FALSE) /\ r.to = {}
      BY <3>1
    <3> QED BY <3>2
  <2>4. ASSUME NEW cache \in {"pending", "conflict"}, r = Result(FALSE, {}, {<<cache, n>>})
        PROVE  /\ r.ok \in BOOLEAN /\ r.to \subseteq {"pending", "conflict"} \X {n}
               /\ n \in Fits => r.to = {}
    <3>1. r.ok = FALSE /\ r.to = {<<cache, n>>}
      BY <2>4
    <3>2. <<cache, n>> \in {"pending", "conflict"} \X {n}
      OBVIOUS
    <3> QED BY <2>1, <2>2, <3>1, <3>2
  <2> QED BY <2>1, <2>3, <2>4
<1> QED BY <1>1, <1>2

\* The announcements of a bundle are counted.
LEMMA SentInt ==
  ASSUME CountTypes, NEW n \in Txs
  PROVE  /\ Sent(n) \in Int /\ entered[n] \in Int
         /\ Sent(n) = told[n] + tx_announce[n] + follower.owed[n] + Cardinality(Owing(task, n))
<1>1. Cardinality(Owing(task, n)) \in Nat
  BY OwingNat
<1>2. Sent(n) = told[n] + tx_announce[n] + follower.owed[n] + Cardinality(Owing(task, n))
  BY DEF Sent, Owing
<1>3. told[n] \in Nat /\ tx_announce[n] \in Nat /\ follower.owed[n] \in Nat /\ entered[n] \in Nat
  BY DEF CountTypes
<1> QED BY <1>1, <1>2, <1>3

\* The counts stay balanced when nothing that is counted changes.
LEMMA CountStill ==
  ASSUME CountInv, CountTypes', UNCHANGED <<told, tx_announce, entered, follower.owed>>,
         \A n \in Txs : Owing(task', n) = Owing(task, n)
  PROVE  CountInv'
<1>1. ASSUME NEW n \in Txs PROVE Sent(n)' = Sent(n)
  BY DEF Sent, Owing
<1> QED BY <1>1 DEF CountInv, AnnouncedPerAdmission

\* admit_spend_bundle's last lock scope: the announcement that an admission
\* owes and the residence it begins go together.
LEMMA FinishCounts ==
  ASSUME CountInv, NEW s \in Submitters, Finish(s) PROVE CountInv'
<1> DEFINE n == task[s].name
<1>1. /\ UNCHANGED <<follower, tx_announce, told>>
      /\ task[s].step = "validate" /\ DOMAIN task = Submitters
  BY DEF Finish, CountInv, CountTypes
<1>2. Idle.step # "announce" /\ Idle.step = "idle"
  BY DEF Idle
<1>3. Moves(task, task', s)
  BY <1>1 DEF Finish, Moves
<1>4. DOMAIN task' = Submitters
  BY <1>1 DEF Finish
<1>5. CASE n \in Valid \ resident
  <2>1. PICK r \in Outcomes(n) :
          /\ entered' = Enter(n, r) /\ aside' = aside \cup r.to
          /\ task' = [task EXCEPT ![s] = IF r.ok THEN Holding("announce", n) ELSE Idle]
    BY <1>5 DEF Finish
  <2>2. n \in Txs /\ n \notin resident
    BY <1>5, GossipAssumption
  <2>3. /\ r.ok \in BOOLEAN /\ r.to \subseteq {"pending", "conflict"} \X {n}
        /\ n \in Fits => r.to = {}
    BY <2>2, OutcomeOK
  <2>4. aside' \subseteq Aside
    <3>1. r.to \subseteq Aside
      BY <2>2, <2>3 DEF Aside
    <3> QED BY <2>1, <3>1 DEF CountInv, CountTypes
  <2> HIDE DEF n
  <2>5. CASE r.ok
    <3>1. task' = [task EXCEPT ![s] = Holding("announce", n)] /\ entered' = [entered EXCEPT ![n] = @ + 1]
      BY <2>1, <2>2, <2>5 DEF Enter
    <3>2. CountTypes'
      <4>1. task'[s] = Holding("announce", n)
        BY <1>1, <3>1
      <4>2. entered' \in [Txs -> Nat]
        BY <2>2, <3>1 DEF CountInv, CountTypes
      <4> QED BY <1>1, <1>3, <1>4, <2>2, <2>4, <4>1, <4>2 DEF CountInv, CountTypes, Moves
    <3>3. ASSUME NEW m \in Txs
          PROVE  entered'[m] = entered[m] + (IF m = n THEN 1 ELSE 0) /\ Sent(m)' = Sent(m) + (IF m = n THEN 1 ELSE 0)
      <4>1. entered'[m] = entered[m] + (IF m = n THEN 1 ELSE 0)
        BY <2>2, <3>1 DEF CountInv, CountTypes
      <4>2. Cardinality(Owing(task', m)) = Cardinality(Owing(task, m)) + (IF m = n THEN 1 ELSE 0)
        <5>1. task'[s] = Holding("announce", n) /\ task[s].step # "announce"
          BY <1>1, <3>1
        <5> QED BY <1>3, <5>1, OwesOne
      <4>3. Cardinality(Owing(task, m)) \in Nat
        BY OwingNat
      <4>4. told[m] \in Nat /\ tx_announce[m] \in Nat /\ follower.owed[m] \in Nat
        BY DEF CountInv, CountTypes
      <4>5. /\ Sent(m) = told[m] + tx_announce[m] + follower.owed[m] + Cardinality(Owing(task, m))
            /\ Sent(m)' = told[m] + tx_announce[m] + follower.owed[m] + Cardinality(Owing(task', m))
        BY <1>1 DEF Sent, Owing
      <4> QED BY <4>1, <4>2, <4>3, <4>4, <4>5
    <3>4. ASSUME NEW m \in Txs PROVE Sent(m) \in Int /\ entered[m] \in Int
      BY SentInt DEF CountInv
    <3>5. ASSUME NEW m \in Txs PROVE entered'[m] <= Sent(m)' /\ (m \in Fits => Sent(m)' = entered'[m])
      BY <3>3, <3>4 DEF CountInv, AnnouncedPerAdmission
    <3> QED BY <3>2, <3>5 DEF CountInv, AnnouncedPerAdmission
  <2>6. CASE ~r.ok
    <3>1. task' = [task EXCEPT ![s] = Idle] /\ entered' = entered
      BY <2>1, <2>6 DEF Enter
    <3>2. \A m \in Txs : Owing(task', m) = Owing(task, m)
      <4>1. task'[s] = Idle /\ task[s].step # "announce"
        BY <1>1, <3>1
      <4> QED BY <1>2, <1>3, <4>1, OwesNone
    <3>3. CountTypes'
      <4>1. task'[s] = Idle
        BY <1>1, <3>1
      <4> QED BY <1>1, <1>2, <1>3, <1>4, <2>4, <3>1, <4>1 DEF CountInv, CountTypes, Moves
    <3> QED BY <1>1, <3>1, <3>2, <3>3, CountStill
  <2> QED BY <2>3, <2>5, <2>6
<1>6. CASE n \notin Valid \ resident
  <2>1. task' = [task EXCEPT ![s] = Idle] /\ UNCHANGED <<entered, aside>>
    BY <1>6 DEF Finish
  <2>2. \A m \in Txs : Owing(task', m) = Owing(task, m)
    <3>1. task'[s] = Idle /\ task[s].step # "announce"
      BY <1>1, <2>1
    <3> QED BY <1>2, <1>3, <3>1, OwesNone
  <2>3. CountTypes'
    <3>1. task'[s] = Idle
      BY <1>1, <2>1
    <3> QED BY <1>1, <1>2, <1>3, <1>4, <2>1, <3>1 DEF CountInv, CountTypes, Moves
  <2> QED BY <1>1, <2>1, <2>2, <2>3, CountStill
<1> QED BY <1>5, <1>6

\* The queued announcement is one that was owed.
LEMMA PushCounts ==
  ASSUME CountInv, NEW s \in Submitters, Push(s) PROVE CountInv'
<1>1. PICK n \in Txs : task[s] = Holding("announce", n)
  BY DEF Push, CountInv, CountTypes
<1>2. task[s].name = n
  BY <1>1 DEF Holding
<1>3. Idle.step # "announce"
  BY DEF Idle
<1>4. DOMAIN task = Submitters
  BY DEF CountInv, CountTypes
<1>5. /\ tx_announce' = [tx_announce EXCEPT ![n] = @ + 1]
      /\ task' = [task EXCEPT ![s] = Idle]
      /\ UNCHANGED <<aside, entered, follower, told>>
  BY <1>2 DEF Push, pool
<1>6. Moves(task, task', s) /\ task'[s] = Idle /\ DOMAIN task' = Submitters
  BY <1>4, <1>5 DEF Moves
<1>7. CountTypes'
  <2>1. tx_announce' \in [Txs -> Nat]
    BY <1>5 DEF CountInv, CountTypes
  <2> QED BY <1>3, <1>5, <1>6, <2>1 DEF CountInv, CountTypes, Moves
<1>8. ASSUME NEW m \in Txs PROVE Sent(m)' = Sent(m)
  <2>1. Cardinality(Owing(task', m)) = Cardinality(Owing(task, m)) - IF m = n THEN 1 ELSE 0
    BY <1>1, <1>3, <1>6, OwesLess
  <2>2. tx_announce'[m] = tx_announce[m] + IF m = n THEN 1 ELSE 0
    BY <1>5 DEF CountInv, CountTypes
  <2>3. /\ told[m] \in Nat /\ tx_announce[m] \in Nat /\ follower.owed[m] \in Nat
        /\ Cardinality(Owing(task, m)) \in Nat
    BY OwingNat DEF CountInv, CountTypes
  <2>4. Sent(m) = told[m] + tx_announce[m] + follower.owed[m] + Cardinality(Owing(task, m))
    BY SentInt DEF CountInv
  <2>5. Sent(m)' = told[m] + tx_announce'[m] + follower.owed[m] + Cardinality(Owing(task', m))
    BY <1>5 DEF Sent, Owing
  <2> QED BY <2>1, <2>2, <2>3, <2>4, <2>5
<1> QED BY <1>5, <1>7, <1>8 DEF CountInv, AnnouncedPerAdmission

\* A retry owes an announcement whenever a residence begins, and only what was
\* set aside is retried.
LEMMA RetryCounts ==
  ASSUME CountInv, Retry PROVE CountInv'
<1>1. PICK a \in follower.todo : \E r \in Outcomes(a[2]) :
        LET back == {b \in r.to : a[1] = "pending" /\ b[1] = "conflict"}
            todo == (follower.todo \ {a}) \cup back
        IN /\ aside' = aside \cup (r.to \ back)
           /\ follower' = [todo |-> todo, quiet |-> follower.quiet /\ todo # {},
                           owed |-> IF r.ok /\ ~follower.quiet
                                    THEN [follower.owed EXCEPT ![a[2]] = @ + 1] ELSE follower.owed]
           /\ entered' = IF follower.quiet THEN entered ELSE Enter(a[2], r)
  BY DEF Retry
<1> DEFINE n == a[2]
<1>2. PICK r \in Outcomes(n) :
        LET back == {b \in r.to : a[1] = "pending" /\ b[1] = "conflict"}
            todo == (follower.todo \ {a}) \cup back
        IN /\ aside' = aside \cup (r.to \ back)
           /\ follower' = [todo |-> todo, quiet |-> follower.quiet /\ todo # {},
                           owed |-> IF r.ok /\ ~follower.quiet
                                    THEN [follower.owed EXCEPT ![n] = @ + 1] ELSE follower.owed]
           /\ entered' = IF follower.quiet THEN entered ELSE Enter(n, r)
  BY <1>1
<1> DEFINE back == {b \in r.to : a[1] = "pending" /\ b[1] = "conflict"}
           todo == (follower.todo \ {a}) \cup back
           owed == IF r.ok /\ ~follower.quiet THEN [follower.owed EXCEPT ![n] = @ + 1] ELSE follower.owed
<1>3. n \in Txs \ Fits
  BY DEF CountInv, CountTypes, Aside
<1>4. r.ok \in BOOLEAN /\ r.to \subseteq {"pending", "conflict"} \X {n}
  BY <1>3, OutcomeOK
<1>5. r.to \subseteq Aside
  BY <1>3, <1>4 DEF Aside
<1>6. UNCHANGED <<task, tx_announce, told>>
  BY DEF Retry
<1>7. /\ follower' = [todo |-> todo, quiet |-> follower.quiet /\ todo # {}, owed |-> owed]
      /\ aside' = aside \cup (r.to \ back)
      /\ entered' = IF follower.quiet THEN entered ELSE Enter(n, r)
  BY <1>2
<1>8. todo \subseteq Aside /\ back \subseteq r.to
  BY <1>5 DEF CountInv, CountTypes
<1>9. follower.quiet \in BOOLEAN /\ follower.owed \in [Txs -> Nat] /\ entered \in [Txs -> Nat]
  BY DEF CountInv, CountTypes
<1> HIDE DEF back, todo, n
<1>10. owed \in [Txs -> Nat]
  BY <1>3, <1>9
<1>11. follower'.owed = owed /\ CountTypes'
  <2>1. Enter(n, r) \in [Txs -> Nat]
    BY <1>3, <1>9 DEF Enter
  <2>2. entered' \in [Txs -> Nat]
    BY <1>7, <1>9, <2>1
  <2>3. aside' \subseteq Aside
    BY <1>5, <1>7 DEF CountInv, CountTypes
  <2>4. (follower.quiet /\ todo # {}) \in BOOLEAN
    OBVIOUS
  <2> HIDE DEF owed
  <2>5. follower' \in [todo : SUBSET Aside, owed : [Txs -> Nat], quiet : BOOLEAN] /\ follower'.owed = owed
    BY <1>7, <1>8, <1>10, <2>4
  <2> QED BY <1>6, <2>2, <2>3, <2>5 DEF CountInv, CountTypes
<1>12. ASSUME NEW m \in Txs PROVE Sent(m)' = Sent(m) + (owed[m] - follower.owed[m])
  <2>1. /\ told[m] \in Nat /\ tx_announce[m] \in Nat /\ follower.owed[m] \in Nat /\ owed[m] \in Nat
        /\ Cardinality(Owing(task, m)) \in Nat
    BY <1>10, OwingNat DEF CountInv, CountTypes
  <2>2. Sent(m) = told[m] + tx_announce[m] + follower.owed[m] + Cardinality(Owing(task, m))
    BY SentInt DEF CountInv
  <2> HIDE DEF owed
  <2>3. Sent(m)' = told[m] + tx_announce[m] + owed[m] + Cardinality(Owing(task, m))
    BY <1>6, <1>11 DEF Sent, Owing
  <2> QED BY <2>1, <2>2, <2>3
<1>13. ASSUME NEW m \in Txs
       PROVE  entered'[m] <= Sent(m)' /\ (m \in Fits => Sent(m)' = entered'[m])
  <2>1. /\ Sent(m) \in Int /\ entered[m] \in Int /\ follower.owed[m] \in Int
        /\ entered[m] <= Sent(m) /\ (m \in Fits => Sent(m) = entered[m])
    BY <1>9, SentInt DEF CountInv, AnnouncedPerAdmission
  <2>2. CASE m = n /\ r.ok /\ ~follower.quiet
    <3>1. owed[m] = follower.owed[m] + 1 /\ m \notin Fits
      BY <1>3, <1>9, <2>2
    <3>2. entered'[m] = entered[m] \/ entered'[m] = entered[m] + 1
      BY <1>3, <1>7, <1>9, <2>2 DEF Enter
    <3> HIDE DEF owed
    <3> QED BY <1>12, <2>1, <3>1, <3>2
  <2>3. CASE ~(m = n /\ r.ok /\ ~follower.quiet)
    <3>1. owed[m] = follower.owed[m]
      BY <1>3, <1>9, <2>3
    <3>2. entered'[m] = entered[m]
      BY <1>3, <1>7, <1>9, <2>3 DEF Enter
    <3> HIDE DEF owed
    <3> QED BY <1>12, <2>1, <3>1, <3>2
  <2> QED BY <2>2, <2>3
<1> QED BY <1>11, <1>13 DEF CountInv, AnnouncedPerAdmission

\* Regossip and Tick move announcements on, and no other step counts any.
LEMMA CountStep == CountInv /\ [Next]_vars => CountInv'
<1> SUFFICES ASSUME CountInv, [Next]_vars PROVE CountInv'
  OBVIOUS
<1>1. CASE UNCHANGED <<task, aside, entered, follower, tx_announce, told>>
  <2>1. CountTypes'
    BY <1>1 DEF CountInv, CountTypes
  <2> QED BY <1>1, <2>1, CountStill
<1>2. ASSUME NEW s \in Submitters, Finish(s) \/ Push(s) PROVE CountInv'
  BY <1>2, FinishCounts, PushCounts
<1>3. ASSUME NEW s \in Submitters, NEW n, Begin(s, n) PROVE CountInv'
  <2>1. UNCHANGED <<aside, entered, follower, tx_announce, told>> /\ task[s] = Idle
    BY <1>3 DEF Begin
  <2>2. DOMAIN task = Submitters
    BY DEF CountInv, CountTypes
  <2>3. Idle.step # "announce" /\ Holding("validate", n).step # "announce"
    BY DEF Idle, Holding
  <2>4. CASE task' = task
    BY <1>1, <2>1, <2>4
  <2>5. CASE task' = [task EXCEPT ![s] = Holding("validate", n)]
    <3>1. Moves(task, task', s) /\ task'[s] = Holding("validate", n) /\ DOMAIN task' = Submitters
      BY <2>2, <2>5 DEF Moves
    <3>2. \A m \in Txs : Owing(task', m) = Owing(task, m)
      BY <2>1, <2>3, <3>1, OwesNone
    <3>3. CountTypes'
      BY <2>1, <2>3, <3>1 DEF CountInv, CountTypes, Moves
    <3> QED BY <2>1, <3>2, <3>3, CountStill
  <2> QED BY <1>3, <2>4, <2>5 DEF Begin
<1>4. ASSUME NEW quiet \in BOOLEAN, NewPeak(quiet) PROVE CountInv'
  <2>1. PICK todo : /\ todo \subseteq aside /\ aside' = aside \ todo
                    /\ follower' = [follower EXCEPT !.todo = todo, !.quiet = quiet /\ todo # {}]
    BY <1>4 DEF NewPeak
  <2>2. UNCHANGED <<task, entered, tx_announce, told>>
    BY <1>4 DEF NewPeak
  <2>3. CountTypes' /\ follower'.owed = follower.owed
    <3>1. (quiet /\ todo # {}) \in BOOLEAN
      OBVIOUS
    <3> QED BY <2>1, <2>2, <3>1 DEF CountInv, CountTypes
  <2> QED BY <2>2, <2>3, CountStill
<1>5. ASSUME Regossip PROVE CountInv'
  <2>1. PICK n \in Txs : /\ follower.owed[n] > 0
                         /\ follower' = [follower EXCEPT !.owed[n] = @ - 1]
                         /\ tx_announce' = [tx_announce EXCEPT ![n] = @ + 1]
    BY <1>5 DEF Regossip
  <2>2. UNCHANGED <<task, aside, entered, told>>
    BY <1>5 DEF Regossip, pool
  <2>3. /\ follower \in [todo : SUBSET Aside, owed : [Txs -> Nat], quiet : BOOLEAN]
        /\ tx_announce \in [Txs -> Nat] /\ told \in [Txs -> Nat]
    BY DEF CountInv, CountTypes
  <2> DEFINE owed == [follower.owed EXCEPT ![n] = @ - 1]
  <2>4. owed \in [Txs -> Nat]
    BY <2>1, <2>3
  <2>5. follower' = [follower EXCEPT !.owed = owed]
    BY <2>1
  <2>6. CountTypes' /\ follower'.owed = owed
    <3>1. tx_announce' \in [Txs -> Nat]
      BY <2>1, <2>3
    <3> HIDE DEF owed
    <3> QED BY <2>2, <2>3, <2>4, <2>5, <3>1 DEF CountInv, CountTypes
  <2>7. ASSUME NEW m \in Txs PROVE Sent(m)' = Sent(m)
    <3>1. tx_announce'[m] + owed[m] = tx_announce[m] + follower.owed[m]
      <4>1. CASE m = n
        BY <2>1, <2>3, <4>1
      <4>2. CASE m # n
        BY <2>1, <2>3, <4>2
      <4> QED BY <4>1, <4>2
    <3>2. /\ tx_announce'[m] \in Nat /\ owed[m] \in Nat /\ tx_announce[m] \in Nat
          /\ follower.owed[m] \in Nat /\ told[m] \in Nat /\ Cardinality(Owing(task, m)) \in Nat
      BY <2>3, <2>4, <2>6, OwingNat DEF CountTypes
    <3> HIDE DEF owed
    <3>3. Sent(m) = told[m] + tx_announce[m] + follower.owed[m] + Cardinality(Owing(task, m))
      BY SentInt DEF CountInv
    <3>4. Sent(m)' = told[m] + tx_announce'[m] + owed[m] + Cardinality(Owing(task, m))
      BY <2>2, <2>6 DEF Sent, Owing
    <3> QED BY <3>1, <3>2, <3>3, <3>4
  <2> QED BY <2>2, <2>6, <2>7 DEF CountInv, AnnouncedPerAdmission
<1>6. ASSUME Tick PROVE CountInv'
  <2>1. /\ told' = [n \in Txs |-> told[n] + tx_announce[n]] /\ tx_announce' = [n \in Txs |-> 0]
        /\ UNCHANGED <<task, aside, entered, follower>>
    BY <1>6 DEF Tick, None, pool
  <2>2. tx_announce \in [Txs -> Nat] /\ told \in [Txs -> Nat]
    BY DEF CountInv, CountTypes
  <2>3. CountTypes'
    BY <2>1, <2>2 DEF CountInv, CountTypes
  <2>4. ASSUME NEW m \in Txs PROVE Sent(m)' = Sent(m)
    <3>1. told'[m] + tx_announce'[m] = told[m] + tx_announce[m]
      BY <2>1, <2>2
    <3>2. /\ Sent(m) = told[m] + tx_announce[m] + follower.owed[m] + Cardinality(Owing(task, m))
          /\ Sent(m)' = told'[m] + tx_announce'[m] + follower.owed[m] + Cardinality(Owing(task, m))
      BY <2>1 DEF Sent, Owing
    <3> QED BY <3>1, <3>2
  <2> QED BY <2>1, <2>3, <2>4 DEF CountInv, AnnouncedPerAdmission
<1>7. ASSUME NEW p \in Peers, NEW n \in Txs, Announce(p, n) \/ Ban(p, n) \/ Respond(p, n)
      PROVE  CountInv'
  BY <1>1, <1>7 DEF Announce, Ban, Respond, pool
<1>8. ASSUME Drain \/ SetSynced \/ RevalidateForReorg \/ UNCHANGED vars PROVE CountInv'
  BY <1>1, <1>8 DEF Drain, SetSynced, RevalidateForReorg, vars, pool
<1>9. CASE Work
  BY <1>3, <1>9 DEF Work, Submitters
<1>10. CASE "wallet" \in left.clients /\ \E n \in Local : SendTransaction(n)
  BY <1>3, <1>10 DEF SendTransaction, Submitters
<1>11. CASE "rpc" \in left.clients /\ \E n \in Local : push_tx(n)
  BY <1>3, <1>11 DEF push_tx, Submitters
<1> QED BY <1>2, <1>4, <1>5, <1>6, <1>7, <1>8, <1>9, <1>10, <1>11, RetryCounts DEF Next

\* Every residence that a submitter or a followed peak begins is announced, by
\* whoever began it, and nothing else is where nothing is set aside
\* (admit_spend_bundle's recheck under the lock, notify_new_peak's re-gossip).
THEOREM AdmissionsAnnounced == Spec => []AnnouncedPerAdmission
<1>1. Init => CountInv
  <2> SUFFICES ASSUME Init PROVE CountInv
    OBVIOUS
  <2>1. /\ told = [n \in Txs |-> 0] /\ tx_announce = [n \in Txs |-> 0] /\ entered = [n \in Txs |-> 0]
        /\ follower = [todo |-> {}, owed |-> [n \in Txs |-> 0], quiet |-> FALSE]
        /\ aside = {} /\ task = [s \in Submitters |-> Idle]
    BY DEF Init, None
  <2>2. Idle.step # "announce"
    BY DEF Idle
  <2>3. CountTypes
    BY <2>1, <2>2 DEF CountTypes
  <2>4. ASSUME NEW n \in Txs PROVE Sent(n) = 0 /\ entered[n] = 0
    <3>1. Holding("announce", n).step = "announce"
      BY DEF Holding
    <3>2. Owing(task, n) = {}
      BY <2>1, <2>2, <3>1 DEF Owing
    <3>3. Cardinality(Owing(task, n)) = 0
      BY <3>2, FS_EmptySet
    <3> QED BY <2>1, <2>3, <3>3, SentInt
  <2> QED BY <2>3, <2>4 DEF CountInv, AnnouncedPerAdmission
<1>2. CountInv => AnnouncedPerAdmission
  BY DEF CountInv
<1> QED BY <1>1, <1>2, CountStep, PTL DEF Spec

-----------------------------------------------------------------------------
(* The order of a lane.                                                    *)

Entry == [name : Txs, fee : Nat, cost : Nat]
Lane == [queue : Seq(Entry), deficit : Nat]

Sorted(s) == \A i, j \in DOMAIN s : i < j => ~fee_per_cost_desc(s[j], s[i])

\* Cross-multiplied fees per cost are transitive.
LEMMA Rates ==
  ASSUME NEW af \in Nat, NEW ac \in Nat, NEW bf \in Nat, NEW bc \in Nat, NEW cf \in Nat, NEW cc \in Nat,
         ac > 0, bc > 0, cc > 0, af * bc > bf * ac, bf * cc > cf * bc
  PROVE  af * cc > cf * ac
<1>1. (af * bc) * cc > (bf * ac) * cc
  OBVIOUS
<1>2. (bf * cc) * ac > (cf * bc) * ac
  OBVIOUS
<1>3. (bf * ac) * cc = (bf * cc) * ac
  OBVIOUS
<1>4. (af * bc) * cc = (af * cc) * bc /\ (cf * bc) * ac = (cf * ac) * bc
  OBVIOUS
<1> DEFINE x == af * cc
           y == cf * ac
<1>5. x \in Nat /\ y \in Nat
  OBVIOUS
<1>6. x * bc > y * bc
  BY <1>1, <1>2, <1>3, <1>4
<1> HIDE DEF x, y
<1>7. x > y
  BY <1>5, <1>6
<1> QED BY <1>7 DEF x, y

\* fee_per_cost_desc is a strict order.
LEMMA DescOrder ==
  ASSUME NEW a \in Entry, NEW b \in Entry, NEW c \in Entry, fee_per_cost_desc(a, b)
  PROVE  /\ ~fee_per_cost_desc(b, a)
         /\ fee_per_cost_desc(b, c) => fee_per_cost_desc(a, c)
<1>1. /\ a.fee \in Nat /\ a.cost \in Nat /\ b.fee \in Nat /\ b.cost \in Nat
      /\ c.fee \in Nat /\ c.cost \in Nat
  BY DEF Entry
<1>2. a.cost > 0 /\ (b.cost > 0 => a.fee * b.cost > b.fee * a.cost)
  BY <1>1 DEF fee_per_cost_desc
<1>3. ~fee_per_cost_desc(b, a)
  <2>1. CASE b.cost = 0
    BY <1>1, <2>1 DEF fee_per_cost_desc
  <2>2. CASE b.cost > 0
    <3>1. fee_per_cost_desc(b, a) => b.fee * a.cost > a.fee * b.cost
      BY <1>1, <1>2, <2>2 DEF fee_per_cost_desc
    <3>2. a.fee * b.cost \in Nat /\ b.fee * a.cost \in Nat
      BY <1>1
    <3> QED BY <1>2, <2>2, <3>1, <3>2
  <2> QED BY <1>1, <2>1, <2>2
<1>4. ASSUME fee_per_cost_desc(b, c) PROVE fee_per_cost_desc(a, c)
  <2>1. b.cost > 0 /\ (c.cost > 0 => b.fee * c.cost > c.fee * b.cost)
    BY <1>1, <1>4 DEF fee_per_cost_desc
  <2>2. CASE c.cost = 0
    BY <1>1, <1>2, <2>2 DEF fee_per_cost_desc
  <2>3. CASE c.cost > 0
    <3>1. a.fee * c.cost > c.fee * a.cost
      BY <1>1, <1>2, <2>1, <2>3, Rates
    <3> QED BY <1>1, <1>2, <2>3, <3>1 DEF fee_per_cost_desc
  <2> QED BY <1>1, <2>2, <2>3
<1> QED BY <1>3, <1>4

\* What InsertAt leaves.
LEMMA Inserted ==
  ASSUME NEW s \in Seq(Entry), NEW e \in Entry, NEW i \in 1 .. Len(s) + 1
  PROVE  /\ InsertAt(s, i, e) \in Seq(Entry) /\ Len(InsertAt(s, i, e)) = Len(s) + 1
         /\ \A k \in 1 .. i - 1 : InsertAt(s, i, e)[k] = s[k]
         /\ InsertAt(s, i, e)[i] = e
         /\ \A k \in i + 1 .. Len(s) + 1 : InsertAt(s, i, e)[k] = s[k - 1]
<1> DEFINE A == SubSeq(s, 1, i - 1)
           B == SubSeq(s, i, Len(s))
           C == A \o <<e>>
<1>1. A \in Seq(Entry) /\ Len(A) = i - 1 /\ \A k \in 1 .. i - 1 : A[k] = s[k]
  OBVIOUS
<1>2. B \in Seq(Entry) /\ Len(B) = Len(s) - i + 1 /\ \A k \in 1 .. Len(s) - i + 1 : B[k] = s[i + k - 1]
  OBVIOUS
<1>3. InsertAt(s, i, e) = C \o B
  BY DEF InsertAt
<1> HIDE DEF A, B
<1>4. C \in Seq(Entry) /\ Len(C) = i /\ C[i] = e /\ \A k \in 1 .. i - 1 : C[k] = s[k]
  BY <1>1
<1> HIDE DEF C
<1>5. C \o B \in Seq(Entry) /\ Len(C \o B) = Len(C) + Len(B)
  BY <1>2, <1>4, ConcatProperties
<1>6. Len(C \o B) = Len(s) + 1
  BY <1>2, <1>4, <1>5
<1>7. \A k \in 1 .. i : (C \o B)[k] = C[k]
  BY <1>2, <1>4
<1>8. \A k \in i + 1 .. Len(s) + 1 : (C \o B)[k] = B[k - i] /\ B[k - i] = s[k - 1]
  BY <1>2, <1>4
<1> QED BY <1>3, <1>4, <1>5, <1>6, <1>7, <1>8

\* Inserting before the first entry that pays less keeps the order.
LEMMA InsertSorted ==
  ASSUME NEW s \in Seq(Entry), Sorted(s), NEW e \in Entry, NEW i \in 1 .. Len(s) + 1,
         \A k \in 1 .. i - 1 : ~fee_per_cost_desc(e, s[k]),
         i <= Len(s) => fee_per_cost_desc(e, s[i])
  PROVE  Sorted(InsertAt(s, i, e))
<1> DEFINE t == InsertAt(s, i, e)
<1>1. /\ t \in Seq(Entry) /\ Len(t) = Len(s) + 1
      /\ \A k \in 1 .. i - 1 : t[k] = s[k]
      /\ t[i] = e
      /\ \A k \in i + 1 .. Len(s) + 1 : t[k] = s[k - 1]
  BY Inserted
<1> HIDE DEF t
<1>2. \A k \in 1 .. Len(s) : s[k] \in Entry
  OBVIOUS
<1>3. \A k, l \in 1 .. Len(s) : k < l => ~fee_per_cost_desc(s[l], s[k])
  BY DEF Sorted
<1>4. ASSUME NEW k \in i .. Len(s) PROVE ~fee_per_cost_desc(s[k], e)
  <2>1. fee_per_cost_desc(e, s[i]) /\ i \in 1 .. Len(s) /\ k \in 1 .. Len(s)
    OBVIOUS
  <2>2. CASE k = i
    BY <1>2, <2>1, <2>2, DescOrder
  <2>3. CASE k # i
    <3>1. ~fee_per_cost_desc(s[k], s[i])
      BY <1>3, <2>1, <2>3
    <3> QED BY <1>2, <2>1, <3>1, DescOrder
  <2> QED BY <2>2, <2>3
<1>5. ASSUME NEW k \in 1 .. Len(s) + 1, NEW l \in 1 .. Len(s) + 1, k < l
      PROVE  ~fee_per_cost_desc(t[l], t[k])
  <2>1. CASE l < i
    BY <1>1, <1>3, <1>5, <2>1
  <2>2. CASE l = i
    BY <1>1, <1>5, <2>2
  <2>3. CASE l > i /\ k < i
    <3>1. t[l] = s[l - 1] /\ t[k] = s[k] /\ l - 1 \in 1 .. Len(s) /\ k \in 1 .. Len(s) /\ k < l - 1
      BY <1>1, <1>5, <2>3
    <3> QED BY <1>3, <3>1
  <2>4. CASE l > i /\ k = i
    <3>1. t[l] = s[l - 1] /\ t[k] = e /\ l - 1 \in i .. Len(s)
      BY <1>1, <1>5, <2>4
    <3> QED BY <1>4, <3>1
  <2>5. CASE l > i /\ k > i
    <3>1. t[l] = s[l - 1] /\ t[k] = s[k - 1] /\ l - 1 \in 1 .. Len(s) /\ k - 1 \in 1 .. Len(s) /\ k - 1 < l - 1
      BY <1>1, <1>5, <2>5
    <3> QED BY <1>3, <3>1
  <2> QED BY <2>1, <2>2, <2>3, <2>4, <2>5
<1>6. DOMAIN t = 1 .. Len(s) + 1
  BY <1>1
<1>7. Sorted(t)
  BY <1>5, <1>6 DEF Sorted
<1> QED BY <1>7 DEF t

-----------------------------------------------------------------------------
(* What the lanes hold.                                                    *)

Held(lanes, S) == MapThenSumSet(LAMBDA p : Len(lanes[p].queue), S)

\* Held is the sum of any function that gives the lengths.
LEMMA HeldIsSum ==
  ASSUME NEW S, IsFiniteSet(S), NEW lanes, \A p \in S : Len(lanes[p].queue) \in Int,
         NEW f, \A p \in S : f[p] = Len(lanes[p].queue)
  PROVE  Held(lanes, S) = Sum(f, S)
<1> DEFINE P(g) == g = [s \in SUBSET S |-> IF s = {} THEN 0
                                           ELSE Len(lanes[Chosen(s)].queue) + g[s \ {Chosen(s)}]]
           I == CHOOSE g : P(g)
<1>1. \A s \in SUBSET S : s # {} => Len(lanes[Chosen(s)].queue) = f[Chosen(s)]
  BY DEF Chosen
<1>2. \A g : P(g) <=> Sums(g, f, S)
  BY <1>1 DEF Sums
<1>3. \E g : Sums(g, f, S)
  <2>1. \A p \in S : f[p] \in Int
    OBVIOUS
  <2> QED BY <2>1, SumsExist
<1>4. Held(lanes, S) = I[S]
  BY DEF Held, MapThenSumSet, MapThenFoldSet, Chosen
<1> HIDE DEF P
<1>5. P(I)
  BY <1>2, <1>3, Zenon
<1> HIDE DEF I
<1>6. Sums(I, f, S)
  BY <1>2, <1>5
<1>7. \A p \in S : f[p] \in Int
  OBVIOUS
<1>8. Sum(f, S) = I[S]
  BY <1>6, <1>7, SumDef
<1> QED BY <1>4, <1>8

\* f gives the lengths of the lanes S.
Lengths(f, lanes, S) == \A p \in S : f[p] = Len(lanes[p].queue) /\ f[p] \in Int

Agree(f, h, S) == \A x \in S : h[x] = f[x]

\* Changing one lane changes what the lanes hold by what it gained; a new lane
\* counts as empty before.
LEMMA HeldPut ==
  ASSUME NEW D, IsFiniteSet(D), NEW p, NEW E, E = D \cup {p}, NEW old, NEW new, NEW f, NEW h,
         Lengths(f, old, D), Lengths(h, new, E), Agree(f, h, D \ {p})
  PROVE  /\ Held(old, D) \in Int
         /\ p \in D => Held(new, E) = Held(old, D) + h[p] - f[p]
         /\ p \notin D => Held(new, E) = Held(old, D) + h[p]
<1> DEFINE R == D \ {p}
<1>1. IsFiniteSet(R) /\ IsFiniteSet(R \cup {p}) /\ R \cup {p} = D \cup {p} /\ p \notin R
  BY FS_Subset, FS_AddElement
<1>2. (\A x \in D : f[x] \in Int) /\ \A x \in D \cup {p} : h[x] \in Int
  BY DEF Lengths
<1>3. \A x \in R : f[x] \in Int /\ h[x] = f[x]
  BY <1>2 DEF Agree
<1> HIDE DEF R
<1>4. Held(old, D) = Sum(f, D)
  BY HeldIsSum DEF Lengths
<1>5. Held(new, D \cup {p}) = Sum(h, D \cup {p})
  <2>1. IsFiniteSet(D \cup {p})
    BY <1>1
  <2> QED BY <2>1, HeldIsSum DEF Lengths
<1>6. Sum(h, R \cup {p}) = Sum(h, R) + h[p] /\ Sum(h, R) \in Int
  BY <1>1, <1>2, SumAdd
<1>7. Sum(h, R) = Sum(f, R)
  BY <1>1, <1>3, SumSame
<1>8. Held(new, D \cup {p}) = Sum(f, R) + h[p] /\ Sum(f, R) \in Int /\ h[p] \in Int
  BY <1>1, <1>2, <1>5, <1>6, <1>7
<1>9. CASE p \in D
  <2>1. D = R \cup {p}
    BY <1>1, <1>9
  <2>2. Sum(f, R \cup {p}) = Sum(f, R) + f[p]
    BY <1>1, <1>2, <2>1, SumAdd
  <2>3. Held(old, D) = Sum(f, R) + f[p] /\ f[p] \in Int
    BY <1>2, <1>4, <1>9, <2>1, <2>2
  <2> QED BY <1>8, <1>9, <2>3
<1>10. CASE p \notin D
  <2>1. D = R
    BY <1>10 DEF R
  <2>2. Held(old, D) = Sum(f, R)
    BY <1>4, <2>1
  <2> QED BY <1>8, <1>10, <2>2
<1> QED BY <1>9, <1>10

-----------------------------------------------------------------------------
(* The inbox.                                                              *)

Lanes == UNION {[D -> Lane] : D \in SUBSET Peers}

\* The shape of a queue.
Shape(q) ==
  /\ q \in [high : Seq(Entry), lanes : Lanes, order : Seq(Peers), cursor : Nat,
            total_untrusted : Nat]
  /\ IsFiniteSet(DOMAIN q.lanes)

\* LanesExact, of any queue.
Exact(q) ==
  /\ q.total_untrusted = Held(q.lanes, DOMAIN q.lanes)
  /\ q.total_untrusted <= Cap
  /\ ToSet(q.order) = DOMAIN q.lanes /\ IsInjective(q.order)
  /\ \A p \in DOMAIN q.lanes : Len(q.lanes[p].queue) <= PerPeer /\ Sorted(q.lanes[p].queue)

\* The queue that a push into a lane leaves.
LEMMA PushLane ==
  ASSUME NEW q, Shape(q), Exact(q), NEW p \in Peers, NEW e \in Entry,
         ~(q.total_untrusted >= Cap)
  PROVE  Shape(push(q, p, e, FALSE)) /\ Exact(push(q, p, e, FALSE))
<1> DEFINE D == DOMAIN q.lanes
           known == p \in D
           lane == IF known THEN q.lanes[p] ELSE [queue |-> <<>>, deficit |-> 0]
           s == lane.queue
           full == Len(s) >= PerPeer
           I == {i \in 1 .. Len(s) : fee_per_cost_desc(e, s[i])}
           pos == IF I # {} THEN Min(I) ELSE 0
           at == IF pos = 0 THEN Len(s) + 1 ELSE pos
           queue == IF full THEN s ELSE InsertAt(s, at, e)
           fresh == [lane EXCEPT !.queue = queue]
           lanes == Put(q.lanes, p, fresh)
           order == IF known THEN q.order ELSE Append(q.order, p)
           total == IF full THEN q.total_untrusted ELSE q.total_untrusted + 1
           r == [q EXCEPT !.order = order, !.lanes = lanes, !.total_untrusted = total]
<1>1. push(q, p, e, FALSE) = r
  BY DEF push, SelectInSeq
<1>2. /\ q.lanes \in Lanes /\ q.order \in Seq(Peers) /\ q.total_untrusted \in Nat
      /\ D \subseteq Peers /\ \A x \in D : q.lanes[x] \in Lane
  BY DEF Shape, Lanes
<1>3. /\ lane \in Lane /\ s \in Seq(Entry) /\ Sorted(s) /\ Len(s) <= PerPeer
      /\ Len(s) \in Nat
  <2>1. CASE known
    BY <1>2, <2>1 DEF Exact, Lane
  <2>2. CASE ~known
    <3>1. lane = [queue |-> <<>>, deficit |-> 0] /\ s = <<>>
      BY <2>2
    <3>2. Len(<<>>) = 0 /\ DOMAIN <<>> = {}
      OBVIOUS
    <3> HIDE DEF lane
    <3> QED BY <3>1, <3>2, QueueAssumption DEF Lane, Sorted
  <2> QED BY <2>1, <2>2
<1> HIDE DEF lane
<1>4. at \in 1 .. Len(s) + 1 /\ (\A k \in 1 .. at - 1 : ~fee_per_cost_desc(e, s[k]))
      /\ (at <= Len(s) => fee_per_cost_desc(e, s[at]))
  <2>1. CASE I = {}
    <3>1. at = Len(s) + 1
      BY <2>1
    <3>2. \A k \in 1 .. Len(s) : ~fee_per_cost_desc(e, s[k])
      BY <2>1
    <3> HIDE DEF at
    <3> QED BY <1>3, <3>1, <3>2
  <2>2. CASE I # {}
    <3>1. I \subseteq Nat
      OBVIOUS
    <3>2. \E m \in I : \A k \in I : m <= k
      <4> HIDE DEF I
      <4> QED BY <2>2, <3>1, LeastOf
    <3>3. Min(I) \in I /\ \A k \in I : Min(I) <= k
      <4> HIDE DEF I
      <4> QED BY <3>2, Zenon DEF Min
    <3>4. at = Min(I)
      BY <2>2, <3>3
    <3>5. at \in I /\ \A k \in I : at <= k
      BY <3>3, <3>4
    <3> HIDE DEF at, pos
    <3> QED BY <1>3, <3>5
  <2> QED BY <2>1, <2>2
<1> HIDE DEF I, pos, at
<1>5. /\ queue \in Seq(Entry) /\ Sorted(queue) /\ Len(queue) <= PerPeer
      /\ Len(queue) = Len(s) + total - q.total_untrusted
  <2>1. CASE full
    BY <1>2, <1>3, <2>1
  <2>2. CASE ~full
    <3>1. queue = InsertAt(s, at, e) /\ total = q.total_untrusted + 1 /\ Len(s) < PerPeer
      BY <1>3, <2>2, QueueAssumption
    <3>2. InsertAt(s, at, e) \in Seq(Entry) /\ Len(InsertAt(s, at, e)) = Len(s) + 1
      BY <1>3, <1>4, Inserted
    <3>3. Sorted(InsertAt(s, at, e))
      BY <1>3, <1>4, InsertSorted
    <3> HIDE DEF queue, total, s
    <3> QED BY <1>2, <1>3, <3>1, <3>2, <3>3, QueueAssumption
  <2> QED BY <2>1, <2>2
<1>6. total \in Nat /\ total <= Cap
  BY <1>2, QueueAssumption
<1> HIDE DEF total
<1>7. fresh \in Lane /\ fresh.queue = queue
  BY <1>3, <1>5 DEF Lane
<1> HIDE DEF queue, s, fresh
<1>8. /\ DOMAIN lanes = D \cup {p} /\ lanes[p] = fresh
      /\ \A x \in D \ {p} : lanes[x] = q.lanes[x]
  BY DEF Put
<1>9. lanes \in [D \cup {p} -> Lane]
  BY <1>2, <1>7 DEF Put
<1>10. lanes \in Lanes /\ IsFiniteSet(DOMAIN lanes)
  <2>1. IsFiniteSet(D \cup {p})
    BY FS_AddElement DEF Shape
  <2> QED BY <1>2, <1>8, <1>9, <2>1 DEF Lanes
<1> HIDE DEF lanes
<1>11. order \in Seq(Peers) /\ ToSet(order) = D \cup {p} /\ IsInjective(order)
  <2>1. CASE known
    BY <1>2, <2>1 DEF Exact
  <2>2. CASE ~known
    <3> DEFINE t == q.order
    <3>1. order = Append(t, p) /\ t \in Seq(Peers)
      BY <1>2, <2>2
    <3>2. p \notin ToSet(t) /\ ToSet(t) = D /\ IsInjective(t)
      BY <2>2 DEF Exact
    <3> HIDE DEF t, order
    <3>3. /\ order \in Seq(Peers) /\ DOMAIN order = DOMAIN t \cup {Len(t) + 1}
          /\ order[Len(t) + 1] = p /\ \A k \in DOMAIN t : order[k] = t[k]
      BY <3>1
    <3>4. ToSet(order) = ToSet(t) \cup {p}
      BY <3>3 DEF ToSet
    <3>5. IsInjective(order)
      <4>1. \A k \in DOMAIN t : t[k] # p
        BY <3>2 DEF ToSet
      <4> QED BY <3>2, <3>3, <4>1 DEF IsInjective
    <3> QED BY <3>2, <3>3, <3>4, <3>5
  <2> QED BY <2>1, <2>2
<1> HIDE DEF order
<1>12. /\ r.lanes = lanes /\ r.order = order /\ r.total_untrusted = total
       /\ r \in [high : Seq(Entry), lanes : Lanes, order : Seq(Peers), cursor : Nat,
                 total_untrusted : Nat]
  BY <1>6, <1>10, <1>11 DEF Shape
<1>13. Held(lanes, D \cup {p}) = total
  <2> DEFINE f == [x \in D |-> Len(q.lanes[x].queue)]
             h == [x \in D \cup {p} |-> Len(lanes[x].queue)]
  <2>1. \A x \in D : Len(q.lanes[x].queue) \in Int
    BY <1>2 DEF Lane
  <2>2. \A x \in D \ {p} : Len(lanes[x].queue) = Len(q.lanes[x].queue)
    BY <1>8
  <2>3. Len(lanes[p].queue) = Len(queue) /\ Len(queue) \in Int
    BY <1>5, <1>7, <1>8
  <2>4. IsFiniteSet(D) /\ Held(q.lanes, D) = q.total_untrusted
    BY DEF Shape, Exact
  <2>5. (p \in D => Len(s) = Len(q.lanes[p].queue)) /\ (p \notin D => Len(s) = 0)
    BY DEF s, lane
  <2>6. Lengths(f, q.lanes, D) /\ Lengths(h, lanes, D \cup {p}) /\ \A x \in D \ {p} : h[x] = f[x]
    BY <2>1, <2>2, <2>3 DEF Lengths
  <2>7. h[p] = Len(queue) /\ (p \in D => f[p] = Len(s))
    BY <2>3, <2>5
  <2> DEFINE was == q.lanes
             E == D \cup {p}
  <2>8. /\ IsFiniteSet(D) /\ Lengths(f, was, D) /\ Lengths(h, lanes, E) /\ E = D \cup {p}
        /\ Agree(f, h, D \ {p})
    BY <2>4, <2>6 DEF Agree
  <2> HIDE DEF D, f, h, was, E
  <2>9. /\ p \in D => Held(lanes, E) = Held(was, D) + h[p] - f[p]
        /\ p \notin D => Held(lanes, E) = Held(was, D) + h[p]
    BY <2>8, HeldPut
  <2>10. Held(was, D) = q.total_untrusted
    BY <2>4 DEF was
  <2>11. Len(queue) \in Int /\ Len(s) \in Int /\ q.total_untrusted \in Int /\ total \in Int
    BY <1>2, <1>3, <1>6, <2>3
  <2>12. CASE p \in D
    <3>1. Held(lanes, E) = q.total_untrusted + Len(queue) - Len(s)
      BY <2>7, <2>9, <2>10, <2>12
    <3> QED BY <1>5, <2>8, <2>11, <3>1
  <2>13. CASE p \notin D
    <3>1. Held(lanes, E) = q.total_untrusted + Len(queue) /\ Len(s) = 0
      BY <2>5, <2>7, <2>9, <2>10, <2>13
    <3> QED BY <1>5, <2>8, <2>11, <3>1
  <2> QED BY <2>12, <2>13
<1>14. \A x \in D \cup {p} : Len(lanes[x].queue) <= PerPeer /\ Sorted(lanes[x].queue)
  BY <1>5, <1>7, <1>8 DEF Exact
<1> HIDE DEF r
<1>15. Shape(r)
  BY <1>10, <1>12 DEF Shape
<1>16. Exact(r)
  BY <1>6, <1>8, <1>11, <1>12, <1>13, <1>14 DEF Exact
<1> QED BY <1>1, <1>15, <1>16

\* push keeps the inbox exact, whatever it does with the entry.
LEMMA PushOK ==
  ASSUME NEW q, Shape(q), Exact(q), NEW p \in Peers, NEW e \in Entry, NEW high \in BOOLEAN
  PROVE  Shape(push(q, p, e, high)) /\ Exact(push(q, p, e, high))
<1>1. CASE high
  <2> DEFINE r == [q EXCEPT !.high = Append(q.high, e)]
  <2>1. push(q, p, e, high) = r
    BY <1>1 DEF push
  <2>2. /\ r \in [high : Seq(Entry), lanes : Lanes, order : Seq(Peers), cursor : Nat,
                  total_untrusted : Nat]
        /\ r.lanes = q.lanes /\ r.order = q.order /\ r.total_untrusted = q.total_untrusted
    <3> DEFINE t == Append(q.high, e)
    <3>1. t \in Seq(Entry)
      BY DEF Shape
    <3> HIDE DEF t
    <3>2. r = [q EXCEPT !.high = t]
      BY DEF t
    <3> QED BY <3>1, <3>2 DEF Shape
  <2> HIDE DEF r
  <2> QED BY <2>1, <2>2 DEF Shape, Exact
<1>2. CASE ~high /\ q.total_untrusted >= Cap
  <2>1. push(q, p, e, high) = q
    BY <1>2 DEF push
  <2> QED BY <2>1
<1>3. CASE ~high /\ ~(q.total_untrusted >= Cap)
  <2>1. high = FALSE
    BY <1>3
  <2> QED BY <1>3, <2>1, PushLane
<1> QED BY <1>1, <1>2, <1>3

\* An empty queue is exact.
LEMMA EmptyOK == Shape(EmptyQueue) /\ Exact(EmptyQueue)
<1> DEFINE none == [p \in {} |-> 0]
<1>1. /\ EmptyQueue.lanes = none /\ EmptyQueue.order = <<>> /\ EmptyQueue.total_untrusted = 0
      /\ EmptyQueue.high = <<>> /\ EmptyQueue.cursor = 0
  BY DEF EmptyQueue
<1>2. none \in [{} -> Lane] /\ DOMAIN none = {}
  OBVIOUS
<1>3. none \in Lanes
  BY <1>2 DEF Lanes
<1>4. EmptyQueue \in [high : Seq(Entry), lanes : Lanes, order : Seq(Peers), cursor : Nat,
                      total_untrusted : Nat]
  <2>1. <<>> \in Seq(Entry) /\ <<>> \in Seq(Peers)
    OBVIOUS
  <2> HIDE DEF none
  <2> QED BY <1>3, <2>1 DEF EmptyQueue, none
<1>5. IsFiniteSet({}) 
  BY FS_EmptySet
<1>6. Held(none, {}) = 0
  <2> DEFINE f == [p \in {} |-> 0]
  <2>1. \A p \in {} : f[p] = Len(none[p].queue) /\ Len(none[p].queue) \in Int
    OBVIOUS
  <2>2. Held(none, {}) = Sum(f, {})
    <3> HIDE DEF f, none
    <3> QED BY <1>5, <2>1, HeldIsSum
  <2> HIDE DEF f
  <2> QED BY <2>2, SumEmpty
<1>7. ToSet(<<>>) = {} /\ IsInjective(<<>>)
  BY DEF ToSet, IsInjective
<1> HIDE DEF none
<1> QED BY <1>1, <1>2, <1>4, <1>5, <1>6, <1>7, QueueAssumption DEF Shape, Exact

\* The inbox, and the adverts that its entries are priced on.
LaneInv ==
  /\ \A n \in DOMAIN tx_requested : n \in Txs /\ tx_requested[n] \in [fee : Nat, cost : Nat]
  /\ Shape(tx_inbox) /\ Exact(tx_inbox)

\* Only Respond pushes, and only Drain takes.
LEMMA LaneStep == LaneInv /\ [Next]_vars => LaneInv'
<1> SUFFICES ASSUME LaneInv, [Next]_vars PROVE LaneInv'
  OBVIOUS
<1>1. CASE UNCHANGED <<tx_requested, tx_inbox>>
  BY <1>1 DEF LaneInv, Shape, Exact
<1>2. ASSUME NEW p \in Peers, NEW n \in Txs, Announce(p, n) PROVE LaneInv'
  <2>1. tx_inbox' = tx_inbox /\ tx_requested' = Put(tx_requested, n, Advert[p][n])
    BY <1>2 DEF Announce
  <2>2. Advert[p][n] \in [fee : Nat, cost : Nat]
    BY GossipAssumption
  <2>3. \A x \in DOMAIN tx_requested' : x \in Txs /\ tx_requested'[x] \in [fee : Nat, cost : Nat]
    BY <2>1, <2>2 DEF LaneInv, Put
  <2> QED BY <2>1, <2>3 DEF LaneInv
<1>3. ASSUME NEW p \in Peers, NEW n \in Txs, Respond(p, n) PROVE LaneInv'
  <2> DEFINE ad == tx_requested[n]
             e == [name |-> n, fee |-> ad.fee, cost |-> ad.cost]
  <2>1. /\ n \in DOMAIN tx_requested
        /\ tx_requested' = [x \in DOMAIN tx_requested \ {n} |-> tx_requested[x]]
        /\ tx_inbox' = push(tx_inbox, p, e, p \in Trusted)
    BY <1>3 DEF Respond
  <2>2. ad \in [fee : Nat, cost : Nat]
    BY <2>1 DEF LaneInv
  <2>3. e \in Entry
    BY <2>2 DEF Entry
  <2> HIDE DEF e
  <2>4. (p \in Trusted) \in BOOLEAN
    OBVIOUS
  <2>5. Shape(tx_inbox)' /\ Exact(tx_inbox)'
    <3>1. Shape(push(tx_inbox, p, e, p \in Trusted)) /\ Exact(push(tx_inbox, p, e, p \in Trusted))
      BY <2>3, <2>4, PushOK DEF LaneInv
    <3> QED BY <2>1, <3>1
  <2>6. \A x \in DOMAIN tx_requested' : x \in Txs /\ tx_requested'[x] \in [fee : Nat, cost : Nat]
    BY <2>1 DEF LaneInv
  <2> QED BY <2>5, <2>6 DEF LaneInv
<1>4. ASSUME Drain PROVE LaneInv'
  <2>1. tx_inbox' = EmptyQueue /\ tx_requested' = tx_requested
    BY <1>4 DEF Drain
  <2> QED BY <2>1, EmptyOK DEF LaneInv
<1>5. ASSUME Tick PROVE LaneInv'
  <2>1. PICK live \in SUBSET DOMAIN tx_requested : tx_requested' = [n \in live |-> tx_requested[n]]
    BY <1>5 DEF Tick
  <2>2. tx_inbox' = tx_inbox
    BY <1>5 DEF Tick
  <2> QED BY <2>1, <2>2 DEF LaneInv
<1>6. ASSUME NEW p \in Peers, NEW n \in Txs, Ban(p, n) PROVE LaneInv'
  BY <1>1, <1>6 DEF Ban
<1>7. ASSUME NEW n \in Local, SendTransaction(n) \/ push_tx(n) PROVE LaneInv'
  BY <1>1, <1>7 DEF SendTransaction, push_tx, Begin, read
<1>8. ASSUME Work \/ SetSynced \/ UNCHANGED vars PROVE LaneInv'
  BY <1>1, <1>8 DEF Work, Begin, SetSynced, vars, read
<1>9. ASSUME NEW s \in Submitters, Finish(s) \/ Push(s) PROVE LaneInv'
  BY <1>1, <1>9 DEF Finish, Push, read
<1>10. ASSUME RevalidateForReorg \/ (\E quiet \in BOOLEAN : NewPeak(quiet)) \/ Retry \/ Regossip
       PROVE  LaneInv'
  BY <1>1, <1>10 DEF RevalidateForReorg, NewPeak, Retry, Regossip, read
<1> QED BY <1>10, <1>2, <1>3, <1>4, <1>5, <1>6, <1>7, <1>8, <1>9 DEF Next

\* The inbox counts what its lanes hold, within both caps, every lane has one
\* place in the round and is in fee order (tx_queue.rs, push and drain_batch).
THEOREM InboxExact == Spec => []LanesExact
<1>1. Init => LaneInv
  <2> SUFFICES ASSUME Init PROVE LaneInv
    OBVIOUS
  <2>1. tx_inbox = EmptyQueue /\ tx_requested = [n \in {} |-> 0]
    BY DEF Init
  <2> QED BY <2>1, EmptyOK DEF LaneInv
<1>2. LaneInv => LanesExact
  BY DEF LaneInv, LanesExact, Exact, Sorted, Held
<1> QED BY <1>1, <1>2, LaneStep, PTL DEF Spec
=============================================================================
