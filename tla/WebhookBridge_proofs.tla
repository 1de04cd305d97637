------------------------ MODULE WebhookBridge_proofs ------------------------
(***************************************************************************)
(* Theorems about WebhookBridge: its types and counters, that Stop leaves  *)
(* nothing running and waits for what runs, that no notification is        *)
(* dropped and each delivery is due, and that the bridge implements        *)
(* NotificationDelivery, for any number of instances, notifications and    *)
(* crashes.                                                                *)
(***************************************************************************)
EXTENDS WebhookBridge, FiniteSetTheorems, TLAPS

-----------------------------------------------------------------------------
(* The inductive invariant.                                                *)

\* Goroutines between the two updates of activeConnections.
InsidePcs == {"counted", "loop", "receive", "retry", "handle", "delete", "leave"}

Inside == {i \in Instances : poll[i].pc \in InsidePcs}
Live   == {i \in Instances : Running(i)}

Counters == active = Cardinality(Inside) /\ wg = Cardinality(Live)

Lifecycle ==
  /\ main # "starting" => toStart = {}
  /\ main = "init" => \A i \in Instances : poll[i].pc = "absent"
  /\ \A i \in toStart : poll[i].pc = "absent"
  /\ StoppedMeansQuiet

\* Where the notifications of an instance are.
Ledger(i) ==
  /\ queue[i] \cup handled[i] \cup taken[i] \subseteq 1 .. arrived[i]
  /\ confirmed[i] \subseteq handled[i] \ queue[i]
  /\ late[i] \subseteq handled[i]
  /\ \A n \in 1 .. arrived[i] : n \in queue[i] \cup handled[i] \cup taken[i]
  /\ last[i] <= arrived[i]
  /\ \A m \in queue[i] : last[i] <= m
  /\ poll[i].note <= arrived[i]
  /\ \A m \in queue[i] : poll[i].note <= m
  /\ poll[i].pc = "delete" => poll[i].note \in handled[i]

Inv ==
  /\ TypeOK
  /\ Counters
  /\ Lifecycle
  /\ \A i \in Instances : Ledger(i)

-----------------------------------------------------------------------------
(* Moving one goroutine.                                                   *)

\* The places a goroutine can be at.
Pcs == {"absent", "go", "counted", "loop", "receive", "retry",
        "handle", "delete", "leave", "leaving", "gone"}

\* Only goroutine i moves: to pc, with notification n and count k.
Moved(i, pc, n, k) ==
  /\ poll' \in [Instances -> Goroutine]
  /\ poll'[i].pc = pc /\ poll'[i].note = n /\ poll'[i].count = k
  /\ \A j \in Instances \ {i} : poll'[j] = poll[j]

\* Goto moves one goroutine, which lets go of its notification.
LEMMA GotoMeans ==
  ASSUME TypeOK, NEW i \in Instances, NEW pc \in Pcs, Goto(i, pc)
  PROVE  Moved(i, pc, None, poll[i].count)
<1>1. poll \in [Instances -> Goroutine] /\ poll[i] \in Goroutine
  BY DEF TypeOK
<1> DEFINE g == [poll[i] EXCEPT !.pc = pc, !.note = None]
<1>2. g \in Goroutine /\ g.pc = pc /\ g.note = None /\ g.count = poll[i].count
  BY <1>1 DEF Goroutine, Pcs, None
<1>3. poll' = [poll EXCEPT ![i] = g]
  BY DEF Goto
<1> HIDE DEF g
<1> QED
  BY <1>1, <1>2, <1>3 DEF Moved

\* So do the steps that keep the notification and store a count, ...
LEMMA CountMeans ==
  ASSUME TypeOK, NEW i \in Instances, NEW pc \in Pcs, NEW k \in Nat,
         poll' = [poll EXCEPT ![i] = [@ EXCEPT !.pc = pc, !.count = k]]
  PROVE  Moved(i, pc, poll[i].note, k)
<1>1. poll \in [Instances -> Goroutine] /\ poll[i] \in Goroutine
  BY DEF TypeOK
<1> DEFINE g == [poll[i] EXCEPT !.pc = pc, !.count = k]
<1>2. g \in Goroutine /\ g.pc = pc /\ g.note = poll[i].note /\ g.count = k
  BY <1>1 DEF Goroutine, Pcs
<1>3. poll' = [poll EXCEPT ![i] = g]
  OBVIOUS
<1> HIDE DEF g
<1> QED
  BY <1>1, <1>2, <1>3 DEF Moved

\* ... those that set the notification, ...
LEMMA NoteMeans ==
  ASSUME TypeOK, NEW i \in Instances, NEW pc \in Pcs, NEW n \in Notes,
         poll' = [poll EXCEPT ![i] = [@ EXCEPT !.pc = pc, !.note = n]]
  PROVE  Moved(i, pc, n, poll[i].count)
<1>1. poll \in [Instances -> Goroutine] /\ poll[i] \in Goroutine
  BY DEF TypeOK
<1> DEFINE g == [poll[i] EXCEPT !.pc = pc, !.note = n]
<1>2. g \in Goroutine /\ g.pc = pc /\ g.note = n /\ g.count = poll[i].count
  BY <1>1 DEF Goroutine, Pcs
<1>3. poll' = [poll EXCEPT ![i] = g]
  OBVIOUS
<1> HIDE DEF g
<1> QED
  BY <1>1, <1>2, <1>3 DEF Moved

\* ... and those that keep both.
LEMMA PlaceMeans ==
  ASSUME TypeOK, NEW i \in Instances, NEW pc \in Pcs,
         poll' = [poll EXCEPT ![i] = [@ EXCEPT !.pc = pc]]
  PROVE  Moved(i, pc, poll[i].note, poll[i].count)
<1>1. poll \in [Instances -> Goroutine] /\ poll[i] \in Goroutine
  BY DEF TypeOK
<1> DEFINE g == [poll[i] EXCEPT !.pc = pc]
<1>2. g \in Goroutine /\ g.pc = pc /\ g.note = poll[i].note /\ g.count = poll[i].count
  BY <1>1 DEF Goroutine, Pcs
<1>3. poll' = [poll EXCEPT ![i] = g]
  OBVIOUS
<1> HIDE DEF g
<1> QED
  BY <1>1, <1>2, <1>3 DEF Moved

\* What a move does to the sets the counters count.
LEMMA MoveCounts ==
  ASSUME NEW i \in Instances, NEW pc \in Pcs, NEW n, NEW k, Moved(i, pc, n, k)
  PROVE  /\ IsFiniteSet(Inside) /\ IsFiniteSet(Live)
         /\ Inside' = IF pc \in InsidePcs THEN Inside \cup {i} ELSE Inside \ {i}
         /\ Live' = IF pc \in {"absent", "gone"} THEN Live \ {i} ELSE Live \cup {i}
<1>1. IsFiniteSet(Inside) /\ IsFiniteSet(Live)
  <2>1. Inside \in SUBSET Instances /\ Live \in SUBSET Instances
    BY DEF Inside, Live
  <2> QED
    BY <2>1, FS_Subset, BridgeAssumption
<1>2. Inside' = IF pc \in InsidePcs THEN Inside \cup {i} ELSE Inside \ {i}
  BY DEF Moved, Inside
<1>3. Live' = IF pc \in {"absent", "gone"} THEN Live \ {i} ELSE Live \cup {i}
  BY DEF Moved, Live, Running
<1> QED
  BY <1>1, <1>2, <1>3

\* What is left alone by every step of a goroutine.
Others == <<main, toStart, cancelled, registered, crashes>>

\* A running goroutine moves: the phases of main are not concerned.
LEMMA MoveLifecycle ==
  ASSUME Inv, NEW i \in Instances, NEW pc \in Pcs, NEW n, NEW k,
         Moved(i, pc, n, k), Running(i), UNCHANGED Others
  PROVE  Lifecycle'
BY DEF Inv, Lifecycle, StoppedMeansQuiet, Moved, Running, Others, TypeOK

\* A goroutine moves without passing a place where it is counted.
LEMMA MoveInside ==
  ASSUME Inv, NEW i \in Instances, NEW pc \in InsidePcs, NEW n, NEW k,
         Moved(i, pc, n, k), poll[i].pc \in InsidePcs, UNCHANGED <<active, wg>>
  PROVE  Counters'
<1>1. i \in Inside /\ i \in Live /\ pc \in Pcs /\ pc \notin {"absent", "gone"}
  BY DEF Inside, Live, Running, InsidePcs, Pcs
<1>2. Inside' = Inside /\ Live' = Live
  BY <1>1, MoveCounts
<1> QED
  BY <1>2 DEF Inv, Counters

\* The ledgers of the instances no step has touched.
LEMMA OtherLedgers ==
  ASSUME Inv, NEW i \in Instances,
         \A j \in Instances \ {i} :
           /\ queue'[j] = queue[j] /\ handled'[j] = handled[j] /\ taken'[j] = taken[j]
           /\ arrived'[j] = arrived[j] /\ confirmed'[j] = confirmed[j] /\ late'[j] = late[j]
           /\ last'[j] = last[j] /\ poll'[j] = poll[j],
         Ledger(i)'
  PROVE  \A j \in Instances : Ledger(j)'
<1> SUFFICES ASSUME NEW j \in Instances \ {i} PROVE Ledger(j)'
  OBVIOUS
<1> QED
  BY DEF Inv, Ledger

-----------------------------------------------------------------------------
(* The steps of a goroutine.                                               *)

\* A new goroutine counts itself.
LEMMA EnterKeeps ==
  ASSUME Inv, NEW i \in Instances, Enter(i)
  PROVE  Inv'
<1>1. active \in Nat /\ wg \in Nat /\ poll \in [Instances -> Goroutine] /\ poll[i] \in Goroutine
      /\ poll[i].pc = "go" /\ poll[i].note = None
  BY DEF Inv, TypeOK, Enter
<1>2. Moved(i, "counted", None, active + 1)
  <2>1. active + 1 \in Nat /\ "counted" \in Pcs /\ TypeOK
    BY <1>1 DEF Pcs, Inv
  <2>2. poll' = [poll EXCEPT ![i] = [@ EXCEPT !.pc = "counted", !.count = active + 1]]
    BY DEF Enter
  <2> QED
    BY <1>1, <2>1, <2>2, CountMeans
<1>3. TypeOK'
  BY <1>1, <1>2 DEF Inv, TypeOK, Enter, Moved, greenapi, delivered, None
<1>4. Counters'
  <2>1. i \notin Inside /\ i \in Live
    BY <1>1 DEF Inside, Live, Running, InsidePcs
  <2>2. Inside' = Inside \cup {i} /\ Live' = Live /\ IsFiniteSet(Inside)
    BY <1>2, <2>1, MoveCounts DEF Pcs, InsidePcs
  <2>3. Cardinality(Inside') = Cardinality(Inside) + 1
    BY <2>1, <2>2, FS_AddElement
  <2> QED
    BY <2>2, <2>3 DEF Inv, Counters, Enter
<1>5. Lifecycle'
  BY <1>1, <1>2, MoveLifecycle DEF Enter, Others, Running, Pcs
<1>6. \A j \in Instances : Ledger(j)'
  <2>1. Ledger(i)'
    BY <1>1, <1>2 DEF Inv, Ledger, Enter, Moved, greenapi, delivered
  <2> QED
    BY <1>2, <2>1, OtherLedgers DEF Enter, Moved, greenapi, delivered
<1> QED
  BY <1>3, <1>4, <1>5, <1>6 DEF Inv

\* The steps from place to place inside the loop that touch no queue.
LEMMA LoopKeeps ==
  ASSUME Inv, NEW i \in Instances,
         EnterGauge(i) \/ Poll(i) \/ ReceiveNothing(i) \/ ReceiveFails(i) \/ Retry(i)
  PROVE  Inv'
<1>1. active \in Nat /\ wg \in Nat /\ poll \in [Instances -> Goroutine] /\ poll[i] \in Goroutine
      /\ poll[i].pc \in {"counted", "loop", "receive", "retry"} /\ TypeOK
  BY DEF Inv, TypeOK, EnterGauge, Poll, ReceiveNothing, ReceiveFails, Retry
<1>2. PICK pc \in {"loop", "receive", "retry", "leave"} : Goto(i, pc)
  BY DEF EnterGauge, Poll, ReceiveNothing, ReceiveFails, Retry
<1>3. Moved(i, pc, None, poll[i].count)
  BY <1>1, <1>2, GotoMeans DEF Pcs
<1>4. /\ UNCHANGED <<Others, active, wg, greenapi, delivered>>
      /\ gauge' \in {gauge, poll[i].count}
  BY DEF EnterGauge, Poll, ReceiveNothing, ReceiveFails, Retry, Others
<1>5. TypeOK'
  BY <1>1, <1>3, <1>4 DEF Inv, TypeOK, Moved, greenapi, delivered, None, Others, Goroutine
<1>6. Counters'
  BY <1>1, <1>3, <1>4, MoveInside DEF InsidePcs
<1>7. Lifecycle'
  BY <1>1, <1>3, <1>4, MoveLifecycle DEF Running, Pcs
<1>8. \A j \in Instances : Ledger(j)'
  <2>1. arrived[i] \in Nat /\ queue[i] \subseteq Notes
    BY DEF Inv, TypeOK
  <2>2. Ledger(i)'
    BY <1>3, <1>4, <2>1 DEF Inv, Ledger, Moved, greenapi, delivered, None, Notes
  <2> QED
    BY <1>3, <1>4, <2>2, OtherLedgers DEF Moved, greenapi, delivered
<1> QED
  BY <1>5, <1>6, <1>7, <1>8 DEF Inv

\* The goroutine takes the oldest notification in hand.
LEMMA ReceiveKeeps ==
  ASSUME Inv, NEW i \in Instances, NEW n \in Notes, ReceiveNote(i, n)
  PROVE  Inv'
<1>1. poll \in [Instances -> Goroutine] /\ poll[i] \in Goroutine /\ poll[i].pc = "receive" /\ TypeOK
  BY DEF Inv, TypeOK, ReceiveNote
<1>2. Moved(i, "handle", n, poll[i].count)
  BY <1>1, NoteMeans DEF Pcs, ReceiveNote
<1>3. UNCHANGED <<Others, active, wg, gauge, greenapi, delivered>>
  BY DEF ReceiveNote, Others
<1>4. TypeOK'
  BY <1>1, <1>2, <1>3 DEF Inv, TypeOK, Moved, greenapi, delivered, None, Others, Notes
<1>5. Counters'
  BY <1>1, <1>2, <1>3, MoveInside DEF InsidePcs
<1>6. Lifecycle'
  BY <1>1, <1>2, <1>3, MoveLifecycle DEF Running, Pcs
<1>7. \A j \in Instances : Ledger(j)'
  <2>1. n \in queue[i] /\ (\A m \in queue[i] : n <= m) /\ n <= arrived[i]
    BY DEF Inv, Ledger, ReceiveNote, IsOldest, TypeOK
  <2>2. Ledger(i)'
    BY <1>2, <1>3, <2>1 DEF Inv, Ledger, Moved, greenapi, delivered
  <2> QED
    BY <1>2, <1>3, <2>2, OtherLedgers DEF Moved, greenapi, delivered
<1> QED
  BY <1>4, <1>5, <1>6, <1>7 DEF Inv

\* The handler is given the notification.
LEMMA HandleKeeps ==
  ASSUME Inv, NEW i \in Instances, Handle(i)
  PROVE  Inv'
<1>1. /\ poll \in [Instances -> Goroutine] /\ poll[i] \in Goroutine /\ poll[i].pc = "handle" /\ TypeOK
      /\ poll[i].note \in Notes
  BY DEF Inv, TypeOK, Handle, Goroutine
<1>2. Moved(i, "delete", poll[i].note, poll[i].count)
  BY <1>1, PlaceMeans DEF Pcs, Handle
<1>3. UNCHANGED <<Others, active, wg, gauge, greenapi, confirmed>>
  BY DEF Handle, Others
<1>4. /\ handled' = [handled EXCEPT ![i] = @ \cup {poll[i].note}]
      /\ last' = [last EXCEPT ![i] = poll[i].note]
  BY DEF Handle
<1>5. TypeOK'
  BY <1>1, <1>2, <1>3, <1>4 DEF Inv, TypeOK, Moved, greenapi, None, Others, Notes
<1>6. Counters'
  BY <1>1, <1>2, <1>3, MoveInside DEF InsidePcs
<1>7. Lifecycle'
  BY <1>1, <1>2, <1>3, MoveLifecycle DEF Running, Pcs
<1>8. \A j \in Instances : Ledger(j)'
  <2>1. handled'[i] = handled[i] \cup {poll[i].note} /\ last'[i] = poll[i].note
    BY <1>4 DEF Inv, TypeOK
  <2>2. arrived[i] \in Nat
    BY DEF Inv, TypeOK
  <2>3. Ledger(i)'
    BY <1>1, <1>2, <1>3, <2>1, <2>2 DEF Inv, Ledger, Moved, greenapi, Notes
  <2>4. \A j \in Instances \ {i} : handled'[j] = handled[j] /\ last'[j] = last[j]
    BY <1>4 DEF Inv, TypeOK
  <2> QED
    BY <1>2, <1>3, <2>3, <2>4, OtherLedgers DEF Moved, greenapi
<1> QED
  BY <1>5, <1>6, <1>7, <1>8 DEF Inv

\* The deletion succeeds, or fails and may yet happen.
LEMMA DeleteKeeps ==
  ASSUME Inv, NEW i \in Instances, DeleteAnswered(i) \/ DeleteFails(i)
  PROVE  Inv'
<1>1. /\ poll \in [Instances -> Goroutine] /\ poll[i] \in Goroutine /\ poll[i].pc = "delete" /\ TypeOK
      /\ poll[i].note \in Notes /\ poll[i].note \in handled[i]
  BY DEF Inv, TypeOK, DeleteAnswered, DeleteFails, Goroutine, Ledger
<1>2. PICK pc \in {"loop", "leave"} : Goto(i, pc)
  BY DEF DeleteAnswered, DeleteFails
<1>3. Moved(i, pc, None, poll[i].count)
  BY <1>1, <1>2, GotoMeans DEF Pcs
<1>4. UNCHANGED <<Others, active, wg, gauge, arrived, taken, handled, last>>
  BY DEF DeleteAnswered, DeleteFails, Others, delivered
<1>5. /\ queue' \in [Instances -> SUBSET Notes] /\ queue'[i] \in {queue[i], queue[i] \ {poll[i].note}}
      /\ confirmed' \in [Instances -> SUBSET Notes]
      /\ confirmed'[i] = confirmed[i] \/ (/\ confirmed'[i] = confirmed[i] \cup {poll[i].note}
                                        /\ queue'[i] = queue[i] \ {poll[i].note})
      /\ late' \in [Instances -> SUBSET Notes] /\ late'[i] \subseteq late[i] \cup {poll[i].note}
      /\ \A j \in Instances \ {i} :
           queue'[j] = queue[j] /\ confirmed'[j] = confirmed[j] /\ late'[j] = late[j]
  <2>1. CASE DeleteAnswered(i)
    BY <1>1, <2>1 DEF DeleteAnswered, TypeOK
  <2>2. CASE DeleteFails(i)
    BY <1>1, <2>2 DEF DeleteFails, TypeOK, delivered
  <2> QED
    BY <2>1, <2>2
<1>6. TypeOK'
  BY <1>1, <1>3, <1>4, <1>5 DEF TypeOK, Moved, None, Others
<1>7. Counters'
  BY <1>1, <1>3, <1>4, MoveInside DEF InsidePcs
<1>8. Lifecycle'
  BY <1>1, <1>3, <1>4, MoveLifecycle DEF Running, Pcs
<1>9. \A j \in Instances : Ledger(j)'
  <2>1. arrived[i] \in Nat /\ queue[i] \subseteq Notes
    BY <1>1 DEF TypeOK
  <2>2. Ledger(i)'
    BY <1>1, <1>3, <1>4, <1>5, <2>1 DEF Inv, Ledger, Moved, Notes, None
  <2> QED
    BY <1>3, <1>4, <1>5, <2>2, OtherLedgers DEF Moved
<1> QED
  BY <1>6, <1>7, <1>8, <1>9 DEF Inv

\* A goroutine is out of the loop.
LEMMA LeaveKeeps ==
  ASSUME Inv, NEW i \in Instances, Leave(i)
  PROVE  Inv'
<1>1. active \in Nat /\ wg \in Nat /\ poll \in [Instances -> Goroutine] /\ poll[i] \in Goroutine
      /\ poll[i].pc = "leave" /\ poll[i].note = None /\ TypeOK
  BY DEF Inv, TypeOK, Leave
<1>2. i \in Inside /\ i \in Live /\ IsFiniteSet(Inside) /\ Inside \in SUBSET Instances
  <2>1. Inside \in SUBSET Instances
    BY DEF Inside
  <2> QED
    BY <1>1, <2>1, FS_Subset, BridgeAssumption DEF Inside, Live, Running, InsidePcs
<1>3. Cardinality(Inside \ {i}) = active - 1 /\ active - 1 \in Nat
  <2>1. Cardinality(Inside \ {i}) = active - 1 /\ IsFiniteSet(Inside \ {i})
    BY <1>2, FS_RemoveElement DEF Inv, Counters
  <2> QED
    BY <2>1, FS_CardinalityType
<1>4. Moved(i, "leaving", None, active - 1)
  <2>1. poll' = [poll EXCEPT ![i] = [@ EXCEPT !.pc = "leaving", !.count = active - 1]]
    BY DEF Leave
  <2> QED
    BY <1>1, <1>3, <2>1, CountMeans DEF Pcs
<1>5. UNCHANGED <<Others, wg, gauge, greenapi, delivered>> /\ active' = active - 1
  BY DEF Leave, Others
<1>6. TypeOK'
  BY <1>1, <1>3, <1>4, <1>5 DEF TypeOK, Moved, greenapi, delivered, None, Others
<1>7. Counters'
  <2>1. Inside' = Inside \ {i} /\ Live' = Live
    BY <1>2, <1>4, MoveCounts DEF Pcs, InsidePcs
  <2> QED
    BY <1>3, <1>5, <2>1 DEF Inv, Counters
<1>8. Lifecycle'
  BY <1>1, <1>4, <1>5, MoveLifecycle DEF Running, Pcs
<1>9. \A j \in Instances : Ledger(j)'
  <2>1. Ledger(i)'
    BY <1>1, <1>4, <1>5 DEF Inv, Ledger, Moved, greenapi, delivered
  <2> QED
    BY <1>4, <1>5, <2>1, OtherLedgers DEF Moved, greenapi, delivered
<1> QED
  BY <1>6, <1>7, <1>8, <1>9 DEF Inv

\* A goroutine ends.
LEMMA LeaveGaugeKeeps ==
  ASSUME Inv, NEW i \in Instances, LeaveGauge(i)
  PROVE  Inv'
<1>1. active \in Nat /\ wg \in Nat /\ poll \in [Instances -> Goroutine] /\ poll[i] \in Goroutine
      /\ poll[i].pc = "leaving" /\ poll[i].note = None /\ poll[i].count \in Nat /\ TypeOK
  BY DEF Inv, TypeOK, LeaveGauge, Goroutine
<1>2. i \notin Inside /\ i \in Live /\ IsFiniteSet(Live)
  <2>1. Live \in SUBSET Instances
    BY DEF Live
  <2> QED
    BY <1>1, <2>1, FS_Subset, BridgeAssumption DEF Inside, Live, Running, InsidePcs
<1>3. Cardinality(Live \ {i}) = wg - 1 /\ wg - 1 \in Nat
  <2>1. Cardinality(Live \ {i}) = wg - 1 /\ IsFiniteSet(Live \ {i})
    BY <1>2, FS_RemoveElement DEF Inv, Counters
  <2> QED
    BY <2>1, FS_CardinalityType
<1>4. Moved(i, "gone", None, poll[i].count)
  BY <1>1, GotoMeans DEF Pcs, LeaveGauge
<1>5. UNCHANGED <<Others, active, greenapi, delivered>> /\ wg' = wg - 1 /\ gauge' = poll[i].count
  BY DEF LeaveGauge, Others
<1>6. TypeOK'
  BY <1>1, <1>3, <1>4, <1>5 DEF TypeOK, Moved, greenapi, delivered, None, Others
<1>7. Counters'
  <2>1. Inside' = Inside /\ Live' = Live \ {i}
    BY <1>2, <1>4, MoveCounts DEF Pcs, InsidePcs
  <2> QED
    BY <1>3, <1>5, <2>1 DEF Inv, Counters
<1>8. Lifecycle'
  BY <1>1, <1>4, <1>5, MoveLifecycle DEF Running, Pcs
<1>9. \A j \in Instances : Ledger(j)'
  <2>1. Ledger(i)'
    BY <1>1, <1>4, <1>5 DEF Inv, Ledger, Moved, greenapi, delivered
  <2> QED
    BY <1>4, <1>5, <2>1, OtherLedgers DEF Moved, greenapi, delivered
<1> QED
  BY <1>6, <1>7, <1>8, <1>9 DEF Inv

-----------------------------------------------------------------------------
(* The steps of main, of the process, and of everything around it.         *)

\* Start launches a goroutine.
LEMMA StartOneKeeps ==
  ASSUME Inv, NEW i \in Instances, StartOne(i)
  PROVE  Inv'
<1>1. active \in Nat /\ wg \in Nat /\ poll \in [Instances -> Goroutine] /\ poll[i] \in Goroutine
      /\ poll[i].pc = "absent" /\ poll[i].note = None /\ poll[i].count \in Nat /\ TypeOK /\ main = "starting"
  BY DEF Inv, TypeOK, Lifecycle, StartOne, Goroutine
<1>2. Moved(i, "go", None, poll[i].count)
  BY <1>1, PlaceMeans DEF Pcs, StartOne
<1>3. UNCHANGED <<main, cancelled, active, gauge, registered, crashes, greenapi, delivered>>
      /\ wg' = wg + 1 /\ toStart' = toStart \ {i}
  BY DEF StartOne
<1>4. TypeOK'
  BY <1>1, <1>2, <1>3 DEF TypeOK, Moved, greenapi, delivered, None
<1>5. Counters'
  <2>1. i \notin Inside /\ i \notin Live
    BY <1>1 DEF Inside, Live, Running, InsidePcs
  <2>2. Inside' = Inside /\ Live' = Live \cup {i} /\ IsFiniteSet(Live)
    BY <1>2, <2>1, MoveCounts DEF Pcs, InsidePcs
  <2>3. Cardinality(Live') = Cardinality(Live) + 1
    BY <2>1, <2>2, FS_AddElement
  <2> QED
    BY <1>3, <2>2, <2>3 DEF Inv, Counters
<1>6. Lifecycle'
  BY <1>1, <1>2, <1>3 DEF Inv, Lifecycle, Moved, StoppedMeansQuiet, TypeOK
<1>7. \A j \in Instances : Ledger(j)'
  <2>1. Ledger(i)'
    BY <1>1, <1>2, <1>3 DEF Inv, Ledger, Moved, greenapi, delivered
  <2> QED
    BY <1>2, <1>3, <2>1, OtherLedgers DEF Moved, greenapi, delivered
<1> QED
  BY <1>4, <1>5, <1>6, <1>7 DEF Inv

\* The steps of main that start and end nothing, the tools that change the
\* registered instances, and stuttering.
LEMMA MainKeeps ==
  ASSUME Inv,
         \/ Signal \/ StartList \/ StartReturns \/ Stop \/ StopReturns \/ UNCHANGED vars
         \/ \E i \in Instances : Connect(i) \/ Disconnect(i)
  PROVE  Inv'
<1>1. UNCHANGED <<wg, active, gauge, poll, crashes, greenapi, delivered>>
  BY DEF Signal, StartList, StartReturns, Stop, StopReturns, Connect, Disconnect, vars, process, greenapi, delivered
<1>2. TypeOK'
  BY DEF Inv, TypeOK, Signal, StartList, StartReturns, Stop, StopReturns, Connect, Disconnect,
         vars, process, greenapi, delivered
<1>3. Inside' = Inside /\ Live' = Live
  BY <1>1 DEF Inside, Live, Running
<1>4. Counters'
  BY <1>1, <1>3 DEF Inv, Counters
<1>5. Lifecycle'
  <2>1. CASE StopReturns
    <3>1. wg = 0 /\ IsFiniteSet(Live)
      <4>1. Live \in SUBSET Instances
        BY DEF Live
      <4> QED
        BY <2>1, <4>1, FS_Subset, BridgeAssumption DEF StopReturns
    <3>2. Live = {}
      BY <3>1, FS_EmptySet DEF Inv, Counters
    <3> QED
      BY <1>1, <2>1, <3>2 DEF Inv, Lifecycle, StoppedMeansQuiet, Live, Running, StopReturns
  <2>2. CASE StartList
    BY <2>2 DEF Inv, TypeOK, Lifecycle, StoppedMeansQuiet, StartList
  <2>3. CASE Signal \/ StartReturns \/ Stop \/ UNCHANGED vars
             \/ \E i \in Instances : Connect(i) \/ Disconnect(i)
    BY <2>3 DEF Inv, Lifecycle, StoppedMeansQuiet, Running, Signal, StartReturns, Stop, Connect, Disconnect,
                vars, process
  <2> QED
    BY <2>1, <2>2, <2>3
<1>6. \A j \in Instances : Ledger(j)'
  BY <1>1 DEF Inv, Ledger, greenapi, delivered
<1> QED
  BY <1>2, <1>4, <1>5, <1>6 DEF Inv

\* A notification arrives.
LEMMA ArriveKeeps ==
  ASSUME Inv, NEW i \in Instances, Arrive(i)
  PROVE  Inv'
<1>1. UNCHANGED <<process, delivered, late, taken>> /\ TypeOK /\ arrived[i] \in Nat /\ arrived[i] + 1 \in Notes
  BY BridgeAssumption DEF Inv, TypeOK, Arrive, Notes
<1>2. /\ arrived' \in [Instances -> 0 .. MaxNotes] /\ arrived'[i] = arrived[i] + 1
      /\ queue' \in [Instances -> SUBSET Notes] /\ queue'[i] = queue[i] \cup {arrived[i] + 1}
      /\ \A j \in Instances \ {i} : arrived'[j] = arrived[j] /\ queue'[j] = queue[j]
  BY <1>1 DEF TypeOK, Arrive, Notes
<1>3. TypeOK'
  BY <1>1, <1>2 DEF TypeOK, process, delivered
<1>4. Counters' /\ Lifecycle'
  BY <1>1 DEF Inv, Counters, Lifecycle, Inside, Live, Running, StoppedMeansQuiet, process
<1>5. \A j \in Instances : Ledger(j)'
  <2>1. last[i] \in Int /\ poll[i].note \in Int /\ queue[i] \subseteq Notes
    BY <1>1 DEF TypeOK, Goroutine, Notes, None
  <2>2. Ledger(i)'
    BY <1>1, <1>2, <2>1 DEF Inv, Ledger, process, delivered, Notes
  <2> QED
    BY <1>1, <1>2, <2>2, OtherLedgers DEF process, delivered
<1> QED
  BY <1>3, <1>4, <1>5 DEF Inv

\* A notification goes, by a late deletion or by a tool.
LEMMA RemoveKeeps ==
  ASSUME Inv, NEW i \in Instances, NEW n \in Notes, DeleteLate(i, n) \/ ToolDelete(i, n)
  PROVE  Inv'
<1>1. UNCHANGED <<process, delivered, arrived>> /\ TypeOK /\ n \in handled[i] \cup queue[i]
  BY DEF Inv, TypeOK, DeleteLate, ToolDelete, IsOldest, Ledger
<1>2. /\ queue' \in [Instances -> SUBSET Notes] /\ queue'[i] = queue[i] \ {n}
      /\ late' \in [Instances -> SUBSET Notes] /\ late'[i] \subseteq late[i]
      /\ taken' \in [Instances -> SUBSET Notes] /\ taken'[i] \in {taken[i], taken[i] \cup {n}}
      /\ n \in handled[i] \/ n \in taken'[i]
      /\ \A j \in Instances \ {i} : queue'[j] = queue[j] /\ late'[j] = late[j] /\ taken'[j] = taken[j]
  <2>1. CASE DeleteLate(i, n)
    <3>1. n \in handled[i]
      BY <2>1 DEF DeleteLate, Inv, Ledger
    <3> QED
      BY <1>1, <2>1, <3>1 DEF TypeOK, DeleteLate
  <2>2. CASE ToolDelete(i, n)
    BY <1>1, <2>2 DEF TypeOK, ToolDelete
  <2> QED
    BY <2>1, <2>2
<1>3. TypeOK'
  BY <1>1, <1>2 DEF TypeOK, process, delivered
<1>4. Counters' /\ Lifecycle'
  BY <1>1 DEF Inv, Counters, Lifecycle, Inside, Live, Running, StoppedMeansQuiet, process
<1>5. \A j \in Instances : Ledger(j)'
  <2>1. Ledger(i)'
    BY <1>1, <1>2 DEF Inv, Ledger, process, delivered
  <2> QED
    BY <1>1, <1>2, <2>1, OtherLedgers DEF process, delivered
<1> QED
  BY <1>3, <1>4, <1>5 DEF Inv

\* The process dies, and every deletion it had on its way may yet happen.
LEMMA CrashKeeps ==
  ASSUME Inv, Crash
  PROVE  Inv'
<1>1. PICK L \in SUBSET {i \in registered : poll[i].pc = "delete"} :
        late' = [i \in Instances |-> late[i] \cup IF i \in L THEN {poll[i].note} ELSE {}]
  BY DEF Crash
<1>2. /\ UNCHANGED <<queue, arrived, taken, delivered>> /\ TypeOK
      /\ main' = "init" /\ toStart' = {} /\ cancelled' = FALSE /\ wg' = 0 /\ active' = 0 /\ gauge' = 0
      /\ registered' = Configured /\ crashes' = crashes + 1 /\ crashes < MaxCrashes
      /\ poll' = [i \in Instances |-> Absent]
  BY DEF Crash, Inv
<1>3. /\ poll' \in [Instances -> Goroutine]
      /\ \A i \in Instances : poll'[i].pc = "absent" /\ poll'[i].note = None
  BY <1>2 DEF Absent, Goroutine, None
<1>4. \A i \in Instances : poll[i].pc = "delete" => poll[i].note \in Notes \cap handled[i]
  BY <1>2 DEF Inv, TypeOK, Goroutine, Ledger
<1>5. late' \in [Instances -> SUBSET Notes] /\ \A i \in Instances : late'[i] \subseteq handled[i]
  BY <1>1, <1>2, <1>4 DEF Inv, TypeOK, Ledger
<1>6. TypeOK'
  <2>1. crashes' \in 0 .. MaxCrashes
    BY <1>2, BridgeAssumption DEF TypeOK
  <2> QED
    BY <1>2, <1>3, <1>5, <2>1, BridgeAssumption DEF TypeOK, delivered
<1>7. Counters'
  <2>1. Inside' = {} /\ Live' = {}
    BY <1>3 DEF Inside, Live, Running, InsidePcs
  <2> QED
    BY <1>2, <2>1, FS_EmptySet DEF Counters
<1>8. Lifecycle'
  BY <1>2, <1>3 DEF Lifecycle, StoppedMeansQuiet
<1>9. ASSUME NEW i \in Instances PROVE Ledger(i)'
  <2>1. arrived[i] \in Nat /\ queue[i] \subseteq Notes
    BY <1>2 DEF TypeOK
  <2> QED
    BY <1>2, <1>3, <1>5, <2>1 DEF Inv, Ledger, delivered, Notes, None
<1> QED
  BY <1>6, <1>7, <1>8, <1>9 DEF Inv

-----------------------------------------------------------------------------
(* The theorems.                                                           *)

\* The invariant holds of a process that has just begun.
LEMMA InitInv == Init => Inv
<1> SUFFICES ASSUME Init PROVE Inv
  OBVIOUS
<1>1. TypeOK
  <2>1. Absent \in Goroutine /\ Absent.pc = "absent" /\ Absent.note = None
    BY DEF Absent, Goroutine, None
  <2>2. /\ poll \in [Instances -> Goroutine]
        /\ \A i \in Instances : poll[i].pc \in {"handle", "delete"} <=> poll[i].note # None
    BY <2>1 DEF Init
  <2>3. 0 \in 0 .. MaxNotes /\ 0 \in 0 .. MaxCrashes
    BY BridgeAssumption
  <2> QED
    BY <2>1, <2>2, <2>3, BridgeAssumption DEF Init, TypeOK
<1>2. Counters
  <2>1. Inside = {} /\ Live = {}
    BY DEF Init, Inside, Live, Running, InsidePcs, Absent
  <2> QED
    BY <2>1, FS_EmptySet DEF Counters, Init
<1>3. Lifecycle
  BY DEF Init, Lifecycle, StoppedMeansQuiet, Absent
<1>4. \A i \in Instances : Ledger(i)
  BY DEF Init, Ledger, Absent, None
<1> QED
  BY <1>1, <1>2, <1>3, <1>4 DEF Inv

\* Every step keeps the invariant.
LEMMA StepInv == Inv /\ [Next]_vars => Inv'
<1> SUFFICES ASSUME Inv, [Next]_vars PROVE Inv'
  OBVIOUS
<1>1. CASE MainStep
  BY <1>1, MainKeeps, StartOneKeeps DEF MainStep
<1>2. ASSUME NEW i \in Instances, PollStep(i) PROVE Inv'
  BY <1>2, EnterKeeps, LoopKeeps, ReceiveKeeps, HandleKeeps, DeleteKeeps, LeaveKeeps, LeaveGaugeKeeps DEF PollStep
<1>3. CASE Environment
  BY <1>3, MainKeeps, CrashKeeps, ArriveKeeps, RemoveKeeps DEF Environment
<1>4. CASE UNCHANGED vars
  BY <1>4, MainKeeps
<1> QED
  BY <1>1, <1>2, <1>3, <1>4 DEF Next

\* The inductive invariant: counters that count the goroutines, phases of main
\* that agree with them, and a ledger of every instance's notifications.
THEOREM InvHolds == Spec => []Inv
<1> QED
  BY InitInv, StepInv, PTL DEF Spec

\* Every variable keeps its type; in particular neither counter of the bridge
\* becomes negative.
THEOREM TypeCorrect == Spec => []TypeOK
<1>1. Inv => TypeOK
  BY DEF Inv
<1> QED
  BY <1>1, InvHolds, PTL

\* When Stop has returned no polling goroutine is left.
THEOREM StopWaitsForAll == Spec => []StoppedMeansQuiet
<1>1. Inv => StoppedMeansQuiet
  BY DEF Inv, Lifecycle
<1> QED
  BY <1>1, InvHolds, PTL

\* No notification is removed before the handler has seen it, unless a tool
\* removed it.
THEOREM NothingIsDropped == Spec => []NothingDropped
<1>1. Inv => NothingDropped
  BY DEF Inv, Ledger, NothingDropped
<1> QED
  BY <1>1, InvHolds, PTL

-----------------------------------------------------------------------------
(* What Stop waits for, and when the handler is called.                    *)

\* A step of a goroutine leaves the phase of main and its context alone.
LEMMA PollLeavesMain ==
  ASSUME NEW i \in Instances, PollStep(i)
  PROVE  UNCHANGED <<main, cancelled>>
BY DEF PollStep, Enter, EnterGauge, Poll, ReceiveNote, ReceiveNothing, ReceiveFails, Retry, Handle,
       DeleteAnswered, DeleteFails, Leave, LeaveGauge

\* Whoever waits has cancelled, and only a new process has a new context.
LEMMA StepCancelled ==
  ASSUME main = "waiting" => cancelled, [Next]_vars
  PROVE  main' = "waiting" => cancelled'
<1>1. CASE MainStep
  BY <1>1 DEF MainStep, StartList, StartOne, StartReturns, StopReturns
<1>2. CASE \E i \in Instances : PollStep(i)
  BY <1>2, PollLeavesMain
<1>3. CASE Environment
  BY <1>3 DEF Environment, Signal, Stop, Crash, Arrive, Connect, Disconnect, DeleteLate, ToolDelete,
              process
<1>4. CASE UNCHANGED vars
  BY <1>4 DEF vars, process
<1> QED
  BY <1>1, <1>2, <1>3, <1>4 DEF Next

\* Stop waits only for goroutines that exist, and they have been told to end:
\* the part of its termination that needs no fairness.
THEOREM StopWaitsForRunning == Spec => []StopIsOwed
<1> DEFINE Told == main = "waiting" => cancelled
<1>1. Init => Told
  BY DEF Init
<1>2. Told /\ [Next]_vars => Told'
  BY StepCancelled
<1>3. Inv /\ Told => StopIsOwed
  <2> SUFFICES ASSUME Inv, Told PROVE wg = 0 \/ \E i \in Instances : Running(i)
    BY DEF StopIsOwed
  <2>1. (\A i \in Instances : ~Running(i)) => Live = {}
    BY DEF Live
  <2> QED
    BY <2>1, FS_EmptySet DEF Inv, Counters
<1> HIDE DEF Told
<1> QED
  BY <1>1, <1>2, <1>3, InvHolds, PTL DEF Spec

\* The call of the handler that goroutine i is about to make is due.
Due(i) ==
  poll[i].pc = "handle" => poll[i].note >= last[i] /\ poll[i].note \notin confirmed[i]

\* What stays due: the goroutine has not moved and nothing was recorded.
LEMMA StaysDue ==
  ASSUME NEW i \in Instances, Due(i),
         poll'[i] = poll[i], last'[i] = last[i], confirmed'[i] = confirmed[i]
  PROVE  Due(i)'
BY DEF Due

\* A goroutine takes a notification in hand while it is in the queue, and
\* what the queue has is neither confirmed nor older than the last one.
LEMMA PollDue ==
  ASSUME Inv, DeliveryIsDue, NEW i \in Instances, PollStep(i)
  PROVE  DeliveryIsDue'
<1>1. /\ poll \in [Instances -> Goroutine] /\ last \in [Instances -> 0 .. MaxNotes]
      /\ confirmed \in [Instances -> SUBSET Notes] /\ TypeOK
  BY DEF Inv, TypeOK
<1>2. \A j \in Instances \ {i} :
        poll'[j] = poll[j] /\ last'[j] = last[j] /\ confirmed'[j] = confirmed[j]
  BY <1>1 DEF PollStep, Enter, EnterGauge, Poll, ReceiveNote, ReceiveNothing, ReceiveFails, Retry, Handle,
              DeleteAnswered, DeleteFails, Leave, LeaveGauge, Goto, delivered
<1>3. Due(i)'
  <2>1. CASE \E n \in Notes : ReceiveNote(i, n)
    <3>1. PICK n \in Notes : ReceiveNote(i, n)
      BY <2>1
    <3>2. Moved(i, "handle", n, poll[i].count) /\ UNCHANGED delivered /\ n \in queue[i]
      BY <1>1, <3>1, NoteMeans DEF Pcs, ReceiveNote, IsOldest
    <3>3. last[i] <= n /\ n \notin confirmed[i] /\ last[i] \in Int /\ n \in Int
      BY <1>1, <3>2 DEF Inv, Ledger, Notes
    <3> QED
      BY <3>2, <3>3 DEF Due, Moved, delivered
  <2>2. CASE ~\E n \in Notes : ReceiveNote(i, n)
    <3>1. \A pc \in Pcs : Goto(i, pc) => poll'[i].pc = pc
      BY <1>1, GotoMeans DEF Moved
    <3>2. CASE Enter(i) \/ Handle(i) \/ Leave(i)
      BY <1>1, <3>2 DEF Enter, Handle, Leave, Goroutine, Due
    <3>3. CASE EnterGauge(i) \/ Poll(i) \/ ReceiveNothing(i) \/ ReceiveFails(i) \/ Retry(i)
               \/ DeleteAnswered(i) \/ DeleteFails(i) \/ LeaveGauge(i)
      <4>1. PICK pc \in Pcs \ {"handle"} : Goto(i, pc)
        BY <3>3 DEF EnterGauge, Poll, ReceiveNothing, ReceiveFails, Retry, DeleteAnswered, DeleteFails,
                    LeaveGauge, Pcs
      <4> QED
        BY <3>1, <4>1 DEF Due
    <3> QED
      BY <2>2, <3>2, <3>3 DEF PollStep
  <2> QED
    BY <2>1, <2>2
<1> QED
  BY <1>2, <1>3, StaysDue DEF DeliveryIsDue, Due

\* Nobody else takes a notification in hand or confirms a removal.
LEMMA StepDue == Inv /\ DeliveryIsDue /\ [Next]_vars => DeliveryIsDue'
<1> SUFFICES ASSUME Inv, DeliveryIsDue, [Next]_vars PROVE DeliveryIsDue'
  OBVIOUS
<1>0. poll \in [Instances -> Goroutine] /\ TypeOK
  BY DEF Inv, TypeOK
<1>1. ASSUME UNCHANGED <<poll, delivered>> PROVE DeliveryIsDue'
  BY <1>1 DEF DeliveryIsDue, delivered
<1>2. ASSUME NEW i \in Instances, StartOne(i) PROVE DeliveryIsDue'
  <2>1. Moved(i, "go", poll[i].note, poll[i].count) /\ UNCHANGED delivered
    BY <1>0, <1>2, PlaceMeans DEF Pcs, StartOne
  <2> QED
    BY <2>1 DEF DeliveryIsDue, Moved, delivered
<1>3. CASE Crash
  BY <1>3 DEF Crash, DeliveryIsDue, Absent
<1>4. CASE StartList \/ StartReturns \/ StopReturns \/ Signal \/ Stop \/ UNCHANGED vars
  BY <1>1, <1>4 DEF StartList, StartReturns, StopReturns, Signal, Stop, vars, process
<1>5. ASSUME NEW i \in Instances,
             \/ Arrive(i) \/ Connect(i) \/ Disconnect(i)
             \/ \E n \in Notes : DeleteLate(i, n) \/ ToolDelete(i, n)
      PROVE  DeliveryIsDue'
  BY <1>1, <1>5 DEF Arrive, Connect, Disconnect, DeleteLate, ToolDelete, process
<1> QED
  BY <1>2, <1>3, <1>4, <1>5, PollDue DEF Next, MainStep, Environment

\* The handler is never given a notification older than the last one, nor one
\* whose removal was confirmed.
THEOREM DeliveriesAreDue == Spec => []DeliveryIsDue
<1>1. Init => DeliveryIsDue
  BY DEF Init, DeliveryIsDue, Absent
<1> QED
  BY <1>1, StepDue, InvHolds, PTL DEF Spec

-----------------------------------------------------------------------------
(* The bridge implements NotificationDelivery.                             *)

\* What a move does to the notification the handler is being given.
LEMMA MoveOffers ==
  ASSUME NEW i \in Instances, NEW pc \in Pcs, NEW n, NEW k, Moved(i, pc, n, k)
  PROVE  Offered' = [Offered EXCEPT ![i] = IF pc = "handle" THEN n ELSE None]
BY DEF Moved, Offered

\* A step of a goroutine is a step of the abstract specification.
LEMMA PollImplements ==
  ASSUME Inv, NEW i \in Instances, PollStep(i)
  PROVE  Delivery!Next \/ UNCHANGED Delivery!dvars
<1>0. TypeOK /\ poll \in [Instances -> Goroutine] /\ poll[i] \in Goroutine
      /\ Offered \in [Instances -> Notes \cup {None}]
  BY DEF Inv, TypeOK, Offered, Goroutine
<1> USE <1>0
<1>1. ASSUME poll[i].pc # "handle", NEW pc \in Pcs \ {"handle"}, NEW n, NEW k, Moved(i, pc, n, k)
      PROVE  Offered' = Offered
  BY <1>1, MoveOffers DEF Offered
<1>2. CASE EnterGauge(i) \/ Poll(i) \/ ReceiveNothing(i) \/ ReceiveFails(i) \/ Retry(i)
  <2>1. PICK pc \in {"loop", "receive", "retry", "leave"} : Goto(i, pc)
    BY <1>2 DEF EnterGauge, Poll, ReceiveNothing, ReceiveFails, Retry
  <2>2. poll[i].pc # "handle" /\ UNCHANGED <<greenapi, delivered>>
    BY <1>2 DEF EnterGauge, Poll, ReceiveNothing, ReceiveFails, Retry
  <2> QED
    BY <1>1, <2>1, <2>2, GotoMeans DEF Pcs, Delivery!dvars, greenapi, delivered
<1>3. ASSUME NEW n \in Notes, ReceiveNote(i, n) PROVE Delivery!Next
  <2>1. Moved(i, "handle", n, poll[i].count)
    BY <1>3, NoteMeans DEF Pcs, ReceiveNote
  <2>2. Offered' = [Offered EXCEPT ![i] = n] /\ Offered[i] = 0
    BY <1>3, <2>1, MoveOffers DEF Pcs, Offered, ReceiveNote, None
  <2>3. UNCHANGED <<greenapi, delivered>> /\ n \in queue[i] /\ \A m \in queue[i] : n <= m
    BY <1>3 DEF ReceiveNote, IsOldest
  <2>4. /\ n <= arrived[i] /\ last[i] <= n /\ n \notin confirmed[i]
        /\ \A m \in 1 .. n - 1 : m \in handled[i] \cup taken[i]
    <3>1. Ledger(i) /\ arrived[i] \in Nat /\ n \in Nat
      BY DEF Inv, TypeOK, Notes
    <3>2. n <= arrived[i] /\ last[i] <= n /\ n \notin confirmed[i]
      BY <2>3, <3>1 DEF Ledger
    <3>3. ASSUME NEW m \in 1 .. n - 1 PROVE m \in handled[i] \cup taken[i]
      BY <2>3, <3>1, <3>2 DEF Ledger
    <3> QED
      BY <3>2, <3>3
  <2>5. Delivery!Offer(i, n)
    BY <2>2, <2>3, <2>4 DEF Delivery!Offer, greenapi, delivered
  <2> QED
    BY <2>5 DEF Delivery!Next, Notes
<1>4. CASE Handle(i)
  <2>1. Moved(i, "delete", poll[i].note, poll[i].count) /\ poll[i].pc = "handle" /\ poll[i].note \in Notes
    BY <1>4, PlaceMeans DEF Pcs, Handle, TypeOK, Goroutine
  <2>2. Offered' = [Offered EXCEPT ![i] = 0] /\ Offered[i] = poll[i].note
    BY <2>1, MoveOffers DEF Pcs, Offered, None
  <2>3. Delivery!Accept(i)
    BY <1>4, <2>1, <2>2 DEF Handle, Delivery!Accept, Notes, greenapi
  <2> QED
    BY <2>3 DEF Delivery!Next
<1>5. CASE DeleteAnswered(i) \/ DeleteFails(i)
  <2>1. PICK pc \in {"loop", "leave"} : Goto(i, pc)
    BY <1>5 DEF DeleteAnswered, DeleteFails
  <2>2. poll[i].pc = "delete" /\ poll[i].note \in Notes /\ poll[i].note \in handled[i]
    BY <1>5 DEF DeleteAnswered, DeleteFails, Inv, Ledger, TypeOK, Goroutine
  <2>3. Offered' = Offered
    BY <1>1, <2>1, <2>2, GotoMeans DEF Pcs
  <2>4. CASE DeleteAnswered(i)
    <3>1. Delivery!Remove(i, poll[i].note)
      BY <2>2, <2>3, <2>4 DEF DeleteAnswered, Delivery!Remove
    <3> QED
      BY <2>2, <3>1 DEF Delivery!Next, Notes
  <2>5. CASE DeleteFails(i)
    BY <2>3, <2>5 DEF DeleteFails, Delivery!dvars, delivered
  <2> QED
    BY <1>5, <2>4, <2>5
<1>6. CASE Enter(i)
  <2>1. active + 1 \in Nat
    BY DEF TypeOK
  <2>2. Moved(i, "counted", poll[i].note, active + 1)
    BY <1>6, <2>1, CountMeans DEF Pcs, Enter
  <2> QED
    BY <1>1, <1>6, <2>2 DEF Pcs, Enter, Delivery!dvars, greenapi, delivered
<1>7. CASE Leave(i)
  <2>1. TypeOK' /\ poll' = [poll EXCEPT ![i] = [@ EXCEPT !.pc = "leaving", !.count = active']]
    BY <1>7, LeaveKeeps DEF Inv, Leave
  <2>2. Moved(i, "leaving", poll[i].note, active')
    BY <2>1, CountMeans DEF Pcs, TypeOK
  <2> QED
    BY <1>1, <1>7, <2>2 DEF Pcs, Leave, Delivery!dvars, greenapi, delivered
<1>8. CASE LeaveGauge(i)
  BY <1>1, <1>8, GotoMeans DEF Pcs, LeaveGauge, Delivery!dvars, greenapi, delivered
<1> QED
  BY <1>2, <1>3, <1>4, <1>5, <1>6, <1>7, <1>8 DEF PollStep

\* So is every other step.
LEMMA OtherImplements ==
  ASSUME Inv, MainStep \/ Environment \/ UNCHANGED vars
  PROVE  Delivery!Next \/ UNCHANGED Delivery!dvars
<1>0. TypeOK /\ poll \in [Instances -> Goroutine]
  BY DEF Inv, TypeOK
<1>1. CASE StartList \/ StartReturns \/ StopReturns \/ Signal \/ Stop \/ UNCHANGED vars
           \/ \E i \in Instances : Connect(i) \/ Disconnect(i)
  <2>1. UNCHANGED <<poll, greenapi, delivered>>
    BY <1>1 DEF StartList, StartReturns, StopReturns, Signal, Stop, Connect, Disconnect, vars, process
  <2> QED
    BY <2>1 DEF Offered, Delivery!dvars, greenapi, delivered
<1>2. ASSUME NEW i \in Instances, StartOne(i) PROVE UNCHANGED Delivery!dvars
  <2>1. Moved(i, "go", poll[i].note, poll[i].count) /\ poll[i].pc = "absent"
    BY <1>0, <1>2, PlaceMeans DEF Pcs, StartOne, Inv, Lifecycle
  <2>2. Offered' = [Offered EXCEPT ![i] = None] /\ Offered[i] = None
    BY <2>1, MoveOffers DEF Pcs, Offered
  <2>3. Offered' = Offered
    BY <2>2 DEF Offered
  <2> QED
    BY <1>2, <2>3 DEF StartOne, Delivery!dvars, greenapi, delivered
<1>3. CASE Crash
  <2>1. Offered' = [i \in Instances |-> 0]
    BY <1>3 DEF Crash, Absent, Offered, None
  <2> QED
    BY <1>3, <2>1 DEF Crash, Delivery!Next, Delivery!Abort, delivered
<1>4. ASSUME NEW i \in Instances, Arrive(i) PROVE Delivery!Next
  BY <1>4 DEF Arrive, Delivery!Next, Delivery!Arrive, process, delivered, Offered
<1>5. ASSUME NEW i \in Instances, NEW n \in Notes, DeleteLate(i, n) PROVE Delivery!Next
  <2>1. n \in handled[i]
    BY <1>5 DEF DeleteLate, Inv, Ledger
  <2>2. Delivery!Remove(i, n)
    BY <1>5, <2>1 DEF DeleteLate, Delivery!Remove, process, delivered, Offered
  <2> QED
    BY <2>2 DEF Delivery!Next, Notes
<1>6. ASSUME NEW i \in Instances, NEW n \in Notes, ToolDelete(i, n) PROVE Delivery!Next
  <2>1. Delivery!Take(i, n)
    BY <1>6 DEF ToolDelete, IsOldest, Delivery!Take, process, delivered, Offered
  <2> QED
    BY <2>1 DEF Delivery!Next, Notes
<1> QED
  BY <1>1, <1>2, <1>3, <1>4, <1>5, <1>6 DEF MainStep, Environment

\* The bridge delivers as promised: in order, every notification before it
\* leaves the queue, and none once its removal is confirmed.
THEOREM BridgeImplementsDelivery == Spec => ImplementsDelivery
<1>1. Init => Delivery!Init
  BY DEF Init, Delivery!Init, Offered, Absent, None
<1>2. Inv /\ [Next]_vars => [Delivery!Next]_(Delivery!dvars)
  BY PollImplements, OtherImplements DEF Next
<1> QED
  BY <1>1, <1>2, InvHolds, PTL DEF Spec, ImplementsDelivery, Delivery!Spec

=============================================================================
