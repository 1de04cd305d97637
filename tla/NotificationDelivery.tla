------------------------ MODULE NotificationDelivery ------------------------
(***************************************************************************)
(* What polling promises the notification handler, with no goroutines, no  *)
(* context and no errors: of the notifications an instance receives, every *)
(* one is delivered before it leaves the queue, unless somebody else took  *)
(* it; they are delivered in the order of arrival; one may be delivered    *)
(* again, but not after a later one and not once its removal is confirmed. *)
(***************************************************************************)
EXTENDS Integers

CONSTANTS Instances, MaxNotes

VARIABLES
  arrived,     \* by instance: notifications so far; they are numbered from 1
  queue,       \* by instance: those that wait at Green API
  offered,     \* by instance: the one the handler is being given, or 0
  handled,     \* by instance: those the handler was given
  last,        \* by instance: the one it was given last, or 0
  confirmed,   \* by instance: those known to be removed
  taken        \* by instance: those another consumer removed

dvars == <<arrived, queue, offered, handled, last, confirmed, taken>>

Init ==
  /\ arrived = [i \in Instances |-> 0]
  /\ offered = [i \in Instances |-> 0]
  /\ last = [i \in Instances |-> 0]
  /\ queue = [i \in Instances |-> {}]
  /\ handled = [i \in Instances |-> {}]
  /\ confirmed = [i \in Instances |-> {}]
  /\ taken = [i \in Instances |-> {}]

Arrive(i) ==
  /\ arrived[i] < MaxNotes
  /\ arrived' = [arrived EXCEPT ![i] = @ + 1]
  /\ queue' = [queue EXCEPT ![i] = @ \cup {arrived[i] + 1}]
  /\ UNCHANGED <<offered, handled, last, confirmed, taken>>

\* A delivery starts.
Offer(i, n) ==
  /\ offered[i] = 0
  /\ n <= arrived[i]
  /\ last[i] <= n
  /\ n \notin confirmed[i]
  /\ \A m \in 1 .. n - 1 : m \in handled[i] \cup taken[i]
  /\ offered' = [offered EXCEPT ![i] = n]
  /\ UNCHANGED <<arrived, queue, handled, last, confirmed, taken>>

Accept(i) ==
  /\ offered[i] # 0
  /\ handled' = [handled EXCEPT ![i] = @ \cup {offered[i]}]
  /\ last' = [last EXCEPT ![i] = offered[i]]
  /\ offered' = [offered EXCEPT ![i] = 0]
  /\ UNCHANGED <<arrived, queue, confirmed, taken>>

\* Deliveries are cut short.
Abort ==
  /\ offered' = [i \in Instances |-> 0]
  /\ UNCHANGED <<arrived, queue, handled, last, confirmed, taken>>

Remove(i, n) ==
  /\ n \in handled[i]
  /\ queue' = [queue EXCEPT ![i] = @ \ {n}]
  /\ \/ confirmed' = [confirmed EXCEPT ![i] = @ \cup {n}]
     \/ UNCHANGED confirmed
  /\ UNCHANGED <<arrived, offered, handled, last, taken>>

Take(i, n) ==
  /\ n \in queue[i]
  /\ queue' = [queue EXCEPT ![i] = @ \ {n}]
  /\ taken' = [taken EXCEPT ![i] = @ \cup {n}]
  /\ UNCHANGED <<arrived, offered, handled, last, confirmed>>

Next ==
  \/ Abort
  \/ \E i \in Instances :
       \/ Arrive(i)
       \/ Accept(i)
       \/ \E n \in 1 .. MaxNotes : Offer(i, n) \/ Remove(i, n) \/ Take(i, n)

Spec == Init /\ [][Next]_dvars

=============================================================================
