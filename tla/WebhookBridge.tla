--------------------------- MODULE WebhookBridge ---------------------------
(***************************************************************************)
(* The polling bridge (webhook/bridge.go): one goroutine for each instance *)
(* that is registered when Start runs receives the oldest notification of  *)
(* the instance, hands it to the handler, and deletes it.  main starts the *)
(* bridge, serves MCP clients, and stops the bridge on its way out.        *)
(*                                                                         *)
(* The queues are at Green API and outlive the process.  The requests to   *)
(* them fail, their answers get lost, and a deletion whose answer was lost *)
(* may still be carried out later.  While the bridge polls, tools of the   *)
(* MCP server change the registered instances and delete notifications.    *)
(*                                                                         *)
(* The notifications of an instance are numbered in the order of arrival.  *)
(***************************************************************************)
EXTENDS Integers, FiniteSets

CONSTANTS
  Instances,    \* WhatsApp instances
  Configured,   \* those in the configuration (polling mode needs one)
  MaxNotes,     \* bound on the notifications that arrive for an instance
  MaxCrashes    \* bound on the times the process dies

ASSUME BridgeAssumption ==
  /\ IsFiniteSet(Instances)
  /\ Configured \subseteq Instances
  /\ MaxNotes \in Nat
  /\ MaxCrashes \in Nat

VARIABLES
  main,        \* where the main goroutine is
  toStart,     \* what is left of the list of instances Start walks
  cancelled,   \* ctx.Err() != nil
  wg,          \* Bridge.wg
  active,      \* Bridge.activeConnections
  gauge,       \* the active_webhook_connections gauge
  poll,        \* the goroutine of each instance
  registered,  \* the instances in the credential store
  crashes,     \* how often the process died
  queue,       \* by instance: notifications that wait at Green API
  late,        \* by instance: deletions given up on that may still happen
  \* History
  arrived,     \* by instance: notifications so far
  handled,     \* by instance: those the handler was given
  last,        \* by instance: the one it was given last, or 0
  confirmed,   \* by instance: those whose deletion was answered
  taken        \* by instance: those a tool deleted

process   == <<main, toStart, cancelled, wg, active, gauge, poll, registered, crashes>>
greenapi  == <<queue, late, arrived, taken>>
delivered == <<handled, last, confirmed>>
vars      == <<process, greenapi, delivered>>

Notes == 1 .. MaxNotes
None  == 0

Absent == [pc |-> "absent", note |-> None, count |-> 0]

\* pc "go" stands for a goroutine that has not run yet, "counted" and "leaving"
\* for one that changed activeConnections and not yet the gauge.
Goroutine == [pc    : {"absent", "go", "counted", "loop", "receive", "retry",
                       "handle", "delete", "leave", "leaving", "gone"},
              note  : Notes \cup {None},     \* the notification it holds
              count : Nat]                   \* what atomic.AddInt64 returned

Running(i) == poll[i].pc \notin {"absent", "gone"}

TypeOK ==
  /\ main \in {"init", "starting", "serving", "waiting", "stopped"}
  /\ toStart \subseteq Instances
  /\ cancelled \in BOOLEAN
  /\ wg \in Nat
  /\ active \in Nat
  /\ gauge \in Nat
  /\ poll \in [Instances -> Goroutine]
  /\ \A i \in Instances : poll[i].pc \in {"handle", "delete"} <=> poll[i].note # None
  /\ registered \subseteq Instances
  /\ crashes \in 0 .. MaxCrashes
  /\ arrived \in [Instances -> 0 .. MaxNotes]
  /\ queue \in [Instances -> SUBSET Notes]
  /\ late \in [Instances -> SUBSET Notes]
  /\ handled \in [Instances -> SUBSET Notes]
  /\ last \in [Instances -> 0 .. MaxNotes]
  /\ confirmed \in [Instances -> SUBSET Notes]
  /\ taken \in [Instances -> SUBSET Notes]

Init ==
  /\ main = "init"
  /\ toStart = {}
  /\ cancelled = FALSE
  /\ wg = 0
  /\ active = 0
  /\ gauge = 0
  /\ poll = [i \in Instances |-> Absent]
  /\ registered = Configured
  /\ crashes = 0
  /\ arrived = [i \in Instances |-> 0]
  /\ last = [i \in Instances |-> 0]
  /\ queue = [i \in Instances |-> {}]
  /\ late = [i \in Instances |-> {}]
  /\ handled = [i \in Instances |-> {}]
  /\ confirmed = [i \in Instances |-> {}]
  /\ taken = [i \in Instances |-> {}]

-----------------------------------------------------------------------------
(* Green API and its other consumers.                                      *)

\* The instance receives a message, or something else to tell.
Arrive(i) ==
  /\ arrived[i] < MaxNotes
  /\ arrived' = [arrived EXCEPT ![i] = @ + 1]
  /\ queue' = [queue EXCEPT ![i] = @ \cup {arrived[i] + 1}]
  /\ UNCHANGED <<process, delivered, late, taken>>

\* receiveNotification answers with the oldest notification and keeps it.
IsOldest(i, n) == n \in queue[i] /\ \A m \in queue[i] : n <= m

\* A deletion whose caller gave up is carried out after all.
DeleteLate(i, n) ==
  /\ n \in late[i]
  /\ late' = [late EXCEPT ![i] = @ \ {n}]
  /\ queue' = [queue EXCEPT ![i] = @ \ {n}]
  /\ UNCHANGED <<process, delivered, arrived, taken>>

-----------------------------------------------------------------------------
(* The MCP server, while main serves.                                      *)

\* whatsapp_connect registers an instance; it takes it back if the validation
\* fails, and so does whatsapp_disconnect.
Connect(i) ==
  /\ main = "serving"
  /\ i \notin registered
  /\ registered' = registered \cup {i}
  /\ UNCHANGED <<main, toStart, cancelled, wg, active, gauge, poll, crashes, greenapi, delivered>>

Disconnect(i) ==
  /\ main = "serving"
  /\ i \in registered
  /\ registered' = registered \ {i}
  /\ UNCHANGED <<main, toStart, cancelled, wg, active, gauge, poll, crashes, greenapi, delivered>>

\* whatsapp_delete_notification, for what whatsapp_receive_notification showed.
ToolDelete(i, n) ==
  /\ main = "serving"
  /\ i \in registered
  /\ IsOldest(i, n)
  /\ queue' = [queue EXCEPT ![i] = @ \ {n}]
  /\ taken' = [taken EXCEPT ![i] = @ \cup {n}]
  /\ UNCHANGED <<process, delivered, late, arrived>>

-----------------------------------------------------------------------------
(* The main goroutine.                                                     *)

\* SIGINT or SIGTERM cancels the context the bridge's own derives from.
Signal ==
  /\ main \in {"init", "starting", "serving"}
  /\ ~cancelled
  /\ cancelled' = TRUE
  /\ UNCHANGED <<main, toStart, wg, active, gauge, poll, registered, crashes, greenapi, delivered>>

StartList ==
  /\ main = "init"
  /\ main' = "starting"
  /\ toStart' = registered
  /\ UNCHANGED <<cancelled, wg, active, gauge, poll, registered, crashes, greenapi, delivered>>

StartOne(i) ==
  /\ main = "starting"
  /\ i \in toStart
  /\ toStart' = toStart \ {i}
  /\ wg' = wg + 1
  /\ poll' = [poll EXCEPT ![i] = [@ EXCEPT !.pc = "go"]]
  /\ UNCHANGED <<main, cancelled, active, gauge, registered, crashes, greenapi, delivered>>

StartReturns ==
  /\ main = "starting"
  /\ toStart = {}
  /\ main' = "serving"
  /\ UNCHANGED <<toStart, cancelled, wg, active, gauge, poll, registered, crashes, greenapi, delivered>>

\* Fault: Stop has cancelled the context of Start's caller only.
StopWithoutCancel ==
  /\ main = "serving"
  /\ main' = "waiting"
  /\ UNCHANGED <<toStart, cancelled, wg, active, gauge, poll, registered, crashes, greenapi, delivered>>

\* The transport returns, at a signal or at the end of its input, and the
\* deferred Stop cancels the bridge's context.
Stop ==
  /\ main = "serving"
  /\ main' = "waiting"
  /\ cancelled' = TRUE
  /\ UNCHANGED <<toStart, wg, active, gauge, poll, registered, crashes, greenapi, delivered>>

\* Fault: Stop does not wait.
StopSkipsWait ==
  /\ main = "waiting"
  /\ main' = "stopped"
  /\ UNCHANGED <<toStart, cancelled, wg, active, gauge, poll, registered, crashes, greenapi, delivered>>

StopReturns ==
  /\ main = "waiting"
  /\ wg = 0
  /\ main' = "stopped"
  /\ UNCHANGED <<toStart, cancelled, wg, active, gauge, poll, registered, crashes, greenapi, delivered>>

\* The process dies, in log.Fatalf or from outside, with the deletions on their
\* way in L, and is started again.
Crash ==
  /\ main # "stopped"
  /\ crashes < MaxCrashes
  /\ crashes' = crashes + 1
  /\ main' = "init" /\ toStart' = {} /\ cancelled' = FALSE
  /\ wg' = 0 /\ active' = 0 /\ gauge' = 0
  /\ poll' = [i \in Instances |-> Absent]
  /\ registered' = Configured
  /\ \E L \in SUBSET {i \in registered : poll[i].pc = "delete"} :
       late' = [i \in Instances |-> late[i] \cup IF i \in L THEN {poll[i].note} ELSE {}]
  /\ UNCHANGED <<queue, arrived, taken, delivered>>

-----------------------------------------------------------------------------
(* The goroutine of an instance.                                           *)

Goto(i, pc) == poll' = [poll EXCEPT ![i] = [@ EXCEPT !.pc = pc, !.note = None]]

\* atomic.AddInt64(&b.activeConnections, 1)
Enter(i) ==
  /\ poll[i].pc = "go"
  /\ active' = active + 1
  /\ poll' = [poll EXCEPT ![i] = [@ EXCEPT !.pc = "counted", !.count = active + 1]]
  /\ UNCHANGED <<main, toStart, cancelled, wg, gauge, registered, crashes, greenapi, delivered>>

EnterGauge(i) ==
  /\ poll[i].pc = "counted"
  /\ gauge' = poll[i].count
  /\ Goto(i, "loop")
  /\ UNCHANGED <<main, toStart, cancelled, wg, active, registered, crashes, greenapi, delivered>>

\* The head of the loop: stop, or send the long poll.  Without credentials
\* there is nowhere to send it.
Poll(i) ==
  /\ poll[i].pc = "loop"
  /\ Goto(i, IF cancelled THEN "leave" ELSE IF i \in registered THEN "receive" ELSE "retry")
  /\ UNCHANGED <<main, toStart, cancelled, wg, active, gauge, registered, crashes, greenapi, delivered>>

\* Fault: receiving takes the notification off the queue.
ReceiveAndRemove(i, n) ==
  /\ poll[i].pc = "receive"
  /\ IsOldest(i, n)
  /\ poll' = [poll EXCEPT ![i] = [@ EXCEPT !.pc = "handle", !.note = n]]
  /\ queue' = [queue EXCEPT ![i] = @ \ {n}]
  /\ UNCHANGED <<main, toStart, cancelled, wg, active, gauge, registered, crashes, late, arrived, taken, delivered>>

ReceiveNote(i, n) ==
  /\ poll[i].pc = "receive"
  /\ IsOldest(i, n)
  /\ poll' = [poll EXCEPT ![i] = [@ EXCEPT !.pc = "handle", !.note = n]]
  /\ UNCHANGED <<main, toStart, cancelled, wg, active, gauge, registered, crashes, greenapi, delivered>>

\* Fault: after an empty answer the previous notification is handled again.
ReceiveNothingRepeats(i) ==
  /\ poll[i].pc = "receive"
  /\ queue[i] = {}
  /\ IF last[i] = None THEN Goto(i, "loop")
                       ELSE poll' = [poll EXCEPT ![i] = [@ EXCEPT !.pc = "handle", !.note = last[i]]]
  /\ UNCHANGED <<main, toStart, cancelled, wg, active, gauge, registered, crashes, greenapi, delivered>>

ReceiveNothing(i) ==
  /\ poll[i].pc = "receive"
  /\ queue[i] = {}
  /\ Goto(i, "loop")
  /\ UNCHANGED <<main, toStart, cancelled, wg, active, gauge, registered, crashes, greenapi, delivered>>

\* Fault: an error ends the goroutine.
ReceiveGivesUp(i) ==
  /\ poll[i].pc = "receive"
  /\ Goto(i, "leave")
  /\ UNCHANGED <<main, toStart, cancelled, wg, active, gauge, registered, crashes, greenapi, delivered>>

\* The request fails, or the cancelled context ends it.
ReceiveFails(i) ==
  /\ poll[i].pc = "receive"
  /\ Goto(i, IF cancelled THEN "leave" ELSE "retry")
  /\ UNCHANGED <<main, toStart, cancelled, wg, active, gauge, registered, crashes, greenapi, delivered>>

\* After retryDelay, or at once when the context is cancelled.
Retry(i) ==
  /\ poll[i].pc = "retry"
  /\ Goto(i, IF cancelled THEN "leave" ELSE "loop")
  /\ UNCHANGED <<main, toStart, cancelled, wg, active, gauge, registered, crashes, greenapi, delivered>>

\* b.handler(instanceID, notification)
Handle(i) ==
  /\ poll[i].pc = "handle"
  /\ handled' = [handled EXCEPT ![i] = @ \cup {poll[i].note}]
  /\ last' = [last EXCEPT ![i] = poll[i].note]
  /\ poll' = [poll EXCEPT ![i] = [@ EXCEPT !.pc = "delete"]]
  /\ UNCHANGED <<main, toStart, cancelled, wg, active, gauge, registered, crashes, greenapi, confirmed>>

\* Fault: it is the oldest notification that goes, whatever its receiptId.
DeleteOldest(i) ==
  /\ poll[i].pc = "delete"
  /\ i \in registered
  /\ queue' = [queue EXCEPT ![i] = {n \in @ : ~IsOldest(i, n)}]
  /\ confirmed' = [confirmed EXCEPT ![i] = @ \cup {poll[i].note}]
  /\ Goto(i, "loop")
  /\ UNCHANGED <<main, toStart, cancelled, wg, active, gauge, registered, crashes,
                 late, arrived, taken, handled, last>>

\* DeleteNotification is answered: Green API no longer has the notification.
DeleteAnswered(i) ==
  /\ poll[i].pc = "delete"
  /\ i \in registered
  /\ queue' = [queue EXCEPT ![i] = @ \ {poll[i].note}]
  /\ confirmed' = [confirmed EXCEPT ![i] = @ \cup {poll[i].note}]
  /\ Goto(i, "loop")
  /\ UNCHANGED <<main, toStart, cancelled, wg, active, gauge, registered, crashes,
                 late, arrived, taken, handled, last>>

\* DeleteNotification fails; if it was sent at all, it may still be carried
\* out.  The loop goes on: the notification is delivered again rather than lost.
DeleteFails(i) ==
  /\ poll[i].pc = "delete"
  /\ late' \in {late} \cup
       IF i \in registered THEN {[late EXCEPT ![i] = @ \cup {poll[i].note}]} ELSE {}
  /\ Goto(i, IF cancelled THEN "leave" ELSE "loop")
  /\ UNCHANGED <<main, toStart, cancelled, wg, active, gauge, registered, crashes,
                 queue, arrived, taken, delivered>>

\* atomic.AddInt64(&b.activeConnections, -1)
Leave(i) ==
  /\ poll[i].pc = "leave"
  /\ active' = active - 1
  /\ poll' = [poll EXCEPT ![i] = [@ EXCEPT !.pc = "leaving", !.count = active - 1]]
  /\ UNCHANGED <<main, toStart, cancelled, wg, gauge, registered, crashes, greenapi, delivered>>

\* The last deferred calls: the gauge, and wg.Done.
LeaveGauge(i) ==
  /\ poll[i].pc = "leaving"
  /\ gauge' = poll[i].count
  /\ wg' = wg - 1
  /\ Goto(i, "gone")
  /\ UNCHANGED <<main, toStart, cancelled, active, registered, crashes, greenapi, delivered>>

-----------------------------------------------------------------------------

MainStep ==
  \/ StartList
  \/ \E i \in Instances : StartOne(i)
  \/ StartReturns
  \/ StopReturns

PollStep(i) ==
  \/ Enter(i)
  \/ EnterGauge(i)
  \/ Poll(i)
  \/ \E n \in Notes : ReceiveNote(i, n)
  \/ ReceiveNothing(i)
  \/ ReceiveFails(i)
  \/ Retry(i)
  \/ Handle(i)
  \/ DeleteAnswered(i)
  \/ DeleteFails(i)
  \/ Leave(i)
  \/ LeaveGauge(i)

Environment ==
  \/ Signal
  \/ Stop
  \/ Crash
  \/ \E i \in Instances :
       \/ Arrive(i)
       \/ Connect(i)
       \/ Disconnect(i)
       \/ \E n \in Notes : DeleteLate(i, n) \/ ToolDelete(i, n)

Next ==
  \/ MainStep
  \/ \E i \in Instances : PollStep(i)
  \/ Environment

Spec == Init /\ [][Next]_vars

\* The runtime runs every goroutine, every request ends (http.Client.Timeout),
\* and one that is repeated forever succeeds again and again.  Nothing is
\* assumed of signals, of the transport, of tools or of what arrives.
Fairness ==
  /\ WF_vars(MainStep)
  /\ \A i \in Instances :
       /\ WF_vars(PollStep(i))
       /\ SF_vars(\E n \in Notes : ReceiveNote(i, n))
       /\ SF_vars(DeleteAnswered(i))

FairSpec == Spec /\ Fairness

-----------------------------------------------------------------------------

\* No notification leaves the queue before the handler has seen it, unless a
\* tool deleted it: the order of handler and DeleteNotification in pollInstance,
\* through lost answers, late deletions, cancellation and crashes.
NothingDropped ==
  \A i \in Instances : \A n \in 1 .. arrived[i] :
    n \in queue[i] \cup handled[i] \cup taken[i]

\* Once Stop has returned, no goroutine of the bridge is left that could call
\* the handler or Green API: wg.Wait in Stop against wg.Add in Start.
StoppedMeansQuiet ==
  main = "stopped" => \A i \in Instances : ~Running(i)

\* Every call of the handler is due: the notification is not one before the last
\* that was handled, and its removal was not confirmed.  It may have left the
\* queue meanwhile, by a late deletion or a tool (handler after
\* ReceiveNotification in pollInstance).
DeliveryIsDue ==
  \A i \in Instances :
    poll[i].pc = "handle" => poll[i].note >= last[i] /\ poll[i].note \notin confirmed[i]

\* When Stop waits, every goroutine has been told to end, and the count it waits
\* for stands for goroutines that still run: b.cancel before b.wg.Wait in Stop,
\* wg.Add in Start, wg.Done at the end of every goroutine.
StopIsOwed ==
  main = "waiting" => cancelled /\ (wg = 0 \/ \E i \in Instances : Running(i))

\* The bridge implements NotificationDelivery: deliveries in order, no
\* delivery after a confirmed removal, nothing dropped.
Offered == [i \in Instances |-> IF poll[i].pc = "handle" THEN poll[i].note ELSE None]

Delivery == INSTANCE NotificationDelivery WITH offered <- Offered

ImplementsDelivery == Delivery!Spec

\* A notification of a polled instance reaches the handler as long as the
\* instance stays registered and the bridge is not stopped, however often
\* requests fail: the retry loop of pollInstance.
EveryNoteHandled ==
  \A i \in Instances : \A n \in Notes :
    (n \in queue[i] /\ [](main = "serving" /\ i \in registered /\ ~cancelled))
      ~> (n \in handled[i] \cup taken[i] \/ poll[i].pc = "absent")

\* Stop returns: every goroutine notices the cancelled context wherever it is.
StopTerminates == (main = "waiting") ~> (main = "stopped" \/ main = "init")

=============================================================================
