-------------------------- MODULE Lifecycle_proofs --------------------------
(***************************************************************************)
(* Type correctness of the lifecycle and its safety properties, for any    *)
(* number of requests, and that the store is filled as configured.  The    *)
(* inductive invariant is TypeOK together with Inv of Lifecycle; that      *)
(* nobody waits in vain also needs Started.                                *)
(***************************************************************************)
EXTENDS Lifecycle, TLAPS

\* The initial states satisfy the invariant.
LEMMA InitHolds == Init => TypeOK /\ Inv
<1> SUFFICES ASSUME Init PROVE TypeOK /\ Inv
  OBVIOUS
<1>1. TypeOK
  <2>1. /\ stop \in [Stoppers -> {"absent", "waiting", "called", "closed", "returned", "left"}]
        /\ call \in [Calls -> {"new", "running", "answered", "cut"}]
        /\ push \in [Pushes -> {"new", "reading", "handled", "answered", "refused", "cut"}]
    BY DEF Init
  <2>2. cancelled \in BOOLEAN /\ deferred \in BOOLEAN /\ closed \in BOOLEAN
    BY DEF Init
  <2>3. doneCh \in 0 .. 1 /\ once \in {"new", "done"} \cup Stoppers
    BY DEF Init
  <2> QED
    BY <2>1, <2>2, <2>3 DEF Init, TypeOK
<1>2. Channels /\ Phases /\ HandledAreSeen
  BY DEF Init, Channels, Phases, HandledAreSeen, Stoppers
<1>3. StopOnce
  BY DEF Init, StopOnce, Stoppers
<1> QED
  BY <1>1, <1>2, <1>3 DEF Inv

\* Overriding an item leaves a list of items.
LEMMA OverrideTyped ==
  ASSUME NEW list \in Seq(Item), NEW item \in Item
  PROVE  OverrideItem(list, item) \in Seq(Item)
<1>1. Append(list, item) \in Seq(Item)
  OBVIOUS
<1>2. ASSUME Positions(list, item.id) # {} PROVE OverrideItem(list, item) \in Seq(Item)
  <2>1. list \in [1 .. Len(list) -> Item] /\ Len(list) \in Nat
    OBVIOUS
  <2>2. OverrideItem(list, item) \in [1 .. Len(list) -> Item]
    BY <1>2, <2>1 DEF OverrideItem
  <2> QED
    BY <2>1, <2>2
<1> QED
  BY <1>1, <1>2 DEF OverrideItem

\* What main makes of its configuration is of the right kind.
LEMMA ConfigurationTypes ==
  ASSUME NEW src \in Sources
  PROVE  LET cfg == Load(src.file, src.env)
         IN  /\ DOMAIN Registered(cfg.instances) \subseteq Ids
             /\ WebhookPart(cfg) \in {"receiver", "bridge", "none"}
             /\ ServeMethod(cfg.settings) \in {"stdio", "sse", "http", "hybrid"}
<1> DEFINE cfg == Load(src.file, src.env)
<1>1. src.file \in FileType /\ src.env \in EnvType
  BY SourcesAssumption
<1>2. src.file.instances \in Seq(Item)
  BY <1>1 DEF FileType
<1>3. src.env.instance # Unset => OverrideItem(src.file.instances, src.env.instance) \in Seq(Item)
  BY <1>1, <1>2, OverrideTyped DEF EnvType
<1>4. cfg.instances \in Seq(Item)
  <2>1. cfg.instances = IF src.env.instance = Unset THEN src.file.instances
                        ELSE OverrideItem(src.file.instances, src.env.instance)
    BY DEF Load, ApplyEnvOverrides
  <2> QED
    BY <1>2, <1>3, <2>1
<1>5. DOMAIN Registered(cfg.instances) \subseteq Ids
  <2> DEFINE list == cfg.instances
  <2> HIDE DEF cfg
  <2>1. \A k \in DOMAIN list : list[k].id \in Ids
    <3> TAKE k \in DOMAIN list
    <3>1. list[k] \in Item
      BY <1>4
    <3> QED
      BY <3>1 DEF Item
  <2>2. DOMAIN Registered(list) = {list[k].id : k \in DOMAIN list}
    BY DEF Registered
  <2> QED
    BY <2>1, <2>2
<1>6. WebhookPart(cfg) \in {"receiver", "bridge", "none"}
  BY DEF WebhookPart
<1>7. ServeMethod(cfg.settings) \in {"stdio", "sse", "http", "hybrid"}
  BY DEF ServeMethod
<1> QED
  BY <1>5, <1>6, <1>7

\* Reading the configuration keeps the invariant.
LEMMA LoadStep ==
  ASSUME TypeOK, Inv, LoadConfig
  PROVE  (TypeOK /\ Inv)'
<1>1. source \in Sources
  BY DEF LoadConfig, Inv, Phases
<1> DEFINE cfg == Load(source.file, source.env)
<1>2. /\ DOMAIN Registered(cfg.instances) \subseteq Ids
      /\ WebhookPart(cfg) \in {"receiver", "bridge", "none"}
      /\ ServeMethod(cfg.settings) \in {"stdio", "sse", "http", "hybrid"}
  BY <1>1, ConfigurationTypes
<1>3. /\ registered' = Registered(cfg.instances) /\ part' = WebhookPart(cfg)
      /\ transport' = ServeMethod(cfg.settings) /\ source' = Unset
      /\ main = "loading" /\ main' = "configured"
      /\ UNCHANGED <<cancelled, shutter, deferred, serve, closed, doneCh, once, stop, call, push, seen>>
  BY DEF LoadConfig, receiver, requests
<1> HIDE DEF cfg
<1>4. /\ DOMAIN registered' \subseteq Ids /\ part' \in {Unset, "receiver", "bridge", "none"}
      /\ transport' \in {Unset, "stdio", "sse", "http", "hybrid"} /\ source' \in Sources \cup {Unset}
  BY <1>2, <1>3
<1>5. TypeOK'
  BY <1>3, <1>4 DEF TypeOK
<1>6. Inv'
  BY <1>3 DEF Inv, Channels, StopOnce, Phases, HandledAreSeen
<1> QED
  BY <1>5, <1>6

\* The actions of the receiver's goroutines and of Stop keep the invariant.
LEMMA ReceiverStep ==
  ASSUME TypeOK, Inv,
         StartNoReceiver \/ StartReceiver \/ ServeStep \/ WatcherWakes \/ \E w \in Stoppers : StopStep(w)
  PROVE  (TypeOK /\ Inv)'
<1> USE DEF TypeOK, Inv, Channels, StopOnce, Phases, HandledAreSeen, Alive, settled, receiver, requests
<1>1. CASE StartReceiver
  <2>1. serve = "absent" /\ stop["watcher"] = "absent" /\ stop["main"] = "absent" /\ ~deferred
    BY <1>1 DEF StartReceiver
  <2>2. /\ main' = "started" /\ doneCh' = doneCh /\ once' = once /\ closed' = closed
        /\ push' = push /\ seen' = seen
    BY <1>1 DEF StartReceiver
  <2>3. CASE serve' = "go" /\ deferred' /\ stop' = [stop EXCEPT !["watcher"] = "waiting"]
    <3>1. stop'["main"] = "absent" /\ stop'["watcher"] = "waiting"
      BY <2>1, <2>3 DEF Stoppers
    <3>2. TypeOK'
      BY <1>1, <2>3 DEF StartReceiver, Stoppers
    <3> QED
      BY <2>1, <2>2, <2>3, <3>1, <3>2 DEF Stoppers
  <2>4. CASE UNCHANGED <<serve, stop, deferred>>
    BY <1>1, <2>1, <2>4 DEF StartReceiver, Stoppers
  <2> QED
    BY <1>1, <2>3, <2>4 DEF StartReceiver
<1>0. CASE StartNoReceiver
  BY <1>0 DEF StartNoReceiver, Stoppers
<1>2. CASE ServeBegins
  BY <1>2 DEF ServeBegins
<1>3. CASE ServeEnds
  BY <1>3 DEF ServeEnds
<1>4. CASE WatcherWakes
  BY <1>4 DEF WatcherWakes, Stoppers
<1>5. ASSUME NEW w \in Stoppers, StopCloses(w) PROVE (TypeOK /\ Inv)'
  BY <1>5 DEF StopCloses, Stoppers
<1>6. ASSUME NEW w \in Stoppers, StopReturns(w) PROVE (TypeOK /\ Inv)'
  BY <1>6 DEF StopReturns, Stoppers
<1>7. ASSUME NEW w \in Stoppers, StopAgain(w) PROVE (TypeOK /\ Inv)'
  BY <1>7 DEF StopAgain, Stoppers
<1> QED
  BY <1>0, <1>1, <1>2, <1>3, <1>4, <1>5, <1>6, <1>7 DEF ServeStep, StopStep

\* The end of the process: requests are cut off, nothing else happens to them.
LEMMA EndMeans ==
  ASSUME TypeOK, HandledAreSeen, NEW how \in {"exited", "dead"}, End(how)
  PROVE  /\ main' = how
         /\ call' \in [Calls -> {"new", "running", "answered", "cut"}]
         /\ push' \in [Pushes -> {"new", "reading", "handled", "answered", "refused", "cut"}]
         /\ seen' \subseteq Pushes
         /\ HandledAreSeen'
BY DEF TypeOK, HandledAreSeen, End, CutOff

\* The actions of main, of the transport and of the environment.
LEMMA MainStepHolds ==
  ASSUME TypeOK, Inv,
         Signal \/ LoadFails \/ ServeTransport \/ ShutdownBegins \/ Listen \/ ServeReturns \/ ServeFails \/ Exit
  PROVE  (TypeOK /\ Inv)'
<1> USE DEF TypeOK, Inv, Channels, StopOnce, Phases, settled, receiver
<1>1. CASE Signal
  BY <1>1 DEF Signal, requests, HandledAreSeen
<1>2. CASE ServeTransport
  BY <1>2 DEF ServeTransport, requests, HandledAreSeen
<1>3. CASE ShutdownBegins
  BY <1>3 DEF ShutdownBegins, requests, HandledAreSeen
<1>4. CASE Listen
  BY <1>4 DEF Listen, requests, HandledAreSeen
<1>5. CASE ServeReturns
  BY <1>5 DEF ServeReturns, Stoppers, requests, HandledAreSeen
<1>6. CASE ServeFails
  BY <1>6, EndMeans DEF ServeFails
<1>7. CASE Exit
  BY <1>7, EndMeans DEF Exit
<1>8. CASE LoadFails
  BY <1>8, EndMeans DEF LoadFails
<1> QED
  BY <1>1, <1>2, <1>3, <1>4, <1>5, <1>6, <1>7, <1>8

\* The requests of MCP clients and producers.
LEMMA RequestStep ==
  ASSUME TypeOK, Inv,
         \/ \E c \in Calls : CallArrives(c) \/ CallAnswered(c)
         \/ \E p \in Pushes : PushArrives(p) \/ PushRefused(p) \/ PushHandled(p) \/ PushAnswered(p)
  PROVE  (TypeOK /\ Inv)'
<1> USE DEF TypeOK, Inv, Channels, StopOnce, Phases, HandledAreSeen, settled, receiver
<1>1. ASSUME NEW c \in Calls, CallArrives(c) \/ CallAnswered(c) PROVE (TypeOK /\ Inv)'
  BY <1>1 DEF CallArrives, CallAnswered
<1>2. ASSUME NEW p \in Pushes, PushArrives(p) \/ PushRefused(p) PROVE (TypeOK /\ Inv)'
  BY <1>2 DEF PushArrives, PushRefused
<1>3. ASSUME NEW p \in Pushes, PushHandled(p) \/ PushAnswered(p) PROVE (TypeOK /\ Inv)'
  BY <1>3 DEF PushHandled, PushAnswered
<1> QED
  BY <1>1, <1>2, <1>3

\* Every step keeps the invariant.
LEMMA StepHolds == TypeOK /\ Inv /\ [Next]_vars => (TypeOK /\ Inv)'
<1> SUFFICES ASSUME TypeOK, Inv, [Next]_vars PROVE (TypeOK /\ Inv)'
  OBVIOUS
<1>1. CASE UNCHANGED vars
  BY <1>1 DEF vars, settled, receiver, requests, TypeOK, Inv, Channels, StopOnce, Phases, HandledAreSeen
<1> QED
  BY <1>1, LoadStep, ReceiverStep, MainStepHolds, RequestStep DEF Next, MainStep

\* The invariant holds in every reachable state.
THEOREM InvHolds == Spec => [](TypeOK /\ Inv)
BY InitHolds, StepHolds, PTL DEF Spec

\* Types, with doneCh closed at most once: closing it again would panic.
THEOREM TypeCorrect == Spec => []TypeOK
BY InvHolds, PTL

\* A process that returns from main has stopped its receiver.
THEOREM ExitStops == Spec => []ExitedMeansStopped
<1>1. Inv => ExitedMeansStopped
  BY DEF Inv, StopOnce, Phases, ExitedMeansStopped, Stoppers
<1> QED
  BY <1>1, InvHolds, PTL

\* Who has called Stop, or will, has a receiver that was started; a transport
\* that is served has the goroutine that will shut it down.
LEMMA StepStarted == TypeOK /\ Inv /\ Started /\ [Next]_vars => Started'
<1> SUFFICES ASSUME TypeOK, Inv, Started, [Next]_vars PROVE Started'
  OBVIOUS
<1>0. stop \in [Stoppers -> {"absent", "waiting", "called", "closed", "returned", "left"}]
  BY DEF TypeOK
<1>1. CASE StartReceiver
  <2>1. stop["main"] = "absent" /\ main' = "started"
    BY <1>1 DEF StartReceiver, Inv, Phases
  <2>2. CASE deferred' = TRUE /\ stop' = [stop EXCEPT !["watcher"] = "waiting"]
    BY <1>0, <2>1, <2>2 DEF Started, Stoppers
  <2>3. CASE UNCHANGED <<deferred, stop>>
    BY <2>1, <2>3 DEF Started
  <2> QED
    BY <1>1, <2>2, <2>3 DEF StartReceiver
<1>2. CASE WatcherWakes
  <2>1. /\ stop["watcher"] # "absent"
        /\ stop' = [stop EXCEPT !["watcher"] = "called"] \/ stop' = [stop EXCEPT !["watcher"] = "left"]
        /\ UNCHANGED <<deferred, main, transport, shutter>>
    BY <1>2 DEF WatcherWakes, settled
  <2> QED
    BY <1>0, <2>1 DEF Started, Stoppers
<1>3. ASSUME NEW w \in Stoppers, StopStep(w) PROVE Started'
  <2>1. /\ stop[w] \in {"called", "closed"}
        /\ stop' = [stop EXCEPT ![w] = "closed"] \/ stop' = [stop EXCEPT ![w] = "returned"]
        /\ UNCHANGED <<deferred, main, transport, shutter>>
    BY <1>3 DEF StopStep, StopCloses, StopReturns, StopAgain, settled
  <2> QED
    BY <1>0, <2>1 DEF Started, Stoppers
<1>4. CASE ServeReturns
  <2>1. /\ main' = "returning" /\ UNCHANGED deferred
        /\ stop' = IF deferred THEN [stop EXCEPT !["main"] = "called"] ELSE stop
    BY <1>4 DEF ServeReturns
  <2> QED
    BY <1>0, <2>1 DEF Started, Stoppers
<1>5. CASE ServeTransport
  <2>1. /\ UNCHANGED <<stop, deferred, transport>>
        /\ (main' = "serving" /\ transport = "stdio") \/ (main' = "listen" /\ shutter' = "waiting")
    BY <1>5 DEF ServeTransport, settled, receiver
  <2> QED
    BY <2>1 DEF Started
<1>6. CASE LoadConfig
  <2>1. UNCHANGED <<stop, deferred>> /\ main' = "configured"
    BY <1>6 DEF LoadConfig, receiver
  <2> QED
    BY <2>1 DEF Started
<1>7. CASE LoadFails \/ ServeFails \/ Exit
  <2>1. UNCHANGED <<stop, deferred>> /\ main' \in {"dead", "exited"}
    BY <1>7 DEF LoadFails, ServeFails, Exit, End, receiver
  <2> QED
    BY <2>1 DEF Started
<1>8. CASE StartNoReceiver
  BY <1>8 DEF StartNoReceiver, receiver, Started
<1>9. CASE ShutdownBegins \/ Listen
  BY <1>9 DEF ShutdownBegins, Listen, settled, receiver, Started
<1>10. CASE UNCHANGED <<stop, deferred, main, transport, shutter>>
  BY <1>10 DEF Started
<1>11. CASE Signal \/ ServeStep
  BY <1>10, <1>11 DEF Signal, ServeStep, ServeBegins, ServeEnds, settled, receiver
<1>12. CASE \E c \in Calls : CallArrives(c) \/ CallAnswered(c)
  BY <1>10, <1>12 DEF CallArrives, CallAnswered, settled, receiver
<1>13. CASE \E p \in Pushes : PushArrives(p) \/ PushRefused(p) \/ PushHandled(p) \/ PushAnswered(p)
  BY <1>10, <1>13 DEF PushArrives, PushRefused, PushHandled, PushAnswered, settled, receiver
<1>14. CASE UNCHANGED vars
  BY <1>10, <1>14 DEF vars, settled, receiver
<1> QED
  BY <1>1, <1>2, <1>3, <1>4, <1>5, <1>6, <1>7, <1>8, <1>9, <1>11, <1>12, <1>13, <1>14 DEF Next, MainStep

\* No deadlock between main, the watcher, the serve goroutine and the two
\* callers of Stop: whoever waits, waits for somebody who is still there to end
\* the wait.
THEOREM NoWaitInVain == Spec => []WaitsAreOwed
<1>1. Init => Started
  BY DEF Init, Started, Stoppers
<1>2. TypeOK /\ Inv /\ Started => WaitsAreOwed
  <2> SUFFICES ASSUME TypeOK, Inv, Started PROVE WaitsAreOwed
    OBVIOUS
  <2>1. ASSUME NEW w \in Stoppers, stop[w] = "closed"
        PROVE  closed /\ (serve \in {"go", "accepting"} \/ doneCh > 0)
    <3>1. once = w /\ closed
      BY <2>1 DEF Inv, StopOnce, Stoppers
    <3>2. deferred /\ serve # "absent"
      BY <2>1 DEF Started, Inv, Channels
    <3> QED
      BY <3>1, <3>2 DEF TypeOK, Inv, Channels
  <2>2. ASSUME NEW w \in Stoppers, stop[w] = "called"
        PROVE  once \in {"new", "done"} \/ (once # w /\ stop[once] = "closed")
    BY <2>2 DEF TypeOK, Inv, StopOnce
  <2>3. /\ main = "returning" /\ deferred => stop["main"] \in {"called", "closed", "returned"}
        /\ main \in {"listen", "serving"} /\ transport # "stdio" => shutter \in {"waiting", "shut"}
        /\ stop["watcher"] = "waiting" => serve # "absent"
    BY DEF Started, TypeOK, Inv, Channels, Stoppers
  <2> QED
    BY <2>1, <2>2, <2>3 DEF WaitsAreOwed
<1>3. TypeOK /\ Inv /\ Started /\ [Next]_vars => Started'
  BY StepStarted
<1> QED
  BY <1>1, <1>2, <1>3, InvHolds, PTL DEF Spec

\* What a producer has a confirmation for was handled.
THEOREM ConfirmedAreHandled == Spec => []ConfirmedMeansHandled
<1>1. Inv => ConfirmedMeansHandled
  BY DEF Inv, HandledAreSeen, ConfirmedMeansHandled
<1> QED
  BY <1>1, InvHolds, PTL

\* The environment's instance after applyEnvOverrides, when the file does not
\* list it twice, and all the others.
LEMMA OverriddenPositions ==
  ASSUME NEW list \in Seq(Item), NEW item \in Item, NEW i \in Ids
  PROVE  LET new == OverrideItem(list, item)
         IN  /\ i # item.id => /\ Positions(new, i) = Positions(list, i)
                               /\ \A k \in Positions(list, i) : new[k] = list[k]
             /\ i = item.id /\ (\A k, m \in Positions(list, i) : k = m)
                  => \E k \in DOMAIN new : Positions(new, i) = {k} /\ new[k] = item
<1> DEFINE new == OverrideItem(list, item)
           here == Positions(list, item.id)
<1>1. Len(list) \in Nat /\ DOMAIN list = 1 .. Len(list) /\ \A k \in DOMAIN list : list[k] \in Item
  OBVIOUS
<1>2. CASE here = {}
  <2>1. new = Append(list, item)
    BY <1>2 DEF OverrideItem
  <2>2. /\ DOMAIN new = 1 .. Len(list) + 1 /\ new[Len(list) + 1] = item
        /\ \A k \in 1 .. Len(list) : new[k] = list[k]
    BY <1>1, <2>1
  <2> HIDE DEF new
  <2>3. i # item.id => Positions(new, i) = Positions(list, i)
    BY <1>1, <2>2 DEF Positions
  <2>4. i = item.id => Positions(new, i) = {Len(list) + 1}
    BY <1>1, <1>2, <2>2 DEF Positions
  <2>5. Len(list) + 1 \in DOMAIN new
    BY <1>1, <2>2
  <2> QED
    BY <1>1, <2>2, <2>3, <2>4, <2>5 DEF Positions, new
<1>3. CASE here # {}
  <2>1. /\ DOMAIN new = DOMAIN list
        /\ \A k \in DOMAIN list :
             new[k] = IF k \in here /\ (\A m \in here : k <= m) THEN item ELSE list[k]
    BY <1>3 DEF OverrideItem
  <2> HIDE DEF new
  <2>2. \A k \in DOMAIN list : new[k].id = list[k].id
    BY <2>1 DEF Positions
  <2>3. Positions(new, i) = Positions(list, i)
    BY <2>1, <2>2 DEF Positions
  <2>4. ASSUME i # item.id, NEW k \in Positions(list, i) PROVE new[k] = list[k]
    BY <2>1, <2>4 DEF Positions
  <2>5. ASSUME i = item.id, \A k, m \in Positions(list, i) : k = m
        PROVE  \E k \in DOMAIN new : Positions(new, i) = {k} /\ new[k] = item
    <3>1. PICK k \in here : here = {k}
      BY <1>3, <2>5
    <3>2. k \in DOMAIN list /\ k <= k
      BY <1>1, <3>1 DEF Positions
    <3>3. new[k] = item
      BY <2>1, <3>1, <3>2
    <3> QED
      BY <2>1, <2>3, <2>5, <3>1, <3>2, <3>3
  <2> QED
    BY <2>3, <2>4, <2>5 DEF new
<1> QED
  BY <1>2, <1>3

\* main's loop: the last item of an instance is the one that stays.
LEMMA LastStays ==
  ASSUME NEW list \in Seq(Item), NEW i \in Ids
  PROVE  /\ i \in DOMAIN Registered(list) <=> Positions(list, i) # {}
         /\ \A k \in Positions(list, i) :
              (\A m \in Positions(list, i) : m <= k) => Registered(list)[i] = list[k].cred
<1>1. DOMAIN Registered(list) = {list[k].id : k \in DOMAIN list}
  BY DEF Registered
<1>2. i \in DOMAIN Registered(list) <=> Positions(list, i) # {}
  BY <1>1 DEF Positions
<1>3. ASSUME NEW k \in Positions(list, i), \A m \in Positions(list, i) : m <= k
      PROVE  Registered(list)[i] = list[k].cred
  <2> DEFINE last == CHOOSE n \in Positions(list, i) : \A m \in Positions(list, i) : m <= n
  <2>1. last \in Positions(list, i) /\ \A m \in Positions(list, i) : m <= last
    BY <1>3
  <2>2. \A n \in Positions(list, i) : n \in Nat
    BY DEF Positions
  <2> HIDE DEF last
  <2>3. last = k
    BY <1>3, <2>1, <2>2
  <2>4. Registered(list)[i] = LastCred(list, i)
    BY <1>1, <1>2, <1>3 DEF Registered
  <2> QED
    BY <2>3, <2>4 DEF LastCred, last
<1> QED
  BY <1>2, <1>3

\* The store holds what the file and the environment say (config.go, main.go).
THEOREM ConfigurationIsRegistered == Spec => RegisteredAsConfigured
<1>1. ASSUME Inv, LoadConfig PROVE AsConfigured(source.file, source.env, registered')
  <2> DEFINE items == source.file.instances
             own == source.env.instance
             list == IF own = Unset THEN items ELSE OverrideItem(items, own)
  <2>1. source.file \in FileType /\ source.env \in EnvType
    BY <1>1, SourcesAssumption DEF Inv, Phases, LoadConfig
  <2>2. items \in Seq(Item) /\ own \in Item \cup {Unset}
    BY <2>1 DEF FileType, EnvType
  <2>3. registered' = Registered(list)
    BY <1>1 DEF LoadConfig, Load, ApplyEnvOverrides
  <2>4. list \in Seq(Item)
    BY <2>2, OverrideTyped
  <2>5. ASSUME NEW i \in Ids
        PROVE  LET here  == Positions(items, i)
                   named == own # Unset /\ own.id = i
               IN  /\ named /\ (\A k, m \in here : k = m)
                        => i \in DOMAIN registered' /\ registered'[i] = own.cred
                   /\ ~named
                        => /\ i \in DOMAIN registered' <=> here # {}
                           /\ \A k \in here :
                                (\A m \in here : m <= k) => registered'[i] = items[k].cred
    <3>1. CASE own = Unset
      <4>1. list = items
        BY <3>1
      <4> HIDE DEF list, items, own
      <4> QED
        BY <2>2, <2>3, <3>1, <4>1, LastStays
    <3>2. CASE own # Unset
      <4>1. list = OverrideItem(items, own) /\ own \in Item
        BY <2>2, <3>2
      <4> HIDE DEF list, items, own
      <4>2. /\ i # own.id => /\ Positions(list, i) = Positions(items, i)
                             /\ \A k \in Positions(items, i) : list[k] = items[k]
            /\ i = own.id /\ (\A k, m \in Positions(items, i) : k = m)
                 => \E k \in DOMAIN list : Positions(list, i) = {k} /\ list[k] = own
        BY <2>2, <4>1, OverriddenPositions
      <4>3. CASE i # own.id
        BY <2>3, <2>4, <4>2, <4>3, LastStays
      <4>4. CASE i = own.id
        <5> SUFFICES ASSUME \A k, m \in Positions(items, i) : k = m
                     PROVE  i \in DOMAIN registered' /\ registered'[i] = own.cred
          BY <3>2, <4>4
        <5>1. PICK k \in DOMAIN list : Positions(list, i) = {k} /\ list[k] = own
          BY <4>2, <4>4
        <5>2. k \in Nat
          BY <2>4
        <5>3. \A m \in Positions(list, i) : m <= k
          BY <5>1, <5>2
        <5> QED
          BY <2>3, <2>4, <5>1, <5>3, LastStays
      <4> QED
        BY <4>3, <4>4
    <3> QED
      BY <3>1, <3>2
  <2> QED
    BY <2>5 DEF AsConfigured
<1>2. Inv /\ [Next]_vars => [LoadConfig => AsConfigured(source.file, source.env, registered')]_vars
  BY <1>1
<1> QED
  BY <1>2, InvHolds, PTL DEF Spec, RegisteredAsConfigured

=============================================================================
