----------------------------- MODULE Lifecycle -----------------------------
(***************************************************************************)
(* The life of the process (cmd/server/main.go): main loads the            *)
(* configuration and registers its instances, starts the webhook receiver  *)
(* (webhook/receiver.go) if it is told to, serves MCP clients over one of  *)
(* the transports (mcp/server.go), and stops the receiver on its way out.  *)
(* What it does with the bridge instead is in WebhookBridge.               *)
(*                                                                         *)
(* A signal may come at any time.  It cancels the context, for which three *)
(* goroutines wait: the one that shuts the transport down, the receiver's  *)
(* watcher, which stops the receiver too, and, over stdio, main itself.    *)
(*                                                                         *)
(* An HTTP server serves until it is shut down or closed, and refuses to   *)
(* begin once it has been.  Shutdown makes ListenAndServe return at once,  *)
(* while the requests that are under way go on; Close cuts connections but *)
(* leaves their handlers running.                                          *)
(***************************************************************************)
EXTENDS Configuration, Integers

CONSTANTS
  Calls,   \* requests of MCP clients
  Pushes,  \* notifications pushed to the receiver
  Sources  \* files, each with an environment, that main may find

ASSUME SourcesAssumption == Sources \subseteq [file : FileType, env : EnvType]

VARIABLES
  source,     \* the file and the environment, until they have been read
  registered, \* the credential store as main fills it
  part,       \* what receives notifications, as configured
  transport,  \* the Serve method main calls
  main,       \* where the main goroutine is
  cancelled,  \* ctx.Err() != nil
  shutter,    \* the goroutine that shuts the transport down
  deferred,   \* main has deferred receiver.Stop
  serve,      \* the receiver's serve goroutine
  closed,     \* Receiver.server has been closed
  doneCh,     \* how often Receiver.doneCh has been closed
  once,       \* Receiver.stopOnce: not used yet, being run by a caller, or done
  stop,       \* where the callers of Receiver.Stop are
  call,       \* the requests of MCP clients
  push,       \* the requests to the receiver
  seen        \* history: the pushes the notification handler was called for

settled == <<source, registered, part, transport>>
receiver == <<serve, closed, doneCh, once, stop>>
requests == <<call, push, seen>>
vars == <<settled, main, cancelled, shutter, deferred, receiver, requests>>

\* Receiver.Stop is called by main, as a deferred call, and by the watcher.
Stoppers == {"main", "watcher"}

Alive == main \notin {"exited", "dead"}

TypeOK ==
  /\ source \in Sources \cup {Unset}
  /\ DOMAIN registered \subseteq Ids
  /\ part \in {Unset, "receiver", "bridge", "none"}
  /\ transport \in {Unset, "stdio", "sse", "http", "hybrid"}
  /\ main \in {"loading", "configured", "started", "listen", "serving", "returning", "exited", "dead"}
  /\ cancelled \in BOOLEAN
  /\ shutter \in {"absent", "waiting", "shut"}
  /\ deferred \in BOOLEAN
  /\ serve \in {"absent", "go", "accepting", "done"}
  /\ closed \in BOOLEAN
  /\ doneCh \in 0 .. 1
  /\ once \in {"new", "done"} \cup Stoppers
  /\ stop \in [Stoppers -> {"absent", "waiting", "called", "closed", "returned", "left"}]
  /\ call \in [Calls -> {"new", "running", "answered", "cut"}]
  /\ push \in [Pushes -> {"new", "reading", "handled", "answered", "refused", "cut"}]
  /\ seen \subseteq Pushes

Init ==
  /\ source \in Sources
  /\ registered = << >>
  /\ part = Unset
  /\ transport = Unset
  /\ main = "loading"
  /\ cancelled = FALSE
  /\ shutter = "absent"
  /\ deferred = FALSE
  /\ serve = "absent"
  /\ closed = FALSE
  /\ doneCh = 0
  /\ once = "new"
  /\ stop = [w \in Stoppers |-> "absent"]
  /\ call = [c \in Calls |-> "new"]
  /\ push = [p \in Pushes |-> "new"]
  /\ seen = {}

-----------------------------------------------------------------------------
(* The configuration.                                                      *)

\* config.Load, the loop over the instances, and what the switches to come will
\* find.
LoadConfig ==
  /\ main = "loading"
  /\ LET cfg == Load(source.file, source.env)
     IN  /\ registered' = Registered(cfg.instances)
         /\ part' = WebhookPart(cfg)
         /\ transport' = ServeMethod(cfg.settings)
  /\ source' = Unset
  /\ main' = "configured"
  /\ UNCHANGED <<cancelled, shutter, deferred, receiver, requests>>

-----------------------------------------------------------------------------
(* Receiver.                                                               *)

\* Fault: the second caller does not wait for the first.
StopAgainAtOnce(w) ==
  /\ Alive
  /\ stop[w] = "called"
  /\ once # "new"
  /\ stop' = [stop EXCEPT ![w] = "returned"]
  /\ UNCHANGED <<settled, main, cancelled, shutter, deferred, serve, closed, doneCh, once, requests>>

\* Fault: Stop waits before it closes the server.
StopWaitsFirst(w) ==
  /\ Alive
  /\ stop[w] = "called"
  /\ once = "new"
  /\ doneCh > 0
  /\ once' = w
  /\ closed' = TRUE
  /\ stop' = [stop EXCEPT ![w] = "closed"]
  /\ UNCHANGED <<settled, main, cancelled, shutter, deferred, serve, doneCh, requests>>

\* main's switch over the mode: nothing here, or the bridge (WebhookBridge).
StartNoReceiver ==
  /\ main = "configured"
  /\ part # "receiver"
  /\ main' = "started"
  /\ UNCHANGED <<settled, cancelled, shutter, deferred, receiver, requests>>

\* Fault: receiver.Stop is deferred before the error is looked at.
StartReceiverDefersFirst ==
  /\ main = "configured"
  /\ part = "receiver"
  /\ main' = "started"
  /\ deferred' = TRUE
  /\ \/ /\ serve' = "go"
        /\ stop' = [stop EXCEPT !["watcher"] = "waiting"]
     \/ UNCHANGED <<serve, stop>>
  /\ UNCHANGED <<settled, cancelled, shutter, closed, doneCh, once, requests>>

\* Receiver.Start: with the port taken it fails and leaves nothing behind,
\* and main goes on without a receiver.
StartReceiver ==
  /\ main = "configured"
  /\ part = "receiver"
  /\ main' = "started"
  /\ \/ /\ serve' = "go"
        /\ stop' = [stop EXCEPT !["watcher"] = "waiting"]
        /\ deferred' = TRUE
     \/ UNCHANGED <<serve, stop, deferred>>
  /\ UNCHANGED <<settled, cancelled, shutter, closed, doneCh, once, requests>>

\* srv.Serve(ln), which does not begin on a closed server.
ServeBegins ==
  /\ Alive
  /\ serve = "go"
  /\ ~closed
  /\ serve' = "accepting"
  /\ UNCHANGED <<settled, main, cancelled, shutter, deferred, closed, doneCh, once, stop, requests>>

\* Serve returns since the server is closed, or, once it accepts, by an error
\* of its own; the deferred close of doneCh.
ServeEnds ==
  /\ Alive
  /\ serve = "accepting" \/ (serve = "go" /\ closed)
  /\ serve' = "done"
  /\ doneCh' = doneCh + 1
  /\ UNCHANGED <<settled, main, cancelled, shutter, deferred, closed, once, stop, requests>>

\* Fault: the watcher only waits for the context.
WatcherWaitsOn ==
  /\ Alive
  /\ stop["watcher"] = "waiting"
  /\ cancelled
  /\ stop' = [stop EXCEPT !["watcher"] = "called"]
  /\ UNCHANGED <<settled, main, cancelled, shutter, deferred, serve, closed, doneCh, once, requests>>

\* The watcher's select: when both channels are ready either is taken.
WatcherWakes ==
  /\ Alive
  /\ stop["watcher"] = "waiting"
  /\ \/ /\ cancelled
        /\ stop' = [stop EXCEPT !["watcher"] = "called"]
     \/ /\ doneCh > 0
        /\ stop' = [stop EXCEPT !["watcher"] = "left"]
  /\ UNCHANGED <<settled, main, cancelled, shutter, deferred, serve, closed, doneCh, once, requests>>

\* Stop's first caller: srv.Close.
StopCloses(w) ==
  /\ Alive
  /\ stop[w] = "called"
  /\ once = "new"
  /\ once' = w
  /\ closed' = TRUE
  /\ stop' = [stop EXCEPT ![w] = "closed"]
  /\ UNCHANGED <<settled, main, cancelled, shutter, deferred, serve, doneCh, requests>>

\* <-r.doneCh, and the end of stopOnce.Do.
StopReturns(w) ==
  /\ Alive
  /\ stop[w] = "closed"
  /\ doneCh > 0
  /\ once' = "done"
  /\ stop' = [stop EXCEPT ![w] = "returned"]
  /\ UNCHANGED <<settled, main, cancelled, shutter, deferred, serve, closed, doneCh, requests>>

\* stopOnce.Do for the other caller: it waits until the first is through.
StopAgain(w) ==
  /\ Alive
  /\ stop[w] = "called"
  /\ once = "done"
  /\ stop' = [stop EXCEPT ![w] = "returned"]
  /\ UNCHANGED <<settled, main, cancelled, shutter, deferred, serve, closed, doneCh, once, requests>>

-----------------------------------------------------------------------------
(* handleWebhook.                                                          *)

\* Fault: the producer has its 200 before the handler is called.
PushHandledLate(p) ==
  /\ Alive
  /\ push[p] = "reading"
  /\ push' = [push EXCEPT ![p] = "handled"]
  /\ UNCHANGED <<settled, main, cancelled, shutter, deferred, receiver, call, seen>>

PushArrives(p) ==
  /\ Alive
  /\ push[p] = "new"
  /\ serve = "accepting" /\ ~closed
  /\ push' = [push EXCEPT ![p] = "reading"]
  /\ UNCHANGED <<settled, main, cancelled, shutter, deferred, receiver, call, seen>>

\* A wrong method or path, or a body that cannot be read.
PushRefused(p) ==
  /\ Alive
  /\ push[p] = "reading"
  /\ push' = [push EXCEPT ![p] = IF closed THEN "cut" ELSE "refused"]
  /\ UNCHANGED <<settled, main, cancelled, shutter, deferred, receiver, call, seen>>

\* r.handler(instanceID, notification).
PushHandled(p) ==
  /\ Alive
  /\ push[p] = "reading"
  /\ push' = [push EXCEPT ![p] = "handled"]
  /\ seen' = seen \cup {p}
  /\ UNCHANGED <<settled, main, cancelled, shutter, deferred, receiver, call>>

\* w.WriteHeader(http.StatusOK), which nobody receives on a closed connection.
PushAnswered(p) ==
  /\ Alive
  /\ push[p] = "handled"
  /\ push' = [push EXCEPT ![p] = IF closed THEN "cut" ELSE "answered"]
  /\ UNCHANGED <<settled, main, cancelled, shutter, deferred, receiver, call, seen>>

-----------------------------------------------------------------------------
(* main and the transport.                                                 *)

\* What a request still has to expect when the process ends.
CutOff(requestPc) == IF requestPc \in {"running", "reading", "handled"} THEN "cut" ELSE requestPc

\* The process ends.
End(how) ==
  /\ main' = how
  /\ call' = [c \in Calls |-> CutOff(call[c])]
  /\ push' = [p \in Pushes |-> CutOff(push[p])]
  /\ UNCHANGED seen

\* The file cannot be read or parsed, log.Fatalf; or a signal comes before
\* anyone listens for it.
LoadFails ==
  /\ main = "loading"
  /\ End("dead")
  /\ UNCHANGED <<settled, cancelled, shutter, deferred, receiver>>

\* SIGINT or SIGTERM, from signal.NotifyContext on.
Signal ==
  /\ Alive
  /\ main # "loading"
  /\ ~cancelled
  /\ cancelled' = TRUE
  /\ UNCHANGED <<settled, main, shutter, deferred, receiver, requests>>

\* The Serve methods of Server: the goroutine that waits for the context, and
\* on to ListenAndServe.  Over stdio there is none, and main serves at once.
ServeTransport ==
  /\ main = "started"
  /\ IF transport = "stdio"
       THEN main' = "serving" /\ UNCHANGED shutter
       ELSE main' = "listen" /\ shutter' = "waiting"
  /\ UNCHANGED <<settled, cancelled, deferred, receiver, requests>>

\* The goroutine behind <-ctx.Done() begins the shutdown.
ShutdownBegins ==
  /\ Alive
  /\ shutter = "waiting"
  /\ cancelled
  /\ shutter' = "shut"
  /\ UNCHANGED <<settled, main, cancelled, deferred, receiver, requests>>

\* The listener is open.
Listen ==
  /\ main = "listen"
  /\ shutter # "shut"
  /\ main' = "serving"
  /\ UNCHANGED <<settled, cancelled, shutter, deferred, receiver, requests>>

\* The Serve method returns nil: the shutdown has begun, if need be before
\* the listener was opened, or stdin is at its end or the context cancelled.
\* main's deferred call of Stop begins.
ServeReturns ==
  /\ \/ main \in {"listen", "serving"} /\ shutter = "shut"
     \/ main = "serving" /\ transport = "stdio"
  /\ main' = "returning"
  /\ stop' = IF deferred THEN [stop EXCEPT !["main"] = "called"] ELSE stop
  /\ UNCHANGED <<settled, cancelled, shutter, deferred, serve, closed, doneCh, once, requests>>

\* It returns an error, to listen or to accept, or that the context was
\* cancelled (stdio): log.Fatalf.
ServeFails ==
  /\ main \in {"listen", "serving"}
  /\ End("dead")
  /\ UNCHANGED <<settled, cancelled, shutter, deferred, receiver>>

Exit ==
  /\ main = "returning"
  /\ deferred => stop["main"] = "returned"
  /\ End("exited")
  /\ UNCHANGED <<settled, cancelled, shutter, deferred, receiver>>

\* A client calls a tool, or opens a stream.
CallArrives(c) ==
  /\ main = "serving" /\ shutter # "shut"
  /\ call[c] = "new"
  /\ call' = [call EXCEPT ![c] = "running"]
  /\ UNCHANGED <<settled, main, cancelled, shutter, deferred, receiver, push, seen>>

CallAnswered(c) ==
  /\ Alive
  /\ call[c] = "running"
  /\ call' = [call EXCEPT ![c] = "answered"]
  /\ UNCHANGED <<settled, main, cancelled, shutter, deferred, receiver, push, seen>>

-----------------------------------------------------------------------------

ServeStep == ServeBegins \/ ServeEnds

StopStep(w) == StopCloses(w) \/ StopReturns(w) \/ StopAgain(w)

MainStep == LoadConfig \/ StartNoReceiver \/ StartReceiver \/ ServeTransport \/ Listen \/ Exit

Next ==
  \/ Signal \/ LoadFails
  \/ MainStep \/ ServeReturns \/ ServeFails
  \/ ShutdownBegins
  \/ ServeStep
  \/ WatcherWakes
  \/ \E w \in Stoppers : StopStep(w)
  \/ \E c \in Calls : CallArrives(c) \/ CallAnswered(c)
  \/ \E p \in Pushes :
       PushArrives(p) \/ PushRefused(p) \/ PushHandled(p) \/ PushAnswered(p)

\* The transport has been shut down, or the context it was given cancelled.
ServeIsOver == shutter = "shut" \/ (transport = "stdio" /\ cancelled)

\* The runtime runs every goroutine that can run.  An accepting server that
\* is closed stops, one that is not need not, and a transport returns when it
\* is over.  Nothing is assumed of signals and of requests.
Fairness ==
  /\ WF_vars(MainStep)
  /\ WF_vars(ServeIsOver /\ (ServeReturns \/ ServeFails))
  /\ WF_vars(ShutdownBegins)
  /\ WF_vars(ServeBegins) /\ WF_vars(closed /\ ServeEnds)
  /\ WF_vars(WatcherWakes)
  /\ \A w \in Stoppers : WF_vars(StopStep(w))

Spec == Init /\ [][Next]_vars /\ Fairness

-----------------------------------------------------------------------------
(* Properties.                                                             *)

\* A process that ends by returning from main has stopped its receiver,
\* whichever of the two callers of Stop came first: the serve goroutine has
\* ended and nobody is in the middle of stopOnce.
ExitedMeansStopped ==
  main = "exited" /\ deferred => serve = "done" /\ closed /\ once = "done"

\* The producer of a push has its 200 only for what the handler has seen, at
\* whatever moment the server is closed or the process ends: what is not
\* confirmed can be sent again (handleWebhook).
ConfirmedMeansHandled == \A p \in Pushes : push[p] = "answered" => p \in seen

\* Nobody waits for what nobody will do.  A caller of Stop that waits for doneCh
\* has closed a server whose goroutine is there to end, or has ended; one that
\* waits for stopOnce waits for such a caller; main waits in its deferred Stop,
\* or in a Serve method that a goroutine will shut down; and the watcher waits
\* for a server that was started (Receiver.Start, Stop, main, ServeHTTP).
WaitsAreOwed ==
  Alive =>
    /\ \A w \in Stoppers :
         /\ stop[w] = "closed" => closed /\ (serve \in {"go", "accepting"} \/ doneCh > 0)
         /\ stop[w] = "called" => once \in {"new", "done"} \/ (once # w /\ stop[once] = "closed")
    /\ main = "returning" /\ deferred => stop["main"] \in {"called", "closed", "returned"}
    /\ main \in {"listen", "serving"} /\ transport # "stdio" => shutter \in {"waiting", "shut"}
    /\ stop["watcher"] = "waiting" => serve # "absent"

\* A signal ends the process, wherever it catches main: before the receiver
\* or the listener is up, while Serve begins, or while the watcher stops the
\* receiver beside main.
SignalEndsProcess == cancelled ~> ~Alive

\* When the receiver's server ends, also by an error of its own while the
\* process goes on, its watcher does not stay behind.
WatcherLeaves ==
  (serve = "done") ~> (~Alive \/ stop["watcher"] \in {"returned", "left"})

\* What the store holds once main has read its configuration: the environment's
\* credential for the instance the environment names, unless the file lists
\* that instance twice, the last item of the file for every other instance, and
\* nothing else (Load, applyEnvOverrides, main).
AsConfigured(file, env, store) ==
  \A i \in Ids :
    LET here  == Positions(file.instances, i)
        named == env.instance # Unset /\ env.instance.id = i
    IN  /\ named /\ (\A k, m \in here : k = m)
             => i \in DOMAIN store /\ store[i] = env.instance.cred
        /\ ~named
             => /\ i \in DOMAIN store <=> here # {}
                /\ \A k \in here :
                     (\A m \in here : m <= k) => store[i] = file.instances[k].cred

RegisteredAsConfigured ==
  [][LoadConfig => AsConfigured(source.file, source.env, registered')]_vars

\* Why the two invariants hold: the invariant the proofs carry.  doneCh is closed by
\* the end of the serve goroutine and by nothing else, and the one caller that
\* runs stopOnce, or ran it, has closed the server and waited.
Channels ==
  /\ doneCh = IF serve = "done" THEN 1 ELSE 0
  /\ deferred <=> serve # "absent"

StopOnce ==
  /\ closed <=> once # "new"
  /\ once = "done" => serve = "done"
  /\ \A w \in Stoppers : /\ stop[w] = "closed" <=> once = w
                         /\ stop[w] = "returned" => once = "done"

Phases ==
  /\ main = "loading" => source \in Sources
  /\ main \in {"loading", "configured"} => serve = "absent" /\ stop["watcher"] = "absent"
  /\ main \in {"loading", "configured", "started", "listen", "serving"} => stop["main"] = "absent"
  /\ main = "exited" /\ deferred => stop["main"] = "returned"

\* Only who has started the receiver stops it, and the shutdown of a transport
\* has its goroutine before the transport is served.
Started ==
  /\ \A w \in Stoppers : stop[w] # "absent" => deferred
  /\ stop["main"] \in {"absent", "called", "closed", "returned"}
  /\ main = "returning" /\ deferred => stop["main"] # "absent"
  /\ main \in {"listen", "serving"} /\ transport # "stdio" => shutter # "absent"

HandledAreSeen == \A p \in Pushes : push[p] \in {"handled", "answered"} => p \in seen

Inv == Channels /\ StopOnce /\ Phases /\ HandledAreSeen

-----------------------------------------------------------------------------
(* What the comments say and the code does not do.                         *)

\* server.go: ServeSSE "shuts down gracefully when ctx is cancelled": the
\* requests that are under way are answered before main ends the process.
ShutdownIsGraceful ==
  main = "exited" /\ transport # "stdio" => \A c \in Calls : call[c] # "cut"

=============================================================================
