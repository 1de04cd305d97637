------------------------------ MODULE QRWidget ------------------------------
(***************************************************************************)
(* The script of the QR code page (templates/qr_app.html).  The page shows *)
(* the QR code of a whatsapp_get_qr result, counts down to its expiry,     *)
(* asks for a new one when it has expired, and meanwhile polls the state   *)
(* of the instance with whatsapp_get_state until it is authorized.         *)
(*                                                                         *)
(* Handlers run one at a time; what they wait for comes in any order: the  *)
(* answers to the page's tool calls, the notifications of the host, the    *)
(* ticks of two timers and the user's clicks.  An answer may be about the  *)
(* state of some time ago.                                                 *)
(***************************************************************************)
EXTENDS Integers

CONSTANTS
  Ids,   \* ids for requests under way, which bounds their number
  TTL,   \* QR_TTL, in ticks of the countdown
  None   \* no request, or no countdown

VARIABLES
  authorized,    \* the instance is authorized, at Green API
  wasAuthorized, \* history: it has been since the tool was called
  misread,       \* history: the page took the text of an error for "authorized"
  output,        \* window.openai.toolOutput, which some hosts load the page with
  host,          \* which of its two notifications the host has sent
  hostConnected, \* hostConnected
  timedOut,      \* the five seconds of the bootstrap are over
  instance,      \* instanceId is set
  frame,         \* what the QR frame shows
  success,       \* the success card has replaced the QR card
  countdown,     \* countdown, with its timer cTimer
  polling,       \* pollTimer is set
  pending        \* the requests under way, by id, with their answers

greenapi == <<authorized, wasAuthorized>>
startup  == <<output, host, hostConnected, timedOut, instance>>
page     == <<frame, success, countdown, polling>>
vars     == <<greenapi, misread, startup, page, pending>>

\* What whatsapp_get_qr and whatsapp_get_state answer.  A code, "alreadyLogged"
\* and the "failure" of type error come with structured content.  A "plain"
\* answer has only text, above all an error result of the tool, and an "empty"
\* one not even that.  "misleading" is a state that could not be had, in words
\* that have "authorized" in them: the "not authorized" of HTTP 403, or what
\* Green API says itself, such as "Unauthorized" (greenapi/errors.go).  A
\* request that is rejected is a failure too.
Answers(tool) ==
  IF tool = "get_qr" THEN {"qrCode", "alreadyLogged", "failure", "plain", "empty"}
                     ELSE {"authorized", "notAuthorized", "misleading", "failure"}

AllAnswers == Answers("get_qr") \cup Answers("get_state")

\* The answers that agree with the state of the instance.
Truthful(tool) ==
  IF tool = "get_qr"
    THEN {IF authorized THEN "alreadyLogged" ELSE "qrCode", "failure", "plain", "empty"}
    ELSE {IF authorized THEN "authorized" ELSE "notAuthorized", "misleading", "failure"}

\* The structured content of the result the page was opened for.
Outputs == {"qrCode", "alreadyLogged", "failure"}

Tools == {"get_qr", "get_state"}
Request == UNION {[tool : {t}, answer : Answers(t) \cup {None}] : t \in Tools}

ASSUME WidgetAssumption ==
  /\ TTL \in Nat \ {0}
  /\ None \notin Nat \cup AllAnswers \cup Request

TypeOK ==
  /\ authorized \in BOOLEAN /\ wasAuthorized \in BOOLEAN /\ misread \in BOOLEAN
  /\ output \in Outputs \cup {None}
  /\ host \in {"silent", "input", "result"}
  /\ hostConnected \in BOOLEAN /\ timedOut \in BOOLEAN /\ instance \in BOOLEAN
  /\ frame \in {"opening", "loading", "qr", "error"}
  /\ success \in BOOLEAN
  /\ countdown \in 1 .. TTL \cup {None}
  /\ polling \in BOOLEAN
  /\ pending \in [Ids -> Request \cup {None}]

\* The bootstrap up to ui/initialize.  Some hosts load the page with the input
\* of the tool or with its output, which is shown at once when it is a code or
\* "alreadyLogged"; when it is an error the page only takes note of the host.
\* The spinner the page opens with ("opening") looks like the one of a refresh.
Init ==
  /\ authorized \in BOOLEAN
  /\ wasAuthorized \in BOOLEAN
  /\ output \in Outputs \cup {None}
  /\ authorized \/ output = "alreadyLogged" => wasAuthorized
  /\ misread = FALSE
  /\ host = "silent"
  /\ hostConnected = (output # None)
  /\ timedOut = FALSE
  /\ instance \in BOOLEAN
  /\ frame = (IF output = "qrCode" THEN "qr" ELSE "opening")
  /\ success = (output = "alreadyLogged")
  /\ countdown = (IF output = "qrCode" THEN TTL ELSE None)
  /\ polling = (output = "qrCode")
  /\ pending = [id \in Ids |-> None]

-----------------------------------------------------------------------------
(* The instance, and the tools that ask about it.                          *)

\* Somebody scans a code, or logs the instance out.
ChangeState ==
  /\ authorized' = ~authorized
  /\ wasAuthorized' = TRUE
  /\ UNCHANGED <<misread, startup, page, pending>>

\* Green API, or something before it, has answered request id.
Answer(id, a) ==
  /\ pending[id] # None
  /\ pending[id].answer = None
  /\ a \in Truthful(pending[id].tool)
  /\ pending' = [pending EXCEPT ![id] = [@ EXCEPT !.answer = a]]
  /\ UNCHANGED <<greenapi, misread, startup, page>>

-----------------------------------------------------------------------------
(* The helpers that change the page.                                       *)

SetLoading == frame' = "loading" /\ countdown' = None /\ UNCHANGED <<success, polling>>

\* Fault: the error page stops the polling as well.
SetErrorAndStop == frame' = "error" /\ countdown' = None /\ polling' = FALSE /\ UNCHANGED success

SetError == frame' = "error" /\ countdown' = None /\ UNCHANGED <<success, polling>>

\* startCountdown and startPoll begin afresh what already runs.
ShowQR == frame' = "qr" /\ countdown' = TTL /\ polling' = TRUE /\ UNCHANGED success

\* Fault: the polling goes on.
ShowAuthorizedAndPoll == success' = TRUE /\ countdown' = None /\ UNCHANGED <<frame, polling>>

ShowAuthorized == success' = TRUE /\ countdown' = None /\ polling' = FALSE /\ UNCHANGED frame

\* What handleToolResult looks at.  Where the answer has no structured content it
\* is the output the page was loaded with, if that can be shown, and only then
\* the text.
Reading(a) ==
  IF a \in {"plain", "empty"} /\ output \in {"qrCode", "alreadyLogged"} THEN output ELSE a

\* An answer with nothing to read is not handled (the result false).
HandleToolResult(a) ==
  \/ Reading(a) = "qrCode" /\ ShowQR
  \/ Reading(a) = "alreadyLogged" /\ ShowAuthorized
  \/ Reading(a) \in {"failure", "plain"} /\ SetError
  \/ Reading(a) = "empty" /\ UNCHANGED page

\* Fault: nobody looks whether the answer was handled.
ShowRefreshUnchecked(a) == HandleToolResult(a)

\* The end of doRefresh, which says so when the answer was not handled.
ShowRefresh(a) == IF Reading(a) = "empty" THEN SetError ELSE HandleToolResult(a)

\* request('tools/call', ...).
Send(tool) ==
  \E id \in Ids :
    /\ pending[id] = None
    /\ pending' = [pending EXCEPT ![id] = [tool |-> tool, answer |-> None]]

\* doRefresh, which does nothing as long as the instance is not known.
DoRefresh == instance /\ SetLoading /\ Send("get_qr")

-----------------------------------------------------------------------------
(* What the script waits for.                                              *)

\* ui/notifications/tool-input, with the instance unless the tool was called
\* without it.  A host that hands over the output with the page has handed over
\* the input as well.
ToolInput ==
  /\ host = "silent"
  /\ host' = "input"
  /\ hostConnected' = TRUE
  /\ instance' \in IF output = None THEN {instance, TRUE} ELSE {instance}
  /\ UNCHANGED <<greenapi, misread, output, timedOut, page, pending>>

\* ui/notifications/tool-result: the result the page was opened for, of a call
\* that may have been answered before the instance changed its state.  Whether it
\* was handled is not looked at.
ToolResult(a) ==
  /\ host = "input"
  /\ IF output = None THEN a = "alreadyLogged" => wasAuthorized ELSE a = output
  /\ host' = "result"
  /\ hostConnected' = TRUE
  /\ HandleToolResult(a)
  /\ UNCHANGED <<greenapi, misread, output, timedOut, instance, pending>>

\* ui/initialize is answered.
HostAnswers ==
  /\ ~hostConnected
  /\ hostConnected' = TRUE
  /\ UNCHANGED <<greenapi, misread, output, host, timedOut, instance, page, pending>>

HostTimeout ==
  /\ ~timedOut
  /\ timedOut' = TRUE
  /\ IF hostConnected THEN UNCHANGED page ELSE SetError
  /\ UNCHANGED <<greenapi, misread, output, host, hostConnected, instance, pending>>

\* Fault: the case of the letters is ignored.
SaysAuthorizedAnyCase(a) == a \in {"authorized", "notAuthorized", "misleading"}

\* checkState's test for "authorized", unless "notAuthorized", in the text.
SaysAuthorized(a) == a \in {"authorized", "misleading"}

\* The promise of request id is settled: the rest of doRefresh or checkState.  A
\* rejection says nothing of the host.
Settle(id) ==
  /\ pending[id] # None
  /\ pending[id].answer # None
  /\ LET a == pending[id].answer
     IN  IF pending[id].tool = "get_qr"
           THEN /\ ShowRefresh(a)
                /\ hostConnected' \in IF a = "failure" THEN {hostConnected, TRUE} ELSE {TRUE}
                /\ UNCHANGED misread
           ELSE /\ IF SaysAuthorized(a) THEN ShowAuthorized ELSE UNCHANGED page
                /\ misread' = (misread \/ a = "misleading")
                /\ UNCHANGED hostConnected
  /\ pending' = [pending EXCEPT ![id] = None]
  /\ UNCHANGED <<greenapi, output, host, timedOut, instance>>

\* Fault: the countdown goes on while the new code is fetched.
TickKeeps ==
  /\ countdown # None
  /\ IF countdown > 1
       THEN countdown' = countdown - 1 /\ UNCHANGED <<frame, success, polling, pending>>
       ELSE IF instance
              THEN frame' = "loading" /\ Send("get_qr") /\ UNCHANGED <<success, countdown, polling>>
              ELSE countdown' = None /\ UNCHANGED <<frame, success, polling, pending>>
  /\ UNCHANGED <<greenapi, misread, startup>>

\* A second of the countdown; at its end the refresh.
Tick ==
  /\ countdown # None
  /\ IF countdown > 1
       THEN countdown' = countdown - 1 /\ UNCHANGED <<frame, success, polling, pending>>
       ELSE \/ DoRefresh
            \/ ~instance /\ countdown' = None /\ UNCHANGED <<frame, success, polling, pending>>
  /\ UNCHANGED <<greenapi, misread, startup>>

\* checkState, every three seconds, whether or not the last answer is there.
Poll ==
  /\ polling
  /\ instance
  /\ Send("get_state")
  /\ UNCHANGED <<greenapi, misread, startup, page>>

Spinners == {"opening", "loading"}

\* "Refresh QR", which is disabled while the frame shows a spinner, or "Try
\* again" in the error page.  The success card has no buttons.
Click ==
  /\ ~success
  /\ frame \notin Spinners
  /\ DoRefresh
  /\ UNCHANGED <<greenapi, misread, startup>>

-----------------------------------------------------------------------------

AnswerStep(id) == \E a \in AllAnswers : Answer(id, a)

Next ==
  \/ ChangeState
  \/ \E id \in Ids : AnswerStep(id) \/ Settle(id)
  \/ ToolInput
  \/ \E a \in Answers("get_qr") : ToolResult(a)
  \/ HostAnswers
  \/ HostTimeout
  \/ Tick
  \/ Poll
  \/ Click

\* The browser runs its timers, also when the bound on requests makes them
\* wait now and then, and what is ready; tool calls are answered, and
\* one that is repeated forever is answered with the state again and again.
\* Nothing is assumed of the user, of the phone and of the host's own
\* messages.
Fairness ==
  /\ WF_vars(HostTimeout)
  /\ SF_vars(Tick)
  /\ SF_vars(Poll)
  /\ \A id \in Ids : /\ WF_vars(AnswerStep(id))
                     /\ WF_vars(Settle(id))
                     /\ SF_vars(Answer(id, "authorized"))
                     /\ SF_vars(Answer(id, "alreadyLogged"))

Spec == Init /\ [][Next]_vars /\ Fairness

-----------------------------------------------------------------------------
(* Properties.                                                             *)

\* The clock runs beside a QR code and beside nothing else, and a code on the
\* page has both its timers: it is replaced when it expires and the page finds
\* out when it is used, whatever came in whatever order (showQR, doRefresh,
\* setError, showAuthorized).
CodeHasTimers ==
  /\ countdown # None => frame = "qr"
  /\ frame = "qr" /\ ~success /\ instance => countdown # None /\ polling

\* The page says "Instance Connected" only if the instance was authorized when
\* something it got was answered, however late it got it, or if the text of an
\* error was misread (checkState, handleToolResult).
SuccessIsFounded == success => wasAuthorized \/ misread

Fetching == \E id \in Ids : pending[id] # None /\ pending[id].tool = "get_qr"

\* The spinner of a refresh has a code under way that will replace it, whatever
\* else was answered meanwhile.  The one the page opens with has the five seconds
\* of the bootstrap until the host is heard of, and from then on only what the
\* host sends: a result that is not handled leaves it (doRefresh, the bootstrap).
SpinnerIsOwed ==
  ~success => /\ frame = "loading" => Fetching
              /\ frame = "opening" => hostConnected \/ ~timedOut

\* Why they hold: the invariant the proofs carry.  What is under way was true
\* when it was answered, and a page that does not know its instance has asked
\* nothing and shows only what the host sent.
AnswersAreFounded ==
  /\ authorized \/ output = "alreadyLogged" => wasAuthorized
  /\ \A id \in Ids :
       pending[id] # None /\ pending[id].answer \in {"alreadyLogged", "authorized"}
         => wasAuthorized

NothingUnasked ==
  ~instance => /\ \A id \in Ids : pending[id] = None
               /\ host = "silent" /\ output = None => frame # "qr"

Inv == CodeHasTimers /\ SuccessIsFounded /\ AnswersAreFounded /\ NothingUnasked

\* "show an error instead of infinite spinner": the spinner the page opens with
\* gives way when the host never responds, and that of a refresh always, whatever
\* the answer is.
SpinnerEnds ==
  (frame = "loading" \/ (frame = "opening" /\ [](~hostConnected)))
    ~> (frame \notin Spinners \/ success)

\* Once the page polls, an instance that is authorized for good is noticed,
\* also when a refresh has failed meanwhile.
ConnectionNoticed == (polling /\ instance /\ []authorized) ~> success

\* Then the page comes to rest, although a code that was fetched earlier may
\* still arrive and start the timers again.
ComesToRest ==
  <>[](success /\ authorized /\ instance) => <>[](~polling /\ countdown = None)

=============================================================================
