-------------------------- MODULE QRWidget_proofs --------------------------
(***************************************************************************)
(* Type correctness of the QR code page and its safety properties, for any *)
(* countdown and any number of requests under way.  The inductive          *)
(* invariant is TypeOK together with Inv of QRWidget.                      *)
(***************************************************************************)
EXTENDS QRWidget, TLAPS

\* What the actions leave to be typed: everything but the page and pending.
Rest ==
  /\ authorized \in BOOLEAN /\ wasAuthorized \in BOOLEAN /\ misread \in BOOLEAN
  /\ output \in Outputs \cup {None}
  /\ host \in {"silent", "input", "result"}
  /\ hostConnected \in BOOLEAN /\ timedOut \in BOOLEAN /\ instance \in BOOLEAN

PageTyped ==
  /\ frame \in {"opening", "loading", "qr", "error"}
  /\ success \in BOOLEAN
  /\ countdown \in 1 .. TTL \cup {None}
  /\ polling \in BOOLEAN

PendingTyped == pending \in [Ids -> Request \cup {None}]

LEMMA TypeParts == TypeOK <=> Rest /\ PageTyped /\ PendingTyped
BY DEF TypeOK, Rest, PageTyped, PendingTyped

\* The helpers keep the page well formed, and only ShowAuthorized announces
\* success.
LEMMA HelpersMean ==
  ASSUME PageTyped, CodeHasTimers
  PROVE  /\ SetError => PageTyped' /\ CodeHasTimers' /\ success' = success /\ frame' = "error"
         /\ ShowQR => PageTyped' /\ CodeHasTimers' /\ success' = success
         /\ ShowAuthorized => PageTyped' /\ CodeHasTimers' /\ success' /\ frame' = frame
<1>1. TTL \in 1 .. TTL /\ TTL # None
  BY WidgetAssumption
<1>2. SetError => PageTyped' /\ CodeHasTimers' /\ success' = success /\ frame' = "error"
  BY DEF PageTyped, CodeHasTimers, SetError
<1>3. ShowQR => PageTyped' /\ CodeHasTimers' /\ success' = success
  BY <1>1 DEF PageTyped, CodeHasTimers, ShowQR
<1>4. ShowAuthorized => PageTyped' /\ CodeHasTimers' /\ success' /\ frame' = frame
  BY DEF PageTyped, CodeHasTimers, ShowAuthorized
<1> QED
  BY <1>2, <1>3, <1>4

\* A request is sent unanswered.
LEMMA SendMeans ==
  ASSUME PendingTyped, AnswersAreFounded, NEW tool \in Tools, Send(tool),
         UNCHANGED <<greenapi, output>>
  PROVE  PendingTyped' /\ AnswersAreFounded'
<1>1. PICK id \in Ids : pending' = [pending EXCEPT ![id] = [tool |-> tool, answer |-> None]]
  BY DEF Send
<1>2. [tool |-> tool, answer |-> None] \in Request
  BY DEF Request, Tools
<1>3. PendingTyped'
  BY <1>1, <1>2 DEF PendingTyped
<1>4. None \notin {"alreadyLogged", "authorized"}
  BY WidgetAssumption DEF AllAnswers, Answers
<1>5. \A j \in Ids : pending'[j] = IF j = id THEN [tool |-> tool, answer |-> None] ELSE pending[j]
  BY <1>1 DEF PendingTyped
<1> QED
  BY <1>3, <1>4, <1>5 DEF AnswersAreFounded, greenapi

\* doRefresh shows the spinner, stops the clock and asks.
LEMMA RefreshMeans ==
  ASSUME PageTyped, PendingTyped, CodeHasTimers, AnswersAreFounded, DoRefresh,
         UNCHANGED <<greenapi, output>>
  PROVE  /\ PageTyped' /\ PendingTyped' /\ CodeHasTimers' /\ AnswersAreFounded'
         /\ success' = success
<1>1. PendingTyped' /\ AnswersAreFounded'
  BY SendMeans DEF DoRefresh, Tools
<1> QED
  BY <1>1 DEF DoRefresh, SetLoading, PageTyped, CodeHasTimers

\* Reading and showing: what is shown as success was "alreadyLogged", in the
\* answer or in the output.
LEMMA ResultsMean ==
  ASSUME PageTyped, CodeHasTimers, instance' = instance, NEW a,
         HandleToolResult(a) \/ ShowRefresh(a)
  PROVE  /\ PageTyped' /\ CodeHasTimers'
         /\ success' => success \/ a = "alreadyLogged" \/ output = "alreadyLogged"
<1>1. Reading(a) = "alreadyLogged" => a = "alreadyLogged" \/ output = "alreadyLogged"
  BY DEF Reading
<1>2. UNCHANGED page => PageTyped' /\ CodeHasTimers' /\ success' = success
  BY DEF PageTyped, CodeHasTimers, page
<1> QED
  BY <1>1, <1>2, HelpersMean DEF HandleToolResult, ShowRefresh

\* The initial states satisfy the invariant.
LEMMA InitHolds == Init => TypeOK /\ Inv
<1> SUFFICES ASSUME Init PROVE TypeOK /\ Inv
  OBVIOUS
<1>a. TTL \in 1 .. TTL /\ TTL # None
  BY WidgetAssumption
<1>1. Rest /\ PageTyped
  BY <1>a DEF Init, Rest, PageTyped
<1>2. PendingTyped
  BY DEF Init, PendingTyped
<1>3. CodeHasTimers /\ SuccessIsFounded
  BY <1>a DEF Init, CodeHasTimers, SuccessIsFounded
<1>4. AnswersAreFounded /\ NothingUnasked
  BY WidgetAssumption DEF Init, AnswersAreFounded, NothingUnasked, AllAnswers, Answers
<1> QED
  BY <1>1, <1>2, <1>3, <1>4, TypeParts DEF Inv

\* The actions outside the page.
LEMMA OutsideStep ==
  ASSUME TypeOK, Inv, ChangeState \/ ToolInput \/ HostAnswers
  PROVE  (TypeOK /\ Inv)'
<1> USE DEF TypeOK, Inv, CodeHasTimers, SuccessIsFounded, AnswersAreFounded, NothingUnasked,
            greenapi, startup, page
<1>1. CASE ChangeState
  BY <1>1 DEF ChangeState
<1>2. CASE ToolInput
  BY <1>2 DEF ToolInput
<1>3. CASE HostAnswers
  BY <1>3 DEF HostAnswers
<1> QED
  BY <1>1, <1>2, <1>3

\* A request is answered truthfully.
LEMMA AnswerStepHolds ==
  ASSUME TypeOK, Inv, NEW id \in Ids, NEW a \in AllAnswers, Answer(id, a)
  PROVE  (TypeOK /\ Inv)'
<1> DEFINE q == [pending[id] EXCEPT !.answer = a]
<1>1. pending[id] \in Request /\ pending[id].answer = None /\ a \in Truthful(pending[id].tool)
  BY DEF Answer, TypeOK
<1>2. q \in Request /\ q.answer = a
  BY <1>1 DEF Request, Tools, Truthful, Answers
<1>3. a \in {"alreadyLogged", "authorized"} => authorized
  BY <1>1 DEF Truthful, Request, Tools
<1>4. pending' = [pending EXCEPT ![id] = q]
  BY DEF Answer
<1>5. UNCHANGED <<greenapi, misread, startup, page>>
  BY DEF Answer
<1> HIDE DEF q
<1>6. PendingTyped' /\ Rest' /\ PageTyped'
  BY <1>2, <1>4, <1>5 DEF PendingTyped, Rest, PageTyped, TypeOK, greenapi, startup, page
<1>7. \A j \in Ids : pending'[j] = IF j = id THEN q ELSE pending[j]
  BY <1>4 DEF TypeOK
<1>8. AnswersAreFounded'
  BY <1>2, <1>3, <1>5, <1>7 DEF Inv, AnswersAreFounded, greenapi, startup
<1>9. (CodeHasTimers /\ SuccessIsFounded)'
  BY <1>5 DEF Inv, CodeHasTimers, SuccessIsFounded, greenapi, startup, page
<1>10. pending[id] # None
  BY DEF Answer
<1>11. NothingUnasked'
  BY <1>5, <1>10 DEF Inv, NothingUnasked, startup, page
<1> QED
  BY <1>6, <1>8, <1>9, <1>11, TypeParts DEF Inv, TypeOK, Rest, PageTyped, PendingTyped

\* The host's result, and its timeout.
LEMMA HostStep ==
  ASSUME TypeOK, Inv, HostTimeout \/ \E a \in Answers("get_qr") : ToolResult(a)
  PROVE  (TypeOK /\ Inv)'
<1> USE DEF Inv, TypeOK
<1>1. CASE HostTimeout
  <2>1. CASE hostConnected
    BY <1>1, <2>1
       DEF HostTimeout, CodeHasTimers, SuccessIsFounded, AnswersAreFounded, NothingUnasked,
           greenapi, page
  <2>2. CASE ~hostConnected
    <3>1. SetError
      BY <1>1, <2>2 DEF HostTimeout
    <3>2. PageTyped' /\ CodeHasTimers' /\ success' = success /\ frame' = "error"
      BY <3>1, HelpersMean DEF PageTyped
    <3> QED
      BY <1>1, <3>2
         DEF HostTimeout, PageTyped, SuccessIsFounded, AnswersAreFounded, NothingUnasked, greenapi
  <2> QED
    BY <2>1, <2>2
<1>2. ASSUME NEW a \in Answers("get_qr"), ToolResult(a) PROVE (TypeOK /\ Inv)'
  <2>1. /\ HandleToolResult(a) /\ instance' = instance
        /\ a = "alreadyLogged" \/ output = "alreadyLogged" => wasAuthorized
    BY <1>2 DEF ToolResult, AnswersAreFounded
  <2>2. PageTyped' /\ CodeHasTimers'
    BY <2>1, ResultsMean DEF PageTyped
  <2>3. success' => success \/ wasAuthorized
    BY <2>1, ResultsMean DEF PageTyped
  <2> QED
    BY <1>2, <2>2, <2>3
       DEF ToolResult, PageTyped, SuccessIsFounded, AnswersAreFounded, NothingUnasked, greenapi
<1> QED
  BY <1>1, <1>2

\* An answer is taken off pending and shown.
LEMMA SettleHolds ==
  ASSUME TypeOK, Inv, NEW id \in Ids, Settle(id)
  PROVE  (TypeOK /\ Inv)'
<1> DEFINE a == pending[id].answer
<1>1. pending[id] # None /\ pending' = [pending EXCEPT ![id] = None]
  BY DEF Settle
<1>2. UNCHANGED <<greenapi, output, host, timedOut, instance>>
  BY DEF Settle
<1>3. PendingTyped' /\ AnswersAreFounded'
  BY <1>1, <1>2 DEF PendingTyped, TypeOK, Inv, AnswersAreFounded, greenapi
<1>4. a \in {"alreadyLogged", "authorized"} \/ output = "alreadyLogged" => wasAuthorized
  BY <1>1 DEF Inv, AnswersAreFounded
<1>5. instance
  BY <1>1 DEF Inv, NothingUnasked, TypeOK
<1>6. PageTyped /\ CodeHasTimers
  BY DEF TypeOK, PageTyped, Inv
<1>7. CASE pending[id].tool = "get_qr"
  <2>1. ShowRefresh(a) /\ hostConnected' \in BOOLEAN /\ misread' = misread
    BY <1>7 DEF Settle, TypeOK
  <2> HIDE DEF a
  <2>2. PageTyped' /\ CodeHasTimers' /\ (success' => success \/ wasAuthorized)
    BY <1>2, <1>4, <1>6, <2>1, ResultsMean
  <2> QED
    BY <1>2, <1>3, <1>5, <2>1, <2>2
       DEF TypeOK, PageTyped, PendingTyped, Inv, SuccessIsFounded, NothingUnasked, greenapi
<1>8. CASE pending[id].tool # "get_qr"
  <2>1. /\ IF SaysAuthorized(a) THEN ShowAuthorized ELSE UNCHANGED page
        /\ misread' = (misread \/ a = "misleading")
        /\ hostConnected' = hostConnected
    BY <1>8 DEF Settle
  <2> HIDE DEF a
  <2>2. PageTyped' /\ CodeHasTimers'
    <3>1. CASE SaysAuthorized(a)
      BY <1>6, <2>1, <3>1, HelpersMean
    <3>2. CASE ~SaysAuthorized(a)
      BY <1>2, <1>6, <2>1, <3>2 DEF PageTyped, CodeHasTimers, page
    <3> QED
      BY <3>1, <3>2
  <2>3. success' => success \/ wasAuthorized \/ a = "misleading"
    BY <1>4, <2>1 DEF SaysAuthorized, page
  <2>4. misread' \in BOOLEAN /\ (misread' <=> misread \/ a = "misleading")
    BY <2>1 DEF TypeOK
  <2> QED
    BY <1>2, <1>3, <1>5, <2>1, <2>2, <2>3, <2>4
       DEF TypeOK, PageTyped, PendingTyped, Inv, SuccessIsFounded, NothingUnasked, greenapi
<1> QED
  BY <1>7, <1>8

\* The timers and the buttons.
LEMMA TimerStep ==
  ASSUME TypeOK, Inv, Tick \/ Poll \/ Click
  PROVE  (TypeOK /\ Inv)'
<1>1. /\ PageTyped /\ PendingTyped
      /\ CodeHasTimers /\ AnswersAreFounded /\ SuccessIsFounded /\ NothingUnasked
  BY DEF TypeOK, PageTyped, PendingTyped, Inv
<1>2. UNCHANGED <<greenapi, misread, startup>>
  BY DEF Tick, Poll, Click
<1>3. Rest' /\ output' = output
  BY <1>2 DEF TypeOK, Rest, greenapi, startup
<1>4. CASE DoRefresh
  <2>1. /\ PageTyped' /\ PendingTyped' /\ CodeHasTimers' /\ AnswersAreFounded'
        /\ success' = success
    BY <1>1, <1>2, <1>3, <1>4, RefreshMeans
  <2>2. SuccessIsFounded' /\ NothingUnasked'
    BY <1>1, <1>2, <1>4, <2>1 DEF DoRefresh, SuccessIsFounded, NothingUnasked, greenapi, startup
  <2> QED
    BY <1>3, <2>1, <2>2 DEF TypeOK, Rest, PageTyped, PendingTyped, Inv
<1>5. CASE Poll
  <2>1. PendingTyped' /\ AnswersAreFounded'
    BY <1>1, <1>2, <1>3, <1>5, SendMeans DEF Poll, Tools
  <2>2. /\ PageTyped' /\ CodeHasTimers'
        /\ SuccessIsFounded' /\ NothingUnasked'
    BY <1>1, <1>2, <1>5
       DEF Poll, PageTyped, CodeHasTimers, SuccessIsFounded, NothingUnasked, greenapi, startup, page
  <2> QED
    BY <1>3, <2>1, <2>2 DEF TypeOK, Rest, PageTyped, PendingTyped, Inv
<1>6. CASE /\ countdown # None
           /\ countdown > 1 /\ countdown' = countdown - 1
           /\ UNCHANGED <<frame, success, polling, pending>>
  <2>1. countdown' \in 1 .. TTL /\ countdown' # None
    BY <1>1, <1>6, WidgetAssumption DEF PageTyped
  <2> QED
    BY <1>1, <1>2, <1>3, <1>6, <2>1
       DEF TypeOK, Rest, PageTyped, PendingTyped, Inv, CodeHasTimers, SuccessIsFounded,
           AnswersAreFounded, NothingUnasked, greenapi, startup
<1>7. CASE /\ ~instance /\ countdown' = None
           /\ UNCHANGED <<frame, success, polling, pending>>
  BY <1>1, <1>2, <1>3, <1>7
     DEF TypeOK, Rest, PageTyped, PendingTyped, Inv, CodeHasTimers, SuccessIsFounded,
         AnswersAreFounded, NothingUnasked, greenapi, startup
<1> QED
  BY <1>4, <1>5, <1>6, <1>7 DEF Tick, Click

\* Every step keeps the invariant.
LEMMA StepHolds == TypeOK /\ Inv /\ [Next]_vars => (TypeOK /\ Inv)'
<1> SUFFICES ASSUME TypeOK, Inv, [Next]_vars PROVE (TypeOK /\ Inv)'
  OBVIOUS
<1>1. CASE UNCHANGED vars
  BY <1>1 DEF vars, greenapi, startup, page, TypeOK, Inv, CodeHasTimers, SuccessIsFounded,
              AnswersAreFounded, NothingUnasked
<1>2. CASE Next
  BY <1>2, OutsideStep, AnswerStepHolds, HostStep, SettleHolds, TimerStep DEF Next, AnswerStep
<1> QED
  BY <1>1, <1>2

\* The invariant holds in every reachable state.
THEOREM InvHolds == Spec => [](TypeOK /\ Inv)
BY InitHolds, StepHolds, PTL DEF Spec

\* Types; the countdown never goes below one.
THEOREM TypeCorrect == Spec => []TypeOK
BY InvHolds, PTL

\* The clock runs beside a code, and a code on the page has its timers.
THEOREM CodesHaveTimers == Spec => []CodeHasTimers
<1>1. Inv => CodeHasTimers
  BY DEF Inv
<1> QED
  BY <1>1, InvHolds, PTL

\* Success is announced on the strength of an answer or an output that was true
\* once, or of the text of an error that has the word in it (qr_app.html:405).
THEOREM SuccessWasFounded == Spec => []SuccessIsFounded
<1>1. Inv => SuccessIsFounded
  BY DEF Inv
<1> QED
  BY <1>1, InvHolds, PTL

-----------------------------------------------------------------------------
(* What the spinner waits for.                                             *)

\* No answer to a refresh leaves a spinner on a page without the success card,
\* and no other result brings one.
LEMMA SpinnerGoes ==
  ASSUME NEW a
  PROVE  /\ ShowRefresh(a) => frame' \notin Spinners \/ success'
         /\ HandleToolResult(a) => UNCHANGED page \/ frame' \notin Spinners \/ success'
BY DEF ShowRefresh, HandleToolResult, ShowQR, ShowAuthorized, SetError, Spinners

\* A request that is sent leaves the others alone.
LEMMA SendFetches ==
  ASSUME TypeOK, NEW tool \in Tools, Send(tool)
  PROVE  Fetching \/ tool = "get_qr" => Fetching'
<1>1. PICK id \in Ids : /\ pending[id] = None
                      /\ pending' = [pending EXCEPT ![id] = [tool |-> tool, answer |-> None]]
  BY DEF Send
<1> DEFINE q == [tool |-> tool, answer |-> None]
<1>2. q \in Request /\ q.tool = tool
  BY DEF Request, Tools
<1>3. q # None
  BY <1>2, WidgetAssumption
<1>4. \A j \in Ids : pending'[j] = IF j = id THEN q ELSE pending[j]
  BY <1>1 DEF TypeOK
<1> HIDE DEF q
<1> QED
  BY <1>1, <1>2, <1>3, <1>4 DEF Fetching

\* An answer leaves its request under way.
LEMMA AnswerFetches ==
  ASSUME TypeOK, NEW id \in Ids, NEW a \in AllAnswers, Answer(id, a), Fetching
  PROVE  Fetching'
<1> DEFINE q == [pending[id] EXCEPT !.answer = a]
<1>1. pending[id] \in Request /\ a \in Truthful(pending[id].tool)
  BY DEF Answer, TypeOK
<1>2. q \in Request /\ q.tool = pending[id].tool
  BY <1>1 DEF Request, Tools, Truthful, Answers
<1>3. q # None
  BY <1>2, WidgetAssumption
<1>4. \A j \in Ids : pending'[j] = IF j = id THEN q ELSE pending[j]
  BY DEF Answer, TypeOK
<1> HIDE DEF q
<1> QED
  BY <1>2, <1>3, <1>4 DEF Fetching

\* Every step leaves the spinner something to wait for.
LEMMA StepOwed == TypeOK /\ SpinnerIsOwed /\ [Next]_vars => SpinnerIsOwed'
<1> SUFFICES ASSUME TypeOK, SpinnerIsOwed, [Next]_vars PROVE SpinnerIsOwed'
  OBVIOUS
<1>1. ASSUME NEW id \in Ids, NEW a \in AllAnswers, Answer(id, a) PROVE SpinnerIsOwed'
  BY <1>1, AnswerFetches DEF Answer, SpinnerIsOwed, Fetching, startup, page
<1>2. ASSUME NEW id \in Ids, Settle(id) PROVE SpinnerIsOwed'
  <2>1. CASE pending[id].tool = "get_qr"
    BY <1>2, <2>1, SpinnerGoes DEF Settle, SpinnerIsOwed, Spinners
  <2>2. CASE pending[id].tool # "get_qr"
    <3>1. /\ IF SaysAuthorized(pending[id].answer) THEN ShowAuthorized ELSE UNCHANGED page
          /\ UNCHANGED <<hostConnected, host, timedOut>>
          /\ pending' = [pending EXCEPT ![id] = None]
      BY <1>2, <2>2 DEF Settle
    <3>2. Fetching => Fetching'
      BY <2>2, <3>1 DEF Fetching, TypeOK
    <3>3. success' \/ UNCHANGED page
      BY <3>1 DEF ShowAuthorized
    <3> QED
      BY <3>1, <3>2, <3>3 DEF SpinnerIsOwed, Fetching, page
  <2> QED
    BY <2>1, <2>2
<1>3. ASSUME NEW a, ToolResult(a) PROVE SpinnerIsOwed'
  BY <1>3, SpinnerGoes DEF ToolResult, SpinnerIsOwed, Fetching, Spinners, page
<1>4. CASE HostTimeout
  BY <1>4 DEF HostTimeout, SetError, SpinnerIsOwed, Fetching, page
<1>5. CASE ToolInput \/ HostAnswers \/ ChangeState \/ UNCHANGED vars
  BY <1>5 DEF ToolInput, HostAnswers, ChangeState, vars, startup, page, SpinnerIsOwed,
              Fetching
<1>6. ASSUME DoRefresh PROVE SpinnerIsOwed'
  BY <1>6, SendFetches DEF DoRefresh, SetLoading, Tools, SpinnerIsOwed
<1>7. CASE Poll
  BY <1>7, SendFetches DEF Poll, Tools, Fetching, SpinnerIsOwed, startup, page
<1>8. CASE Tick \/ Click
  BY <1>6, <1>8 DEF Tick, Click, SpinnerIsOwed, Fetching, startup
<1> QED
  BY <1>1, <1>2, <1>3, <1>4, <1>5, <1>7, <1>8 DEF Next, AnswerStep

\* The part of SpinnerEnds that needs no fairness: the spinner of a refresh has a
\* code under way, and the one the page opens with outlives the five seconds
\* only when the host was heard of (doRefresh, the bootstrap).
THEOREM SpinnersAreOwed == Spec => []SpinnerIsOwed
<1>1. Init => SpinnerIsOwed
  BY DEF Init, SpinnerIsOwed
<1> QED
  BY <1>1, StepOwed, TypeCorrect, PTL DEF Spec

=============================================================================
