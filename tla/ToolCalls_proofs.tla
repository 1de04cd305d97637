-------------------------- MODULE ToolCalls_proofs --------------------------
(***************************************************************************)
(* Type correctness of the tool calls and their safety properties, for any *)
(* number of calls, instances and connections.  The inductive invariant is *)
(* TypeOK together with Inv of ToolCalls.  Both speak of one call at a     *)
(* time, so a step is proved by what it does to the call it belongs to.    *)
(***************************************************************************)
EXTENDS ToolCalls, TLAPS

\* The table: of what adds or sets something, nothing but rebooting and logging
\* out is sent by GET.
LEMMA TableFacts ==
  /\ \A t \in Adds : Verb(t) # "GET"
  /\ \A t \in (Adds \cup Sets) \ OwnWordsIfEmpty : Verb(t) # "GET"
  /\ Unbound \cap SessionTools = {}
BY DEF Adds, Sets, Verb, CallMethodVerb, HttpMethodFor, ByName, ByGet, ByPost, ViaGetMethod,
       HistoryGets, HistoryPosts, GroupPosts, AccountPosts, Uploads, OwnWordsIfEmpty,
       SessionTools, SendTools, Unbound, Resources

\* The two looks at the arguments: what both find is the same.
LEMMA SameInstance ==
  ASSUME NEW t \in Tools \cup Resources, NEW arg \in Args, NEW x \in Instances \cup {None}
  PROVE  /\ ChargedBy(t, arg) \in Instances \cup {None}
         /\ TargetOf(t, arg, x) \in Instances \cup {None}
         /\ ChargedBy(t, arg) # None /\ TargetOf(t, arg, x) # None
              => ChargedBy(t, arg) = TargetOf(t, arg, x)
BY DEF Args, ChargedBy, TargetOf, GetInstanceID, ResolveInstanceID

\* What Inv says of a call in state k with l requests under way, n of them
\* carried out.
OneCall(k, l, n) ==
  /\ n + l + (IF k.pc \in {"sent", "declined", "rejected"} THEN 1 ELSE 0) <= k.sends
  /\ k.sends > 1 => Verb(k.tool) = "GET"
  /\ k.pc \in {"new", "resolved", "refused"} => k.sends = 0
  /\ k.pc = "executed" => n > 0
  /\ k.pc \in {"new", "refused"} => k.target = None
  /\ k.tool \in (Adds \cup Sets) \ OwnWordsIfEmpty /\ k.pc \in {"done", "told"}
       => n <= 1 /\ l = 0
  /\ k.pc = "done" /\ k.tool \notin {"disconnect"} \cup OwnWords \cup OwnWordsIfEmpty => n > 0
  /\ k.charged # None /\ k.target # None => k.charged = k.target

\* A step of call c alone keeps everything when it keeps what is said of c.
LEMMA StepOfOne ==
  ASSUME TypeOK, Inv, NEW c \in Calls, NEW k \in Call, NEW l \in 0 .. MaxSends,
         NEW n \in Nat, OneCall(k, l, n),
         call' = [call EXCEPT ![c] = k],
         late' = [late EXCEPT ![c] = l],
         carried' = [carried EXCEPT ![c] = n],
         registered' \subseteq Instances, gone' \subseteq Calls
  PROVE  (TypeOK /\ Inv)'
<1>1. n \in 0 .. MaxSends
  BY CallsAssumption DEF OneCall, Call
<1>2. TypeOK'
  BY <1>1 DEF TypeOK
<1>3. \A d \in Calls : OneCall(call'[d], late'[d], carried'[d])
  <2> TAKE d \in Calls
  <2>1. CASE d = c
    BY <2>1 DEF TypeOK
  <2>2. CASE d # c
    <3>1. call'[d] = call[d] /\ late'[d] = late[d] /\ carried'[d] = carried[d]
      BY <2>2 DEF TypeOK
    <3>2. OneCall(call[d], late[d], carried[d])
      BY DEF Inv, SendsAccounted, DoneIsOver, ResultsAreTrue,
       ChargedIsTarget, OneCall
    <3> QED
      BY <3>1, <3>2
  <2> QED
    BY <2>1, <2>2
<1>4. Inv'
  BY <1>3 DEF Inv, SendsAccounted, DoneIsOver, ResultsAreTrue,
       ChargedIsTarget, OneCall
<1> QED
  BY <1>2, <1>4

\* What a step finds for its call.
LEMMA CallIsOne ==
  ASSUME TypeOK, Inv, NEW c \in Calls
  PROVE  /\ call[c] \in Call /\ late[c] \in 0 .. MaxSends /\ carried[c] \in 0 .. MaxSends
         /\ OneCall(call[c], late[c], carried[c])
BY DEF TypeOK, Inv, SendsAccounted, DoneIsOver, ResultsAreTrue,
       ChargedIsTarget, OneCall

\* Another place of the same call is a state of a call again.
LEMMA CallFields ==
  ASSUME NEW k \in Call, NEW pc \in {"new", "resolved"} \cup InFlight \cup Finished
  PROVE  /\ [k EXCEPT !.pc = pc] \in Call
         /\ [k EXCEPT !.pc = pc].pc = pc
         /\ [k EXCEPT !.pc = pc].tool = k.tool
         /\ [k EXCEPT !.pc = pc].target = k.target
         /\ [k EXCEPT !.pc = pc].charged = k.charged
         /\ [k EXCEPT !.pc = pc].sends = k.sends
BY DEF Call

LEMMA SendFields ==
  ASSUME NEW k \in Call, NEW n \in Nat, n <= MaxSends
  PROVE  /\ [k EXCEPT !.pc = "sent", !.sends = n] \in Call
         /\ [k EXCEPT !.pc = "sent", !.sends = n].pc = "sent"
         /\ [k EXCEPT !.pc = "sent", !.sends = n].tool = k.tool
         /\ [k EXCEPT !.pc = "sent", !.sends = n].target = k.target
         /\ [k EXCEPT !.pc = "sent", !.sends = n].charged = k.charged
         /\ [k EXCEPT !.pc = "sent", !.sends = n].sends = n
<1>1. n \in 0 .. MaxSends
  BY CallsAssumption
<1> QED
  BY <1>1 DEF Call, InFlight

\* What other requests do to the store is no concern of the invariant.
LEMMA StoreStep ==
  ASSUME TypeOK, Inv, NEW i \in Instances, StoreChanges(i)
  PROVE  (TypeOK /\ Inv)'
BY DEF StoreChanges, TypeOK, Inv, SendsAccounted, DoneIsOver,
       ResultsAreTrue, ChargedIsTarget

\* The handlers keep the invariant up to the moment the request is sent.
LEMMA HandlerStep ==
  ASSUME TypeOK, Inv, NEW c \in Calls,
         \/ \E t \in Tools \cup Resources, arg \in Args :
              Refuse(c, t, arg) \/ \E x \in Instances \cup {None} : Begin(c, t, arg, x)
         \/ ContextEnds(c)
         \/ Send(c)
  PROVE  (TypeOK /\ Inv)'
<1> DEFINE l == late[c]
           n == carried[c]
<1>0. /\ call[c] \in Call /\ l \in 0 .. MaxSends /\ n \in Nat
      /\ OneCall(call[c], l, n)
      /\ late = [late EXCEPT ![c] = l] /\ carried = [carried EXCEPT ![c] = n]
      /\ registered \subseteq Instances /\ gone \subseteq Calls
  BY CallIsOne DEF TypeOK
<1>1. ASSUME NEW t \in Tools \cup Resources, NEW arg \in Args, Refuse(c, t, arg)
      PROVE  (TypeOK /\ Inv)'
  <2> DEFINE b == ChargedBy(t, arg)
             k == [call[c] EXCEPT !.pc = "refused", !.tool = t, !.charged = b]
  <2>0. b \in Instances \cup {None}
    BY SameInstance
  <2>1. call[c].pc = "new" /\ call' = [call EXCEPT ![c] = k]
    BY <1>1 DEF Refuse
  <2>2. registered' = registered /\ late' = late /\ carried' = carried /\ gone' = gone
    BY <1>1 DEF Refuse
  <2>3. call[c].target = None
    BY <1>0, <2>1 DEF OneCall
  <2> HIDE DEF b
  <2>4. k \in Call /\ k.pc = "refused" /\ k.tool = t /\ k.sends = call[c].sends /\ k.target = None
    BY <1>0, <2>0, <2>3 DEF Call, Finished
  <2> HIDE DEF k, l, n
  <2>5. OneCall(k, l, n)
    BY <1>0, <2>1, <2>2, <2>4 DEF OneCall, Call
  <2> QED
    BY <1>0, <2>1, <2>2, <2>4, <2>5, StepOfOne
<1>2. ASSUME NEW t \in Tools \cup Resources, NEW arg \in Args, NEW x \in Instances \cup {None},
             Begin(c, t, arg, x)
      PROVE  (TypeOK /\ Inv)'
  <2> DEFINE i == TargetOf(t, arg, x)
             b == ChargedBy(t, arg)
             pc == IF t = "disconnect" THEN "done" ELSE "resolved"
             k == [call[c] EXCEPT !.pc = pc, !.tool = t, !.target = i, !.charged = b]
  <2>0. /\ b \in Instances \cup {None} /\ i \in Instances \cup {None}
        /\ b # None /\ i # None => b = i
    BY SameInstance
  <2>1. call[c].pc = "new" /\ call' = [call EXCEPT ![c] = k]
    BY <1>2 DEF Begin, Resolve
  <2>2. late' = late /\ carried' = carried /\ gone' = gone
    BY <1>2 DEF Begin
  <2>3. t \in Unbound \/ i # None
    BY <1>2 DEF Begin
  <2>4. registered' \in {registered, registered \cup {i}, registered \ {i}}
        /\ (t \notin SessionTools => registered' = registered)
    BY <1>2 DEF Begin, Register, SessionTools
  <2> HIDE DEF i, b
  <2>5. registered' \subseteq Instances
    BY <1>0, <2>0, <2>3, <2>4, TableFacts
  <2>6. k \in Call /\ k.pc = pc /\ k.tool = t /\ k.sends = call[c].sends /\ k.target = i /\ k.charged = b
    BY <1>0, <2>0 DEF Call, Finished
  <2> HIDE DEF k, l, n
  <2>7. OneCall(k, l, n)
    BY <1>0, <2>0, <2>1, <2>6 DEF OneCall, Call
  <2> QED
    BY <1>0, <2>1, <2>2, <2>5, <2>6, <2>7, StepOfOne
<1>4. CASE ContextEnds(c)
  BY <1>4 DEF ContextEnds, TypeOK, Inv, SendsAccounted, DoneIsOver,
     ResultsAreTrue, ChargedIsTarget
<1>3. CASE Send(c)
  <2>1. call[c].pc = "resolved" /\ call[c].sends = 0 /\ l = 0 /\ n = 0
    BY <1>0, <1>3 DEF Send, OneCall, Call
  <2>2. late' = late /\ carried' = carried /\ gone' = gone
    BY <1>3 DEF Send
  <2>3. CASE SendAgain(c) /\ UNCHANGED registered
    <3> DEFINE k == [call[c] EXCEPT !.pc = "sent", !.sends = call[c].sends + 1]
    <3>0. call[c].sends + 1 \in Nat /\ call[c].sends + 1 <= MaxSends /\ call[c].sends + 1 = 1
      BY <2>1, CallsAssumption
    <3>1. k \in Call /\ k.pc = "sent" /\ k.tool = call[c].tool /\ k.target = call[c].target
        /\ k.charged = call[c].charged /\ k.sends = 1
      BY <1>0, <3>0, SendFields
    <3>2. call' = [call EXCEPT ![c] = k]
      BY <2>3 DEF SendAgain
    <3> HIDE DEF k, l, n
    <3>3. OneCall(k, l, n)
      BY <1>0, <2>1, <2>2, <3>1 DEF OneCall, Call
    <3> QED
      BY <1>0, <2>2, <2>3, <3>1, <3>2, <3>3, StepOfOne
  <2>4. CASE Fail(c)
    <3> DEFINE k == [call[c] EXCEPT !.pc = "error"]
    <3>1. k \in Call /\ k.pc = "error" /\ k.tool = call[c].tool /\ k.target = call[c].target
        /\ k.charged = call[c].charged /\ k.sends = call[c].sends
      BY <1>0, CallFields DEF Finished
    <3>2. call' = [call EXCEPT ![c] = k] /\ registered' \subseteq Instances
      BY <1>0, <2>4 DEF Fail, Goto
    <3> HIDE DEF k, l, n
    <3>3. OneCall(k, l, n)
      BY <1>0, <2>1, <2>2, <3>1 DEF OneCall, Call
    <3> QED
      BY <1>0, <2>2, <3>1, <3>2, <3>3, StepOfOne
  <2> QED
    BY <1>3, <2>3, <2>4 DEF Send
<1> QED
  BY <1>1, <1>2, <1>3, <1>4

\* Green API and the network keep the invariant.
LEMMA NetworkStep ==
  ASSUME TypeOK, Inv, NEW c \in Calls,
         CarryOut(c) \/ CarryOutLate(c) \/ Answer(c) \/ ConnectionBreaks(c) \/ GiveUp(c)
  PROVE  (TypeOK /\ Inv)'
<1> DEFINE k0 == call[c]
           l0 == late[c]
           n0 == carried[c]
<1>0. /\ k0 \in Call /\ l0 \in 0 .. MaxSends /\ n0 \in Nat /\ k0.sends \in 0 .. MaxSends
      /\ OneCall(k0, l0, n0)
      /\ late = [late EXCEPT ![c] = l0] /\ carried = [carried EXCEPT ![c] = n0]
      /\ call = [call EXCEPT ![c] = k0]
      /\ registered \subseteq Instances /\ gone' \subseteq Calls
  BY CallIsOne DEF TypeOK, Call, CarryOut, CarryOutLate, Answer, ConnectionBreaks, GiveUp
<1>happens. Happens(c) => carried' = [carried EXCEPT ![c] = n0 + 1]
  BY DEF Happens
<1>1. CASE CarryOut(c)
  <2>1. k0.pc = "sent" /\ late' = late /\ registered' = registered
    BY <1>1 DEF CarryOut
  <2>2. CASE Goto(c, "executed") /\ Happens(c)
    <3> DEFINE k == [k0 EXCEPT !.pc = "executed"]
               n == n0 + 1
    <3>1. k \in Call /\ k.pc = "executed" /\ k.tool = k0.tool /\ k.target = k0.target
        /\ k.charged = k0.charged /\ k.sends = k0.sends
      BY <1>0, CallFields DEF InFlight
    <3>2. call' = [call EXCEPT ![c] = k]
      BY <2>2 DEF Goto
    <3> HIDE DEF k, k0, l0, n0
    <3>3. OneCall(k, l0, n)
      BY <1>0, <1>happens, <2>1, <2>2, <3>1 DEF OneCall
    <3>4. /\ n \in Nat /\ carried' = [carried EXCEPT ![c] = n]
          /\ late' = [late EXCEPT ![c] = l0] /\ registered' \subseteq Instances
      BY <1>0, <1>happens, <2>1, <2>2
    <3> HIDE DEF n
    <3> QED
      BY <1>0, <3>1, <3>2, <3>3, <3>4, StepOfOne
  <2>3. ASSUME NEW pc \in {"declined", "rejected"}, Goto(c, pc), UNCHANGED carried
        PROVE  (TypeOK /\ Inv)'
    <3> DEFINE k == [k0 EXCEPT !.pc = pc]
    <3>1. k \in Call /\ k.pc = pc /\ k.tool = k0.tool /\ k.target = k0.target
        /\ k.charged = k0.charged /\ k.sends = k0.sends
      BY <1>0, CallFields DEF InFlight
    <3>2. call' = [call EXCEPT ![c] = k]
      BY <2>3 DEF Goto
    <3> HIDE DEF k, k0, l0, n0
    <3>3. OneCall(k, l0, n0)
      BY <1>0, <2>1, <3>1 DEF OneCall
    <3> QED
      BY <1>0, <2>1, <2>3, <3>1, <3>2, <3>3, StepOfOne
  <2> QED
    BY <1>1, <2>2, <2>3 DEF CarryOut
<1>2. CASE CarryOutLate(c)
  <2> DEFINE l == l0 - 1
  <2>1. /\ l0 > 0 /\ late' = [late EXCEPT ![c] = l] /\ call' = call /\ registered' = registered
    BY <1>2 DEF CarryOutLate
  <2>a. l \in 0 .. MaxSends
    BY <1>0, <2>1, CallsAssumption
  <2> HIDE DEF k0, l0, n0
  <2>2. k0.pc \notin {"new", "refused"}
    BY <1>0, <2>1 DEF OneCall
  <2>3. CASE Happens(c)
    <3>1. n0 + 1 \in Nat /\ OneCall(k0, l, n0 + 1)
      BY <1>0, <1>happens, <2>1, <2>a, <2>2, <2>3 DEF OneCall
    <3> QED
      BY <1>0, <1>happens, <2>1, <2>a, <2>3, <3>1, StepOfOne
  <2>4. CASE UNCHANGED carried
    <3>1. OneCall(k0, l, n0)
      BY <1>0, <2>1, <2>a, <2>2, <2>4 DEF OneCall
    <3> QED
      BY <1>0, <2>1, <2>a, <2>4, <3>1, StepOfOne
  <2> QED
    BY <1>2, <2>3, <2>4 DEF CarryOutLate
<1>abandon. ASSUME k0.pc \in InFlight, Abandon(c)
            PROVE  \E l \in 0 .. MaxSends :
                     /\ late' = [late EXCEPT ![c] = l]
                     /\ n0 + l <= k0.sends
  <2>1. CASE k0.pc = "sent"
    <3>1. l0 + 1 \in 0 .. MaxSends /\ n0 + (l0 + 1) <= k0.sends
      BY <1>0, <2>1, CallsAssumption DEF OneCall
    <3> QED
      BY <1>abandon, <2>1, <3>1 DEF Abandon
  <2>2. CASE k0.pc # "sent"
    <3>1. n0 + l0 <= k0.sends
      BY <1>0, <2>2 DEF OneCall
    <3> QED
      BY <1>0, <1>abandon, <2>2, <3>1 DEF Abandon
  <2> QED
    BY <2>1, <2>2
<1>fail. ASSUME k0.pc \in InFlight, Fail(c), UNCHANGED carried,
                NEW l \in 0 .. MaxSends, late' = [late EXCEPT ![c] = l], n0 + l <= k0.sends
         PROVE  (TypeOK /\ Inv)'
  <2> DEFINE k == [k0 EXCEPT !.pc = "error"]
  <2>1. k \in Call /\ k.pc = "error" /\ k.tool = k0.tool /\ k.target = k0.target
        /\ k.charged = k0.charged /\ k.sends = k0.sends
    BY <1>0, CallFields DEF Finished
  <2>2. call' = [call EXCEPT ![c] = k] /\ registered' \subseteq Instances
    BY <1>0, <1>fail DEF Fail, Goto
  <2> HIDE DEF k, k0, l0, n0
  <2>3. OneCall(k, l, n0)
    BY <1>0, <1>fail, <2>1 DEF OneCall, InFlight
  <2> QED
    BY <1>0, <1>fail, <2>1, <2>2, <2>3, StepOfOne
<1>3. CASE Answer(c)
  <2>1. late' = late /\ UNCHANGED carried
    BY <1>3 DEF Answer
  <2>2. ASSUME NEW pc \in {"done", "told"}, Goto(c, pc), UNCHANGED registered,
               \/ k0.pc = "executed" /\ pc = "done"
               \/ k0.pc = "declined" /\ pc \in ResultsOfNo(k0.tool)
        PROVE  (TypeOK /\ Inv)'
    <3> DEFINE k == [k0 EXCEPT !.pc = pc]
    <3>1. k \in Call /\ k.pc = pc /\ k.tool = k0.tool /\ k.target = k0.target
        /\ k.charged = k0.charged /\ k.sends = k0.sends
      BY <1>0, CallFields DEF Finished
    <3>2. call' = [call EXCEPT ![c] = k]
      BY <2>2 DEF Goto
    <3>a. pc = "done" /\ k0.tool \notin OwnWords \cup OwnWordsIfEmpty => k0.pc = "executed"
      BY <2>2 DEF ResultsOfNo
    <3> HIDE DEF k, k0, l0, n0
    <3>b. k0.tool \in (Adds \cup Sets) \ OwnWordsIfEmpty => k0.sends <= 1
      BY <1>0, TableFacts DEF OneCall
    <3>c. n0 <= k0.sends /\ (k0.sends <= 1 => l0 = 0)
      BY <1>0, <2>2 DEF OneCall
    <3>3. OneCall(k, l0, n0)
      BY <1>0, <2>2, <3>1, <3>a, <3>b, <3>c DEF OneCall
    <3> QED
      BY <1>0, <2>1, <2>2, <3>1, <3>2, <3>3, StepOfOne
  <2>3. CASE k0.pc \in {"executed", "declined", "rejected"} /\ Fail(c)
    <3>1. n0 + l0 <= k0.sends
      BY <1>0, <2>3 DEF OneCall
    <3> QED
      BY <1>0, <1>fail, <2>1, <2>3, <3>1 DEF InFlight
  <2>4. ResultsOfNo(k0.tool) \subseteq {"done", "told"}
    BY DEF ResultsOfNo
  <2> QED
    BY <1>3, <2>2, <2>3, <2>4 DEF Answer
<1>4. CASE ConnectionBreaks(c)
  <2>1. k0.pc \in InFlight /\ Abandon(c) /\ UNCHANGED carried
    BY <1>4 DEF ConnectionBreaks
  <2>2. PICK l \in 0 .. MaxSends : late' = [late EXCEPT ![c] = l] /\ n0 + l <= k0.sends
    BY <1>abandon, <2>1
  <2>3. CASE Verb(k0.tool) = "GET" /\ k0.sends < MaxSends /\ SendAgain(c) /\ UNCHANGED registered
    <3> DEFINE k == [k0 EXCEPT !.pc = "sent", !.sends = k0.sends + 1]
    <3>0. k0.sends + 1 \in Nat /\ k0.sends + 1 <= MaxSends
      BY <1>0, <2>3, CallsAssumption
    <3>1. k \in Call /\ k.pc = "sent" /\ k.tool = k0.tool /\ k.target = k0.target
        /\ k.charged = k0.charged /\ k.sends = k0.sends + 1
      BY <1>0, <3>0, SendFields
    <3>2. call' = [call EXCEPT ![c] = k]
      BY <2>3 DEF SendAgain
    <3> HIDE DEF k, k0, l0, n0
    <3>3. OneCall(k, l, n0)
      BY <1>0, <2>1, <2>2, <2>3, <3>1 DEF OneCall, InFlight
    <3> QED
      BY <1>0, <2>1, <2>2, <2>3, <3>1, <3>2, <3>3, StepOfOne
  <2>4. CASE Fail(c)
    BY <1>fail, <2>1, <2>2, <2>4
  <2> QED
    BY <1>4, <2>3, <2>4 DEF ConnectionBreaks
<1>5. CASE GiveUp(c)
  <2>1. k0.pc \in InFlight /\ Abandon(c) /\ UNCHANGED carried /\ Fail(c)
    BY <1>5 DEF GiveUp
  <2>2. PICK l \in 0 .. MaxSends : late' = [late EXCEPT ![c] = l] /\ n0 + l <= k0.sends
    BY <1>abandon, <2>1
  <2> QED
    BY <1>fail, <2>1, <2>2
<1> QED
  BY <1>1, <1>2, <1>3, <1>4, <1>5

\* The inductive invariant holds always.
THEOREM InvHolds == Spec => [](TypeOK /\ Inv)
<1>1. Init => TypeOK /\ Inv
  BY CallsAssumption DEF Init, TypeOK, Inv, SendsAccounted, DoneIsOver,
     ResultsAreTrue, ChargedIsTarget, Call
<1>2. ASSUME TypeOK /\ Inv, [Next]_vars PROVE (TypeOK /\ Inv)'
  <2>1. CASE Next
    BY <1>2, <2>1, StoreStep, HandlerStep, NetworkStep DEF Next
  <2>2. CASE UNCHANGED vars
    BY <1>2, <2>2 DEF vars, TypeOK, Inv, SendsAccounted, DoneIsOver,
       ResultsAreTrue, ChargedIsTarget
  <2> QED
    BY <1>2, <2>1, <2>2
<1> QED
  BY <1>1, <1>2, PTL DEF Spec

\* The variables keep their types, for any number of calls and connections.
THEOREM TypeCorrect == Spec => []TypeOK
BY InvHolds, PTL

\* What adds something is done at most once per call, whatever the network
\* loses and the transport repeats (client.go, http.Transport).
THEOREM AddsAreDoneOnce == Spec => []AddedOnce
<1>1. TypeOK /\ Inv => AddedOnce
  BY TableFacts, CallsAssumption DEF TypeOK, Inv, SendsAccounted, AddedOnce, Call
<1> QED
  BY <1>1, InvHolds, PTL

\* A change that was reported, other than a reboot or a logout, was made at
\* most once and is not made again (client.go, http.Transport).
THEOREM ReportedIsOver == Spec => []DoneIsOver
<1>1. Inv => DoneIsOver
  BY DEF Inv
<1> QED
  BY <1>1, InvHolds, PTL

\* "Done" means carried out, but for the tools that say so without looking at
\* the answer (tools.go, client.go).
THEOREM ResultsHold == Spec => []ResultsAreTrue
<1>1. Inv => ResultsAreTrue
  BY DEF Inv
<1> QED
  BY <1>1, InvHolds, PTL

\* No instance pays for the calls on another (logger.go, tools.go).
THEOREM ChargesAreOwn == Spec => []ChargedIsTarget
<1>1. Inv => ChargedIsTarget
  BY DEF Inv
<1> QED
  BY <1>1, InvHolds, PTL

=============================================================================
