----------------------------- MODULE ToolCalls -----------------------------
(***************************************************************************)
(* A tool call from the wrapper of mcp/server.go through the handlers of   *)
(* mcp/tools.go and the client of greenapi/client.go to Green API and      *)
(* back.  Between the two the network loses requests and answers, and Go's *)
(* HTTP transport sends a GET again, on another connection, when the one   *)
(* it used breaks before the answer.  A request that was given up may      *)
(* still be carried out.                                                   *)
(*                                                                         *)
(* The tools are one table.  What a tool's method does at Green API is     *)
(* external: it reads, it puts something into a state (repeating it makes  *)
(* no difference), or it adds something (repeating it adds another one).   *)
(* The names of the tools are those of the code without "whatsapp_".  The  *)
(* two resource templates are read by the same client and stand beside     *)
(* the tools.                                                              *)
(***************************************************************************)
EXTENDS Integers

CONSTANTS
  Calls,      \* tool calls
  Instances,  \* instances with credentials somewhere
  None,       \* no instance
  MaxSends    \* bound: connections on which one request is sent

ASSUME CallsAssumption ==
  /\ None \notin Instances
  /\ MaxSends \in Nat \ {0}

VARIABLES
  registered, \* the instances the credential store has an entry for
  call,       \* the goroutines of the calls
  gone,       \* the calls whose context is over: the caller has left or cancelled
  late,       \* requests that were given up and are still under way, by call
  carried     \* history: how often Green API did what a call asked for

vars == <<registered, call, gone, late, carried>>

-----------------------------------------------------------------------------
(* The tools.                                                              *)

SessionTools == {"connect", "disconnect"}

SendTools == {"send_message", "send_file", "upload_file", "send_file_by_upload"}

RichSendTools == {"send_location", "send_contact", "send_poll", "forward_messages"}

ChangeTools == {"edit_message", "delete_message"}

StateTools == {"get_state", "get_settings", "set_settings", "get_qr"}

ContactTools ==
  {"check_whatsapp", "get_contacts", "get_contact_info", "get_contact_avatar"}

NotificationTools == {"receive_notification", "delete_notification"}

GroupTools ==
  {"create_group", "get_group_data", "add_group_participant", "remove_group_participant"}

ManagementTools == {"reboot", "logout", "get_authorization_code", "get_wa_settings"}

HistoryTools ==
  {"get_chat_history", "get_message", "last_incoming_messages",
   "last_outgoing_messages", "read_chat"}

GroupAdminTools == {"set_group_admin", "remove_group_admin", "leave_group"}

\* The tools that call the Partner API, with http.DefaultClient.
PartnerTools == {"create_instance", "delete_instance", "get_instances"}

\* The resources of an instance, its state and its settings.
Resources == {"instance_state", "instance_settings"}

Tools ==
  SessionTools \cup SendTools \cup RichSendTools \cup ChangeTools \cup StateTools
    \cup ContactTools \cup NotificationTools \cup GroupTools \cup ManagementTools
    \cup HistoryTools \cup GroupAdminTools \cup PartnerTools

\* The tools that can do without any instance.
Unbound == {"create_instance", "get_instances"}

\* Green API: what is there twice when it is asked for twice.
\* A code for signing in is one more that was issued.
Adds ==
  SendTools \cup {"send_location", "send_contact", "send_poll", "forward_messages",
                  "create_group", "create_instance", "get_authorization_code"}

\* Green API: what is as it was asked to be, however often.
Sets ==
  {"edit_message", "delete_message", "set_settings", "reboot", "logout", "read_chat",
   "delete_notification", "add_group_participant", "remove_group_participant",
   "set_group_admin", "remove_group_admin", "leave_group", "delete_instance"}

\* The tools that ignore what the answer to them says, or say it themselves
\* when it is empty; the others pass it on.
OwnWords == {"connect", "delete_notification"}

OwnWordsIfEmpty == {"reboot", "logout"}

\* What becomes of an answer that says in its body that nothing was done.
ResultsOfNo(t) ==
  (IF t \in OwnWords THEN {} ELSE {"told"})
    \cup (IF t \in OwnWords \cup OwnWordsIfEmpty THEN {"done"} ELSE {})

\* The tools that go through GetMethod, and the resources.
ViaGetMethod ==
  {"connect", "get_state", "get_settings", "get_qr", "receive_notification", "reboot",
   "logout", "get_wa_settings"} \cup Resources

\* The methods of the client that say themselves what verb they use.
HistoryGets == {"last_incoming_messages", "last_outgoing_messages"}

HistoryPosts == {"get_chat_history", "get_message"}

GroupPosts ==
  {"create_group", "get_group_data", "add_group_participant", "set_group_admin",
   "remove_group_admin", "leave_group"}

AccountPosts == {"read_chat", "get_authorization_code", "get_contact_avatar"}

\* multipartRequest: the file travels in the body.
Uploads == {"upload_file", "send_file_by_upload"}

ByGet == ViaGetMethod \cup HistoryGets \cup {"get_contacts", "get_instances"}

ByPost ==
  HistoryPosts \cup GroupPosts \cup AccountPosts \cup Uploads
    \cup {"remove_group_participant", "create_instance", "delete_instance"}

\* The tools that go through CallMethod.
ByName ==
  {"send_message", "send_file", "send_location", "send_contact", "send_poll",
   "forward_messages", "edit_message", "delete_message", "set_settings",
   "check_whatsapp", "get_contact_info"}

HttpMethodFor(t) ==
  IF t = "delete_notification" THEN "DELETE" ELSE IF t \in ByGet THEN "GET" ELSE "POST"

\* CallMethod: every caller supplies a body, which turns a GET into a POST.
CallMethodVerb(t) == IF HttpMethodFor(t) = "GET" THEN "POST" ELSE HttpMethodFor(t)

Verb(t) ==
  CASE t \in ByName -> CallMethodVerb(t)
    [] t \in ByGet -> "GET"
    [] t \in ByPost -> "POST"
    [] t = "delete_notification" -> "DELETE"

-----------------------------------------------------------------------------
(* Which instance a call is for, and which one the limiter is asked about. *)

\* What stands in the arguments of a call, or in the URI of a resource: a
\* number, a numeral in a string, something else, or nothing.
Args ==
  [form : {"number", "numeral"}, id : Instances] \cup [form : {"junk", "absent"}, id : {None}]

\* getInstanceID, the wrapper's look at the arguments: only numbers count.
GetInstanceID(arg) == IF arg.form = "number" THEN arg.id ELSE None

\* Fault: the instance of the caller goes before the one in the arguments.
ResolveFromContextFirst(arg, x) == IF x # None THEN x ELSE arg.id

\* resolveInstanceID: what stands in the arguments, a numeral too, and only
\* without it the instance x the caller is authenticated for.
ResolveInstanceID(arg, x) == IF arg.form = "absent" THEN x ELSE arg.id

TargetOf(t, arg, x) ==
  IF t \in Unbound THEN None ELSE IF t \in Resources THEN arg.id ELSE ResolveInstanceID(arg, x)

\* A resource has no wrapper.
ChargedBy(t, arg) == IF t \in Resources THEN None ELSE GetInstanceID(arg)

-----------------------------------------------------------------------------

\* A request is sent; it was carried out, or turned down with a status below
\* 400 or with another, and the answer is on its way.
InFlight == {"sent", "executed", "declined", "rejected"}

\* A call ends with a result that says it was done or passes on that it was
\* not, with an error, or before anything was tried.
Finished == {"done", "told", "error", "refused"}

Call == [pc : {"new", "resolved"} \cup InFlight \cup Finished,
         tool : Tools \cup Resources \cup {None},
         target : Instances \cup {None}, charged : Instances \cup {None}, sends : 0 .. MaxSends]

TypeOK ==
  /\ registered \subseteq Instances
  /\ call \in [Calls -> Call]
  /\ gone \subseteq Calls
  /\ late \in [Calls -> 0 .. MaxSends]
  /\ carried \in [Calls -> 0 .. MaxSends]

Init ==
  /\ registered \in SUBSET Instances
  /\ call = [c \in Calls |->
               [pc |-> "new", tool |-> None, target |-> None, charged |-> None, sends |-> 0]]
  /\ gone = {}
  /\ late = [c \in Calls |-> 0]
  /\ carried = [c \in Calls |-> 0]

Goto(c, pc) == call' = [call EXCEPT ![c] = [@ EXCEPT !.pc = pc]]

\* What goes over the network for a call once more.
SendAgain(c) ==
  call' = [call EXCEPT ![c] = [@ EXCEPT !.pc = "sent", !.sends = call[c].sends + 1]]

\* An error result; whatsapp_connect takes back the entry it made.
Fail(c) ==
  /\ Goto(c, "error")
  /\ registered' = IF call[c].tool = "connect" THEN registered \ {call[c].target} ELSE registered

\* The rate limiter refuses the call, an argument is missing or of a wrong
\* type, or there is no instance to be found, neither in the arguments nor in
\* the context.
Refuse(c, t, arg) ==
  /\ call[c].pc = "new"
  /\ call' = [call EXCEPT ![c] = [@ EXCEPT !.pc = "refused", !.tool = t,
                                            !.charged = ChargedBy(t, arg)]]
  /\ UNCHANGED <<registered, gone, late, carried>>

\* What the tools that work on the store do before any request.
Register(t, i) ==
  registered' = CASE t = "connect" -> registered \cup {i}
                  [] t = "disconnect" -> registered \ {i}
                  [] OTHER -> registered

Resolve(c, t, arg, i) ==
  call' = [call EXCEPT ![c] = [@ EXCEPT !.pc = IF t = "disconnect" THEN "done" ELSE "resolved",
                                        !.tool = t, !.target = i,
                                        !.charged = ChargedBy(t, arg)]]

\* The instance is resolved and the arguments are read; connect makes its
\* entry and disconnect is done.
Begin(c, t, arg, x) ==
  /\ call[c].pc = "new"
  /\ t \in Unbound \/ TargetOf(t, arg, x) # None
  /\ Resolve(c, t, arg, TargetOf(t, arg, x))
  /\ Register(t, TargetOf(t, arg, x))
  /\ UNCHANGED <<gone, late, carried>>

\* Another request registers an instance or removes it: injectCredentials, the
\* end of a stream, a validation (ProxyGateway).
StoreChanges(i) ==
  /\ registered' \in {registered \cup {i}, registered \ {i}}
  /\ UNCHANGED <<call, gone, late, carried>>

\* The transport cancels the context of a call.
ContextEnds(c) ==
  /\ call[c].pc \in {"resolved"} \cup InFlight
  /\ gone' = gone \cup {c}
  /\ UNCHANGED <<registered, call, late, carried>>

\* buildURL, which needs an entry, and httpClient.Do, which needs a context; a
\* partner tool has its token from the arguments.
Send(c) ==
  /\ call[c].pc = "resolved"
  /\ IF c \notin gone /\ (call[c].tool \in PartnerTools \/ call[c].target \in registered)
       THEN SendAgain(c) /\ UNCHANGED registered
       ELSE Fail(c)
  /\ UNCHANGED <<gone, late, carried>>

\* Green API does what the call asks for.
Happens(c) == carried' = [carried EXCEPT ![c] = @ + 1]

\* Green API carries the request out, says in its answer that it did not, or
\* answers with an error status.
CarryOut(c) ==
  /\ call[c].pc = "sent"
  /\ \/ Goto(c, "executed") /\ Happens(c)
     \/ (Goto(c, "declined") \/ Goto(c, "rejected")) /\ UNCHANGED carried
  /\ UNCHANGED <<registered, gone, late>>

\* A request that was given up is carried out after all, or never.
CarryOutLate(c) ==
  /\ late[c] > 0
  /\ late' = [late EXCEPT ![c] = @ - 1]
  /\ Happens(c) \/ UNCHANGED carried
  /\ UNCHANGED <<registered, call, gone>>

\* Fault: the status of the answer is not looked at.
AnswerAnyStatus(c) ==
  /\ call[c].pc \in {"executed", "declined", "rejected"}
  /\ Goto(c, "done")
  /\ UNCHANGED <<registered, gone, late, carried>>

\* The answer arrives.  Below 400 its body is the result, or the tool's own
\* words are; an error comes of any other status and of a body that breaks off
\* or does not decode (create_group, get_group_data), be it after the fact.
Answer(c) ==
  /\ \/ call[c].pc = "executed" /\ Goto(c, "done") /\ UNCHANGED registered
     \/ call[c].pc = "declined" /\ UNCHANGED registered
        /\ \E pc \in ResultsOfNo(call[c].tool) : Goto(c, pc)
     \/ call[c].pc \in {"executed", "declined", "rejected"} /\ Fail(c)
  /\ UNCHANGED <<gone, late, carried>>

\* What becomes of the request when nobody waits for its answer any more.
Abandon(c) == late' = IF call[c].pc = "sent" THEN [late EXCEPT ![c] = @ + 1] ELSE late

\* Fault: what fails is sent again, whatever it is.
ConnectionBreaksAndRetry(c) ==
  /\ call[c].pc \in InFlight
  /\ Abandon(c)
  /\ \/ call[c].sends < MaxSends /\ SendAgain(c) /\ UNCHANGED registered
     \/ Fail(c)
  /\ UNCHANGED <<gone, carried>>

\* The connection breaks.  While the context lasts the transport takes another
\* one for a request without a body that is safe to send again; the others end
\* in an error.
ConnectionBreaks(c) ==
  /\ call[c].pc \in InFlight
  /\ Abandon(c)
  /\ \/ Verb(call[c].tool) = "GET" /\ c \notin gone /\ call[c].sends < MaxSends
        /\ SendAgain(c) /\ UNCHANGED registered
     \/ Fail(c)
  /\ UNCHANGED <<gone, carried>>

\* Fault: nothing but the thirty seconds ends a call.
GiveUpByTimeOnly(c) ==
  /\ call[c].pc \in InFlight
  /\ call[c].tool \notin PartnerTools
  /\ Abandon(c)
  /\ Fail(c)
  /\ UNCHANGED <<gone, carried>>

\* The thirty seconds of the client are over, which http.DefaultClient of the
\* partner tools does not count, or the context of the call is.
GiveUp(c) ==
  /\ call[c].pc \in InFlight
  /\ call[c].tool \notin PartnerTools \/ c \in gone
  /\ Abandon(c)
  /\ Fail(c)
  /\ UNCHANGED <<gone, carried>>

Next ==
  \/ \E i \in Instances : StoreChanges(i)
  \/ \E c \in Calls :
       \/ \E t \in Tools \cup Resources, arg \in Args :
            Refuse(c, t, arg) \/ \E x \in Instances \cup {None} : Begin(c, t, arg, x)
       \/ ContextEnds(c)
       \/ Send(c)
       \/ CarryOut(c) \/ CarryOutLate(c)
       \/ Answer(c)
       \/ ConnectionBreaks(c)
       \/ GiveUp(c)

\* The runtime runs the handlers, and net/http ends a request when the time or
\* the context is over.  Nothing is assumed of callers, of the network and of
\* Green API.
Fairness ==
  \A c \in Calls : WF_vars(Send(c)) /\ WF_vars(GiveUp(c))

Spec == Init /\ [][Next]_vars /\ Fairness

-----------------------------------------------------------------------------
(* Properties.                                                             *)

\* However connections break and requests linger, a message, a group or an
\* instance is there at most once for each call that asked for it: what the
\* transport may send again is none of them (the verbs of the client).
AddedOnce == \A c \in Calls : call[c].tool \in Adds => carried[c] <= 1

\* A change that was reported is over: it was made at most once, and no request
\* lingers that would make it again, so that of two changes reported one after
\* the other the second is the one that counts (client.go, the transport).
\* Rebooting and logging out are left out, which travel by GET.
DoneIsOver ==
  \A c \in Calls :
    call[c].tool \in (Adds \cup Sets) \ OwnWordsIfEmpty /\ call[c].pc \in {"done", "told"}
      => carried[c] <= 1 /\ late[c] = 0

\* The wrapper and the tool look for the instance separately, the one by the
\* type of a value, the other also in strings and in the context.  They may
\* not find the same, but no instance pays for the calls on another
\* (getInstanceID, resolveInstanceID).
ChargedIsTarget ==
  \A c \in Calls :
    call[c].charged # None /\ call[c].target # None => call[c].charged = call[c].target

\* A result that says the call was done is true: Green API has done it, however
\* the connections broke before (httpRequest, the handlers).  Left out are the
\* tools that say so without looking: that a notification is deleted, an
\* instance connected, restarted or logged out.  Nothing of the kind holds of an
\* error.
ResultsAreTrue ==
  \A c \in Calls :
    call[c].pc = "done" /\ call[c].tool \notin {"disconnect"} \cup OwnWords \cup OwnWordsIfEmpty
      => carried[c] > 0

\* Every call has a result in the end, also when Green API never answers; a
\* call of the Partner API, once its caller is gone (partnerDo).
CallsEnd ==
  \A c \in Calls :
    (/\ call[c].pc \in {"resolved"} \cup InFlight
     /\ call[c].tool \notin PartnerTools \/ c \in gone)
      ~> (call[c].pc \in Finished)

\* Why they hold: the invariant the proofs carry.  What was carried out and what
\* is still under way was sent, and more than once only by GET; a request that
\* is open or was turned down is neither.
SendsAccounted ==
  \A c \in Calls :
    /\ carried[c] + late[c]
         + (IF call[c].pc \in {"sent", "declined", "rejected"} THEN 1 ELSE 0) <= call[c].sends
    /\ call[c].sends > 1 => Verb(call[c].tool) = "GET"
    /\ call[c].pc \in {"new", "resolved", "refused"} => call[c].sends = 0
    /\ call[c].pc = "executed" => carried[c] > 0
    /\ call[c].pc \in {"new", "refused"} => call[c].target = None

Inv ==
  /\ SendsAccounted
  /\ DoneIsOver
  /\ ResultsAreTrue
  /\ ChargedIsTarget

=============================================================================
