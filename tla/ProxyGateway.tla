---------------------------- MODULE ProxyGateway ----------------------------
(***************************************************************************)
(* Concurrent HTTP requests in proxy mode.  Each request goes through      *)
(* ProxyAuthMiddleware (validate the caller's credentials), then through   *)
(* injectCredentials (register them), then runs one MCP tool, all of it    *)
(* over ONE credential store keyed by instance ID.  Validation, in the     *)
(* middleware and behind the OAuth form, works by swapping the candidate   *)
(* into that store, calling getStateInstance, and swapping the old entry   *)
(* back: four steps that other requests interleave with.                   *)
(*                                                                         *)
(* A step of a request is what it does between two points where another    *)
(* goroutine can run: one locked section of the store or of the cache, or  *)
(* one HTTP exchange with the Green API.                                   *)
(***************************************************************************)
EXTENDS CredentialStore, Naturals

CONSTANTS
  Requests,    \* HTTP requests that may be in flight at the same time
  NoInstance,  \* a tool call that has no target yet
  Genuine,     \* the credentials the Green API host they name accepts
  Configured,  \* green_api.instances of the configuration file
  Doors,       \* the ways requests come in: headers, tokens, config, form
  Tools        \* the kinds of tool clients call

ASSUME GatewayAssumption ==
  /\ NoInstance \notin Ids
  /\ Genuine \subseteq Creds
  /\ Configured \in [Ids -> Entry]
  /\ \A i \in Ids : Configured[i] # NoCreds => InstanceOf[Configured[i]] = i

VARIABLES
  req,         \* what each request in flight holds in its goroutine
  cache,       \* ProxyAuthManager.cache, by credential: absent, fresh or stale
  granted,     \* credentials some live OAuth bearer token stands for
  \* History: nothing below is in the program, and no guard reads it.
  vouched,     \* credentials getStateInstance has answered with success for
  settled,     \* the entry each instance is left with by the last operation
               \* that was meant to outlive the request that made it
  contended    \* instances whose entry one request changed while another
               \* request was in the middle of using it

progVars == <<instances, req, cache, granted>>
histVars == <<vouched, settled, contended>>
vars     == <<instances, req, cache, granted, vouched, settled, contended>>

\* Between readOriginal and the end of the deferred restore.
Swapping  == {"addTemporary", "buildURL", "await", "cacheResult",
              "accepted", "rejected"}
\* The part of it in which the candidate is in the store.
Swapped   == Swapping \ {"addTemporary"}
\* The request relies on its own registration being in the store.
Holding   == {"tool", "stream"}
Connecting == {"connectURL", "connectAwait"}
Stage == Swapping \cup Holding \cup Connecting \cup
         {"idle", "fallback", "checkCache", "readOriginal", "issueCode",
          "inject", "reply"}

NoRequest == [pc |-> "idle", via |-> "none", conn |-> "none", creds |-> NoCreds,
              orig |-> NoCreds, sent |-> NoCreds, target |-> NoInstance]

Request == [pc     : Stage,
            via    : {"none", "header", "bearer", "config", "form"},
            conn   : {"none", "GET", "POST"},
            creds  : Entry,     \* the credentials the request runs under
            orig   : Entry,     \* originalCreds, saved for the restore
            sent   : Entry,     \* the credentials buildURL put in the URL
            target : Ids \cup {NoInstance}]

Own(r) == InstanceOf[req[r].creds]

\* Request r is in the middle of an operation that depends on entry i.
InUse(r, i) ==
  \/ req[r].pc \in Swapping \cup Holding /\ Own(r) = i
  \/ req[r].pc \in Connecting /\ req[r].target = i

\* What a request has filled in by the time it reaches a stage.
WellFormed(q) ==
  /\ q.pc \notin {"idle", "fallback"} => q.creds \in Creds
  /\ q.pc = "fallback" => q.via = "config"
  /\ q.pc \in {"fallback", "reply"} \cup Connecting => q.target \in Ids
  /\ q.pc \in Swapping /\ q.orig # NoCreds
       => InstanceOf[q.orig] = InstanceOf[q.creds]

TypeOK ==
  /\ StoreType
  /\ req \in [Requests -> Request]
  /\ \A r \in Requests : WellFormed(req[r])
  /\ cache \in [Creds -> {"absent", "fresh", "stale"}]
  /\ granted \subseteq Creds
  /\ vouched \subseteq Creds
  /\ settled \in [Ids -> Entry]
  /\ contended \subseteq Ids

Init ==
  /\ instances = Configured
  /\ req = [r \in Requests |-> NoRequest]
  /\ cache = [c \in Creds |-> "absent"]
  /\ granted = {}
  /\ vouched = {}
  /\ settled = Configured
  /\ contended = {}

-----------------------------------------------------------------------------
(* Bookkeeping shared by the actions.                                      *)

Become(r, q)   == req' = [req EXCEPT ![r] = q]
Goto(r, stage) == Become(r, [req[r] EXCEPT !.pc = stage])
Finish(r)      == Become(r, NoRequest)

\* History of a step of r on the store: which entries it changed under
\* somebody else's feet.
Observe(r) ==
  contended' = contended \cup
    {i \in Ids : /\ instances'[i] # instances[i] \/ settled'[i] # settled[i]
                 /\ \E s \in Requests \ {r} : InUse(s, i)}

\* A write that is meant to be undone, and one that is meant to stay.
Temporarily(r)   == UNCHANGED settled /\ Observe(r)
ForGood(r, i, e) == settled' = [settled EXCEPT ![i] = e] /\ Observe(r)

\* Fault: the deferred function forgets that there was an entry.
PutBackAlwaysRemoves(r) == RemoveInstance(Own(r))

\* The deferred function of ValidateCredentials and validateCredentials.
PutBack(r) ==
  IF req[r].orig # NoCreds
    THEN AddInstance(req[r].orig)
    ELSE RemoveInstance(Own(r))

-----------------------------------------------------------------------------
(* ProxyAuthMiddleware: where the credentials of a request come from.      *)

\* Basic or X-Instance-Id/X-Api-Token headers name the credentials.
ExtractCredentialsFromRequest(r, c, conn) ==
  /\ req[r].pc = "idle"
  /\ "header" \in Doors
  /\ Become(r, [NoRequest EXCEPT !.pc = "checkCache",
               !.via = "header", !.conn = conn, !.creds = c])
  /\ UNCHANGED <<instances, cache, granted, histVars>>

\* A bearer token that LookupToken finds: its credentials are not validated
\* again.  (Unknown and expired tokens are answered 401 and change nothing.)
LookupToken(r, c, conn) ==
  /\ req[r].pc = "idle"
  /\ "bearer" \in Doors
  /\ c \in granted
  /\ Become(r, [NoRequest EXCEPT !.pc = "inject",
               !.via = "bearer", !.conn = conn, !.creds = c])
  /\ UNCHANGED <<instances, cache, granted, histVars>>

\* No usable header: the instance is the query parameter, any number, or an
\* arbitrary member of ListInstances (map order), read in a step of its own.
ChooseFallback(r, i, conn) ==
  /\ req[r].pc = "idle"
  /\ "config" \in Doors
  /\ Become(r, [NoRequest EXCEPT !.pc = "fallback",
               !.via = "config", !.conn = conn, !.target = i])
  /\ UNCHANGED <<instances, cache, granted, histVars>>

\* The second read of the store, by the chosen ID; 401 when the entry is gone.
ReadFallback(r) ==
  /\ req[r].pc = "fallback"
  /\ LET c == GetCredentials(req[r].target)
     IN  IF c = NoCreds
           THEN Finish(r)
           ELSE Become(r, [req[r] EXCEPT !.pc = "inject", !.creds = c])
  /\ UNCHANGED <<instances, cache, granted, histVars>>

-----------------------------------------------------------------------------
(* ValidateCredentials, step by step.                                      *)

\* A fresh entry under cacheMu answers at once.
CheckCache(r) ==
  /\ req[r].pc = "checkCache"
  /\ IF cache[req[r].creds] = "fresh"
       THEN Goto(r, "inject")
       ELSE Goto(r, "readOriginal")
  /\ UNCHANGED <<instances, cache, granted, histVars>>

\* POST /authorize: the OAuth form starts here, without a cache.
SubmitForm(r, c) ==
  /\ req[r].pc = "idle"
  /\ "form" \in Doors
  /\ Become(r, [NoRequest EXCEPT !.pc = "readOriginal", !.via = "form", !.creds = c])
  /\ UNCHANGED <<instances, cache, granted, histVars>>

\* Remember what the store holds for the instance ...
ReadOriginal(r) ==
  /\ req[r].pc = "readOriginal"
  /\ Become(r, [req[r] EXCEPT !.pc = "addTemporary", !.orig = GetCredentials(Own(r))])
  /\ UNCHANGED <<instances, cache, granted, histVars>>

\* ... put the candidate in its place ...
AddTemporary(r) ==
  /\ req[r].pc = "addTemporary"
  /\ AddInstance(req[r].creds)
  /\ Goto(r, "buildURL")
  /\ Temporarily(r)
  /\ UNCHANGED <<cache, granted, vouched>>

\* ... let GetStateInstance read the store again to build its URL ...
BuildStateURL(r) ==
  /\ req[r].pc = "buildURL"
  /\ LET c == GetCredentials(Own(r))
     IN  Become(r, [req[r] EXCEPT !.sent = c, !.pc = IF c = NoCreds THEN "rejected" ELSE "await"])
  /\ UNCHANGED <<instances, cache, granted, histVars>>

\* Fault: any answer of the API counts as success.
AnswerStateAnyAnswer(r) ==
  /\ req[r].pc = "await"
  /\ vouched' = vouched \cup ({req[r].sent} \cap Genuine)
  /\ Goto(r, IF req[r].via = "form" THEN "accepted" ELSE "cacheResult")
  /\ UNCHANGED <<instances, cache, granted, settled, contended>>

\* ... and take the API's answer.  A genuine credential is answered with
\* success; any call may fail: transport, 30 s timeout, client gone, 5xx.
AnswerState(r) ==
  /\ req[r].pc = "await"
  /\ \/ /\ req[r].sent \in Genuine
        /\ vouched' = vouched \cup {req[r].sent}
        /\ Goto(r, IF req[r].via = "form" THEN "accepted" ELSE "cacheResult")
     \/ /\ Goto(r, "rejected")
        /\ UNCHANGED vouched
  /\ UNCHANGED <<instances, cache, granted, settled, contended>>

\* Success is cached before the deferred restore runs.
CacheResult(r) ==
  /\ req[r].pc = "cacheResult"
  /\ cache' = [cache EXCEPT ![req[r].creds] = "fresh"]
  /\ Goto(r, "accepted")
  /\ UNCHANGED <<instances, granted, histVars>>

\* Fault: the middleware goes on after a failed validation.
RestoreOriginalGoesOn(r) ==
  /\ req[r].pc \in {"accepted", "rejected"}
  /\ PutBack(r)
  /\ Goto(r, IF req[r].via = "form" THEN "issueCode" ELSE "inject")
  /\ Temporarily(r)
  /\ UNCHANGED <<cache, granted, vouched>>

\* Fault: a failed validation is retried without a limit.
RestoreOriginalRetries(r) ==
  /\ req[r].pc \in {"accepted", "rejected"}
  /\ PutBack(r)
  /\ IF req[r].pc = "rejected"
       THEN Goto(r, "readOriginal")
       ELSE Goto(r, IF req[r].via = "form" THEN "issueCode" ELSE "inject")
  /\ Temporarily(r)
  /\ UNCHANGED <<cache, granted, vouched>>

\* The deferred restore, on success and on failure; then 401, the next
\* handler, or the authorization code.
RestoreOriginal(r) ==
  /\ req[r].pc \in {"accepted", "rejected"}
  /\ PutBack(r)
  /\ IF req[r].pc = "rejected"
       THEN Finish(r)
       ELSE Goto(r, IF req[r].via = "form" THEN "issueCode" ELSE "inject")
  /\ Temporarily(r)
  /\ UNCHANGED <<cache, granted, vouched>>

\* The code stored by processForm, exchanged for a bearer token at /token
\* (module OAuthServer has the exchange, its expiry and its failures).
IssueCode(r) ==
  /\ req[r].pc = "issueCode"
  /\ granted' = granted \cup {req[r].creds}
  /\ Finish(r)
  /\ UNCHANGED <<instances, cache, histVars>>

-----------------------------------------------------------------------------
(* injectCredentials and the tools.                                        *)

\* Fault: an entry that is already there is kept.
InjectIfMissing(r) ==
  /\ req[r].pc = "inject"
  /\ IF GetCredentials(Own(r)) = NoCreds
       THEN AddInstance(req[r].creds)
       ELSE UNCHANGED instances
  /\ Goto(r, IF req[r].conn = "GET" THEN "stream" ELSE "tool")
  /\ ForGood(r, Own(r), req[r].creds)
  /\ UNCHANGED <<cache, granted, vouched>>

\* The credentials of the request, overwriting any entry of its instance.
InjectCredentials(r) ==
  /\ req[r].pc = "inject"
  /\ AddInstance(req[r].creds)
  /\ Goto(r, IF req[r].conn = "GET" THEN "stream" ELSE "tool")
  /\ ForGood(r, Own(r), req[r].creds)
  /\ UNCHANGED <<cache, granted, vouched>>

\* A GET ends when its client or the server closes it: deferred removal.
CloseStream(r) ==
  /\ req[r].pc = "stream"
  /\ RemoveInstance(Own(r))
  /\ Finish(r)
  /\ ForGood(r, Own(r), NoCreds)
  /\ UNCHANGED <<cache, granted, vouched>>

\* A POST that reaches no Green API call: a protocol message, a denied or
\* ill-formed tool call.
SkipTool(r) ==
  /\ req[r].pc = "tool"
  /\ Finish(r)
  /\ UNCHANGED <<instances, cache, granted, histVars>>

\* Any tool that calls the API: buildURL reads the store by instance ID, the
\* explicit argument or the instance of the request itself.
CallMethod(r, i) ==
  /\ req[r].pc = "tool"
  /\ "method" \in Tools
  /\ Become(r, [req[r] EXCEPT !.pc = "reply", !.target = i, !.sent = GetCredentials(i)])
  /\ UNCHANGED <<instances, cache, granted, histVars>>

\* The answer, or the error of buildURL, goes back to the client.
Reply(r) ==
  /\ req[r].pc = "reply"
  /\ Finish(r)
  /\ UNCHANGED <<instances, cache, granted, histVars>>

\* whatsapp_connect registers what it is given, then validates it.
Connect(r, c) ==
  /\ req[r].pc = "tool"
  /\ "connect" \in Tools
  /\ AddInstance(c)
  /\ Become(r, [req[r] EXCEPT !.pc = "connectURL", !.target = InstanceOf[c]])
  /\ ForGood(r, InstanceOf[c], c)
  /\ UNCHANGED <<cache, granted, vouched>>

ConnectURL(r) ==
  /\ req[r].pc = "connectURL"
  /\ Become(r, [req[r] EXCEPT !.pc = "connectAwait", !.sent = GetCredentials(req[r].target)])
  /\ UNCHANGED <<instances, cache, granted, histVars>>

\* On any error the entry is removed, whatever was there before.
ConnectAnswer(r) ==
  /\ req[r].pc = "connectAwait"
  /\ \/ /\ req[r].sent \in Genuine
        /\ vouched' = vouched \cup {req[r].sent}
        /\ UNCHANGED <<instances, settled, contended>>
     \/ /\ RemoveInstance(req[r].target)
        /\ ForGood(r, req[r].target, NoCreds)
        /\ UNCHANGED vouched
  /\ Finish(r)
  /\ UNCHANGED <<cache, granted>>

\* whatsapp_disconnect
Disconnect(r, i) ==
  /\ req[r].pc = "tool"
  /\ "disconnect" \in Tools
  /\ RemoveInstance(i)
  /\ Finish(r)
  /\ ForGood(r, i, NoCreds)
  /\ UNCHANGED <<cache, granted, vouched>>

-----------------------------------------------------------------------------
(* The validation cache over time.                                         *)

\* validUntil of a cached validation passes.
Expire(c) ==
  /\ cache[c] = "fresh"
  /\ cache' = [cache EXCEPT ![c] = "stale"]
  /\ UNCHANGED <<instances, req, granted, histVars>>

\* The ten-minute ticker drops what has expired.
CleanExpiredCache ==
  /\ \E c \in Creds : cache[c] = "stale"
  /\ cache' = [c \in Creds |-> IF cache[c] = "stale" THEN "absent" ELSE cache[c]]
  /\ UNCHANGED <<instances, req, granted, histVars>>

-----------------------------------------------------------------------------

Arrive(r) ==
  \/ \E c \in Creds, conn \in {"GET", "POST"} :
       \/ ExtractCredentialsFromRequest(r, c, conn)
       \/ LookupToken(r, c, conn)
  \/ \E i \in Ids, conn \in {"GET", "POST"} : ChooseFallback(r, i, conn)
  \/ \E c \in Creds : SubmitForm(r, c)

Validate(r) ==
  \/ CheckCache(r)
  \/ ReadOriginal(r)
  \/ AddTemporary(r)
  \/ BuildStateURL(r)
  \/ AnswerState(r)
  \/ CacheResult(r)
  \/ RestoreOriginal(r)

CallTool(r) ==
  \/ SkipTool(r)
  \/ \E i \in Ids : CallMethod(r, i) \/ Disconnect(r, i)
  \/ Reply(r)
  \/ \E c \in Creds : Connect(r, c)
  \/ ConnectURL(r)
  \/ ConnectAnswer(r)

\* The steps a goroutine of the server takes on its own.
Serve(r) ==
  \/ ReadFallback(r)
  \/ Validate(r)
  \/ IssueCode(r)
  \/ InjectCredentials(r)
  \/ CallTool(r)

Next ==
  \/ \E r \in Requests : Arrive(r) \/ Serve(r) \/ CloseStream(r)
  \/ \E c \in Creds : Expire(c)
  \/ CleanExpiredCache

\* A goroutine that can run runs, and the API answers or the HTTP client's
\* 30 s timeout does; the ticker ticks.  Clients owe the server nothing.
Fairness ==
  /\ \A r \in Requests : WF_vars(Serve(r))
  /\ WF_vars(CleanExpiredCache)

Spec == Init /\ [][Next]_vars /\ Fairness

-----------------------------------------------------------------------------
(* What one instance's users can rely on.  The entry of an instance is     *)
(* shared, and overlapping changes to it are not excluded by any lock; the *)
(* properties say exactly what survives as long as nobody changed the      *)
(* entry under a request that was using it, whatever happens meanwhile on  *)
(* every other instance and however many requests share the entry without  *)
(* changing it.                                                            *)

\* The temporary swap of a validation leaves no trace on an uncontended instance:
\* whenever no candidate is in the store for it, its entry is what the last
\* injection, connect, disconnect or stream close left (deferred restores in
\* ValidateCredentials and validateCredentials).
SwapLeavesNoTrace ==
  \A i \in Ids \ contended :
    (\A r \in Requests : req[r].pc \in Swapped => Own(r) # i)
      => instances[i] = settled[i]

\* Of an uncontended instance a cached validation, fresh or stale, and a bearer
\* token both stand for an answer the API gave about those very credentials, and
\* not about others that were in the store when the URL was built.
RecordedMeansVouched ==
  \A c \in Creds :
    InstanceOf[c] \notin contended /\ (cache[c] # "absent" \/ c \in granted)
      => c \in vouched

\* What survives every overlap, contended or not: validations of one instance
\* may answer for one another (GetStateInstance builds its URL from the shared
\* entry), and wrong credentials may be cached, get a token and pass with right
\* ones of that instance; but never for an instance of which the API has accepted
\* no credentials at all.
InstanceVouched(i) == \E g \in vouched : InstanceOf[g] = i

InstanceWasVouched ==
  /\ \A c \in Creds : cache[c] # "absent" \/ c \in granted => InstanceVouched(InstanceOf[c])
  /\ \A r \in Requests :
       /\ req[r].via \in {"header", "bearer"}
       /\ req[r].pc \in {"inject", "reply"} \cup Holding \cup Connecting
       => InstanceVouched(Own(r))

\* No request that brings credentials or a token gets past the middleware on
\* credentials the API never accepted, as long as its instance is not contended.
\* (The configuration door takes what the store holds, a candidate included.)
OnlyVouchedPass ==
  \A r \in Requests :
    /\ req[r].via \in {"header", "bearer"}
    /\ req[r].pc \in {"inject", "reply"} \cup Holding \cup Connecting
    /\ Own(r) \notin contended
    => req[r].creds \in vouched

\* A tool call on the caller's own instance is sent with the caller's own
\* credentials: it neither misses them nor picks up somebody else's, as long as
\* nobody changed the entry under it.
CallsUseOwnCredentials ==
  \A r \in Requests :
    req[r].pc = "reply" /\ req[r].target = Own(r) /\ Own(r) \notin contended
      => req[r].sent = req[r].creds

\* Why they hold: the invariant the proofs carry.  As long as an instance is
\* not contended, its entry is what each request using it expects, and at most
\* the requests that saved the settled entry will change it back.
EntryAsExpected ==
  \A i \in Ids \ contended :
    /\ \A r \in Requests : req[r].pc = "addTemporary" /\ Own(r) = i
         => instances[i] = req[r].orig
    /\ \A r \in Requests : req[r].pc \in Swapped \cup Holding /\ Own(r) = i
         => instances[i] = req[r].creds
    /\ \A r \in Requests :
         req[r].pc \in Swapped /\ Own(r) = i /\ req[r].orig # instances[i]
           => req[r].orig = settled[i]
    /\ (\A r \in Requests : req[r].pc \in Swapped /\ Own(r) = i
                               => req[r].orig = instances[i])
         => instances[i] = settled[i]

\* The verdict a request carries is about its own credentials.
VerdictAsExpected ==
  \A r \in Requests :
    req[r].pc \in Stage \ {"idle", "fallback"} /\ Own(r) \notin contended =>
      /\ req[r].pc = "await" => req[r].sent = req[r].creds
      /\ req[r].pc \in {"cacheResult", "accepted", "issueCode"}
           => req[r].creds \in vouched

\* A verdict is about credentials of the request's own instance, whoever put them
\* into the store.
VerdictOfInstance ==
  \A r \in Requests :
    /\ req[r].pc = "await" => req[r].sent # NoCreds /\ InstanceOf[req[r].sent] = Own(r)
    /\ req[r].pc \in {"cacheResult", "accepted", "issueCode"} => InstanceVouched(Own(r))

InstanceInv == VerdictOfInstance /\ InstanceWasVouched

Inv ==
  /\ EntryAsExpected
  /\ VerdictAsExpected
  /\ RecordedMeansVouched
  /\ OnlyVouchedPass
  /\ CallsUseOwnCredentials

\* Every request is answered; a GET that is let in stays open until closed.
EveryRequestAnswered ==
  \A r \in Requests : req[r].pc # "idle" ~> req[r].pc \in {"idle", "stream"}

\* The steps a request may still take, at most, from each stage.
StepsLeft(stage) ==
  CASE stage = "idle"                                -> 0
    [] stage \in {"reply", "stream", "connectAwait", "rejected", "issueCode"} -> 1
    [] stage = "connectURL"                          -> 2
    [] stage = "tool"                                -> 3
    [] stage = "inject"                              -> 4
    [] stage \in {"fallback", "accepted"}            -> 5
    [] stage = "cacheResult"                         -> 6
    [] stage = "await"                               -> 7
    [] stage = "buildURL"                            -> 8
    [] stage = "addTemporary"                        -> 9
    [] stage = "readOriginal"                        -> 10
    [] OTHER                                         -> 11

\* No request ever goes back: each of its own steps moves it, and whatever moves
\* it brings it nearer to its answer, whatever it meets in the store, in the
\* cache and at the API (no retry in ValidateCredentials, in the middleware, in the tools).
RequestsAdvance ==
  [][\A r \in Requests :
       /\ Serve(r) => req'[r] # req[r]
       /\ req'[r] # req[r] /\ req[r].pc # "idle"
            => StepsLeft(req'[r].pc) < StepsLeft(req[r].pc)]_vars

-----------------------------------------------------------------------------
(* What the configuration file says without the proviso.                   *)

\* config.example.yaml: credentials are "validated via getStateInstance API
\* call and cached".
CachedWereValidated == \A c \in Creds : cache[c] # "absent" => c \in vouched

=============================================================================
