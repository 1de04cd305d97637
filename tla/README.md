# A verification project for green-api-mcp-gateway

The gateway lets MCP clients (assistants) use WhatsApp instances hosted by Green
API. It is one Go process that serves MCP over stdio, SSE or Streamable HTTP,
keeps the credentials of the instances in memory, calls the Green API for every
tool, and optionally receives notifications. Two of its tools come with a page
that the host shows. This directory holds TLA+ models of all of these where
something runs beside something else, TLC configurations that check them on
small instances, and TLAPS proofs of what matters most for every instance.

Run in this directory:

    tlc -workers 2 -config <run>.cfg <module>.tla
    tlapm <module>_proofs.tla

`PROJECT.json` lists the runs, the mutated definitions that show each property
can fail, the source lines each definition models, the hazards and the theorems.

## Inventory

| component | source | state | operations | hard because |
|---|---|---|---|---|
| credential store | `auth.go` | map instance -> credentials under an RWMutex | add, get, remove, list | shared by everything below; locked per operation only |
| proxy authentication | `auth_proxy.go` | cache of validations with expiry | extract, validate, fall back, clean | validation swaps the candidate into the store, calls the API, swaps back |
| credential injection, tools | `mcp/server.go`, `mcp/tools.go` | none of its own | inject, call a tool, connect, disconnect, close a stream | the entry of an instance is shared by all its requests |
| OAuth server | `oauth.go` | pending codes, issued tokens, each under its own mutex | authorize, exchange, look up, clean | single use, expiry, checks outside the locks |
| rate limiter | `ratelimit/limiter.go` | one token bucket per instance | allow, create bucket | double-checked creation, refusals that reserve |
| webhook bridge | `webhook/bridge.go` | goroutine per instance, wait group, counter, gauge | start, poll, handle, delete, retry, stop | at-least-once delivery, cancellation, lost answers |
| webhook receiver | `webhook/receiver.go` | HTTP server, done channel, once | start, watch, handle, stop | two callers of stop |
| lifecycle, transports | `cmd/server/main.go`, `mcp/server.go` | context, HTTP servers | start, serve, shut down | order of shutdown, deferred calls |
| tools, API client | `mcp/tools.go`, `greenapi/client.go` | none | 41 tools, one API method each | lost answers, requests sent again or carried out late |
| QR page | `templates/qr_app.html` | frame, countdown, poll timer, requests under way | refresh, poll, count down | answers that arrive late or in another order |
| authorization page | `templates/authorize.html`, form handlers of `oauth.go` | what the page shows, the POST under way | submit, answer, follow the redirect, reload | page and handler part company when the connection breaks |
| configuration | `config/config.go`, `cmd/server/main.go` | none after the start | load, override, register | three layers, lists with duplicates |
| resources | `mcp/resources.go` | none | read state, read settings | beside the tools, outside their wrapper |
| contacts page | `templates/contacts_app.html` | a list | search | (see Not modelled) |
| metrics, prompts, tracing | `monitoring/`, `mcp/prompts.go` | write-only or none | | |

How they meet: the middleware of `auth_proxy.go` and the form of `oauth.go`
both write candidates into the credential store while they validate them;
`injectCredentials` writes the accepted ones; every tool call reads the entry
when the API client builds its URL; tools add and remove entries; the bridge
lists the store once and then reads one entry per request. The limiter is asked
by the wrapper around every tool, which looks for the instance on its own. A
ticker cleans the validation cache and the
OAuth maps. The bridge, and MCP clients through two tools, consume the same
queue at Green API. A user opens the authorization page from a client; the page
submits to `oauth.go`, and the redirect it gets back takes the code to the
client, which exchanges it.

What makes each correct is in the comments above the properties, component by
component; the hazards they answer to are listed in `PROJECT.json`.

## Modules

| module | models | builds on |
|---|---|---|
| `CredentialStore` | the store; each method one atomic operation | |
| `ProxyGateway` | requests in proxy mode from the middleware to the tool, and the OAuth form's validation | extends `CredentialStore` |
| `AuthorizationGrant` | abstract: codes redeemed once, tokens that lapse | |
| `OAuthServer` | exchange, lookup and cleanup, step by step | implements `AuthorizationGrant` |
| `AuthorizePage` | the page, its script and the form handlers, in front of the token endpoint | extends `OAuthServer`, implements `AuthorizationGrant` for the credentials that can pass |
| `RateLimiter` | `addTool`'s wrapper and `Limiter` | |
| `ToolCalls` | the tools and two resources, from the wrapper to the result, over a network that loses things | |
| `NotificationDelivery` | abstract: what polling promises the handler | |
| `WebhookBridge` | the bridge, `main` around it, the queue, the competing tools | implements `NotificationDelivery` |
| `Configuration` | defaults, file and environment, and what `main` makes of them (pure) | |
| `Lifecycle` | `main`, the transports and the webhook receiver from start to exit | extends `Configuration` |
| `QRWidget` | the script of the QR page | |
| `MC...` | what TLC needs of the module named; its constants are in the `.cfg` files | the module named |
| `..._proofs` | theorems | the module named |

### ProxyGateway

`req[r]` is what a request's goroutine holds: where it is (`pc`), through which
door it came, its credentials, the entry it saved, the credentials its last URL
was built from. A step is what happens between two points where another
goroutine can run: one locked section or one HTTP exchange. `CheckCache` to
`RestoreOriginal` are `ValidateCredentials`; the form runs the same steps
(`validateCredentials` in `oauth.go`) and then issues a code, which is folded
into "some live token stands for these credentials" (`granted`). A cache entry
is `absent`, `fresh` or `stale`; becoming stale is a step of its own.

Most properties are stated with a proviso, because overlapping changes of one
entry are not excluded by anything in the code: `contended` collects the
instances whose entry one request changed while another was using it, be it
another validation, a `whatsapp_connect`, a disconnect or the close of a stream.
On every other instance, whatever happens elsewhere and however many requests
share the entry without changing it, the swap leaves no trace, what the cache
and the tokens record was accepted by the API, no request passes by headers or a
token on credentials that were not, and calls on the caller's own instance carry
the caller's own credentials. Nothing of this holds of a contended instance, and
the configuration door is left out of the third: its second read of the store
may find a candidate. `gateway_validated_cached` shows one such overlap against
what the configuration file promises.

`InstanceWasVouched` is what is left without any proviso: validations may answer
for one another, but only those of one instance, so whatever is cached, has a
token, or passes by headers or a token is for an instance of which the API has
accepted some credentials.

`contended`, `settled` and `vouched` are history: no guard reads them.

### OAuthServer

`codes` and `tokens` are the maps; a handler of the token endpoint is a record
in `xch` that takes the code under one lock, checks it without any, and stores
the token under another. `sweep` is one call of `CleanExpired`, with the time it
took at the beginning. Time is a bounded clock. `flow`, `minted` and `taken`
remember what was granted, issued and consumed.

The refinement to `AuthorizationGrant` keeps a code open while it is in the map
or in the hands of a handler that has not decided yet.

### AuthorizePage

`page[p]` is what a browser shows and which handler's answer it waits for;
`post[s]` is a handler of `POST /authorize` (`processForm`), which does not know
whether anybody waits. With its script (`Scripted`) the page sends the form by
`fetch`, expects JSON, and shows a check mark before it follows the redirect;
without it the browser submits, may submit again while it waits, and follows the
redirect at once. `asked[p]` is the query of the page's URL, the same on a
reload and in the hidden fields, and `told[c]` the page whose redirect told its
client code `c`. An answer that nobody waits for is dropped, and its code stays
in the map.

What a form can pass with is not decided by its own credentials alone:
`validateCredentials` puts them into the shared store and `GetStateInstance`
reads the store again, where another request may meanwhile have put right ones
of the same instance (`oauth.go:434`, `client.go:43`; step by step in
`ProxyGateway`). `Valid` are the right credentials in anybody's hands, `Passing`
all credentials of their instances: those may pass, right or wrong, and any may
be refused. That nothing else passes is `InstanceWasVouched` of `ProxyGateway`.

Clients present the codes they were told, with any verifier and redirect URI.
The clock, the cleanup and the lookups of `OAuthServer` are left out of the
composition: here every flow is completed in time, and what happens otherwise is
checked in `oauth_expiry`.

Here the grants come from the form, so the refinement says more than that of
`OAuthServer`: `ImplementsPassingGrant` takes `AuthorizationGrant` with `Passing`
for its credentials, so that a code is granted for nothing else.

### RateLimiter

Credit is counted in clock ticks: a call costs `Cost` of them, so rates below
one per second and the integer division in `Allow` need no fractions
(`RequestsPerSecond = Second / Cost`). Finding a bucket, creating it, asking it
and reserving from it are four critical sections. The bucket itself
(`golang.org/x/time/rate`) is external. `spent` sums what was admitted since
every past time.

### WebhookBridge

`main` goes init, starting, serving, waiting (in `Stop`), stopped. `poll[i]` is
the goroutine of an instance; `wg`, `active` and `gauge` are the wait group, the
atomic counter and the Prometheus gauge, changed in the order of the code. The
context check at the head of the loop and the sending of the request are one
step: a cancellation between them ends the request at once, which leads to the
same place. The check after an error is part of the error's step, since the
select that follows sees a later cancellation.

The queue at Green API is external: receiving shows the oldest notification,
deleting removes by `receiptId`. A deletion that fails for the bridge may never
have happened, or happen later (`late`). The process may die at any step before
`Stop` has returned and start again; the queue and what is under way survive it.

### ToolCalls

The 41 tools are one table: how a tool's request travels, what it makes of the
answer, and what its method does at Green API, which is external: it reads, it
sets (twice is as good as once) or it adds; a sign-in code that is issued counts
as added. The two resource templates stand beside them, without the wrapper. The wrapper (`GetInstanceID`) and the tool
(`ResolveInstanceID`) look for the instance separately: an argument may be a
number, a numeral in a string, anything else or nothing, and only the tool falls
back to the instance the caller is authenticated for. `charged` is what the
limiter was asked about, `target` what the call is for.

A call goes from the wrapper and the handler (`Refuse`, `Begin`) through
`buildURL` to the network, while other requests change the store
(`StoreChanges`) and callers leave (`ContextEnds`). There the connection may
break at any time: Go's transport sends a GET again on another connection while
the context lasts, anything else becomes an error, and a request that was given
up may be carried out `late`. The client gives up after thirty seconds or with
the context; the partner tools, which use `http.DefaultClient`, only with the
context. The values of the other arguments, the clamps of the history tools and
the texts of results are left out; a missing argument, a refusal by the limiter
and an instance that is nowhere to be found are all `Refuse`.

An answer below 400 need not mean that anything was done: its body may say no
(`declined`). Most tools pass the body on, so that the caller is `told`;
`whatsapp_delete_notification` and `whatsapp_connect` do not look and answer in
their own words (`OwnWords`), reboot and logout do so when there is no body.

What the properties say is what a caller can rely on: "done" is true where the
tool looks at the answer, a change that was reported was made once and is not
made again by a request that lingers (reboot and logout excepted, which travel
by GET and may be repeated late), a message is not sent twice, and no instance
is charged for a call on another. An error promises nothing: what it reports as
failed may have happened, or happen yet.

### Configuration and Lifecycle

`Configuration` has no state: `Load` lays a file over the defaults and the
environment over both, `OverrideItem` is the loop that replaces the first item
of the environment's instance or appends one, `Registered` is main's loop over
the items, `ServeMethod` and `WebhookPart` are its two switches. A setting is
one of the names that `main` knows or `"other"`; half of the pair of environment
variables, or an ID that is no number, is as good as none. `Lifecycle` starts
with any file and environment of `Sources`. `RegisteredAsConfigured` says what
the store holds when main goes on: the environment's credential, where the file
has that instance at most once, and of any other instance the last item of the
file, or nothing when there is none.

`main`, the goroutine that shuts the transport down (`shutter`), the receiver's
serve goroutine and its watcher are separate processes; `stop` has a place for
each of the two callers of `Receiver.Stop`, and `once` is `stopOnce`. SSE,
Streamable HTTP and hybrid share one shutdown; over stdio main serves itself.
`Shutdown` makes `ListenAndServe` return at once, so `Exit` may come while calls
are still running, which `lifecycle_graceful` shows. Pushes to the receiver are
confirmed after the handler has been called, and closing the server, or the end
of the process, cuts off whatever is under way.

### QRWidget

Handlers of a page run one at a time, so an action is one handler; what is
nondeterministic is which of them is next and what it is told. `pending` holds
the tool calls under way with their answers, which stay as they were given while
the instance changes its state. `Init` is the bootstrap: a host may load the page
with the `output` of the tool (`window.openai.toolOutput`); one that does is taken
to hand over the input as well. `Reading` is what `handleToolResult` goes by: an
answer without structured content is read as that output, if it was one to show,
and only then as text.

`handleToolResult` leaves the page alone and returns false when there is nothing
to read. `doRefresh` looks at that and shows an error (`ShowRefresh`); the
notification of the result and the bootstrap do not, and the spinner the page
opened with stays (`frame = "opening"`). So `SpinnerEnds` promises the end of a
refresh's spinner whatever comes, and of the first one only when the host is
never heard of, which is what the comment above the timeout says.

`misread` remembers that the page took an error text with "authorized" in it for
an authorization: the words of HTTP 403, or whatever Green API puts into its
message, such as "Unauthorized" (`errors.go`). `SuccessIsFounded` says that a
success card without an authorization has no other reason than that.

## Runs

| run | shows |
|---|---|
| `gateway_three_requests` | safety of proxy mode: with its proviso, and what overlaps leave |
| `gateway_liveness` | requests are answered, also when they change the entry under each other |
| `gateway_validated_cached` | finding: what is cached was not always what was validated |
| `oauth_exchange` | from the page to the token: pages show and tell their own code, tokens are for the right client and an instance with right credentials, an honest client is served, no page hangs, refinement of `AuthorizationGrant` for the credentials that can pass |
| `oauth_expiry` | single use, nothing live refused, everything expired swept, refinement of `AuthorizationGrant` |
| `limiter_budget` | admitted calls within the budget, quiet instances never refused |
| `limiter_retry` | finding: a caller that waits as told is refused again |
| `tool_calls` | nothing added twice, reported changes are over, true results, the right instance charged, every call ends |
| `bridge_delivery` | nothing dropped, refinement of `NotificationDelivery`, the queue drains, `Stop` returns and leaves nothing |
| `lifecycle` | instances are registered as configured, nobody waits for what nobody will do, a signal ends the process, a normal exit has stopped the receiver, confirmed means handled |
| `lifecycle_graceful` | finding: the shutdown cuts running calls off |
| `qr_widget` | codes have timers, the spinner of a refresh ends, an authorization is noticed, then the page rests |

Bounds. Three requests on one instance contain every pairwise overlap with a
third party that changes the entry. Once the instance is contended the search
goes on with two requests, without streams, connects and the configuration door
and until a validation expires (`PairOnceContended`), since only
`InstanceWasVouched` says anything there, of any two validations. In
`oauth_expiry` two exchanges and a lookup meet over one code and two tokens; a
time to live of 1 and a clock to 3 let entries expire before, between and after
the steps of a sweep. In `oauth_exchange` two clients have a page each, one with
the script and one without, and two handlers, codes, credentials, verifiers and
redirect URIs, so that answers cross, a form is sent again while its first
handler runs, each check of the exchange can fail, and either page may have been
opened without a sound request; of the two credentials submitted one is wrong,
but for an instance that somebody else has right ones for, and the other is for
an instance nobody has; one exchange at a time is enough there, since
exchanges only meet in the maps, which `oauth_expiry` checks. One token of
burst, a token every two ticks and three ticks let a bucket empty, refill half,
refill and overflow. Three notifications of one polled instance let one be
redelivered between an earlier and a later one; one crash is enough since the
counters of a process do not survive it; the counters for several instances are
covered by the proofs. One call of any tool with three connections contains
every repeat and every late request; calls meet only in the store, which
`StoreChanges` changes at will, so a second call adds nothing. Files with up to
two of two instances, with the same one twice among them, beside every
environment item contain each case of the override; the settings are unset, set
in one place and set in both. One call and two pushes (`lifecycle`) are cut off
before, during and after they are handled. Two requests of the page let an old
code or state arrive after a newer one, and a countdown of two ticks has a
middle and an end. `MaxSends`, and the `Ids` of `WebhookBridge`, are bounds of
the models, not of the code.

Where deadlock checking is off, the system really may stop: the clock and the
calls are bounded (`limiter_*`), or the process has ended
(`bridge_*`, `lifecycle*`).

Fairness. `ProxyGateway` and `OAuthServer` assume weak fairness of the steps of
a goroutine that can run, of API answers (the HTTP client has a timeout) and of
the cleanup ticker, and none of clients. `WebhookBridge` assumes the same of
`main` and the goroutines, and strong fairness of receiving and of confirmed
deletion: a request repeated without end succeeds again and again. Nothing is
assumed of signals, transports, tools, arrivals or crashes; `EveryNoteHandled`
only speaks of an instance that stays registered in a process that keeps
serving. `ToolCalls` assumes that handlers run and that the client of the Green
API gives up after its thirty seconds, or when the context ends; the partner
tools use a client without a time out, and `CallsEnd` promises their end only to
a caller that leaves. `AuthorizePage` assumes that handlers run to their end
(each request they make has a deadline) and that a script takes an answer that
has arrived; nothing of users, clients and connections. `Lifecycle` assumes that
goroutines run, that a closed server stops accepting and that a transport
returns once it is shut down; signals, requests and failures come or do not.
`QRWidget` assumes that the browser runs its timers and handlers (strongly,
since the bound on requests makes them wait), that calls are answered, and that
a poll, or a refresh, of an authorized instance that is repeated forever is
answered with its state again and again. Without the latter a page whose
refreshes all fail may show an old code from `output` for ever, behind the
success card.

## Theorems

Each `_proofs` module proves type correctness, an inductive invariant, and the
properties that follow from it, for any constants that satisfy the named
assumptions. The type invariants are left to the proofs, those of the bridge
and the lifecycle included, where they say that no counter becomes negative and
no channel is closed twice.

- `ProxyGateway_proofs`: `Inv` adds to the four properties with the proviso what every
  request expects of the entry it uses (`EntryAsExpected`) and that the verdict
  it carries is about its own credentials (`VerdictAsExpected`). The argument is
  that any step which breaks an expectation also makes the instance contended.
  `InstanceInv` does without the proviso: the entry a validation reads is filed
  under its own instance, whoever wrote it, so the verdict, and what is cached or
  granted on its strength, has a sponsor among the accepted credentials of that
  instance (`InstancesAreVouched`).
  `RequestsAdvance` bounds the way of a request: each of its steps, and whatever
  else moves it, brings it nearer to its answer by a measure (`StepsLeft`) of at
  most eleven, so nothing is repeated, whatever the request meets.
- `OAuthServer_proofs`: `Inv` has one part per piece of state. A code left the
  map because it was taken or expired; a handler that holds a code is the only
  one; a token's entry is as issued until it has expired. From it follow single
  use, the match of tokens and flows, that nothing live is refused, and the
  refinement of `AuthorizationGrant`. The refinement gives `NothingComesBack`:
  in the abstract specification a grant only ends, hence so it is here, whatever
  handlers, lookups and sweeps do at once.
- `AuthorizePage_proofs`: a page that waits, waits for its own handler and its
  last submission (`ScreensInv`), a handler that grants has checked the request
  and has credentials that can pass (`PostsInv`), and what clients were told, and present, is
  the code of the page that told them (`ToldInv`). With the invariant of
  `OAuthServer`, whose proofs are reused step by step, it follows that redirects
  are a page's own, tokens are as verified, and an honest client is served. Pages
  make the server take none but its own steps (`PagesImplementServer`); with
  `PassingGrants`, a code that is granted is for credentials that can pass, so
  that the server's refinement holds with `Passing` in place of all credentials, and what
  was proved of the server alone (`NothingComesBack`) holds behind its pages.
- `RateLimiter_proofs`: every call works on the one bucket of its instance
  (`SoleBuckets`), and what was admitted since a time plus what the bucket holds
  is at most the budget (`Balanced`). `WithinBudget` follows. A refused caller is
  told to wait, whatever its bucket earned between the refusal and the
  reservation that measures the wait (`RetryIsPositive`). That a
  quiet instance is never refused needs `TokensForAll`: as long as no more calls
  than the burst were made, the bucket holds a token for every call that still
  asks and for every call that may still be made; what is made, and what asks,
  are counted with the cardinality theorems.
- `WebhookBridge_proofs`: the counters count the goroutines (`Counters`, with
  the cardinality theorems of the library), the phases of `main` agree with them
  (`Lifecycle`), and a ledger says where each notification is and that the one
  in hand, and the last one handled, are no newer than any that waits
  (`Ledger`). From it follow that `Stop` waits for all, that nothing is dropped,
  that each call of the handler is due (`DeliveryIsDue`), and the refinement of
  `NotificationDelivery`.
- `Lifecycle_proofs`: `doneCh` is closed by the end of the serve goroutine only,
  and whoever runs or ran `stopOnce` has closed the server (`Channels`,
  `StopOnce`, `Phases`); hence a normal exit has stopped the receiver, and what
  was confirmed was handled. With `Started`, whatever is waited for was started by
  somebody who is still there (`WaitsAreOwed`). That the store is filled
  as configured follows from what `OverrideItem` leaves alone and from main's
  loop, for lists of any length.
- `QRWidget_proofs`: every helper leaves the timers as the frame needs them, and
  what is under way was true when it was answered (`AnswersAreFounded`); hence
  codes have their timers, success has one of its two reasons, and the spinner of
  a refresh has a code under way that will replace it (`SpinnerIsOwed`).
- `ToolCalls_proofs`: what the limiter is asked about is the instance of the
  call or nothing, since a number is read the same by both. What was carried out
  or is still under way was sent, and sent again only by GET (`SendsAccounted`);
  with the table, nothing is added twice, what was reported is over, and
  results are true where they are looked at.

Only model-checked: everything under fairness (`PageMovesOn`, `CallsEnd`,
`StopTerminates` and the like: liveness needs ENABLED, which is beyond the
prover), and the violations.

Of most promises that somebody will be answered, the part that needs no fairness
is proved: whoever waits, waits for something that is under way or due.
`WaitsAreOwed` says so for the end of the process, `StopIsOwed` for
`Stop` and its wait group, `WaitIsOwn` for the page and its submission,
`SpinnerIsOwed` for the QR page. A request on its way makes progress with every
step (`RequestsAdvance`). What is left to fairness is that the step is taken.

`WaitsAreOwed` and `ImplementsPassingGrant` are checked by runs too. `StopIsOwed`,
`SpinnerIsOwed`, `RequestsAdvance`, `DeliveryIsDue`, `NothingComesBack`,
`WaitIsOwn` and `PassingGrants` are in no `.cfg`, since their proofs cover the
instances of the runs; name one there to see it checked.

## Known disagreements without a run

Met while modelling; the models contain the behaviour or say where they stop.

- When a stream closes, the entry of its instance is removed (`server.go:428`),
  also when it came from the configuration or another request still uses it.
- Overlapping validations of one instance can leave a candidate in the store.
- Calls whose `instance_id` is missing or a numeral in a string reach the tool
  but not the limiter (`logger.go:54`, `tools.go:1372`).
- With less than one request per second a refusal divides by zero
  (`limiter.go:98`).
- The gauge of polling goroutines is set after, not with, the counter it shows
  (`bridge.go:92`).
- Instances registered after the bridge has started are not polled.
- `Receiver.Stop` does not wait for handlers that are still running.
- Wrong credentials can get a code and a token, and be cached, when right ones of
  the same instance are being validated at the same time (`oauth.go:434`,
  `auth_proxy.go:156`, `client.go:43`).
- The QR page takes any error text with "authorized" and without "notAuthorized"
  for an authorization: every HTTP 403, and what Green API says of a 401, of a 5xx
  or of others (`qr_app.html:405`, `errors.go:21`).
- A result without text, and an output of type `error` that the page is loaded
  with, leave the spinner for ever: `handleToolResult` returns false, which is not
  looked at (`qr_app.html:287`, `:241`, `:431`), and the host counts as connected,
  so the timeout that promises an error "instead of infinite spinner" does nothing.
- After a refresh without structured content the page falls back to the output it
  was loaded with, and shows an old code as a fresh one (`qr_app.html:275`).
- `whatsapp_delete_notification` answers `{"deleted": true}` to every status below
  400, also when the body says `{"result": false}` (`tools.go:1161`,
  `client.go:562`).
- `whatsapp_get_authorization_code` is announced as read-only and idempotent
  (`server.go:135`), though every call is a POST that has a code issued.
- Reboot and logout travel by GET, so that the transport may repeat them, and one
  may be carried out after a later call was answered.
- The defaults of the history tools differ between `SKILL.md` and `tools.go`.
- `hybrid` without `auth.mode: proxy` serves SSE only (`main.go:226`), although
  the comment above and `README.md:72` promise both transports.
- A file that lists the environment's instance twice wins over the environment:
  the first item is overridden and the last one registered (`config.go:160`).
- `GREEN_API_INSTANCE_ID` without a token, or one that is no number, is ignored
  without a word; a token without `GREEN_API_URL` resets the file's URL to the
  default one (`config.go:156`).
- Configured credentials are registered in proxy mode too, where `README.md:123`
  calls them ignored.
- `rate_limit.enabled: false` has no effect (`main.go:105`), and
  `webhook.polling_timeout` is read and not used.
- The handlers of the tools return their errors as results, so the wrapper
  counts a failed call as a success (`server.go:118`).
- Reading a resource asks neither the limiter nor the metrics of the tools.
- The authorization page says "Network error" to every plain text answer, and
  the form says "Invalid credentials" whatever the validation's error was
  (`authorize.html:187`, `oauth.go:391`).
- `contacts_app.html:396` puts JSON in double quotes into an attribute in double
  quotes, so the click handlers do not compile and no contact opens; an error
  result is shown as an empty list (`contacts_app.html:354`).

## Not modelled

The hints of the tools are constants no step reads. Header parsing, JSON, logging, metrics other than the gauge, tracing, prompts,
icons and titles, ports and the other numbers of the configuration: no state, no
order. `AllowN`, `Wait`, `SetRetryAfterHeader`, `CleanupOldLimiters` and the
methods of the client that no tool calls. The retention of the queue at Green
API. A cryptographic hash is an injective relation between verifier and
challenge. The values of tool arguments other than the instance. How mcp-go
hands the `{id}` of a resource to `extractInstanceID` is the library's affair: a
read may be refused whatever the URI says.

The contacts page: since its detail view cannot be reached, what is left is a
list and a search in it, with one handler at a time and nothing under way.

The bridge's gauge and its snapshot of the instances are in the model without a
property, and the limiter's buckets are never dropped, in the code as in the
model: the code promises nothing there that a property could state.

## Plan

1. Done: the store and proxy mode, OAuth and its page, the limiter, the bridge,
the configuration, the lifecycle with the receiver, the QR page, the tool calls
and resources. 2. Done: every safety property and action property of a passing
run, and every refinement, is a theorem. Worth proving next: a measure for
`ToolCalls` as for `ProxyGateway`, where Go's repetitions are bounded by the
connections, and an abstract limiter (a number of tokens per instance, and no
buckets) that `RateLimiter` implements. 3. A contacts page with a detail view
that opens would be worth a module of its own (details that arrive late),
checked like the QR page.
