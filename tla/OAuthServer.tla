----------------------------- MODULE OAuthServer -----------------------------
(***************************************************************************)
(* The OAuth 2.0 authorization server of the gateway (oauth.go): the form  *)
(* that grants a code, the token endpoint that exchanges it, the lookup of *)
(* a bearer token on every request, and the periodic cleanup.  Handlers    *)
(* run concurrently; the two maps have a lock each, held for one read or   *)
(* one write at a time, so an exchange and a cleanup are several steps.    *)
(*                                                                         *)
(* The form's check of the credentials against the Green API is            *)
(* ProxyGateway; here a form that gets that far has passed it.             *)
(***************************************************************************)
EXTENDS Naturals

CONSTANTS
  Codes, Tokens,   \* what randomToken can return: never the same value twice
  Creds,           \* credentials users enter in the form
  Verifiers,       \* PKCE verifiers; S256 is injective on them
  Redirects,       \* redirect URIs
  NoRedirect,      \* a token request without redirect_uri
  Exchanges,       \* POST /token handlers that may run at the same time
  Lookups,         \* LookupToken calls that may run at the same time
  Absent,          \* no entry, no value
  CodeTTL, TokenTTL,
  MaxTime          \* bound on the clock

VARIABLES
  now,      \* time.Now()
  codes,    \* OAuthServer.codes
  tokens,   \* OAuthServer.tokens
  xch,      \* what each token handler holds
  look,     \* what each LookupToken call holds
  sweep,    \* what CleanExpired holds: its position and the `now` it took
  \* History
  flow,     \* the pendingCode every code was ever granted with
  minted,   \* by token: the code it was issued for and what the client sent
  taken     \* codes some handler found in the map

vars == <<now, codes, tokens, xch, look, sweep, flow, minted, taken>>

Pending == [creds : Creds, challenge : Verifiers, redirect : Redirects, expiresAt : Nat]
Issued  == [creds : Creds, expiresAt : Nat]
Minted  == [code : Codes, verifier : Verifiers, redirect : Redirects \cup {NoRedirect},
            expiresAt : Nat]

ASSUME OAuthAssumption ==
  /\ CodeTTL \in Nat /\ TokenTTL \in Nat /\ MaxTime \in Nat
  /\ NoRedirect \notin Redirects
  /\ Absent \notin Pending \cup Issued \cup Minted
  /\ {"none", "spent"} \cap Creds = {}   \* used by the refinement only

IdleExchange == [pc |-> "idle", code |-> Absent, redirect |-> NoRedirect,
                 verifier |-> Absent, pending |-> Absent]
IdleLookup   == [pc |-> "idle", token |-> Absent, entry |-> Absent]

Exchange == [pc       : {"idle", "consume", "check", "issue", "unknown", "answered"},
             code     : Codes \cup {Absent},
             redirect : Redirects \cup {NoRedirect},
             verifier : Verifiers \cup {Absent},
             pending  : Pending \cup {Absent}]
Lookup   == [pc    : {"idle", "judge", "found", "unknown", "expired"},
             token : Tokens \cup {Absent},
             entry : Issued \cup {Absent}]

\* A handler past the lookup never dereferences a missing code.
Filled(h) ==
  /\ h.pc # "idle" => h.code \in Codes /\ h.verifier \in Verifiers
  /\ h.pc \in {"check", "issue"} => h.pending \in Pending

TypeOK ==
  /\ now \in Nat
  /\ codes \in [Codes -> Pending \cup {Absent}]
  /\ tokens \in [Tokens -> Issued \cup {Absent}]
  /\ xch \in [Exchanges -> Exchange]
  /\ \A x \in Exchanges : Filled(xch[x])
  /\ look \in [Lookups -> Lookup]
  /\ \A l \in Lookups :
       /\ look[l].pc # "idle" => look[l].token \in Tokens
       /\ look[l].pc \in {"judge", "found", "expired"} => look[l].entry \in Issued
  /\ sweep \in [pc : {"idle", "codes", "tokens"}, now : Nat]
  /\ flow \in [Codes -> Pending \cup {Absent}]
  /\ minted \in [Tokens -> Minted \cup {Absent}]
  /\ taken \subseteq Codes

Init ==
  /\ now = 0
  /\ codes = [c \in Codes |-> Absent]
  /\ tokens = [t \in Tokens |-> Absent]
  /\ xch = [x \in Exchanges |-> IdleExchange]
  /\ look = [l \in Lookups |-> IdleLookup]
  /\ sweep = [pc |-> "idle", now |-> 0]
  /\ flow = [c \in Codes |-> Absent]
  /\ minted = [t \in Tokens |-> Absent]
  /\ taken = {}

\* time.Now().After(expiresAt), at time n
Expired(entry, n) == n > entry.expiresAt

Tick ==
  /\ now < MaxTime
  /\ now' = now + 1
  /\ UNCHANGED <<codes, tokens, xch, look, sweep, flow, minted, taken>>

-----------------------------------------------------------------------------
(* POST /authorize, after the credentials were accepted.                   *)

ProcessForm(c, k, challenge, redirect) ==
  /\ flow[c] = Absent
  /\ LET p == [creds |-> k, challenge |-> challenge, redirect |-> redirect,
               expiresAt |-> now + CodeTTL]
     IN  /\ codes' = [codes EXCEPT ![c] = p]
         /\ flow' = [flow EXCEPT ![c] = p]
  /\ UNCHANGED <<now, tokens, xch, look, sweep, minted, taken>>

-----------------------------------------------------------------------------
(* POST /token.                                                            *)

\* A client presents a code it was granted, with a verifier and a redirect
\* URI that need not be the right ones.
TokenRequest(x, c, verifier, redirect) ==
  /\ xch[x].pc = "idle"
  /\ flow[c] # Absent
  /\ xch' = [xch EXCEPT ![x] = [pc |-> "consume", code |-> c, redirect |-> redirect,
                                verifier |-> verifier, pending |-> Absent]]
  /\ UNCHANGED <<now, codes, tokens, look, sweep, flow, minted, taken>>

\* Fault: the code is deleted when the token is issued, not when it is read;
\* here, never.
ConsumeKeeps(x) ==
  /\ xch[x].pc = "consume"
  /\ LET p == codes[xch[x].code]
     IN  xch' = [xch EXCEPT ![x] = [@ EXCEPT !.pending = p,
                                      !.pc = IF p = Absent THEN "unknown" ELSE "check"]]
  /\ UNCHANGED <<now, codes, tokens, look, sweep, flow, minted, taken>>

\* Under codeMu: look the code up and delete it, whatever comes of it later.
Consume(x) ==
  /\ xch[x].pc = "consume"
  /\ LET c == xch[x].code
         p == codes[c]
     IN  /\ xch' = [xch EXCEPT ![x] = [@ EXCEPT !.pending = p,
                       !.pc = IF p = Absent THEN "unknown" ELSE "check"]]
         /\ codes' = [codes EXCEPT ![c] = Absent]
         /\ taken' = IF p = Absent THEN taken ELSE taken \cup {c}
  /\ UNCHANGED <<now, tokens, look, sweep, flow, minted>>

\* Fault: the redirect URI of the request is not compared.
CheckGrantAnyRedirect(x) ==
  /\ xch[x].pc = "check"
  /\ LET p == xch[x].pending
         ok == ~ Expired(p, now) /\ xch[x].verifier = p.challenge
     IN  xch' = [xch EXCEPT ![x] = [@ EXCEPT !.pc = IF ok THEN "issue" ELSE "answered"]]
  /\ UNCHANGED <<now, codes, tokens, look, sweep, flow, minted, taken>>

\* Fault: a token request without redirect_uri is refused.
CheckGrantStrict(x) ==
  /\ xch[x].pc = "check"
  /\ LET p == xch[x].pending
         ok == /\ ~ Expired(p, now)
               /\ xch[x].redirect = p.redirect
               /\ xch[x].verifier = p.challenge
     IN  xch' = [xch EXCEPT ![x] = [@ EXCEPT !.pc = IF ok THEN "issue" ELSE "answered"]]
  /\ UNCHANGED <<now, codes, tokens, look, sweep, flow, minted, taken>>

\* Expiry, then redirect_uri unless the client sent none, then PKCE.
CheckGrant(x) ==
  /\ xch[x].pc = "check"
  /\ LET p == xch[x].pending
         ok == /\ ~ Expired(p, now)
               /\ xch[x].redirect \in {NoRedirect, p.redirect}
               /\ xch[x].verifier = p.challenge
     IN  xch' = [xch EXCEPT ![x] = [@ EXCEPT !.pc = IF ok THEN "issue" ELSE "answered"]]
  /\ UNCHANGED <<now, codes, tokens, look, sweep, flow, minted, taken>>

\* A fresh token for the credentials of the code.
IssueToken(x, t) ==
  /\ xch[x].pc = "issue"
  /\ minted[t] = Absent
  /\ tokens' = [tokens EXCEPT ![t] = [creds |-> xch[x].pending.creds,
                                      expiresAt |-> now + TokenTTL]]
  /\ minted' = [minted EXCEPT ![t] = [code |-> xch[x].code, verifier |-> xch[x].verifier,
                                      redirect |-> xch[x].redirect,
                                      expiresAt |-> now + TokenTTL]]
  /\ xch' = [xch EXCEPT ![x] = [@ EXCEPT !.pc = "answered"]]
  /\ UNCHANGED <<now, codes, look, sweep, flow, taken>>

\* randomToken fails: server_error, and the code is gone all the same.
IssueFails(x) ==
  /\ xch[x].pc = "issue"
  /\ xch' = [xch EXCEPT ![x] = [@ EXCEPT !.pc = "answered"]]
  /\ UNCHANGED <<now, codes, tokens, look, sweep, flow, minted, taken>>

\* The answer reaches the client.
ExchangeDone(x) ==
  /\ xch[x].pc \in {"unknown", "answered"}
  /\ xch' = [xch EXCEPT ![x] = IdleExchange]
  /\ UNCHANGED <<now, codes, tokens, look, sweep, flow, minted, taken>>

-----------------------------------------------------------------------------
(* LookupToken, on every request with a bearer token.                      *)

\* Under the read lock: fetch the entry of a token some client was given.
LookupRead(l, t) ==
  /\ look[l].pc = "idle"
  /\ minted[t] # Absent
  /\ look' = [look EXCEPT ![l] =
                [token |-> t, entry |-> tokens[t],
                 pc |-> IF tokens[t] = Absent THEN "unknown" ELSE "judge"]]
  /\ UNCHANGED <<now, codes, tokens, xch, sweep, flow, minted, taken>>

\* The lock is released: compare the clock, and delete an expired entry.
LookupJudge(l) ==
  /\ look[l].pc = "judge"
  /\ IF Expired(look[l].entry, now)
       THEN /\ look' = [look EXCEPT ![l] = [@ EXCEPT !.pc = "expired"]]
            /\ tokens' = [tokens EXCEPT ![look[l].token] = Absent]
       ELSE /\ look' = [look EXCEPT ![l] = [@ EXCEPT !.pc = "found"]]
            /\ UNCHANGED tokens
  /\ UNCHANGED <<now, codes, xch, sweep, flow, minted, taken>>

LookupDone(l) ==
  /\ look[l].pc \in {"found", "unknown", "expired"}
  /\ look' = [look EXCEPT ![l] = IdleLookup]
  /\ UNCHANGED <<now, codes, tokens, xch, sweep, flow, minted, taken>>

-----------------------------------------------------------------------------
(* CleanExpired, from the ten-minute ticker: it takes the time once, then  *)
(* sweeps one map after the other, each under its own lock.                *)

CleanStart ==
  /\ sweep.pc = "idle"
  /\ sweep' = [pc |-> "codes", now |-> now]
  /\ UNCHANGED <<now, codes, tokens, xch, look, flow, minted, taken>>

\* Fault: an entry goes at the instant of its expiry, when lookups still
\* accept it.
SweptAtExpiry(entries, n) ==
  [k \in DOMAIN entries |->
     IF entries[k] # Absent /\ n >= entries[k].expiresAt THEN Absent ELSE entries[k]]

Swept(entries, n) ==
  [k \in DOMAIN entries |->
     IF entries[k] # Absent /\ Expired(entries[k], n) THEN Absent ELSE entries[k]]

CleanCodes ==
  /\ sweep.pc = "codes"
  /\ codes' = Swept(codes, sweep.now)
  /\ sweep' = [sweep EXCEPT !.pc = "tokens"]
  /\ UNCHANGED <<now, tokens, xch, look, flow, minted, taken>>

\* Fault: the time is compared with the lifetime, not with the expiry.
CleanTokensByAge ==
  /\ sweep.pc = "tokens"
  /\ tokens' = [t \in Tokens |-> IF sweep.now > TokenTTL THEN Absent ELSE tokens[t]]
  /\ sweep' = [sweep EXCEPT !.pc = "idle"]
  /\ UNCHANGED <<now, codes, xch, look, flow, minted, taken>>

\* Fault: only the codes are swept.
CleanTokensSkips ==
  /\ sweep.pc = "tokens"
  /\ sweep' = [sweep EXCEPT !.pc = "idle"]
  /\ UNCHANGED <<now, codes, tokens, xch, look, flow, minted, taken>>

CleanTokens ==
  /\ sweep.pc = "tokens"
  /\ tokens' = Swept(tokens, sweep.now)
  /\ sweep' = [sweep EXCEPT !.pc = "idle"]
  /\ UNCHANGED <<now, codes, xch, look, flow, minted, taken>>

-----------------------------------------------------------------------------

Handle(x) ==
  \/ Consume(x)
  \/ CheckGrant(x)
  \/ \E t \in Tokens : IssueToken(x, t)
  \/ IssueFails(x)
  \/ ExchangeDone(x)

Resolve(l) == LookupJudge(l) \/ LookupDone(l)

Clean == CleanStart \/ CleanCodes \/ CleanTokens

Next ==
  \/ Tick
  \/ \E c \in Codes, k \in Creds, v \in Verifiers, u \in Redirects : ProcessForm(c, k, v, u)
  \/ \E x \in Exchanges, c \in Codes, v \in Verifiers, u \in Redirects \cup {NoRedirect} :
       TokenRequest(x, c, v, u)
  \/ \E x \in Exchanges : Handle(x)
  \/ \E l \in Lookups, t \in Tokens : LookupRead(l, t)
  \/ \E l \in Lookups : Resolve(l)
  \/ Clean

\* Handlers run to their end and the ticker keeps ticking; no client has to
\* come back, and the clock may stop at its bound.
Fairness ==
  /\ \A x \in Exchanges : WF_vars(Handle(x))
  /\ \A l \in Lookups : WF_vars(Resolve(l))
  /\ WF_vars(Clean)

Spec == Init /\ [][Next]_vars /\ Fairness

-----------------------------------------------------------------------------
(* Properties.                                                             *)

\* A code buys at most one token, however many handlers present it at once
\* ("Consume the authorization code (one-time use)", TokenHandler).
CodeUsedOnce ==
  \A t, u \in Tokens :
    minted[t] # Absent /\ minted[u] # Absent /\ minted[t].code = minted[u].code => t = u

\* A token exists only for a client that knew the verifier of the flow and did
\* not name another redirect URI, and it stands for the credentials of that
\* very flow (the checks of TokenHandler between the two locks).
TokenMatchesFlow ==
  \A t \in Tokens : minted[t] # Absent =>
    LET f == flow[minted[t].code]
    IN  /\ f # Absent
        /\ minted[t].verifier = f.challenge
        /\ minted[t].redirect \in {NoRedirect, f.redirect}
        /\ tokens[t] # Absent => tokens[t].creds = f.creds

\* A client that presents a live token is never turned away: whoever deleted
\* the entry, the cleanup with the time it took earlier or a lookup that read
\* the entry earlier, it had expired (LookupToken against CleanExpired).
LiveTokenHonoured ==
  \A l \in Lookups :
    look[l].pc \in {"unknown", "expired"} => Expired(minted[look[l].token], now)

\* A code is reported "unknown or already-used" only if it has expired or
\* another handler has taken it: the cleanup loses no live code (TokenHandler
\* against CleanExpired).
LiveCodeHonoured ==
  \A x \in Exchanges :
    xch[x].pc = "unknown" =>
      xch[x].code \in taken \/ Expired(flow[xch[x].code], now)

\* Why they hold: the invariant the proofs carry, one part per piece of state.
Held(x) == xch[x].pc \in {"check", "issue"}

\* A code in the map is untouched; one that left it was taken or has expired.
CodesInv ==
  \A c \in Codes :
    /\ codes[c] # Absent => codes[c] = flow[c] /\ c \notin taken
    /\ c \in taken => flow[c] # Absent
    /\ flow[c] # Absent /\ codes[c] = Absent => c \in taken \/ Expired(flow[c], now)

\* A handler holds what the code was granted with, and nobody else holds it.
ExchangeInv ==
  \A x \in Exchanges :
    /\ xch[x].pc # "idle" => flow[xch[x].code] # Absent
    /\ Held(x) => /\ xch[x].pending = flow[xch[x].code]
                  /\ xch[x].code \in taken
                  /\ \A y \in Exchanges \ {x} : Held(y) => xch[y].code # xch[x].code
    /\ xch[x].pc = "issue" =>
         /\ xch[x].verifier = flow[xch[x].code].challenge
         /\ xch[x].redirect \in {NoRedirect, flow[xch[x].code].redirect}

\* A token was issued by a handler that held its code and no longer does; its
\* entry is as issued until it has expired.
TokensInv ==
  \A t \in Tokens :
    /\ minted[t] # Absent =>
         /\ minted[t].code \in taken
         /\ \A x \in Exchanges : Held(x) => xch[x].code # minted[t].code
         /\ tokens[t] = Absent => Expired(minted[t], now)
    /\ tokens[t] # Absent =>
         /\ minted[t] # Absent
         /\ tokens[t].creds = flow[minted[t].code].creds
         /\ tokens[t].expiresAt = minted[t].expiresAt

LookupInv ==
  \A l \in Lookups :
    /\ look[l].pc # "idle" => minted[look[l].token] # Absent
    /\ look[l].pc \in {"judge", "found", "expired"}
         => look[l].entry.expiresAt = minted[look[l].token].expiresAt

SweepInv == sweep.now <= now

Inv ==
  /\ CodesInv /\ ExchangeInv /\ TokensInv /\ LookupInv /\ SweepInv
  /\ CodeUsedOnce /\ TokenMatchesFlow /\ LiveTokenHonoured /\ LiveCodeHonoured

\* Codes and tokens that have expired do not stay in memory for ever, though
\* one sweep can miss an entry that expires after it took the time
\* (CleanExpired, called every ten minutes).
ExpiredEntriesGo ==
  /\ \A c \in Codes : (codes[c] # Absent /\ Expired(codes[c], now)) ~> codes[c] = Absent
  /\ \A t \in Tokens : (tokens[t] # Absent /\ Expired(tokens[t], now)) ~> tokens[t] = Absent

-----------------------------------------------------------------------------
(* OAuthServer implements AuthorizationGrant.  A code stays open while it  *)
(* is in the map or in the hands of a handler that has not decided yet.    *)

\* Some handler took code c out of the map and has not answered yet.
InHand(c) == \E x \in Exchanges : xch[x].code = c /\ Held(x)

GrantOf ==
  [c \in Codes |->
     IF flow[c] = Absent THEN "none"
     ELSE IF codes[c] # Absent \/ InHand(c) THEN flow[c].creds
     ELSE "spent"]

BearerOf ==
  [t \in Tokens |->
     IF minted[t] = Absent THEN "none"
     ELSE IF tokens[t] # Absent THEN tokens[t].creds
     ELSE "spent"]

AG == INSTANCE AuthorizationGrant
        WITH grant <- GrantOf, bearer <- BearerOf, None <- "none", Spent <- "spent"

\* The promise of AuthorizationGrant, step by step: the handlers, the lookups
\* and the sweeps of oauth.go together redeem and expire as if each of them
\* were one step.
ImplementsGrant == AG!Spec

\* What a step may do to what was granted or issued.
OnlyEnds ==
  /\ \A c \in Codes : GrantOf[c] # "none" => GrantOf'[c] \in {GrantOf[c], "spent"}
  /\ \A t \in Tokens : BearerOf[t] # "none" => BearerOf'[t] \in {BearerOf[t], "spent"}

\* What is over stays over, whatever handlers, lookups and sweeps do at the same
\* time: a code that was used or has lapsed is never good for anything again, a
\* token that has lapsed never comes back, and neither ever stands for other
\* credentials than at first (the deletes in TokenHandler, LookupToken and
\* CleanExpired against the writes in processForm and TokenHandler).
NothingComesBack == [][OnlyEnds]_vars

=============================================================================
