---------------------------- MODULE AuthorizePage ----------------------------
(***************************************************************************)
(* The page a user authorizes a client with (templates/authorize.html), in *)
(* a browser in front of the authorization server: the form, its script,   *)
(* the POST handlers it starts (oauth.go), the redirect that tells the     *)
(* client its code, and the exchange that follows.                         *)
(*                                                                         *)
(* A page and the handler of its POST are two processes: the connection    *)
(* between them may break at any time, and the handler runs on alone.      *)
(***************************************************************************)
EXTENDS OAuthServer

CONSTANTS
  Pages,      \* forms open in browsers, one per flow of a client
  Asking,     \* what clients may have put into the URLs of the pages
  Scripted,   \* pages whose browser runs the script; the others just submit
  Posts,      \* POST /authorize handlers that may run at the same time
  InstanceOf, \* the instance credentials are for
  Valid       \* right credentials, in whoever's hands: the Green API accepts them

VARIABLES
  asked,    \* the query of each page's URL, and of its hidden fields
  page,     \* what each page shows, and the handler whose answer it waits for
  post,     \* what each handler holds
  told      \* by code: the page whose redirect told the client about it

pageVars == <<asked, page, post, told>>

\* A URL without redirect_uri or code_challenge, or with a method other than
\* S256, asks for nothing.
Request == [challenge : Verifiers, redirect : Redirects]

ASSUME PagesAssumption ==
  /\ Asking \subseteq [Pages -> Request \cup {Absent}]
  /\ Scripted \subseteq Pages
  /\ Absent \notin Request \cup Pages \cup Posts \cup Creds \cup Codes

\* What a form can pass with.  validateCredentials puts its candidate into the
\* shared store and GetStateInstance reads the store again: when another request
\* has put right credentials of the instance there, wrong ones pass.  Those of an
\* instance nobody has right ones for never do.
Passing == {k \in Creds : \E g \in Valid : InstanceOf[g] = InstanceOf[k]}

Page == [screen : {"form", "loading", "connected", "text", "left"},
         creds  : Creds \cup {Absent},     \* submitted last
         post   : Posts \cup {Absent},     \* whose answer the page waits for
         code   : Codes \cup {Absent}]     \* in the redirect it has
Post == [pc    : {"free", "checking", "accepted", "granted", "refused", "broken"},
         page  : Pages \cup {Absent},
         creds : Creds \cup {Absent},
         code  : Codes \cup {Absent}]

\* The form, empty or with a message above it.
Form == [screen |-> "form", creds |-> Absent, post |-> Absent, code |-> Absent]
Text == [Form EXCEPT !.screen = "text"]
FreePost == [pc |-> "free", page |-> Absent, creds |-> Absent, code |-> Absent]

Answered == {"granted", "refused", "broken"}

PageTypeOK ==
  /\ asked \in Asking
  /\ page \in [Pages -> Page]
  /\ post \in [Posts -> Post]
  /\ told \in [Codes -> Pages \cup {Absent}]
  /\ \A p \in Pages : page[p].screen = "loading" => page[p].post \in Posts /\ page[p].creds \in Creds
  /\ \A s \in Posts :
       /\ post[s].pc # "free" => post[s].page \in Pages
       /\ post[s].pc \in {"checking", "accepted"} => post[s].creds \in Creds
       /\ post[s].pc = "granted" => post[s].code \in Codes

\* showForm, of every page.
PageInit ==
  /\ Init
  /\ asked \in Asking
  /\ page = [p \in Pages |-> Form]
  /\ post = [s \in Posts |-> FreePost]
  /\ told = [c \in Codes |-> Absent]

-----------------------------------------------------------------------------
(* The browser.                                                            *)

\* The form is sent.  The script hides it while it waits; without the script
\* it stays, and sending it again gives up the answer that was awaited.
Submit(p, s, k) ==
  /\ page[p].screen \in IF p \in Scripted THEN {"form"} ELSE {"form", "loading"}
  /\ post[s].pc = "free"
  /\ page' = [page EXCEPT ![p] = [screen |-> "loading", creds |-> k, post |-> s,
                                  code |-> Absent]]
  /\ post' = [post EXCEPT ![s] = [pc |-> "checking", page |-> p, creds |-> k, code |-> Absent]]
  /\ UNCHANGED <<vars, asked, told>>

\* Nobody waits for handler s any more.
Orphan(s) == \A p \in Pages : page[p].post # s

\* The answer of handler s.  The script takes JSON with the redirect; JSON with
\* an error and the plain text of http.Error, which is no JSON, bring the form
\* back.  Without the script there is a redirect, the form rendered again, or
\* a page of plain text.
Answer(p, s) ==
  CASE post[s].pc = "granted" -> [page[p] EXCEPT !.screen = IF p \in Scripted THEN "connected" ELSE "left",
                                                 !.post = Absent, !.code = post[s].code]
    [] post[s].pc = "broken" /\ p \notin Scripted -> Text
    [] OTHER -> Form

\* What the client hears when the browser follows a redirect.
Tell(p, c) == told' = [told EXCEPT ![c] = p]

\* The page takes the answer of handler s.
Take(p, s) ==
  /\ page' = [page EXCEPT ![p] = Answer(p, s)]
  /\ post' = [post EXCEPT ![s] = FreePost]
  /\ IF p \notin Scripted /\ post[s].pc = "granted" THEN Tell(p, post[s].code) ELSE UNCHANGED told
  /\ UNCHANGED <<vars, asked>>

\* Fault: resp.json() outside the try.
TakeAnswerUncaught(p) ==
  /\ page[p].screen = "loading" /\ post[page[p].post].pc \in Answered \ {"broken"}
  /\ Take(p, page[p].post)

\* Fault: the first answer to the page stands for the answer to its last
\* submission.
TakeAnyAnswer(p) ==
  /\ page[p].screen = "loading"
  /\ \E s \in Posts : post[s].page = p /\ post[s].pc \in Answered /\ Take(p, s)

TakeAnswer(p) ==
  /\ page[p].screen = "loading" /\ post[page[p].post].pc \in Answered
  /\ Take(p, page[p].post)

\* The connection breaks: the script says so, the browser shows a page of its
\* own.  The handler is not told.
LoseAnswer(p) ==
  /\ page[p].screen = "loading"
  /\ page' = [page EXCEPT ![p] = IF p \in Scripted THEN Form ELSE Text]
  /\ UNCHANGED <<vars, asked, post, told>>

\* The timer of the check mark: the browser goes to the client.
FollowRedirect(p) ==
  /\ page[p].screen = "connected"
  /\ page' = [page EXCEPT ![p] = [@ EXCEPT !.screen = "left"]]
  /\ Tell(p, page[p].code)
  /\ UNCHANGED <<vars, asked, post>>

\* The user loads the page again, from its URL: showForm.
Reload(p) ==
  /\ page[p].screen \in {"loading", "connected", "text"}
  /\ page' = [page EXCEPT ![p] = Form]
  /\ UNCHANGED <<vars, asked, post, told>>

-----------------------------------------------------------------------------
(* processForm.                                                            *)

\* Handler s has its answer: an error, or a redirect with code c.
Answers(s, pc, c) ==
  /\ post' = [post EXCEPT ![s] = [@ EXCEPT !.pc = pc, !.creds = Absent, !.code = c]]
  /\ UNCHANGED <<asked, page, told>>

\* The form lacks what the client should have asked for: plain text.
RejectRequest(s) ==
  /\ post[s].pc = "checking" /\ asked[post[s].page] = Absent
  /\ Answers(s, "broken", Absent)
  /\ UNCHANGED vars

\* No number, no token, or an error of validateCredentials, whatever the
\* error: the Green API refuses the credentials, or it cannot be reached, or
\* the browser has gone.
RefuseCredentials(s) ==
  /\ post[s].pc = "checking" /\ asked[post[s].page] # Absent
  /\ Answers(s, "refused", Absent)
  /\ UNCHANGED vars

\* Fault: an error of validateCredentials is passed over.
AcceptUnvalidated(s) ==
  /\ post[s].pc = "checking" /\ asked[post[s].page] # Absent
  /\ post' = [post EXCEPT ![s] = [@ EXCEPT !.pc = "accepted"]]
  /\ UNCHANGED <<vars, asked, page, told>>

\* validateCredentials returns no error: the Green API has accepted what the
\* store held for the instance when the URL was built.  The steps in between,
\* and the others that use the entry, are those of ProxyGateway.
AcceptCredentials(s) ==
  /\ post[s].pc = "checking" /\ asked[post[s].page] # Absent
  /\ post[s].creds \in Passing
  /\ post' = [post EXCEPT ![s] = [@ EXCEPT !.pc = "accepted"]]
  /\ UNCHANGED <<vars, asked, page, told>>

\* randomToken fails: plain text.
NoCode(s) ==
  /\ post[s].pc = "accepted"
  /\ Answers(s, "broken", Absent)
  /\ UNCHANGED vars

GrantCode(s, c) ==
  /\ post[s].pc = "accepted"
  /\ LET a == asked[post[s].page]
     IN  ProcessForm(c, post[s].creds, a.challenge, a.redirect)
  /\ Answers(s, "granted", c)

\* The answer of a handler nobody waits for is lost, its code is not.
DropAnswer(s) ==
  /\ post[s].pc \in Answered /\ Orphan(s)
  /\ post' = [post EXCEPT ![s] = FreePost]
  /\ UNCHANGED <<vars, asked, page, told>>

-----------------------------------------------------------------------------

Browse(p) == TakeAnswer(p) \/ FollowRedirect(p)

HandlePost(s) ==
  \/ RejectRequest(s) \/ RefuseCredentials(s) \/ AcceptCredentials(s)
  \/ NoCode(s) \/ DropAnswer(s)
  \/ \E c \in Codes : GrantCode(s, c)

\* A client presents a code it was told, with any verifier and redirect URI.
ClientRequest(x) ==
  \E c \in Codes, v \in Verifiers, u \in Redirects \cup {NoRedirect} :
    told[c] # Absent /\ TokenRequest(x, c, v, u)

\* The token endpoint on its own.  The clock, the cleanup and the lookups are
\* left to OAuthServer: here every flow is completed in time.
ServerStep ==
  /\ \E x \in Exchanges : ClientRequest(x) \/ Handle(x)
  /\ UNCHANGED pageVars

PageNext ==
  \/ \E p \in Pages, s \in Posts, k \in Creds : Submit(p, s, k)
  \/ \E p \in Pages : LoseAnswer(p) \/ Reload(p) \/ Browse(p)
  \/ \E s \in Posts : HandlePost(s)
  \/ ServerStep

\* Handlers and scripts run to their end: every call the form makes has a
\* deadline, and the connection delivers or breaks.
PageFairness ==
  /\ \A s \in Posts : WF_pageVars(HandlePost(s))
  /\ \A p \in Pages : WF_pageVars(Browse(p))

PageSpec == PageInit /\ [][PageNext]_<<vars, pageVars>> /\ PageFairness

-----------------------------------------------------------------------------
(* Properties.                                                             *)

\* What a page has to show for it, and what it told the client, is the code
\* of its own flow, for the credentials entered last: the answer of an
\* earlier submission, given up or lost, is never taken for the last one's
\* (the submit listener against processForm).
RedirectIsOwn ==
  \A p \in Pages :
    page[p].screen \in {"connected", "left"} =>
      LET f == flow[page[p].code]
      IN  /\ asked[p] # Absent
          /\ f.challenge = asked[p].challenge /\ f.redirect = asked[p].redirect
          /\ f.creds = page[p].creds

\* From the form to the token: a bearer token exists only for a client whose
\* own page told it the code, that knows the verifier it opened the page
\* with, and for an instance that somebody has right credentials for, though the
\* ones it stands for may be others of that instance; the codes of answers
\* nobody got never become tokens (processForm, TokenHandler).
TokenIsVerified ==
  \A t \in Tokens : minted[t] # Absent =>
    LET c == minted[t].code
    IN  /\ told[c] # Absent
        /\ minted[t].verifier = asked[told[c]].challenge
        /\ flow[c].creds \in Passing

\* A client that presents what its page was opened with is not
\* refused, with or without a redirect URI in the request (processForm,
\* TokenHandler).
HonestClientServed ==
  [][\A x \in Exchanges :
       LET p == told[xch[x].code]
       IN  /\ CheckGrant(x)
           /\ xch[x].verifier = asked[p].challenge
           /\ xch[x].redirect \in {NoRedirect, asked[p].redirect}
           => xch'[x].pc = "issue"]_<<vars, pageVars>>

\* Why the invariants hold: the invariant the proofs carry.  Code c was granted
\* for the flow of page p.
Own(c, p) ==
  /\ c \in Codes /\ flow[c] # Absent /\ asked[p] # Absent
  /\ flow[c].challenge = asked[p].challenge /\ flow[c].redirect = asked[p].redirect
  /\ flow[c].creds \in Passing

PostsInv ==
  \A s \in Posts :
    /\ post[s].pc = "accepted" => asked[post[s].page] # Absent /\ post[s].creds \in Passing
    /\ post[s].pc = "granted" => Own(post[s].code, post[s].page)

\* A page that waits, waits for its own handler, and for what it sent last.
ScreensInv ==
  \A p \in Pages :
    /\ page[p].screen = "loading" =>
         LET h == post[page[p].post]
         IN  /\ h.pc # "free" /\ h.page = p
             /\ h.pc \in {"checking", "accepted"} => h.creds = page[p].creds
             /\ h.pc = "granted" => flow[h.code].creds = page[p].creds
    /\ page[p].screen \in {"connected", "left"} =>
         Own(page[p].code, p) /\ flow[page[p].code].creds = page[p].creds

ToldInv ==
  /\ \A c \in Codes : told[c] # Absent => Own(c, told[c])
  /\ \A x \in Exchanges : xch[x].pc # "idle" => told[xch[x].code] # Absent
  /\ \A t \in Tokens : minted[t] # Absent => told[minted[t].code] # Absent

\* The clock stands still here.
InTime == \A c \in Codes : flow[c] # Absent => ~ Expired(flow[c], now)

PageInv == PostsInv /\ ScreensInv /\ ToldInv

\* Every code that was ever granted, those of answers nobody got included, was
\* granted for credentials of an instance that somebody has right ones for.
PassingGrants == \A c \in Codes : flow[c] # Absent => flow[c].creds \in Passing

\* A page that waits has a handler of its own to wait for, which is busy with
\* what the page sent or has its answer, and which no other page waits for (the
\* submit listener against processForm).
WaitIsOwn ==
  \A p \in Pages :
    page[p].screen = "loading" =>
      /\ post[page[p].post].pc # "free" /\ post[page[p].post].page = p
      /\ \A q \in Pages \ {p} : page[q].screen = "loading" => page[q].post # page[p].post

\* Nobody looks at the spinner, or at the check mark, for ever: whatever the
\* answer, and without one (the try of the submit listener).  Without the
\* script, a submission is answered unless the user submits again.
PageMovesOn ==
  /\ \A p \in Scripted :
       page[p].screen \in {"loading", "connected"} ~> page[p].screen \in {"form", "left"}
  /\ \A p \in Pages \ Scripted, s \in Posts : page[p].post = s ~> page[p].post # s

-----------------------------------------------------------------------------
(* With its pages in front of it, the server implements the grants of      *)
(* AuthorizationGrant for the credentials that can pass, and no others.    *)

PG == INSTANCE AuthorizationGrant
        WITH grant <- GrantOf, bearer <- BearerOf, Creds <- Passing,
             None <- "none", Spent <- "spent"

\* Whatever becomes of the pages, of the answers and of the exchanges, a code
\* is granted only for an instance that somebody has right credentials for, is
\* redeemed at most once, and its token stands for what it was granted for.
ImplementsPassingGrant == PG!Spec

=============================================================================
