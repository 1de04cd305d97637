------------------------ MODULE AuthorizePage_proofs ------------------------
(***************************************************************************)
(* The page and the server together, for any number of pages, handlers,    *)
(* codes and exchanges.  Every step of the composition is a step of the    *)
(* server or leaves it alone, so that the server's invariant holds here as *)
(* well; PageInv relates it to what the pages show.  For the credentials   *)
(* of instances somebody has right ones for, the two together implement    *)
(* AuthorizationGrant.                                                     *)
(***************************************************************************)
EXTENDS AuthorizePage, OAuthServer_proofs

\* The pages never do to the server what the server does not do.
LEMMA ServerAlone ==
  ASSUME PageTypeOK, PageInv, PageNext
  PROVE  [Next]_vars
<1>1. ASSUME NEW s \in Posts, HandlePost(s) PROVE [Next]_vars
  <2>1. CASE \E c \in Codes : GrantCode(s, c)
    <3>1. PICK c \in Codes : GrantCode(s, c)
      BY <2>1
    <3>2. post[s].creds \in Creds /\ post[s].page \in Pages
      BY <3>1 DEF GrantCode, PageTypeOK
    <3>3. asked[post[s].page] \in Request \cup {Absent}
      BY <3>2, PagesAssumption DEF PageTypeOK
    <3>4. asked[post[s].page] # Absent
      BY <3>1 DEF GrantCode, PageInv, PostsInv
    <3> QED
      BY <3>1, <3>2, <3>3, <3>4 DEF GrantCode, Request, Next
  <2>2. CASE ~ \E c \in Codes : GrantCode(s, c)
    BY <1>1, <2>2 DEF HandlePost, RejectRequest, RefuseCredentials, AcceptCredentials, NoCode, DropAnswer
  <2> QED
    BY <2>1, <2>2
<1>2. ASSUME ServerStep PROVE [Next]_vars
  BY <1>2 DEF ServerStep, ClientRequest, Next
<1>3. ASSUME NEW p \in Pages, LoseAnswer(p) \/ Reload(p) \/ Browse(p) PROVE [Next]_vars
  BY <1>3 DEF LoseAnswer, Reload, Browse, TakeAnswer, Take, FollowRedirect
<1>4. ASSUME NEW p \in Pages, NEW s \in Posts, NEW k \in Creds, Submit(p, s, k) PROVE [Next]_vars
  BY <1>4 DEF Submit
<1> QED
  BY <1>1, <1>2, <1>3, <1>4 DEF PageNext

\* The initial states.
LEMMA InitPages == PageInit => PageTypeOK /\ PageInv
<1> SUFFICES ASSUME PageInit PROVE PageTypeOK /\ PageInv
  OBVIOUS
<1>1. \A p \in Pages : page[p] = Form
  BY DEF PageInit
<1>2. \A s \in Posts : post[s] = FreePost
  BY DEF PageInit
<1>3. PageTypeOK
  <2>1. Form \in Page /\ FreePost \in Post
    BY DEF Form, FreePost, Page, Post
  <2> QED
    BY <1>1, <1>2, <2>1 DEF PageInit, PageTypeOK, Form, FreePost
<1>4. PostsInv /\ ScreensInv
  BY <1>1, <1>2 DEF PostsInv, ScreensInv, Form, FreePost
<1>5. ToldInv
  BY DEF PageInit, Init, ToldInv, IdleExchange
<1> QED
  BY <1>3, <1>4, <1>5 DEF PageInv

\* A granted code keeps its flow.
LEMMA FlowStays ==
  ASSUME TypeOK, [Next]_vars, NEW c \in Codes, flow[c] # Absent
  PROVE  flow'[c] = flow[c]
<1>1. ASSUME NEW d \in Codes, NEW k \in Creds, NEW v \in Verifiers, NEW u \in Redirects,
             ProcessForm(d, k, v, u)
      PROVE  flow'[c] = flow[c]
  BY <1>1 DEF ProcessForm, TypeOK
<1>2. CASE UNCHANGED flow
  BY <1>2
<1>3. \/ UNCHANGED flow
      \/ \E d \in Codes, k \in Creds, v \in Verifiers, u \in Redirects : ProcessForm(d, k, v, u)
  BY DEF Next, vars, Tick, TokenRequest, Handle, Consume, CheckGrant, IssueToken, IssueFails,
         ExchangeDone, LookupRead, Resolve, LookupJudge, LookupDone, Clean, CleanStart,
         CleanCodes, CleanTokens
<1> QED
  BY <1>1, <1>2, <1>3

\* What is own stays own.
LEMMA OwnStays ==
  ASSUME TypeOK, [Next]_vars, UNCHANGED asked, NEW c, NEW p, Own(c, p)
  PROVE  Own(c, p)' /\ flow'[c] = flow[c]
BY FlowStays DEF Own

\* Exchanges and tokens name codes.
LEMMA CodesNamed ==
  ASSUME TypeOK
  PROVE  /\ \A x \in Exchanges : xch[x].pc # "idle" => xch[x].code \in Codes
         /\ \A t \in Tokens : minted[t] # Absent => minted[t].code \in Codes
BY DEF TypeOK, Filled, Minted

\* What has been told stays told, and one more page tells its own code.
LEMMA TellHolds ==
  ASSUME TypeOK, PageTypeOK, PageInv, NEW p \in Pages, NEW c \in Codes, Own(c, p), Tell(p, c),
         UNCHANGED <<vars, asked>>
  PROVE  told' \in [Codes -> Pages \cup {Absent}] /\ ToldInv'
<1>1. \A d \in Codes : told'[d] = IF d = c THEN p ELSE told[d]
  BY DEF PageTypeOK, Tell
<1>2. p # Absent
  BY PagesAssumption
<1>3. told' \in [Codes -> Pages \cup {Absent}]
  BY DEF PageTypeOK, Tell
<1>4. ToldInv'
  BY <1>1, <1>2, CodesNamed DEF PageInv, ToldInv, Own, vars
<1> QED
  BY <1>3, <1>4

\* The user sends the form.
LEMMA SubmitHolds ==
  ASSUME PageTypeOK, PageInv, NEW p \in Pages, NEW s \in Posts, NEW k \in Creds, Submit(p, s, k)
  PROVE  PageTypeOK' /\ PageInv'
<1> DEFINE w == [screen |-> "loading", creds |-> k, post |-> s, code |-> Absent]
           h == [pc |-> "checking", page |-> p, creds |-> k, code |-> Absent]
<1>1. /\ page' = [page EXCEPT ![p] = w] /\ post' = [post EXCEPT ![s] = h]
      /\ post[s].pc = "free" /\ UNCHANGED <<vars, asked, told>>
  BY DEF Submit
<1>2. w \in Page /\ h \in Post
  BY DEF Page, Post
<1>3. page'[p] = w /\ \A q \in Pages \ {p} : page'[q] = page[q]
  BY <1>1 DEF PageTypeOK
<1>4. post'[s] = h /\ \A r \in Posts \ {s} : post'[r] = post[r]
  BY <1>1 DEF PageTypeOK
<1>5. PageTypeOK'
  <2>1. page' \in [Pages -> Page] /\ post' \in [Posts -> Post]
    BY <1>1, <1>2 DEF PageTypeOK
  <2> QED
    BY <1>1, <1>3, <1>4, <2>1 DEF PageTypeOK
<1>6. PostsInv'
  BY <1>1, <1>4 DEF PageInv, PostsInv, Own, vars
<1>7. ScreensInv'
  <2>1. ASSUME NEW q \in Pages \ {p}, page[q].screen = "loading"
        PROVE  page[q].post \in Posts \ {s}
    BY <1>1, <2>1 DEF PageTypeOK, PageInv, ScreensInv
  <2> QED
    BY <1>1, <1>3, <1>4, <2>1 DEF PageInv, ScreensInv, Own, vars
<1>8. ToldInv'
  BY <1>1 DEF PageInv, ToldInv, Own, vars
<1> QED
  BY <1>5, <1>6, <1>7, <1>8 DEF PageInv

\* Page p goes to another screen and waits no more; the handlers go on.
LEMMA LeaveHolds ==
  ASSUME TypeOK, PageTypeOK, PageInv, NEW p \in Pages, LoseAnswer(p) \/ Reload(p) \/ FollowRedirect(p)
  PROVE  PageTypeOK' /\ PageInv'
<1>1. /\ UNCHANGED <<vars, asked, post>>
      /\ \E w : page' = [page EXCEPT ![p] = w]
      /\ \A q \in Pages \ {p} : page'[q] = page[q]
  BY DEF LoseAnswer, Reload, FollowRedirect, PageTypeOK
<1>2. Form \in Page /\ Text \in Page
  BY DEF Form, Text, Page
<1>3. CASE page'[p] \in {Form, Text} /\ told' = told
  <2>1. page' \in [Pages -> Page]
    BY <1>1, <1>2, <1>3 DEF PageTypeOK
  <2>2. page'[p].screen \in {"form", "text"}
    BY <1>3 DEF Form, Text
  <2>3. PageTypeOK'
    BY <1>1, <1>3, <2>1, <2>2 DEF PageTypeOK
  <2> QED
    BY <1>1, <1>3, <2>2, <2>3 DEF PageInv, PostsInv, ScreensInv, ToldInv, Own, vars
<1>4. CASE FollowRedirect(p)
  <2>1. /\ page[p].screen = "connected" /\ page' = [page EXCEPT ![p] = [@ EXCEPT !.screen = "left"]]
        /\ told' = [told EXCEPT ![page[p].code] = p]
    BY <1>4 DEF FollowRedirect, Tell
  <2>2. Own(page[p].code, p) /\ page[p].code \in Codes
    BY <2>1 DEF PageInv, ScreensInv, Own
  <2>3. /\ page'[p].screen = "left" /\ page'[p].code = page[p].code /\ page'[p].creds = page[p].creds
        /\ page' \in [Pages -> Page] /\ told' \in [Codes -> Pages \cup {Absent}]
    BY <2>1, <2>2 DEF PageTypeOK, Page
  <2>4. PageTypeOK'
    BY <1>1, <2>3 DEF PageTypeOK
  <2>5. PostsInv' /\ ScreensInv'
    BY <1>1, <2>1, <2>2, <2>3 DEF PageInv, PostsInv, ScreensInv, Own, vars
  <2>8. ToldInv'
    BY <1>1, <2>2, <1>4, TellHolds DEF FollowRedirect
  <2> QED
    BY <2>4, <2>5, <2>8 DEF PageInv
<1> QED
  <2>1. LoseAnswer(p) \/ Reload(p) => page'[p] \in {Form, Text} /\ told' = told
    BY DEF LoseAnswer, Reload, PageTypeOK
  <2> QED
    BY <1>3, <1>4, <2>1

\* Page p takes the answer it waits for: nobody else waits for that handler.
LEMMA TakeHolds ==
  ASSUME TypeOK, PageTypeOK, PageInv, NEW p \in Pages, TakeAnswer(p)
  PROVE  PageTypeOK' /\ PageInv'
<1>1. PICK s \in Posts : s = page[p].post /\ page[p].screen = "loading" /\ post[s].pc \in Answered
  BY DEF TakeAnswer, PageTypeOK
<1>2. /\ page' = [page EXCEPT ![p] = Answer(p, s)] /\ post' = [post EXCEPT ![s] = FreePost]
      /\ UNCHANGED <<vars, asked>>
      /\ IF p \notin Scripted /\ post[s].pc = "granted" THEN Tell(p, post[s].code) ELSE UNCHANGED told
  BY <1>1 DEF TakeAnswer, Take
<1>3. post[s].page = p /\ (post[s].pc = "granted" => flow[post[s].code].creds = page[p].creds)
  BY <1>1 DEF PageInv, ScreensInv
<1>4. post[s].pc = "granted" => Own(post[s].code, p) /\ post[s].code \in Codes
  BY <1>3 DEF PageInv, PostsInv, Own
<1>5. /\ post'[s] = FreePost /\ \A r \in Posts \ {s} : post'[r] = post[r]
      /\ page'[p] = Answer(p, s) /\ \A q \in Pages \ {p} : page'[q] = page[q]
  BY <1>2 DEF PageTypeOK
<1>6. /\ FreePost \in Post /\ FreePost.pc = "free"
      /\ \A q \in Pages \ {p} : page[q].screen = "loading" => page[q].post \in Posts \ {s}
  <2>1. \A q \in Pages \ {p} : page[q].screen = "loading" => page[q].post \in Posts /\ page[q].post # s
    BY <1>3 DEF PageTypeOK, PageInv, ScreensInv
  <2> QED
    BY <2>1 DEF FreePost, Post
<1>7. post' \in [Posts -> Post] /\ PostsInv'
  BY <1>2, <1>5, <1>6 DEF PageTypeOK, PageInv, PostsInv, Own, vars
<1>8. told' \in [Codes -> Pages \cup {Absent}] /\ ToldInv'
  <2>1. CASE told' = told
    BY <1>2, <2>1 DEF PageTypeOK, PageInv, ToldInv, Own, vars
  <2> QED
    BY <1>2, <1>4, <2>1, TellHolds
<1>9. /\ Answer(p, s) \in Page /\ Answer(p, s).screen # "loading"
      /\ Answer(p, s).screen \in {"connected", "left"} =>
           Own(Answer(p, s).code, p) /\ flow[Answer(p, s).code].creds = Answer(p, s).creds
  <2>1. CASE post[s].pc = "granted"
    <3>1. Answer(p, s) = [page[p] EXCEPT !.screen = IF p \in Scripted THEN "connected" ELSE "left",
                                         !.post = Absent, !.code = post[s].code]
      BY <2>1 DEF Answer
    <3>2. page[p] \in Page
      BY DEF PageTypeOK
    <3>3. /\ Answer(p, s) \in Page /\ Answer(p, s).screen \in {"connected", "left"}
          /\ Answer(p, s).code = post[s].code /\ Answer(p, s).creds = page[p].creds
      BY <1>4, <2>1, <3>1, <3>2 DEF Page
    <3> QED
      BY <1>3, <1>4, <2>1, <3>3
  <2>2. CASE post[s].pc # "granted"
    <3>1. Answer(p, s) \in {Form, Text}
      BY <2>2 DEF Answer
    <3> QED
      BY <3>1 DEF Form, Text, Page
  <2> QED
    BY <2>1, <2>2
<1> DEFINE a == Answer(p, s)
<1> HIDE DEF a
<1>10. page'[p] = a /\ page' = [page EXCEPT ![p] = a]
  BY <1>2, <1>5 DEF a
<1>11. /\ a \in Page /\ a.screen # "loading"
       /\ a.screen \in {"connected", "left"} => Own(a.code, p) /\ flow[a.code].creds = a.creds
  BY <1>9 DEF a
<1>12. PageTypeOK'
  BY <1>2, <1>5, <1>6, <1>7, <1>8, <1>10, <1>11 DEF PageTypeOK
<1>13. ScreensInv'
  BY <1>2, <1>5, <1>6, <1>10, <1>11 DEF PageInv, ScreensInv, Own, vars
<1> QED
  BY <1>7, <1>8, <1>12, <1>13 DEF PageInv

\* A handler goes on, and the page that waits for it may take what comes of it.
LEMMA PostGoesOn ==
  ASSUME PageTypeOK, PageInv, TypeOK, [Next]_vars, NEW s \in Posts, NEW h \in Post,
         post' = [post EXCEPT ![s] = h], UNCHANGED <<asked, page, told, xch, minted>>,
         h.page = post[s].page, post[s].pc # "free", h.pc \notin {"free", "checking"},
         h.pc = "accepted" =>
           /\ h.creds = post[s].creds /\ h.creds \in Passing /\ asked[h.page] # Absent
           /\ post[s].pc = "checking",
         h.pc = "granted" =>
           /\ h.code \in Codes /\ Own(h.code, h.page)'
           /\ flow'[h.code].creds = post[s].creds /\ post[s].pc = "accepted"
  PROVE  PageTypeOK' /\ PageInv'
<1>1. post'[s] = h /\ \A r \in Posts \ {s} : post'[r] = post[r]
  BY DEF PageTypeOK
<1>2. post[s].page \in Pages
  BY DEF PageTypeOK
<1>3. PageTypeOK'
  <2>1. post' \in [Posts -> Post]
    BY DEF PageTypeOK
  <2>2. h.pc = "accepted" => h.creds \in Creds
    BY DEF Passing
  <2> QED
    BY <1>1, <1>2, <2>1, <2>2 DEF PageTypeOK
<1>4. \A c, p : Own(c, p) => Own(c, p)' /\ flow'[c] = flow[c]
  BY OwnStays
<1>5. PostsInv'
  BY <1>1, <1>4 DEF PageInv, PostsInv
<1>6. ScreensInv'
  <2>1. ASSUME NEW p \in Pages, page[p].screen = "loading", page[p].post = s
        PROVE  /\ h.page = p
               /\ h.pc \in {"checking", "accepted"} => h.creds = page[p].creds
               /\ h.pc = "granted" => flow'[h.code].creds = page[p].creds
    <3>1. post[s].page = p /\ (post[s].pc \in {"checking", "accepted"} => post[s].creds = page[p].creds)
      BY <2>1 DEF PageInv, ScreensInv
    <3> QED
      BY <3>1
  <2>2. ASSUME NEW p \in Pages, page[p].screen = "loading", page[p].post # s
        PROVE  LET g == post'[page[p].post]
               IN  /\ g.pc # "free" /\ g.page = p
                   /\ g.pc \in {"checking", "accepted"} => g.creds = page[p].creds
                   /\ g.pc = "granted" => flow'[g.code].creds = page[p].creds
    <3> DEFINE r == page[p].post
    <3>1. r \in Posts \ {s} /\ post'[r] = post[r]
      BY <1>1, <2>2 DEF PageTypeOK
    <3>2. post[r].pc = "granted" => flow'[post[r].code] = flow[post[r].code]
      BY <1>4, <3>1 DEF PageInv, PostsInv
    <3> QED
      BY <2>2, <3>1, <3>2 DEF PageInv, ScreensInv
  <2>3. \A p \in Pages : page[p].screen \in {"connected", "left"} =>
          Own(page[p].code, p)' /\ flow'[page[p].code].creds = page[p].creds
    BY <1>4 DEF PageInv, ScreensInv
  <2> QED
    BY <1>1, <2>1, <2>2, <2>3 DEF ScreensInv
<1>7. ToldInv'
  BY <1>4 DEF PageInv, ToldInv
<1> QED
  BY <1>3, <1>5, <1>6, <1>7 DEF PageInv

\* A handler that nobody waits for ends.
LEMMA DropHolds ==
  ASSUME TypeOK, PageTypeOK, PageInv, NEW s \in Posts, DropAnswer(s)
  PROVE  PageTypeOK' /\ PageInv'
<1>1. /\ post' = [post EXCEPT ![s] = FreePost] /\ UNCHANGED <<vars, asked, page, told>>
      /\ \A p \in Pages : page[p].post # s
  BY DEF DropAnswer, Orphan
<1>2. post'[s] = FreePost /\ \A r \in Posts \ {s} : post'[r] = post[r]
  BY <1>1 DEF PageTypeOK
<1>3. FreePost \in Post /\ FreePost.pc = "free"
  BY DEF FreePost, Post
<1>4. PageTypeOK'
  <2>1. post' \in [Posts -> Post]
    BY <1>1, <1>3 DEF PageTypeOK
  <2> QED
    BY <1>1, <1>2, <1>3, <2>1 DEF PageTypeOK
<1>5. PostsInv' /\ ToldInv'
  BY <1>1, <1>2, <1>3 DEF PageInv, PostsInv, ToldInv, Own, vars
<1>6. ScreensInv'
  <2>1. \A p \in Pages : page[p].screen = "loading" => page[p].post \in Posts \ {s}
    BY <1>1 DEF PageTypeOK
  <2> QED
    BY <1>1, <1>2, <2>1 DEF PageInv, ScreensInv, Own, vars
<1> QED
  BY <1>4, <1>5, <1>6 DEF PageInv

\* Every step of a handler.
LEMMA HandlePostHolds ==
  ASSUME TypeOK, PageTypeOK, PageInv, [Next]_vars, NEW s \in Posts, HandlePost(s)
  PROVE  PageTypeOK' /\ PageInv'
<1>1. post[s] \in Post /\ post \in [Posts -> Post]
  BY DEF PageTypeOK
<1>2. ASSUME NEW pc \in {"refused", "broken"}, Answers(s, pc, Absent), UNCHANGED vars, post[s].pc # "free"
      PROVE  PageTypeOK' /\ PageInv'
  <2> DEFINE h == [post[s] EXCEPT !.pc = pc, !.creds = Absent, !.code = Absent]
  <2>1. /\ h \in Post /\ h.page = post[s].page /\ h.pc = pc
        /\ post' = [post EXCEPT ![s] = h]
    BY <1>1, <1>2 DEF Post, Answers
  <2> HIDE DEF h
  <2> QED
    BY <1>2, <2>1, PostGoesOn DEF Answers, vars
<1>3. CASE AcceptCredentials(s)
  <2> DEFINE h == [post[s] EXCEPT !.pc = "accepted"]
  <2>1. /\ h \in Post /\ h.page = post[s].page /\ h.pc = "accepted" /\ h.creds = post[s].creds
        /\ post' = [post EXCEPT ![s] = h]
    BY <1>1, <1>3 DEF Post, AcceptCredentials
  <2>2. post[s].pc = "checking" /\ asked[post[s].page] # Absent /\ post[s].creds \in Passing
    BY <1>3 DEF AcceptCredentials
  <2>3. UNCHANGED <<asked, page, told, xch, minted>>
    BY <1>3 DEF AcceptCredentials, vars
  <2> HIDE DEF h
  <2> QED
    BY <2>1, <2>2, <2>3, PostGoesOn
<1>4. ASSUME NEW c \in Codes, GrantCode(s, c) PROVE PageTypeOK' /\ PageInv'
  <2>0. PICK h : h = [post[s] EXCEPT !.pc = "granted", !.creds = Absent, !.code = c]
    OBVIOUS
  <2> DEFINE a == asked[post[s].page]
             k == post[s].creds
             f == [creds |-> k, challenge |-> a.challenge, redirect |-> a.redirect,
                   expiresAt |-> now + CodeTTL]
  <2>1. /\ h \in Post /\ h.page = post[s].page /\ h.pc = "granted" /\ h.code = c
        /\ post' = [post EXCEPT ![s] = h] /\ post[s].pc = "accepted"
    BY <1>1, <1>4, <2>0 DEF Post, GrantCode, Answers
  <2>2. UNCHANGED <<asked, page, told, xch, minted>> /\ flow' = [flow EXCEPT ![c] = f]
    BY <1>4 DEF GrantCode, Answers, ProcessForm
  <2>3. post[s].page \in Pages /\ a # Absent /\ k \in Passing
    BY <2>1 DEF PageTypeOK, PageInv, PostsInv
  <2>4. a \in Request /\ k \in Creds
    BY <2>3, PagesAssumption DEF PageTypeOK, Passing
  <2>5. f \in Pending /\ f # Absent /\ f.challenge = a.challenge /\ f.redirect = a.redirect /\ f.creds = k
    BY <2>4, OAuthAssumption DEF Pending, Request, TypeOK
  <2>6. flow'[c] = f
    BY <2>2 DEF TypeOK
  <2>7. Own(c, h.page)' /\ flow'[c].creds = k
    BY <2>1, <2>2, <2>3, <2>5, <2>6 DEF Own
  <2> QED
    BY <2>1, <2>2, <2>7, PostGoesOn
<1>5. CASE RejectRequest(s) \/ RefuseCredentials(s) \/ NoCode(s)
  BY <1>2, <1>5 DEF RejectRequest, RefuseCredentials, NoCode
<1> QED
  BY <1>3, <1>4, <1>5, DropHolds DEF HandlePost

\* The token endpoint: what is presented was told.
LEMMA ServerHolds ==
  ASSUME TypeOK, PageTypeOK, PageInv, [Next]_vars, ServerStep
  PROVE  PageTypeOK' /\ PageInv'
<1>1. UNCHANGED <<asked, page, post, told>>
  BY DEF ServerStep, pageVars
<1>2. \A c, p : Own(c, p) => Own(c, p)' /\ flow'[c] = flow[c]
  BY <1>1, OwnStays
<1>3. PageTypeOK'
  BY <1>1 DEF PageTypeOK
<1>4. PostsInv' /\ ScreensInv'
  <2>1. \A s \in Posts : post[s].pc = "granted" =>
          Own(post[s].code, post[s].page)' /\ flow'[post[s].code] = flow[post[s].code]
    BY <1>1, <1>2 DEF PageInv, PostsInv
  <2>2. PostsInv'
    BY <1>1, <2>1 DEF PageInv, PostsInv
  <2>3. \A p \in Pages : page[p].screen = "loading" => page[p].post \in Posts
    BY DEF PageTypeOK
  <2>4. ScreensInv'
    BY <1>1, <1>2, <2>1, <2>3 DEF PageInv, ScreensInv
  <2> QED
    BY <2>2, <2>4
<1>5. /\ \A x \in Exchanges : xch'[x].pc # "idle" => told[xch'[x].code] # Absent
      /\ \A t \in Tokens : minted'[t] # Absent => told[minted'[t].code] # Absent
  <2>1. PICK x \in Exchanges : ClientRequest(x) \/ Handle(x)
    BY DEF ServerStep
  <2>2. CASE ClientRequest(x)
    BY <2>2 DEF ClientRequest, TokenRequest, PageInv, ToldInv, TypeOK
  <2>3. CASE \E t \in Tokens : IssueToken(x, t)
    <3>1. PICK t \in Tokens : IssueToken(x, t)
      BY <2>3
    <3>2. xch[x].pc = "issue" /\ told[xch[x].code] # Absent
      BY <3>1 DEF IssueToken, PageInv, ToldInv
    <3>3. /\ minted'[t].code = xch[x].code /\ \A u \in Tokens \ {t} : minted'[u] = minted[u]
          /\ \A y \in Exchanges : xch'[y].code = xch[y].code /\ (xch'[y].pc # "idle" => xch[y].pc # "idle")
      BY <3>1, <3>2 DEF IssueToken, TypeOK, Exchange
    <3> QED
      BY <3>2, <3>3 DEF PageInv, ToldInv
  <2>4. CASE Consume(x) \/ CheckGrant(x) \/ IssueFails(x)
    <3>1. UNCHANGED minted /\ xch[x].pc # "idle"
      BY <2>4 DEF Consume, CheckGrant, IssueFails
    <3>2. xch'[x].code = xch[x].code /\ \A y \in Exchanges \ {x} : xch'[y] = xch[y]
      <4>1. xch \in [Exchanges -> Exchange]
        BY DEF TypeOK
      <4>2. PICK q, r : xch' = [xch EXCEPT ![x] = [@ EXCEPT !.pending = q, !.pc = r]]
        <5>1. CASE Consume(x)
          BY <5>1 DEF Consume
        <5>2. CASE CheckGrant(x)
          <6>1. PICK r : xch' = [xch EXCEPT ![x] = [@ EXCEPT !.pc = r]]
            BY <5>2 DEF CheckGrant
          <6>2. xch' = [xch EXCEPT ![x] = [@ EXCEPT !.pending = xch[x].pending, !.pc = r]]
            BY <4>1, <6>1 DEF Exchange
          <6> QED
            BY <6>2
        <5>3. CASE IssueFails(x)
          <6>1. xch' = [xch EXCEPT ![x] = [@ EXCEPT !.pending = xch[x].pending, !.pc = "answered"]]
            BY <4>1, <5>3 DEF IssueFails, Exchange
          <6> QED
            BY <6>1
        <5> QED
          BY <2>4, <5>1, <5>2, <5>3
      <4> QED
        BY <4>1, <4>2 DEF Exchange
    <3> QED
      BY <3>1, <3>2 DEF PageInv, ToldInv
  <2>5. CASE ExchangeDone(x)
    BY <2>5 DEF ExchangeDone, IdleExchange, PageInv, ToldInv, TypeOK
  <2> QED
    BY <2>1, <2>2, <2>3, <2>4, <2>5 DEF Handle
<1>6. ToldInv'
  BY <1>1, <1>2, <1>5 DEF PageInv, ToldInv
<1> QED
  BY <1>3, <1>4, <1>6 DEF PageInv

\* Every step of the composition.
LEMMA CompositionHolds ==
  ASSUME TypeOK, Inv, PageTypeOK, PageInv, [PageNext]_<<vars, pageVars>>
  PROVE  TypeOK' /\ Inv' /\ PageTypeOK' /\ PageInv'
<1>1. [Next]_vars
  BY ServerAlone
<1>2. TypeOK' /\ Inv'
  BY <1>1, StepTyped, StepInv
<1>3. CASE UNCHANGED <<vars, pageVars>>
  <2>1. UNCHANGED <<asked, page, post, told, flow, xch, minted>>
    BY <1>3 DEF vars, pageVars
  <2>2. PageTypeOK'
    BY <2>1 DEF PageTypeOK
  <2>3. PageInv'
    BY <2>1 DEF PageInv, PostsInv, ScreensInv, ToldInv, Own
  <2> QED
    BY <1>2, <2>2, <2>3
<1>4. ASSUME NEW p \in Pages, LoseAnswer(p) \/ Reload(p) \/ Browse(p) PROVE PageTypeOK' /\ PageInv'
  BY <1>4, LeaveHolds, TakeHolds DEF Browse
<1> QED
  BY <1>1, <1>2, <1>3, <1>4, SubmitHolds, HandlePostHolds, ServerHolds DEF PageNext

\* The invariant of the server and of the pages holds in every reachable state.
THEOREM PagesHold == PageSpec => [](TypeOK /\ Inv /\ PageTypeOK /\ PageInv)
<1>1. PageInit => TypeOK /\ Inv /\ PageTypeOK /\ PageInv
  BY InitTyped, InitInv, InitPages DEF PageInit
<1>2. TypeOK /\ Inv /\ PageTypeOK /\ PageInv /\ [PageNext]_<<vars, pageVars>>
        => (TypeOK /\ Inv /\ PageTypeOK /\ PageInv)'
  BY CompositionHolds
<1> QED
  BY <1>1, <1>2, PTL DEF PageSpec

\* Types of the pages and of the handlers.
THEOREM PagesTyped == PageSpec => []PageTypeOK
BY PagesHold, PTL

\* The server's promise holds with its pages in front of it.
THEOREM FlowsMatch == PageSpec => []TokenMatchesFlow
<1>1. Inv => TokenMatchesFlow
  BY DEF Inv
<1> QED
  BY <1>1, PagesHold, PTL

\* What a page shows as success is its own flow's.
THEOREM RedirectsAreOwn == PageSpec => []RedirectIsOwn
<1>1. PageInv => RedirectIsOwn
  BY DEF PageInv, ScreensInv, RedirectIsOwn, Own
<1> QED
  BY <1>1, PagesHold, PTL

\* From the form to the token.
THEOREM TokensAreVerified == PageSpec => []TokenIsVerified
<1>1. TypeOK /\ Inv /\ PageInv => TokenIsVerified
  <2> SUFFICES ASSUME TypeOK, Inv, PageInv, NEW t \in Tokens, minted[t] # Absent
               PROVE  LET c == minted[t].code
                      IN  /\ told[c] # Absent
                          /\ minted[t].verifier = asked[told[c]].challenge
                          /\ flow[c].creds \in Passing
    BY DEF TokenIsVerified
  <2>1. told[minted[t].code] # Absent /\ minted[t].code \in Codes
    BY CodesNamed DEF PageInv, ToldInv
  <2>2. minted[t].verifier = flow[minted[t].code].challenge
    BY DEF Inv, TokenMatchesFlow
  <2> QED
    BY <2>1, <2>2 DEF PageInv, ToldInv, Own
<1> QED
  BY <1>1, PagesHold, PTL

\* The clock stands still here, so that no code is ever too old.
LEMMA InTimeHolds ==
  ASSUME TypeOK, PageTypeOK, PageInv, InTime, [PageNext]_<<vars, pageVars>>
  PROVE  InTime'
<1>1. CASE UNCHANGED <<now, flow>>
  BY <1>1 DEF InTime, Expired
<1>2. CASE \E s \in Posts, c \in Codes : GrantCode(s, c)
  <2>1. PICK s \in Posts, c \in Codes : GrantCode(s, c)
    BY <1>2
  <2> DEFINE a == asked[post[s].page]
             f == [creds |-> post[s].creds, challenge |-> a.challenge, redirect |-> a.redirect,
                   expiresAt |-> now + CodeTTL]
  <2>2. now' = now /\ flow' = [flow EXCEPT ![c] = f]
    BY <2>1 DEF GrantCode, ProcessForm
  <2>3. now \in Nat /\ CodeTTL \in Nat
    BY OAuthAssumption DEF TypeOK
  <2>4. f.expiresAt = now + CodeTTL
    OBVIOUS
  <2> HIDE DEF f
  <2>5. \A d \in Codes : flow'[d] = IF d = c THEN f ELSE flow[d]
    BY <2>2 DEF TypeOK
  <2> QED
    BY <2>2, <2>3, <2>4, <2>5 DEF InTime, Expired
<1>3. CASE ServerStep
  BY <1>1, <1>3 DEF ServerStep, ClientRequest, TokenRequest, Handle, Consume, CheckGrant, IssueToken,
                    IssueFails, ExchangeDone
<1>4. CASE UNCHANGED vars
  BY <1>1, <1>4 DEF vars
<1>5. \/ UNCHANGED vars \/ ServerStep
      \/ \E s \in Posts, c \in Codes : GrantCode(s, c)
  BY DEF PageNext, Submit, LoseAnswer, Reload, Browse, TakeAnswer, Take, FollowRedirect, HandlePost,
         RejectRequest, RefuseCredentials, AcceptCredentials, NoCode, DropAnswer
<1> QED
  BY <1>2, <1>3, <1>4, <1>5

\* A client that presents what its page was opened with gets its token.
THEOREM HonestClientsAreServed == PageSpec => HonestClientServed
<1>1. PageInit => InTime
  BY DEF PageInit, Init, InTime
<1>2. ASSUME TypeOK, Inv, PageTypeOK, PageInv, InTime, NEW x \in Exchanges,
             CheckGrant(x), xch[x].verifier = asked[told[xch[x].code]].challenge,
             xch[x].redirect \in {NoRedirect, asked[told[xch[x].code]].redirect}
      PROVE  xch'[x].pc = "issue"
  <2>1. xch[x].pc = "check" /\ xch[x].code \in Codes
    BY <1>2, CodesNamed DEF CheckGrant
  <2>2. xch[x].pending = flow[xch[x].code] /\ flow[xch[x].code] # Absent
    BY <1>2, <2>1 DEF Inv, ExchangeInv, Held
  <2>3. Own(xch[x].code, told[xch[x].code])
    BY <1>2, <2>1 DEF PageInv, ToldInv
  <2>4. /\ ~ Expired(xch[x].pending, now)
        /\ xch[x].redirect \in {NoRedirect, xch[x].pending.redirect}
        /\ xch[x].verifier = xch[x].pending.challenge
    BY <1>2, <2>1, <2>2, <2>3 DEF InTime, Own
  <2>5. xch' = [xch EXCEPT ![x] = [@ EXCEPT !.pc = "issue"]]
    BY <1>2, <2>4 DEF CheckGrant
  <2> QED
    BY <1>2, <2>5 DEF TypeOK, Exchange
<1>3. TypeOK /\ Inv /\ PageTypeOK /\ PageInv /\ InTime /\ [PageNext]_<<vars, pageVars>> => InTime'
  BY InTimeHolds
<1>4. TypeOK /\ Inv /\ PageTypeOK /\ PageInv /\ InTime /\ [PageNext]_<<vars, pageVars>>
        => [\A x \in Exchanges :
              LET p == told[xch[x].code]
              IN  /\ CheckGrant(x)
                  /\ xch[x].verifier = asked[p].challenge
                  /\ xch[x].redirect \in {NoRedirect, asked[p].redirect}
                  => xch'[x].pc = "issue"]_<<vars, pageVars>>
  BY <1>2
<1> QED
  BY <1>1, <1>3, <1>4, PagesHold, PTL DEF PageSpec, HonestClientServed

-----------------------------------------------------------------------------
(* The composition implements the server, and the grants of credentials    *)
(* that can pass.                                                          *)

\* Seen from the token endpoint, the pages and their handlers are clients like
\* any others: every behaviour of the composition is one of the server.  (Not
\* its fairness: the lookups and the sweeps do not run here.)
THEOREM PagesImplementServer == PageSpec => Init /\ [][Next]_vars
<1>1. PageInit => Init
  BY DEF PageInit
<1>2. PageTypeOK /\ PageInv /\ [PageNext]_<<vars, pageVars>> => [Next]_vars
  BY ServerAlone
<1> QED
  BY <1>1, <1>2, PagesHold, PTL DEF PageSpec

\* A step of the server that is no grant leaves every flow alone; the handler
\* of a form grants for what it has seen accepted.
LEMMA GrantsKeepPassing ==
  ASSUME TypeOK, PageTypeOK, PageInv, PassingGrants, [PageNext]_<<vars, pageVars>>
  PROVE  PassingGrants'
<1>1. CASE UNCHANGED flow
  BY <1>1 DEF PassingGrants
<1>2. ASSUME NEW s \in Posts, NEW c \in Codes, GrantCode(s, c)
      PROVE  PassingGrants'
  <2> DEFINE a == asked[post[s].page]
             f == [creds |-> post[s].creds, challenge |-> a.challenge, redirect |-> a.redirect,
                   expiresAt |-> now + CodeTTL]
  <2>1. flow' = [flow EXCEPT ![c] = f]
    BY <1>2 DEF GrantCode, ProcessForm
  <2>2. f.creds \in Passing
    BY <1>2 DEF GrantCode, PageInv, PostsInv
  <2> HIDE DEF f
  <2>3. \A d \in Codes : flow'[d] = IF d = c THEN f ELSE flow[d]
    BY <2>1 DEF TypeOK
  <2> QED
    BY <2>2, <2>3 DEF PassingGrants
<1>3. CASE ServerStep
  BY <1>1, <1>3 DEF ServerStep, ClientRequest, TokenRequest, Handle, Consume, CheckGrant, IssueToken,
                    IssueFails, ExchangeDone
<1>4. CASE UNCHANGED vars
  BY <1>1, <1>4 DEF vars
<1>5. \/ UNCHANGED vars \/ ServerStep
      \/ \E s \in Posts, c \in Codes : GrantCode(s, c)
  BY DEF PageNext, Submit, LoseAnswer, Reload, Browse, TakeAnswer, Take, FollowRedirect, HandlePost,
         RejectRequest, RefuseCredentials, AcceptCredentials, NoCode, DropAnswer
<1> QED
  BY <1>2, <1>3, <1>4, <1>5

\* Every code was granted for credentials of an instance somebody has right ones
\* for, whether or not anybody got the answer.  (Not always right ones themselves:
\* validateCredentials shares the store with every other validation.)
THEOREM OnlyPassingGrants == PageSpec => []PassingGrants
<1>1. PageInit => PassingGrants
  BY DEF PageInit, Init, PassingGrants
<1>2. TypeOK /\ PageTypeOK /\ PageInv /\ PassingGrants /\ [PageNext]_<<vars, pageVars>> => PassingGrants'
  BY GrantsKeepPassing
<1> QED
  BY <1>1, <1>2, PagesHold, PTL DEF PageSpec

\* So an open code is open for credentials that can pass.
LEMMA OpenIsPassing ==
  ASSUME TypeOK, Inv, PassingGrants, NEW c \in Codes, GrantOf[c] \in Creds
  PROVE  GrantOf[c] \in Passing
<1>1. GrantOf[c] \notin {"none", "spent"}
  BY OAuthAssumption
<1>2. flow[c] # Absent /\ GrantOf[c] = flow[c].creds
  BY <1>1 DEF GrantOf
<1> QED
  BY <1>2 DEF PassingGrants

\* And a token stands for what some code was granted for.
LEMMA BearerIsPassing ==
  ASSUME TypeOK, Inv, PassingGrants, NEW t \in Tokens, BearerOf[t] \in Creds
  PROVE  BearerOf[t] \in Passing
<1>1. BearerOf[t] \notin {"none", "spent"}
  BY OAuthAssumption
<1>2. minted[t] # Absent /\ tokens[t] # Absent /\ BearerOf[t] = tokens[t].creds
  BY <1>1 DEF BearerOf
<1>3. minted[t].code \in Codes
  BY <1>2, CodesNamed
<1>4. tokens[t].creds = flow[minted[t].code].creds /\ flow[minted[t].code] # Absent
  BY <1>2, <1>3 DEF Inv, TokensInv, TokenMatchesFlow
<1> QED
  BY <1>2, <1>3, <1>4 DEF PassingGrants

\* A step between states with such grants is a step of the narrower
\* abstraction: the credentials it names are the ones before or after it.
LEMMA NarrowStep ==
  ASSUME TypeOK, Inv, PassingGrants, TypeOK', Inv', PassingGrants', AG!Next
  PROVE  PG!Next
<1>1. ASSUME NEW c \in Codes, NEW k \in Creds, AG!Grant(c, k)
      PROVE  PG!Grant(c, k) /\ k \in Passing
  <2>1. GrantOf' = [GrantOf EXCEPT ![c] = k]
    BY <1>1 DEF AG!Grant
  <2>2. GrantOf'[c] = k
    BY <2>1 DEF GrantOf
  <2>3. k \notin {"none", "spent"}
    BY OAuthAssumption
  <2>4. flow'[c] # Absent /\ k = flow'[c].creds
    BY <2>2, <2>3 DEF GrantOf
  <2> QED
    BY <1>1, <2>4 DEF PassingGrants, AG!Grant, PG!Grant
<1>2. ASSUME NEW c \in Codes, NEW t \in Tokens, AG!Redeem(c, t)
      PROVE  PG!Redeem(c, t)
  BY <1>2, OpenIsPassing DEF AG!Redeem, PG!Redeem
<1>3. ASSUME NEW C \in SUBSET Codes, AG!Void(C)
      PROVE  PG!Void(C)
  BY <1>3, OpenIsPassing DEF AG!Void, PG!Void
<1>4. ASSUME NEW T \in SUBSET Tokens, AG!Lapse(T)
      PROVE  PG!Lapse(T)
  BY <1>4, BearerIsPassing DEF AG!Lapse, PG!Lapse
<1> QED
  BY <1>1, <1>2, <1>3, <1>4 DEF AG!Next, PG!Next

\* The pages, their handlers, the connections between them that break, and the
\* token endpoint implement the grants that are redeemed in one step, for the
\* credentials of instances somebody has right ones for and no others.
THEOREM PagesImplementGrant == PageSpec => ImplementsPassingGrant
<1>1. PageInit => PG!Init
  BY InitMaps DEF PageInit, AG!Init, PG!Init
<1>2. TypeOK /\ Inv /\ PassingGrants /\ (TypeOK /\ Inv /\ PassingGrants)' /\ [Next]_vars
        => [PG!Next]_<<GrantOf, BearerOf>>
  BY StepMaps, NarrowStep
<1> QED
  BY <1>1, <1>2, PagesHold, OnlyPassingGrants, PagesImplementServer, PTL
  DEF PageSpec, ImplementsPassingGrant, PG!Spec

\* No page waits for a handler that is gone or busy with another page.
THEOREM PagesWaitForOwn == PageSpec => []WaitIsOwn
<1>1. PageInv => WaitIsOwn
  BY DEF PageInv, ScreensInv, WaitIsOwn
<1> QED
  BY <1>1, PagesHold, PTL

\* What is over stays over in the composition as well.
THEOREM NothingIsRevivedByPages == PageSpec => NothingComesBack
<1>1. TypeOK /\ Inv /\ [Next]_vars => [OnlyEnds]_vars
  BY StepOnlyEnds
<1> QED
  BY <1>1, PagesHold, PagesImplementServer, PTL DEF NothingComesBack

=============================================================================
