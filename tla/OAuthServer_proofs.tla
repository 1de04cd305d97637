------------------------- MODULE OAuthServer_proofs -------------------------
(***************************************************************************)
(* Theorems about OAuthServer: the type invariant, the safety invariants,  *)
(* the refinement of AuthorizationGrant, and that nothing comes back.      *)
(***************************************************************************)
EXTENDS OAuthServer, TLAPS

-----------------------------------------------------------------------------
(* Typing.                                                                 *)

\* The initial state is well typed.
LEMMA InitTyped == Init => TypeOK
BY OAuthAssumption
DEF Init, TypeOK, IdleExchange, IdleLookup, Exchange, Lookup, Filled

\* Every step keeps the types.
LEMMA StepTyped == TypeOK /\ [Next]_vars => TypeOK'
<1> SUFFICES ASSUME TypeOK, [Next]_vars PROVE TypeOK'
  OBVIOUS
<1> USE DEF TypeOK
<1>1. CASE Tick
  BY <1>1 DEF Tick
<1>2. ASSUME NEW c \in Codes, NEW k \in Creds, NEW v \in Verifiers, NEW u \in Redirects,
             ProcessForm(c, k, v, u)
      PROVE  TypeOK'
  <2> DEFINE p == [creds |-> k, challenge |-> v, redirect |-> u, expiresAt |-> now + CodeTTL]
  <2>1. p \in Pending
    BY OAuthAssumption DEF Pending
  <2>2. codes' = [codes EXCEPT ![c] = p] /\ flow' = [flow EXCEPT ![c] = p]
    BY <1>2 DEF ProcessForm
  <2> HIDE DEF p
  <2> QED
    BY <1>2, <2>1, <2>2 DEF ProcessForm
<1>3. ASSUME NEW x \in Exchanges, NEW c \in Codes, NEW v \in Verifiers,
             NEW u \in Redirects \cup {NoRedirect}, TokenRequest(x, c, v, u)
      PROVE  TypeOK'
  <2> DEFINE q == [pc |-> "consume", code |-> c, redirect |-> u,
                   verifier |-> v, pending |-> Absent]
  <2>1. q \in Exchange /\ Filled(q)
    BY DEF Exchange, Filled
  <2>2. xch' = [xch EXCEPT ![x] = q]
    BY <1>3 DEF TokenRequest
  <2> HIDE DEF q
  <2>3. xch' \in [Exchanges -> Exchange] /\ \A y \in Exchanges : Filled(xch'[y])
    BY <2>1, <2>2
  <2> QED
    BY <1>3, <2>3 DEF TokenRequest
<1>4. ASSUME NEW x \in Exchanges, Consume(x) PROVE TypeOK'
  <2> DEFINE p == codes[xch[x].code]
             q == [xch[x] EXCEPT !.pending = p,
                                 !.pc = IF p = Absent THEN "unknown" ELSE "check"]
  <2>1. xch[x].code \in Codes /\ p \in Pending \cup {Absent}
    BY <1>4 DEF Consume, Filled
  <2>2. q \in Exchange /\ Filled(q)
    BY <1>4, <2>1 DEF Consume, Exchange, Filled
  <2>3. xch' = [xch EXCEPT ![x] = q]
    BY <1>4 DEF Consume
  <2> HIDE DEF q
  <2>4. xch' \in [Exchanges -> Exchange] /\ \A y \in Exchanges : Filled(xch'[y])
    BY <2>2, <2>3
  <2> QED
    BY <1>4, <2>1, <2>4 DEF Consume
<1>5. ASSUME NEW x \in Exchanges, CheckGrant(x) \/ IssueFails(x) PROVE TypeOK'
  <2>1. PICK s \in {"issue", "answered"} : xch' = [xch EXCEPT ![x] = [@ EXCEPT !.pc = s]]
    BY <1>5 DEF CheckGrant, IssueFails
  <2> DEFINE q == [xch[x] EXCEPT !.pc = s]
  <2>2. q \in Exchange /\ Filled(q)
    BY <1>5 DEF CheckGrant, IssueFails, Exchange, Filled
  <2>3. xch' = [xch EXCEPT ![x] = q]
    BY <2>1
  <2> HIDE DEF q
  <2>4. xch' \in [Exchanges -> Exchange] /\ \A y \in Exchanges : Filled(xch'[y])
    BY <2>2, <2>3
  <2> QED
    BY <1>5, <2>4 DEF CheckGrant, IssueFails
<1>6. ASSUME NEW x \in Exchanges, NEW t \in Tokens, IssueToken(x, t) PROVE TypeOK'
  <2> DEFINE q == [xch[x] EXCEPT !.pc = "answered"]
             e == [creds |-> xch[x].pending.creds, expiresAt |-> now + TokenTTL]
             m == [code |-> xch[x].code, verifier |-> xch[x].verifier,
                   redirect |-> xch[x].redirect, expiresAt |-> now + TokenTTL]
  <2>1. q \in Exchange /\ Filled(q)
    BY <1>6 DEF IssueToken, Exchange, Filled
  <2>2. e \in Issued /\ m \in Minted
    BY <1>6, OAuthAssumption DEF IssueToken, Exchange, Filled, Pending, Issued, Minted
  <2>3. /\ xch' = [xch EXCEPT ![x] = q]
        /\ tokens' = [tokens EXCEPT ![t] = e]
        /\ minted' = [minted EXCEPT ![t] = m]
    BY <1>6 DEF IssueToken
  <2> HIDE DEF q, e, m
  <2>4. xch' \in [Exchanges -> Exchange] /\ \A y \in Exchanges : Filled(xch'[y])
    BY <2>1, <2>3
  <2> QED
    BY <1>6, <2>2, <2>3, <2>4 DEF IssueToken
<1>7. ASSUME NEW x \in Exchanges, ExchangeDone(x) PROVE TypeOK'
  <2>1. IdleExchange \in Exchange /\ Filled(IdleExchange)
    BY DEF IdleExchange, Exchange, Filled
  <2>2. xch' \in [Exchanges -> Exchange] /\ \A y \in Exchanges : Filled(xch'[y])
    BY <1>7, <2>1 DEF ExchangeDone
  <2> QED
    BY <1>7, <2>2 DEF ExchangeDone
<1>8. ASSUME NEW l \in Lookups, NEW t \in Tokens, LookupRead(l, t) PROVE TypeOK'
  BY <1>8 DEF LookupRead, Lookup
<1>9. ASSUME NEW l \in Lookups, LookupJudge(l) PROVE TypeOK'
  <2> DEFINE q(s) == [look[l] EXCEPT !.pc = s]
  <2>1. \A s \in {"found", "expired"} :
          /\ q(s) \in Lookup
          /\ q(s).pc = s /\ q(s).token \in Tokens /\ q(s).entry \in Issued
    BY <1>9 DEF LookupJudge, Lookup
  <2>2. PICK s \in {"found", "expired"} : look' = [look EXCEPT ![l] = q(s)]
    BY <1>9 DEF LookupJudge
  <2> HIDE DEF q
  <2>3. /\ look' \in [Lookups -> Lookup]
        /\ \A k \in Lookups :
             /\ look'[k].pc # "idle" => look'[k].token \in Tokens
             /\ look'[k].pc \in {"judge", "found", "expired"} => look'[k].entry \in Issued
    BY <2>1, <2>2
  <2>4. tokens' \in [Tokens -> Issued \cup {Absent}]
    BY <1>9 DEF LookupJudge
  <2> QED
    BY <1>9, <2>3, <2>4 DEF LookupJudge
<1>10. ASSUME NEW l \in Lookups, LookupDone(l) PROVE TypeOK'
  BY <1>10 DEF LookupDone, IdleLookup, Lookup
<1>11. CASE Clean
  <2>1. codes' \in [Codes -> Pending \cup {Absent}]
    BY <1>11 DEF Clean, CleanStart, CleanCodes, CleanTokens, Swept
  <2>2. tokens' \in [Tokens -> Issued \cup {Absent}]
    BY <1>11 DEF Clean, CleanStart, CleanCodes, CleanTokens, Swept
  <2>3. sweep' \in [pc : {"idle", "codes", "tokens"}, now : Nat]
    BY <1>11 DEF Clean, CleanStart, CleanCodes, CleanTokens
  <2> QED
    BY <1>11, <2>1, <2>2, <2>3 DEF Clean, CleanStart, CleanCodes, CleanTokens
<1>12. CASE UNCHANGED vars
  BY <1>12 DEF vars
<1> QED
  BY <1>1, <1>2, <1>3, <1>4, <1>5, <1>6, <1>7, <1>8, <1>9, <1>10, <1>11, <1>12
  DEF Next, Handle, Resolve

\* The types hold in every run of the authorization server.
THEOREM TypeCorrect == Spec => []TypeOK
<1>1. Init => TypeOK
  BY InitTyped
<1>2. TypeOK /\ [Next]_vars => TypeOK'
  BY StepTyped
<1> QED
  BY <1>1, <1>2, PTL DEF Spec

-----------------------------------------------------------------------------
(* The invariant.                                                          *)

\* Inv starts out true: nothing has been granted yet.
LEMMA InitInv == Init => Inv
BY OAuthAssumption
DEF Init, Inv, CodesInv, ExchangeInv, TokensInv, LookupInv, SweepInv, CodeUsedOnce,
    TokenMatchesFlow, LiveTokenHonoured, LiveCodeHonoured, IdleExchange, IdleLookup, Held

\* A step that leaves the handlers, the history and the maps alone keeps their
\* parts of Inv, even as time passes.
LEMMA QuietStep ==
  ASSUME TypeOK, Inv, now' \in Nat, now' >= now,
         UNCHANGED <<codes, tokens, xch, look, sweep, flow, minted, taken>>
  PROVE  Inv'
<1>1. \A c \in Codes : flow[c] # Absent /\ Expired(flow[c], now) => Expired(flow[c], now')
  BY DEF TypeOK, Pending, Expired
<1>2. \A t \in Tokens : minted[t] # Absent /\ Expired(minted[t], now) => Expired(minted[t], now')
  BY DEF TypeOK, Minted, Expired
<1>3. CodesInv'
  BY <1>1 DEF Inv, CodesInv
<1>4. TokensInv'
  BY <1>2 DEF Inv, TokensInv, Held
<1>5. LookupInv' /\ LiveTokenHonoured'
  BY <1>2 DEF TypeOK, Inv, LookupInv, LiveTokenHonoured
<1>6. LiveCodeHonoured'
  BY <1>1 DEF TypeOK, Filled, Inv, ExchangeInv, LiveCodeHonoured
<1>7. SweepInv'
  BY DEF TypeOK, Inv, SweepInv
<1> QED
  BY <1>3, <1>4, <1>5, <1>6, <1>7 DEF Inv, ExchangeInv, Held, CodeUsedOnce, TokenMatchesFlow

\* The form grants a code nobody has seen.
LEMMA ProcessFormInv ==
  ASSUME TypeOK, Inv, NEW c \in Codes, NEW k \in Creds, NEW v \in Verifiers, NEW u \in Redirects,
         ProcessForm(c, k, v, u)
  PROVE  Inv'
<1> DEFINE p == [creds |-> k, challenge |-> v, redirect |-> u, expiresAt |-> now + CodeTTL]
<1>1. p \in Pending /\ p # Absent
  BY OAuthAssumption DEF TypeOK, Pending
<1>2. /\ flow[c] = Absent
      /\ codes' = [codes EXCEPT ![c] = p]
      /\ flow' = [flow EXCEPT ![c] = p]
      /\ UNCHANGED <<now, tokens, xch, look, sweep, minted, taken>>
  BY DEF ProcessForm
<1> HIDE DEF p
<1>3. /\ codes'[c] = p /\ flow'[c] = p /\ c \notin taken
      /\ \A d \in Codes \ {c} : codes'[d] = codes[d] /\ flow'[d] = flow[d]
  BY <1>2 DEF TypeOK, Inv, CodesInv
<1>4. \A x \in Exchanges : xch[x].pc # "idle" => xch[x].code \in Codes \ {c}
  BY <1>2 DEF TypeOK, Filled, Inv, ExchangeInv
<1>5. \A t \in Tokens : minted[t] # Absent => minted[t].code \in Codes \ {c}
  BY <1>3 DEF TypeOK, Minted, Inv, TokensInv
<1>6. CodesInv'
  BY <1>1, <1>2, <1>3 DEF Inv, CodesInv
<1>7. ExchangeInv' /\ LiveCodeHonoured'
  BY <1>2, <1>3, <1>4 DEF Inv, ExchangeInv, Held, LiveCodeHonoured
<1>8. TokensInv' /\ TokenMatchesFlow'
  BY <1>2, <1>3, <1>5 DEF Inv, TokensInv, Held, TokenMatchesFlow
<1> QED
  BY <1>2, <1>6, <1>7, <1>8 DEF Inv, LookupInv, SweepInv, CodeUsedOnce, LiveTokenHonoured

\* A new handler holds nothing yet.
LEMMA TokenRequestInv ==
  ASSUME TypeOK, Inv, NEW x \in Exchanges, NEW c \in Codes, NEW v \in Verifiers,
         NEW u \in Redirects \cup {NoRedirect}, TokenRequest(x, c, v, u)
  PROVE  Inv'
<1>1. /\ xch'[x].pc = "consume" /\ xch'[x].code = c /\ flow[c] # Absent
      /\ \A y \in Exchanges \ {x} : xch'[y] = xch[y]
      /\ UNCHANGED <<now, codes, tokens, look, sweep, flow, minted, taken>>
  BY DEF TokenRequest, TypeOK
<1>2. \A y \in Exchanges : Held(y)' => Held(y) /\ y # x
  BY <1>1 DEF Held
<1>3. ExchangeInv'
  BY <1>1, <1>2 DEF Inv, ExchangeInv, Held
<1>4. TokensInv'
  BY <1>1, <1>2 DEF Inv, TokensInv
<1> QED
  BY <1>1, <1>3, <1>4
  DEF Inv, CodesInv, LookupInv, SweepInv, CodeUsedOnce, TokenMatchesFlow,
      LiveTokenHonoured, LiveCodeHonoured

\* The handler that finds the code in the map is the only one to hold it, and
\* no token stands for it yet.
LEMMA ConsumeInv ==
  ASSUME TypeOK, Inv, NEW x \in Exchanges, Consume(x)
  PROVE  Inv'
<1> DEFINE c == xch[x].code
           p == codes[c]
<1>1. c \in Codes /\ flow[c] # Absent
  BY DEF Consume, TypeOK, Filled, Inv, ExchangeInv
<1>2. /\ xch'[x].code = c /\ xch'[x].pending = p
      /\ xch'[x].pc = IF p = Absent THEN "unknown" ELSE "check"
      /\ \A y \in Exchanges \ {x} : xch'[y] = xch[y]
  BY DEF Consume, TypeOK, Exchange
<1>3. /\ codes'[c] = Absent
      /\ \A d \in Codes \ {c} : codes'[d] = codes[d]
      /\ taken' = IF p = Absent THEN taken ELSE taken \cup {c}
      /\ UNCHANGED <<now, tokens, look, sweep, flow, minted>>
  BY <1>1 DEF Consume, TypeOK
<1>4. p # Absent => p = flow[c] /\ c \notin taken
  BY <1>1 DEF Inv, CodesInv
<1>5. p = Absent => c \in taken \/ Expired(flow[c], now)
  BY <1>1 DEF Inv, CodesInv
<1> HIDE DEF c, p
<1>6. \A y \in Exchanges \ {x} : (Held(y)' <=> Held(y)) /\ (Held(y) /\ p # Absent => xch[y].code # c)
  BY <1>2, <1>4 DEF Held, Inv, ExchangeInv
<1>7. Held(x)' => p # Absent
  BY <1>2 DEF Held
<1>8. CodesInv'
  BY <1>1, <1>3, <1>4, <1>5 DEF Inv, CodesInv
<1>9. ExchangeInv'
  <2> SUFFICES ASSUME NEW y \in Exchanges
      PROVE /\ xch'[y].pc # "idle" => flow[xch'[y].code] # Absent
            /\ Held(y)' => /\ xch'[y].pending = flow[xch'[y].code]
                           /\ xch'[y].code \in taken'
                           /\ \A z \in Exchanges \ {y} : Held(z)' => xch'[z].code # xch'[y].code
            /\ xch'[y].pc = "issue" =>
                 /\ xch'[y].verifier = flow[xch'[y].code].challenge
                 /\ xch'[y].redirect \in {NoRedirect, flow[xch'[y].code].redirect}
    BY <1>3 DEF ExchangeInv
  <2>1. CASE y = x
    BY <1>1, <1>2, <1>3, <1>4, <1>6, <1>7, <2>1 DEF Inv, ExchangeInv
  <2>2. CASE y # x
    BY <1>2, <1>3, <1>4, <1>6, <1>7, <2>2 DEF Inv, ExchangeInv
  <2> QED
    BY <2>1, <2>2
<1>10. TokensInv'
  <2>1. \A t \in Tokens : minted[t] # Absent => minted[t].code \in taken
    BY DEF Inv, TokensInv
  <2>2. ASSUME NEW t \in Tokens, minted[t] # Absent, NEW y \in Exchanges, Held(y)'
        PROVE  xch'[y].code # minted[t].code
    <3>1. CASE y = x
      BY <1>2, <1>4, <1>7, <2>1, <2>2, <3>1
    <3>2. CASE y # x
      BY <1>2, <1>6, <2>2, <3>2 DEF Inv, TokensInv
    <3> QED
      BY <3>1, <3>2
  <2> QED
    BY <1>3, <2>1, <2>2 DEF Inv, TokensInv
<1>11. LiveCodeHonoured'
  BY <1>2, <1>3, <1>5 DEF Inv, LiveCodeHonoured
<1> QED
  BY <1>3, <1>8, <1>9, <1>10, <1>11
  DEF Inv, LookupInv, SweepInv, CodeUsedOnce, TokenMatchesFlow, LiveTokenHonoured

\* The checks let through what they compare.
LEMMA CheckGrantInv ==
  ASSUME TypeOK, Inv, NEW x \in Exchanges, CheckGrant(x)
  PROVE  Inv'
<1>1. PICK s \in {"issue", "answered"} :
        /\ xch' = [xch EXCEPT ![x] = [@ EXCEPT !.pc = s]]
        /\ s = "issue" => /\ xch[x].redirect \in {NoRedirect, xch[x].pending.redirect}
                          /\ xch[x].verifier = xch[x].pending.challenge
  BY DEF CheckGrant
<1>2. /\ xch[x].pc = "check"
      /\ UNCHANGED <<now, codes, tokens, look, sweep, flow, minted, taken>>
  BY DEF CheckGrant
<1>3. /\ xch'[x].pc = s /\ xch'[x].code = xch[x].code /\ xch'[x].pending = xch[x].pending
      /\ xch'[x].redirect = xch[x].redirect /\ xch'[x].verifier = xch[x].verifier
      /\ \A y \in Exchanges \ {x} : xch'[y] = xch[y]
  BY <1>1 DEF TypeOK, Exchange
<1>4. \A y \in Exchanges : xch'[y].code = xch[y].code /\ (Held(y)' => Held(y))
  BY <1>2, <1>3 DEF Held
<1>5. Held(x)
  BY <1>2 DEF Held
<1>6. ExchangeInv'
  <2> SUFFICES ASSUME NEW y \in Exchanges
      PROVE /\ xch'[y].pc # "idle" => flow[xch'[y].code] # Absent
            /\ Held(y)' => /\ xch'[y].pending = flow[xch'[y].code]
                           /\ xch'[y].code \in taken'
                           /\ \A z \in Exchanges \ {y} : Held(z)' => xch'[z].code # xch'[y].code
            /\ xch'[y].pc = "issue" =>
                 /\ xch'[y].verifier = flow[xch'[y].code].challenge
                 /\ xch'[y].redirect \in {NoRedirect, flow[xch'[y].code].redirect}
    BY <1>2 DEF ExchangeInv
  <2>1. CASE y = x
    BY <1>1, <1>2, <1>3, <1>4, <1>5, <2>1 DEF Inv, ExchangeInv
  <2>2. CASE y # x
    BY <1>2, <1>3, <1>4, <2>2 DEF Inv, ExchangeInv
  <2> QED
    BY <2>1, <2>2
<1>7. TokensInv'
  BY <1>2, <1>4 DEF Inv, TokensInv
<1>8. LiveCodeHonoured'
  BY <1>2, <1>3, <1>4 DEF Inv, LiveCodeHonoured
<1> QED
  BY <1>2, <1>6, <1>7, <1>8
  DEF Inv, CodesInv, LookupInv, SweepInv, CodeUsedOnce, TokenMatchesFlow, LiveTokenHonoured

\* The token is minted by the one holder of its code, who holds it no longer.
LEMMA IssueTokenInv ==
  ASSUME TypeOK, Inv, NEW x \in Exchanges, NEW t \in Tokens, IssueToken(x, t)
  PROVE  Inv'
<1> DEFINE c == xch[x].code
           e == [creds |-> xch[x].pending.creds, expiresAt |-> now + TokenTTL]
           m == [code |-> xch[x].code, verifier |-> xch[x].verifier,
                 redirect |-> xch[x].redirect, expiresAt |-> now + TokenTTL]
<1>1. Held(x) /\ c \in Codes /\ c \in taken /\ xch[x].pending = flow[c] /\ flow[c] # Absent
  BY DEF IssueToken, Held, TypeOK, Filled, Inv, ExchangeInv
<1>2. e \in Issued /\ m \in Minted /\ e # Absent /\ m # Absent
  BY OAuthAssumption DEF IssueToken, TypeOK, Exchange, Filled, Pending, Issued, Minted
<1>3. /\ m.code = c /\ m.verifier = flow[c].challenge
      /\ m.redirect \in {NoRedirect, flow[c].redirect}
      /\ e.creds = flow[c].creds /\ e.expiresAt = m.expiresAt
  BY <1>1 DEF IssueToken, Inv, ExchangeInv
<1>4. /\ minted[t] = Absent
      /\ tokens'[t] = e /\ minted'[t] = m
      /\ \A u \in Tokens \ {t} : tokens'[u] = tokens[u] /\ minted'[u] = minted[u]
      /\ UNCHANGED <<now, codes, look, sweep, flow, taken>>
  BY DEF IssueToken, TypeOK
<1>5. /\ xch'[x].pc = "answered" /\ xch'[x].code = c
      /\ \A y \in Exchanges \ {x} : xch'[y] = xch[y]
  BY DEF IssueToken, TypeOK, Exchange
<1> HIDE DEF c, e, m
<1>6. \A y \in Exchanges : Held(y)' => Held(y) /\ y # x /\ xch'[y].code # c
  BY <1>1, <1>5 DEF Held, Inv, ExchangeInv, c
<1>7. \A u \in Tokens : minted[u] # Absent => minted[u].code # c
  BY <1>1 DEF Inv, TokensInv, c
<1>8. ExchangeInv' /\ LiveCodeHonoured'
  BY <1>1, <1>4, <1>5, <1>6 DEF Inv, ExchangeInv, LiveCodeHonoured, c
<1>9. TokensInv'
  BY <1>1, <1>2, <1>3, <1>4, <1>5, <1>6 DEF Inv, TokensInv
<1>10. CodeUsedOnce'
  BY <1>3, <1>4, <1>7 DEF Inv, CodeUsedOnce
<1>11. TokenMatchesFlow'
  BY <1>1, <1>3, <1>4 DEF Inv, TokenMatchesFlow
<1>12. LookupInv' /\ LiveTokenHonoured'
  BY <1>4 DEF TypeOK, Inv, LookupInv, LiveTokenHonoured
<1> QED
  BY <1>4, <1>8, <1>9, <1>10, <1>11, <1>12 DEF Inv, CodesInv, SweepInv

\* A handler that gives up or is done holds nothing any more.
LEMMA LetGoInv ==
  ASSUME TypeOK, Inv, NEW x \in Exchanges, IssueFails(x) \/ ExchangeDone(x)
  PROVE  Inv'
<1>1. /\ xch'[x].pc \in {"answered", "idle"}
      /\ xch'[x].pc # "idle" => xch[x].pc # "idle" /\ xch'[x].code = xch[x].code
      /\ \A y \in Exchanges \ {x} : xch'[y] = xch[y]
      /\ UNCHANGED <<now, codes, tokens, look, sweep, flow, minted, taken>>
  BY DEF IssueFails, ExchangeDone, TypeOK, Exchange, IdleExchange
<1>2. \A y \in Exchanges : Held(y)' => Held(y) /\ y # x
  BY <1>1 DEF Held
<1>3. ExchangeInv' /\ LiveCodeHonoured'
  BY <1>1, <1>2 DEF Inv, ExchangeInv, LiveCodeHonoured
<1>4. TokensInv'
  BY <1>1, <1>2 DEF Inv, TokensInv
<1> QED
  BY <1>1, <1>3, <1>4
  DEF Inv, CodesInv, LookupInv, SweepInv, CodeUsedOnce, TokenMatchesFlow, LiveTokenHonoured

\* A lookup deletes an entry only after its own comparison with the clock.
LEMMA LookupStepInv ==
  ASSUME TypeOK, Inv, NEW l \in Lookups,
         Resolve(l) \/ \E t \in Tokens : LookupRead(l, t)
  PROVE  Inv'
<1>1. UNCHANGED <<now, codes, xch, sweep, flow, minted, taken>>
  BY DEF Resolve, LookupRead, LookupJudge, LookupDone
<1>2. \A k \in Lookups \ {l} : look'[k] = look[k]
  BY DEF Resolve, LookupRead, LookupJudge, LookupDone, TypeOK
<1>3. LookupInv' /\ LiveTokenHonoured' /\ TokensInv' /\ TokenMatchesFlow'
  <2>1. CASE LookupDone(l)
    BY <1>1, <1>2, <2>1
    DEF LookupDone, IdleLookup, TypeOK, Inv, LookupInv, LiveTokenHonoured, TokensInv,
        TokenMatchesFlow, Held
  <2>2. ASSUME NEW t \in Tokens, LookupRead(l, t)
        PROVE  LookupInv' /\ LiveTokenHonoured' /\ TokensInv' /\ TokenMatchesFlow'
    <3>1. /\ look'[l].token = t /\ look'[l].entry = tokens[t]
          /\ look'[l].pc = IF tokens[t] = Absent THEN "unknown" ELSE "judge"
          /\ minted[t] # Absent
          /\ UNCHANGED tokens
      BY <2>2 DEF LookupRead, TypeOK
    <3> QED
      BY <1>1, <1>2, <3>1 DEF Inv, LookupInv, LiveTokenHonoured, TokensInv, TokenMatchesFlow, Held
  <2>3. CASE LookupJudge(l)
    <3> DEFINE t == look[l].token
    <3>1. /\ t \in Tokens /\ minted[t] # Absent
          /\ look[l].entry.expiresAt = minted[t].expiresAt
      BY <2>3 DEF LookupJudge, TypeOK, Inv, LookupInv
    <3>2. /\ look'[l].token = t /\ look'[l].entry = look[l].entry
          /\ look'[l].pc \in {"found", "expired"}
          /\ look'[l].pc = "expired" => Expired(minted[t], now)
      BY <2>3, <3>1 DEF LookupJudge, TypeOK, Lookup, Expired
    <3>3. /\ \A u \in Tokens \ {t} : tokens'[u] = tokens[u]
          /\ tokens'[t] = tokens[t] \/ (tokens'[t] = Absent /\ Expired(minted[t], now))
      BY <2>3, <3>1 DEF LookupJudge, TypeOK, Expired
    <3> HIDE DEF t
    <3>4. LookupInv' /\ LiveTokenHonoured'
      BY <1>1, <1>2, <3>1, <3>2 DEF Inv, LookupInv, LiveTokenHonoured
    <3>5. TokensInv' /\ TokenMatchesFlow'
      BY <1>1, <3>3 DEF Inv, TokensInv, TokenMatchesFlow, Held
    <3> QED
      BY <3>4, <3>5
  <2> QED
    BY <2>1, <2>2, <2>3 DEF Resolve
<1> QED
  BY <1>1, <1>3 DEF Inv, CodesInv, ExchangeInv, Held, SweepInv, CodeUsedOnce, LiveCodeHonoured

\* A sweep deletes what had expired when it took the time, so it has expired.
LEMMA CleanInv ==
  ASSUME TypeOK, Inv, Clean
  PROVE  Inv'
<1>1. UNCHANGED <<now, xch, look, flow, minted, taken>> /\ SweepInv'
  BY DEF Clean, CleanStart, CleanCodes, CleanTokens, TypeOK, Inv, SweepInv
<1>2. \A c \in Codes :
        codes'[c] = codes[c] \/ (codes'[c] = Absent /\ codes[c] # Absent /\ Expired(codes[c], now))
  BY DEF Clean, CleanStart, CleanCodes, CleanTokens, Swept, TypeOK, Expired, Pending, Inv, SweepInv
<1>3. \A t \in Tokens :
        tokens'[t] = tokens[t] \/ (tokens'[t] = Absent /\ tokens[t] # Absent /\ Expired(tokens[t], now))
  BY DEF Clean, CleanStart, CleanCodes, CleanTokens, Swept, TypeOK, Expired, Issued, Inv, SweepInv
<1>4. CodesInv'
  BY <1>1, <1>2 DEF Inv, CodesInv
<1>5. TokensInv' /\ TokenMatchesFlow'
  BY <1>1, <1>3 DEF Inv, TokensInv, TokenMatchesFlow, Held, Expired
<1> QED
  BY <1>1, <1>4, <1>5
  DEF Inv, ExchangeInv, Held, LookupInv, CodeUsedOnce, LiveTokenHonoured, LiveCodeHonoured

\* Every step keeps Inv.
LEMMA StepInv == TypeOK /\ Inv /\ [Next]_vars => Inv'
<1> SUFFICES ASSUME TypeOK, Inv, [Next]_vars PROVE Inv'
  OBVIOUS
<1>1. CASE Tick \/ UNCHANGED vars
  <2>1. /\ now' \in Nat /\ now' >= now
        /\ UNCHANGED <<codes, tokens, xch, look, sweep, flow, minted, taken>>
    BY <1>1 DEF Tick, vars, TypeOK
  <2> QED
    BY <2>1, QuietStep
<1>2. ASSUME NEW x \in Exchanges, Handle(x) PROVE Inv'
  BY <1>2, ConsumeInv, CheckGrantInv, IssueTokenInv, LetGoInv DEF Handle
<1> QED
  BY <1>1, <1>2, ProcessFormInv, TokenRequestInv, LookupStepInv, CleanInv DEF Next

\* The invariant that carries the properties below.
THEOREM InvHolds == Spec => [](TypeOK /\ Inv)
<1>1. Init => TypeOK /\ Inv
  BY InitTyped, InitInv
<1>2. TypeOK /\ Inv /\ [Next]_vars => (TypeOK /\ Inv)'
  BY StepTyped, StepInv
<1> QED
  BY <1>1, <1>2, PTL DEF Spec

\* No interleaving of token handlers turns one authorization code into two
\* tokens.
THEOREM CodesAreUsedOnce == Spec => []CodeUsedOnce
<1>1. Inv => CodeUsedOnce
  BY DEF Inv
<1> QED
  BY <1>1, InvHolds, PTL

\* Every token was bought with the verifier of its flow.
THEOREM TokensMatchFlows == Spec => []TokenMatchesFlow
<1>1. Inv => TokenMatchesFlow
  BY DEF Inv
<1> QED
  BY <1>1, InvHolds, PTL

\* Neither sweeps nor other lookups take a live token away.
THEOREM LiveTokensAreHonoured == Spec => []LiveTokenHonoured
<1>1. Inv => LiveTokenHonoured
  BY DEF Inv
<1> QED
  BY <1>1, InvHolds, PTL

\* Sweeps do not take a live code away.
THEOREM LiveCodesAreHonoured == Spec => []LiveCodeHonoured
<1>1. Inv => LiveCodeHonoured
  BY DEF Inv
<1> QED
  BY <1>1, InvHolds, PTL

-----------------------------------------------------------------------------
(* The refinement.                                                         *)

\* Before anything happens nothing is granted.
LEMMA InitMaps == Init => AG!Init
BY OAuthAssumption DEF Init, AG!Init, GrantOf, BearerOf

\* A code in the map or in a hand is open; the two never overlap.
LEMMA GrantValues ==
  ASSUME TypeOK, Inv, NEW c \in Codes
  PROVE  /\ GrantOf[c] = "none" <=> flow[c] = Absent
         /\ (codes[c] # Absent \/ InHand(c)) => flow[c] # Absent /\ GrantOf[c] = flow[c].creds
         /\ codes[c] # Absent => ~ InHand(c)
         /\ flow[c] # Absent => flow[c].creds \in Creds
<1>1. flow[c] # Absent => flow[c].creds \in Creds
  BY DEF TypeOK, Pending
<1>2. (codes[c] # Absent \/ InHand(c)) => flow[c] # Absent
  BY DEF Inv, CodesInv, ExchangeInv, InHand, Held
<1>3. codes[c] # Absent => ~ InHand(c)
  BY DEF Inv, CodesInv, ExchangeInv, InHand, Held
<1> QED
  BY <1>1, <1>2, <1>3, OAuthAssumption DEF GrantOf

\* The form grants its code.
LEMMA ProcessFormMaps ==
  ASSUME TypeOK, Inv, NEW c \in Codes, NEW k \in Creds, NEW v \in Verifiers, NEW u \in Redirects,
         ProcessForm(c, k, v, u)
  PROVE  AG!Grant(c, k)
<1> DEFINE p == [creds |-> k, challenge |-> v, redirect |-> u, expiresAt |-> now + CodeTTL]
<1>1. p \in Pending /\ p # Absent /\ p.creds = k
  BY OAuthAssumption DEF TypeOK, Pending
<1>2. /\ flow[c] = Absent
      /\ codes' = [codes EXCEPT ![c] = p]
      /\ flow' = [flow EXCEPT ![c] = p]
      /\ UNCHANGED <<tokens, xch, minted>>
  BY DEF ProcessForm
<1> HIDE DEF p
<1>3. /\ codes'[c] = p /\ flow'[c] = p
      /\ \A d \in Codes \ {c} : codes'[d] = codes[d] /\ flow'[d] = flow[d]
  BY <1>2 DEF TypeOK
<1>4. \A d \in Codes : InHand(d)' <=> InHand(d)
  BY <1>2 DEF InHand, Held
<1>5. GrantOf[c] = "none"
  BY <1>2 DEF GrantOf
<1>6. GrantOf' = [GrantOf EXCEPT ![c] = k]
  BY <1>1, <1>3, <1>4 DEF GrantOf
<1>7. UNCHANGED BearerOf
  BY <1>2 DEF BearerOf
<1> QED
  BY <1>5, <1>6, <1>7 DEF AG!Grant

\* A code that moves from the map into a hand stays open.
LEMMA ConsumeMaps ==
  ASSUME TypeOK, Inv, NEW x \in Exchanges, Consume(x)
  PROVE  UNCHANGED <<GrantOf, BearerOf>>
<1>1. PICK c \in Codes : c = xch[x].code /\ xch[x].pc = "consume"
  BY DEF Consume, TypeOK, Filled
<1>p. PICK p : p = codes[c]
  OBVIOUS
<1>2. /\ xch'[x].code = c
      /\ xch'[x].pc = IF p = Absent THEN "unknown" ELSE "check"
      /\ \A y \in Exchanges \ {x} : xch'[y] = xch[y]
  BY <1>1, <1>p DEF Consume, TypeOK, Exchange
<1>3. /\ codes'[c] = Absent
      /\ \A d \in Codes \ {c} : codes'[d] = codes[d]
      /\ UNCHANGED <<tokens, flow, minted>>
  BY <1>1 DEF Consume, TypeOK
<1>4. \A d \in Codes \ {c} : InHand(d)' <=> InHand(d)
  BY <1>1, <1>2 DEF InHand, Held
<1>5. (codes'[c] # Absent \/ InHand(c)') <=> (codes[c] # Absent \/ InHand(c))
  <2>1. CASE p = Absent
    BY <1>1, <1>p, <1>2, <1>3, <2>1 DEF InHand, Held
  <2>2. CASE p # Absent
    BY <1>1, <1>p, <1>2, <1>3, <2>2 DEF InHand, Held
  <2> QED
    BY <2>1, <2>2
<1>6. GrantOf' = GrantOf
  BY <1>3, <1>4, <1>5 DEF GrantOf
<1> QED
  BY <1>3, <1>6 DEF BearerOf

\* A handler that lets go of a code for nothing voids it; other steps of a
\* handler leave the hands as they are.
LEMMA LetGoMaps ==
  ASSUME TypeOK, Inv, NEW x \in Exchanges,
         \/ CheckGrant(x) \/ IssueFails(x) \/ ExchangeDone(x)
         \/ \E c \in Codes, v \in Verifiers, u \in Redirects \cup {NoRedirect} :
              TokenRequest(x, c, v, u)
  PROVE  (\E c \in Codes : AG!Void({c})) \/ UNCHANGED <<GrantOf, BearerOf>>
<1>1. UNCHANGED <<codes, tokens, flow, minted>>
  BY DEF CheckGrant, IssueFails, ExchangeDone, TokenRequest
<1>2. \A y \in Exchanges \ {x} : xch'[y] = xch[y]
  BY DEF CheckGrant, IssueFails, ExchangeDone, TokenRequest, TypeOK
<1>3. Held(x)' => Held(x) /\ xch'[x].code = xch[x].code
  BY DEF CheckGrant, IssueFails, ExchangeDone, TokenRequest, TypeOK, Exchange, IdleExchange, Held
<1>4. UNCHANGED BearerOf
  BY <1>1 DEF BearerOf
<1>5. CASE Held(x) <=> Held(x)'
  <2>1. \A d \in Codes : InHand(d)' <=> InHand(d)
    BY <1>2, <1>3, <1>5 DEF InHand, Held
  <2> QED
    BY <1>1, <1>4, <2>1 DEF GrantOf
<1>6. CASE Held(x) /\ ~ Held(x)'
  <2>1. PICK c \in Codes : c = xch[x].code
    BY <1>6 DEF Held, TypeOK, Filled
  <2>a. InHand(c)
    BY <1>6, <2>1 DEF InHand
  <2>2. codes[c] = Absent /\ flow[c] # Absent /\ GrantOf[c] = flow[c].creds /\ flow[c].creds \in Creds
    BY <2>a, GrantValues
  <2>3. ~ InHand(c)'
    BY <1>2, <1>6, <2>1 DEF InHand, Held, Inv, ExchangeInv
  <2>4. \A d \in Codes \ {c} : InHand(d)' <=> InHand(d)
    BY <1>2, <1>6, <2>1 DEF InHand, Held
  <2>5. GrantOf' = [d \in Codes |-> IF d \in {c} THEN "spent" ELSE GrantOf[d]]
    BY <1>1, <2>a, <2>2, <2>3, <2>4 DEF GrantOf
  <2> QED
    BY <1>4, <2>1, <2>2, <2>5 DEF AG!Void
<1> QED
  BY <1>3, <1>5, <1>6

\* Issuing a token redeems the code in hand.
LEMMA IssueTokenMaps ==
  ASSUME TypeOK, Inv, NEW x \in Exchanges, NEW t \in Tokens, IssueToken(x, t)
  PROVE  AG!Redeem(xch[x].code, t)
<1>c. PICK c \in Codes : c = xch[x].code
  BY DEF IssueToken, TypeOK, Filled
<1> DEFINE e == [creds |-> xch[x].pending.creds, expiresAt |-> now + TokenTTL]
           m == [code |-> xch[x].code, verifier |-> xch[x].verifier,
                 redirect |-> xch[x].redirect, expiresAt |-> now + TokenTTL]
<1>1. Held(x) /\ xch[x].pending = flow[c] /\ InHand(c)
  BY <1>c DEF IssueToken, Held, InHand, TypeOK, Filled, Inv, ExchangeInv
<1>2. e # Absent /\ m # Absent /\ e.creds = flow[c].creds
  BY <1>1, OAuthAssumption
  DEF IssueToken, TypeOK, Exchange, Filled, Pending, Issued, Minted
<1>3. /\ minted[t] = Absent
      /\ tokens'[t] = e /\ minted'[t] = m
      /\ \A u \in Tokens \ {t} : tokens'[u] = tokens[u] /\ minted'[u] = minted[u]
      /\ UNCHANGED <<codes, flow>>
  BY DEF IssueToken, TypeOK
<1>4. /\ xch'[x].pc = "answered"
      /\ \A y \in Exchanges \ {x} : xch'[y] = xch[y]
  BY DEF IssueToken, TypeOK, Exchange
<1>5. codes[c] = Absent /\ flow[c] # Absent /\ GrantOf[c] = flow[c].creds /\ flow[c].creds \in Creds
  BY <1>1, GrantValues
<1> HIDE DEF e, m
<1>6. ~ InHand(c)'
  BY <1>c, <1>1, <1>4 DEF InHand, Held, Inv, ExchangeInv
<1>7. \A d \in Codes \ {c} : InHand(d)' <=> InHand(d)
  BY <1>c, <1>4 DEF InHand, Held
<1>8. GrantOf' = [GrantOf EXCEPT ![c] = "spent"]
  BY <1>3, <1>5, <1>6, <1>7 DEF GrantOf
<1>9. BearerOf[t] = "none"
  BY <1>3 DEF BearerOf
<1>10. BearerOf' = [BearerOf EXCEPT ![t] = GrantOf[c]]
  BY <1>2, <1>3, <1>5 DEF BearerOf
<1> QED
  BY <1>c, <1>5, <1>8, <1>9, <1>10 DEF AG!Redeem

\* Entries that leave the token map lapse.
LEMMA TokensLeave ==
  ASSUME TypeOK, Inv, UNCHANGED <<codes, xch, flow, minted>>,
         \A t \in Tokens : tokens'[t] = tokens[t] \/ tokens'[t] = Absent
  PROVE  (\E T \in SUBSET Tokens : AG!Lapse(T)) \/ UNCHANGED <<GrantOf, BearerOf>>
<1> DEFINE T == {t \in Tokens : tokens'[t] # tokens[t]}
<1>1. UNCHANGED GrantOf
  BY DEF GrantOf, InHand, Held
<1>2. \A t \in T : tokens[t] # Absent /\ tokens'[t] = Absent /\ minted[t] # Absent
  BY DEF Inv, TokensInv
<1>3. \A t \in T : BearerOf[t] \in Creds
  BY <1>2 DEF BearerOf, TypeOK, Issued
<1>4. BearerOf' = [t \in Tokens |-> IF t \in T THEN "spent" ELSE BearerOf[t]]
  BY <1>2 DEF BearerOf
<1>5. CASE T = {}
  BY <1>1, <1>4, <1>5 DEF BearerOf
<1>6. CASE T # {}
  BY <1>1, <1>3, <1>4, <1>6 DEF AG!Lapse
<1> QED
  BY <1>5, <1>6

\* Codes that leave the map without a hand are void.
LEMMA CodesLeave ==
  ASSUME TypeOK, Inv, UNCHANGED <<tokens, xch, flow, minted>>,
         \A c \in Codes : codes'[c] = codes[c] \/ codes'[c] = Absent
  PROVE  (\E C \in SUBSET Codes : AG!Void(C)) \/ UNCHANGED <<GrantOf, BearerOf>>
<1> DEFINE C == {c \in Codes : codes'[c] # codes[c]}
<1>1. UNCHANGED BearerOf
  BY DEF BearerOf
<1>2. \A c \in Codes : InHand(c)' <=> InHand(c)
  BY DEF InHand, Held
<1>3. \A c \in C : codes[c] # Absent /\ codes'[c] = Absent /\ ~ InHand(c) /\ flow[c] # Absent
                  /\ GrantOf[c] \in Creds
  BY GrantValues
<1>4. GrantOf' = [c \in Codes |-> IF c \in C THEN "spent" ELSE GrantOf[c]]
  BY <1>2, <1>3 DEF GrantOf
<1>5. CASE C = {}
  BY <1>1, <1>4, <1>5 DEF GrantOf
<1>6. CASE C # {}
  BY <1>1, <1>3, <1>4, <1>6 DEF AG!Void
<1> QED
  BY <1>5, <1>6

\* Every step of the server is a step of AuthorizationGrant or none.
LEMMA StepMaps ==
  TypeOK /\ Inv /\ [Next]_vars => [AG!Next]_<<GrantOf, BearerOf>>
<1> SUFFICES ASSUME TypeOK, Inv, [Next]_vars
             PROVE  AG!Next \/ UNCHANGED <<GrantOf, BearerOf>>
  OBVIOUS
<1>1. CASE Tick \/ UNCHANGED vars \/ CleanStart
         \/ \E l \in Lookups : LookupDone(l) \/ \E t \in Tokens : LookupRead(l, t)
  BY <1>1 DEF Tick, vars, CleanStart, LookupDone, LookupRead, GrantOf, BearerOf, InHand, Held
<1>2. ASSUME NEW c \in Codes, NEW k \in Creds, NEW v \in Verifiers, NEW u \in Redirects,
             ProcessForm(c, k, v, u)
      PROVE  AG!Next
  BY <1>2, ProcessFormMaps DEF AG!Next
<1>3. ASSUME NEW x \in Exchanges,
             \/ CheckGrant(x) \/ IssueFails(x) \/ ExchangeDone(x)
             \/ \E c \in Codes, v \in Verifiers, u \in Redirects \cup {NoRedirect} :
                  TokenRequest(x, c, v, u)
      PROVE  AG!Next \/ UNCHANGED <<GrantOf, BearerOf>>
  <2>1. (\E c \in Codes : AG!Void({c})) => \E C \in SUBSET Codes : AG!Void(C)
    OBVIOUS
  <2> QED
    BY <1>3, <2>1, LetGoMaps DEF AG!Next
<1>4. ASSUME NEW x \in Exchanges, Consume(x)
      PROVE  UNCHANGED <<GrantOf, BearerOf>>
  BY <1>4, ConsumeMaps
<1>5. ASSUME NEW x \in Exchanges, NEW t \in Tokens, IssueToken(x, t)
      PROVE  AG!Next
  <2>1. xch[x].code \in Codes
    BY <1>5 DEF IssueToken, TypeOK, Filled
  <2> QED
    BY <1>5, <2>1, IssueTokenMaps DEF AG!Next
<1>6. ASSUME NEW l \in Lookups, LookupJudge(l)
      PROVE  AG!Next \/ UNCHANGED <<GrantOf, BearerOf>>
  <2>1. /\ UNCHANGED <<codes, xch, flow, minted>>
        /\ \A t \in Tokens : tokens'[t] = tokens[t] \/ tokens'[t] = Absent
    BY <1>6 DEF LookupJudge, TypeOK
  <2> QED
    BY <2>1, TokensLeave DEF AG!Next
<1>7. ASSUME CleanTokens
      PROVE  AG!Next \/ UNCHANGED <<GrantOf, BearerOf>>
  <2>1. /\ UNCHANGED <<codes, xch, flow, minted>>
        /\ \A t \in Tokens : tokens'[t] = tokens[t] \/ tokens'[t] = Absent
    BY <1>7 DEF CleanTokens, Swept, TypeOK
  <2> QED
    BY <2>1, TokensLeave DEF AG!Next
<1>8. ASSUME CleanCodes
      PROVE  AG!Next \/ UNCHANGED <<GrantOf, BearerOf>>
  <2>1. /\ UNCHANGED <<tokens, xch, flow, minted>>
        /\ \A c \in Codes : codes'[c] = codes[c] \/ codes'[c] = Absent
    BY <1>8 DEF CleanCodes, Swept, TypeOK
  <2> QED
    BY <2>1, CodesLeave DEF AG!Next
<1> QED
  BY <1>1, <1>2, <1>3, <1>4, <1>5, <1>6, <1>7, <1>8 DEF Next, Handle, Resolve, Clean

\* The handlers of oauth.go, with their two locks and their gaps between them,
\* implement the grants that are redeemed in one step.
THEOREM ServerImplementsGrant == Spec => ImplementsGrant
<1>1. Init => AG!Init
  BY InitMaps
<1>2. TypeOK /\ Inv /\ [Next]_vars => [AG!Next]_<<GrantOf, BearerOf>>
  BY StepMaps
<1> QED
  BY <1>1, <1>2, InvHolds, PTL DEF Spec, ImplementsGrant, AG!Spec

\* No step of AuthorizationGrant brings anything back: a grant and a bearer
\* token start from "none" and end in "spent".
LEMMA GrantsOnlyEnd ==
  ASSUME AG!Next \/ UNCHANGED <<GrantOf, BearerOf>>
  PROVE  OnlyEnds
<1> DEFINE Ends(m, mm, S) == \A s \in S : m[s] # "none" => mm[s] \in {m[s], "spent"}
<1> SUFFICES Ends(GrantOf, GrantOf', Codes) /\ Ends(BearerOf, BearerOf', Tokens)
  BY DEF OnlyEnds
<1>1. DOMAIN GrantOf = Codes /\ DOMAIN BearerOf = Tokens
  BY DEF GrantOf, BearerOf
<1>2. ASSUME NEW c \in Codes, NEW k \in Creds, AG!Grant(c, k)
      PROVE  Ends(GrantOf, GrantOf', Codes) /\ Ends(BearerOf, BearerOf', Tokens)
  BY <1>1, <1>2 DEF AG!Grant
<1>3. ASSUME NEW c \in Codes, NEW t \in Tokens, AG!Redeem(c, t)
      PROVE  Ends(GrantOf, GrantOf', Codes) /\ Ends(BearerOf, BearerOf', Tokens)
  BY <1>1, <1>3 DEF AG!Redeem
<1>4. ASSUME NEW C \in SUBSET Codes, AG!Void(C)
      PROVE  Ends(GrantOf, GrantOf', Codes) /\ Ends(BearerOf, BearerOf', Tokens)
  BY <1>4 DEF AG!Void
<1>5. ASSUME NEW T \in SUBSET Tokens, AG!Lapse(T)
      PROVE  Ends(GrantOf, GrantOf', Codes) /\ Ends(BearerOf, BearerOf', Tokens)
  BY <1>5 DEF AG!Lapse
<1> QED
  BY <1>2, <1>3, <1>4, <1>5 DEF AG!Next

\* So no step of the server does.
LEMMA StepOnlyEnds == TypeOK /\ Inv /\ [Next]_vars => OnlyEnds
BY StepMaps, GrantsOnlyEnd

\* No code and no token that was used or has expired comes back, by whatever
\* interleaving of handlers, lookups and sweeps: a consequence of the
\* refinement.
THEOREM NothingIsRevived == Spec => NothingComesBack
<1>1. TypeOK /\ Inv /\ [Next]_vars => [OnlyEnds]_vars
  BY StepOnlyEnds
<1> QED
  BY <1>1, InvHolds, PTL DEF Spec, NothingComesBack

=============================================================================
