------------------------- MODULE ProxyGateway_proofs -------------------------
(***************************************************************************)
(* Proofs about ProxyGateway, for any number of requests, instances and    *)
(* credentials.                                                            *)
(***************************************************************************)
EXTENDS ProxyGateway, TLAPS

USE CredentialAssumption, GatewayAssumption

-----------------------------------------------------------------------------
(* Records.  A step moves one request to a new record and leaves the       *)
(* others alone, so it is enough to type that record.                      *)

\* Every stage a step moves to is one, so that Stage need not be expanded.
LEMMA StageFacts ==
  {"idle", "fallback", "checkCache", "readOriginal", "addTemporary", "buildURL", "await",
   "cacheResult", "accepted", "rejected", "issueCode", "inject", "tool", "stream",
   "connectURL", "connectAwait", "reply"} \subseteq Stage
  BY DEF Stage, Swapping, Holding, Connecting

\* The empty request is a request, and a well-formed one.
LEMMA NoRequestTyped == NoRequest \in Request /\ WellFormed(NoRequest)
  BY StageFacts DEF NoRequest, Request, WellFormed, Entry, Swapping, Connecting

RequestsTyped == req \in [Requests -> Request] /\ \A r \in Requests : WellFormed(req[r])

\* Everything in TypeOK that is not about the requests.
ElseTyped ==
  /\ StoreType
  /\ cache \in [Creds -> {"absent", "fresh", "stale"}]
  /\ granted \subseteq Creds
  /\ vouched \subseteq Creds
  /\ settled \in [Ids -> Entry]
  /\ contended \subseteq Ids

\* What Become does to the request and to the others.
LEMMA BecomeMeans ==
  ASSUME RequestsTyped, NEW r \in Requests, NEW q, Become(r, q)
  PROVE  req'[r] = q /\ \A s \in Requests \ {r} : req'[s] = req[s]
  BY DEF RequestsTyped, Become

\* A step that gives one request a well-typed record, and keeps the types of the
\* rest, keeps the types.
LEMMA Retype ==
  ASSUME TypeOK, NEW r \in Requests, NEW q \in Request, WellFormed(q), Become(r, q), ElseTyped'
  PROVE  TypeOK'
<1>1. req' \in [Requests -> Request]
  BY DEF TypeOK, Become
<1>2. \A s \in Requests : WellFormed(req'[s])
  BY BecomeMeans DEF TypeOK, RequestsTyped
<1>3. \A s \in Requests : WellFormed(req[s])'
  BY <1>2 DEF WellFormed
<1> QED
  BY <1>1, <1>3 DEF TypeOK, ElseTyped

-----------------------------------------------------------------------------
(* Type correctness.                                                       *)

\* The initial state has the right types.
LEMMA InitTyped == Init => TypeOK
  BY NoRequestTyped DEF Init, TypeOK, StoreType, Entry

\* Every step keeps the types.
LEMMA StepTyped == TypeOK /\ [Next]_vars => TypeOK'
<1> SUFFICES ASSUME TypeOK, [Next]_vars PROVE TypeOK'
  OBVIOUS
<1> USE DEF TypeOK, ElseTyped, StoreType, Entry, NoRequest, Request, WellFormed, Swapping,
            Holding, Connecting, Own, histVars
<1>1. ASSUME NEW r \in Requests, NEW c \in Creds, NEW conn \in {"GET", "POST"},
             ExtractCredentialsFromRequest(r, c, conn)
      PROVE  TypeOK'
  <2> DEFINE q == [NoRequest EXCEPT !.pc = "checkCache", !.via = "header",
                           !.conn = conn, !.creds = c]
  <2>1. q \in Request /\ WellFormed(q)
    BY <1>1, StageFacts, NoRequestTyped DEF ExtractCredentialsFromRequest
  <2>2. Become(r, q) /\ ElseTyped'
    BY <1>1 DEF ExtractCredentialsFromRequest
  <2> HIDE DEF q
  <2> QED
    BY <2>1, <2>2, Retype
<1>2. ASSUME NEW r \in Requests, NEW c \in Creds, NEW conn \in {"GET", "POST"},
             LookupToken(r, c, conn)
      PROVE  TypeOK'
  <2> DEFINE q == [NoRequest EXCEPT !.pc = "inject", !.via = "bearer",
                           !.conn = conn, !.creds = c]
  <2>1. q \in Request /\ WellFormed(q)
    BY <1>2, StageFacts, NoRequestTyped DEF LookupToken
  <2>2. Become(r, q) /\ ElseTyped'
    BY <1>2 DEF LookupToken
  <2> HIDE DEF q
  <2> QED
    BY <2>1, <2>2, Retype
<1>3. ASSUME NEW r \in Requests, NEW i \in Ids, NEW conn \in {"GET", "POST"},
             ChooseFallback(r, i, conn)
      PROVE  TypeOK'
  <2> DEFINE q == [NoRequest EXCEPT !.pc = "fallback", !.via = "config",
                           !.conn = conn, !.target = i]
  <2>1. q \in Request /\ WellFormed(q)
    BY <1>3, StageFacts, NoRequestTyped DEF ChooseFallback
  <2>2. Become(r, q) /\ ElseTyped'
    BY <1>3 DEF ChooseFallback
  <2> HIDE DEF q
  <2> QED
    BY <2>1, <2>2, Retype
<1>4. ASSUME NEW r \in Requests, NEW c \in Creds,
             SubmitForm(r, c)
      PROVE  TypeOK'
  <2> DEFINE q == [NoRequest EXCEPT !.pc = "readOriginal", !.via = "form", !.creds = c]
  <2>1. q \in Request /\ WellFormed(q)
    BY <1>4, StageFacts, NoRequestTyped DEF SubmitForm
  <2>2. Become(r, q) /\ ElseTyped'
    BY <1>4 DEF SubmitForm
  <2> HIDE DEF q
  <2> QED
    BY <2>1, <2>2, Retype
<1>5. ASSUME NEW r \in Requests, ReadFallback(r)
      PROVE  TypeOK'
  <2> DEFINE found == instances[req[r].target]
             q == IF found = NoCreds
                    THEN NoRequest
                    ELSE [req[r] EXCEPT !.pc = "inject", !.creds = found]
  <2>1. found \in Entry
    BY <1>5 DEF ReadFallback
  <2>2. Become(r, q) /\ ElseTyped'
    BY <1>5 DEF ReadFallback, GetCredentials, Finish
  <2>3. q \in Request /\ WellFormed(q)
    <3> HIDE DEF found
    <3>1. CASE found = NoCreds
      BY <3>1, NoRequestTyped
    <3>2. CASE found # NoCreds
      <4>1. q = [req[r] EXCEPT !.pc = "inject", !.creds = found] /\ found \in Creds
        BY <2>1, <3>2
      <4>2. req[r] \in Request /\ "inject" \in Stage
        BY StageFacts
      <4> HIDE DEF q
      <4>3. q \in Request /\ q.pc = "inject" /\ q.creds = found
        BY <4>1, <4>2
      <4> QED
        BY <4>1, <4>3
    <3> QED
      BY <2>1, <3>1, <3>2
  <2> HIDE DEF q
  <2> QED
    BY <2>2, <2>3, Retype
<1>6. ASSUME NEW r \in Requests, CheckCache(r)
      PROVE  TypeOK'
  <2> DEFINE q == [req[r] EXCEPT !.pc = IF cache[req[r].creds] = "fresh"
                                   THEN "inject" ELSE "readOriginal"]
  <2>1. q \in Request /\ WellFormed(q)
    BY <1>6, StageFacts, NoRequestTyped DEF CheckCache
  <2>2. Become(r, q) /\ ElseTyped'
    BY <1>6 DEF CheckCache, Goto
  <2> HIDE DEF q
  <2> QED
    BY <2>1, <2>2, Retype
<1>7. ASSUME NEW r \in Requests, ReadOriginal(r)
      PROVE  TypeOK'
  <2> DEFINE q == [req[r] EXCEPT !.pc = "addTemporary", !.orig = instances[Own(r)]]
  <2>1. q \in Request /\ WellFormed(q)
    BY <1>7, StageFacts, NoRequestTyped DEF ReadOriginal
  <2>2. Become(r, q) /\ ElseTyped'
    BY <1>7 DEF ReadOriginal, GetCredentials
  <2> HIDE DEF q
  <2> QED
    BY <2>1, <2>2, Retype
<1>8. ASSUME NEW r \in Requests, AddTemporary(r)
      PROVE  TypeOK'
  <2> DEFINE q == [req[r] EXCEPT !.pc = "buildURL"]
  <2>1. q \in Request /\ WellFormed(q)
    BY <1>8, StageFacts, NoRequestTyped DEF AddTemporary
  <2>2. Become(r, q) /\ ElseTyped'
    BY <1>8 DEF AddTemporary, AddInstance, Goto, Temporarily, Observe
  <2> HIDE DEF q
  <2> QED
    BY <2>1, <2>2, Retype
<1>9. ASSUME NEW r \in Requests, BuildStateURL(r)
      PROVE  TypeOK'
  <2> DEFINE q == [req[r] EXCEPT !.sent = instances[Own(r)],
                           !.pc = IF instances[Own(r)] = NoCreds THEN "rejected" ELSE "await"]
  <2>1. q \in Request /\ WellFormed(q)
    BY <1>9, StageFacts, NoRequestTyped DEF BuildStateURL
  <2>2. Become(r, q) /\ ElseTyped'
    BY <1>9 DEF BuildStateURL, GetCredentials
  <2> HIDE DEF q
  <2> QED
    BY <2>1, <2>2, Retype
<1>10. ASSUME NEW r \in Requests, AnswerState(r)
      PROVE  TypeOK'
  <2>1. PICK p \in {"cacheResult", "accepted", "rejected"} : Goto(r, p)
    BY <1>10 DEF AnswerState
  <2> DEFINE q == [req[r] EXCEPT !.pc = p]
  <2>2. q \in Request /\ WellFormed(q)
    BY <1>10, StageFacts DEF AnswerState
  <2>3. Become(r, q) /\ ElseTyped'
    BY <1>10, <2>1 DEF AnswerState, Goto
  <2> HIDE DEF q
  <2> QED
    BY <2>2, <2>3, Retype
<1>11. ASSUME NEW r \in Requests, CacheResult(r)
      PROVE  TypeOK'
  <2> DEFINE q == [req[r] EXCEPT !.pc = "accepted"]
  <2>1. q \in Request /\ WellFormed(q)
    BY <1>11, StageFacts, NoRequestTyped DEF CacheResult
  <2>2. Become(r, q) /\ ElseTyped'
    BY <1>11 DEF CacheResult, Goto
  <2> HIDE DEF q
  <2> QED
    BY <2>1, <2>2, Retype
<1>12. ASSUME NEW r \in Requests, RestoreOriginal(r)
      PROVE  TypeOK'
  <2> DEFINE q == IF req[r].pc = "rejected"
                    THEN NoRequest
                    ELSE [req[r] EXCEPT !.pc = IF req[r].via = "form" THEN "issueCode" ELSE "inject"]
  <2>1. q \in Request /\ WellFormed(q)
    BY <1>12, StageFacts, NoRequestTyped DEF RestoreOriginal
  <2>2. Become(r, q)
    BY <1>12 DEF RestoreOriginal, Goto, Finish
  <2>3. ElseTyped'
    BY <1>12 DEF RestoreOriginal, PutBack, AddInstance, RemoveInstance, Goto, Finish, Temporarily, Observe
  <2> HIDE DEF q
  <2> QED
    BY <2>1, <2>2, <2>3, Retype
<1>13. ASSUME NEW r \in Requests, IssueCode(r)
      PROVE  TypeOK'
  <2>1. Become(r, NoRequest) /\ ElseTyped'
    BY <1>13 DEF IssueCode, Finish
  <2> QED
    BY <2>1, NoRequestTyped, Retype
<1>14. ASSUME NEW r \in Requests, InjectCredentials(r)
      PROVE  TypeOK'
  <2> DEFINE q == [req[r] EXCEPT !.pc = IF req[r].conn = "GET" THEN "stream" ELSE "tool"]
  <2>1. q \in Request /\ WellFormed(q)
    BY <1>14, StageFacts, NoRequestTyped DEF InjectCredentials
  <2>2. Become(r, q) /\ ElseTyped'
    BY <1>14 DEF InjectCredentials, AddInstance, Goto, ForGood, Observe
  <2> HIDE DEF q
  <2> QED
    BY <2>1, <2>2, Retype
<1>15. ASSUME NEW r \in Requests, CloseStream(r)
      PROVE  TypeOK'
  <2>1. Become(r, NoRequest) /\ ElseTyped'
    BY <1>15 DEF CloseStream, RemoveInstance, Finish, ForGood, Observe
  <2> QED
    BY <2>1, NoRequestTyped, Retype
<1>16. ASSUME NEW r \in Requests, SkipTool(r)
      PROVE  TypeOK'
  <2>1. Become(r, NoRequest) /\ ElseTyped'
    BY <1>16 DEF SkipTool, Finish
  <2> QED
    BY <2>1, NoRequestTyped, Retype
<1>17. ASSUME NEW r \in Requests, NEW i \in Ids,
             CallMethod(r, i)
      PROVE  TypeOK'
  <2> DEFINE q == [req[r] EXCEPT !.pc = "reply", !.target = i, !.sent = instances[i]]
  <2>1. q \in Request /\ WellFormed(q)
    BY <1>17, StageFacts, NoRequestTyped DEF CallMethod
  <2>2. Become(r, q) /\ ElseTyped'
    BY <1>17 DEF CallMethod, GetCredentials
  <2> HIDE DEF q
  <2> QED
    BY <2>1, <2>2, Retype
<1>18. ASSUME NEW r \in Requests, Reply(r)
      PROVE  TypeOK'
  <2>1. Become(r, NoRequest) /\ ElseTyped'
    BY <1>18 DEF Reply, Finish
  <2> QED
    BY <2>1, NoRequestTyped, Retype
<1>19. ASSUME NEW r \in Requests, NEW c \in Creds,
             Connect(r, c)
      PROVE  TypeOK'
  <2> DEFINE q == [req[r] EXCEPT !.pc = "connectURL", !.target = InstanceOf[c]]
  <2>1. q \in Request /\ WellFormed(q)
    BY <1>19, StageFacts, NoRequestTyped DEF Connect
  <2>2. Become(r, q) /\ ElseTyped'
    BY <1>19 DEF Connect, AddInstance, ForGood, Observe
  <2> HIDE DEF q
  <2> QED
    BY <2>1, <2>2, Retype
<1>20. ASSUME NEW r \in Requests, ConnectURL(r)
      PROVE  TypeOK'
  <2> DEFINE q == [req[r] EXCEPT !.pc = "connectAwait", !.sent = instances[req[r].target]]
  <2>1. q \in Request /\ WellFormed(q)
    BY <1>20, StageFacts, NoRequestTyped DEF ConnectURL
  <2>2. Become(r, q) /\ ElseTyped'
    BY <1>20 DEF ConnectURL, GetCredentials
  <2> HIDE DEF q
  <2> QED
    BY <2>1, <2>2, Retype
<1>21. ASSUME NEW r \in Requests, ConnectAnswer(r)
      PROVE  TypeOK'
  <2>1. Become(r, NoRequest) /\ ElseTyped'
    BY <1>21 DEF ConnectAnswer, RemoveInstance, Finish, ForGood, Observe
  <2> QED
    BY <2>1, NoRequestTyped, Retype
<1>22. ASSUME NEW r \in Requests, NEW i \in Ids,
             Disconnect(r, i)
      PROVE  TypeOK'
  <2>1. Become(r, NoRequest) /\ ElseTyped'
    BY <1>22 DEF Disconnect, RemoveInstance, Finish, ForGood, Observe
  <2> QED
    BY <2>1, NoRequestTyped, Retype
<1>23. ASSUME NEW c \in Creds, Expire(c)
      PROVE  TypeOK'
  BY <1>23 DEF Expire
<1>24. CASE CleanExpiredCache
  BY <1>24 DEF CleanExpiredCache
<1>25. CASE UNCHANGED vars
  BY <1>25 DEF vars
<1> HIDE DEF TypeOK, ElseTyped, StoreType, Entry, NoRequest, Request, WellFormed, Swapping,
             Holding, Connecting, Own, histVars
<1>26. ASSUME NEW r \in Requests, Arrive(r)
       PROVE  TypeOK'
  BY <1>1, <1>2, <1>3, <1>4, <1>26 DEF Arrive
<1>27. ASSUME NEW r \in Requests, Validate(r)
       PROVE  TypeOK'
  BY <1>6, <1>7, <1>8, <1>9, <1>10, <1>11, <1>12, <1>27 DEF Validate
<1>28. ASSUME NEW r \in Requests, CallTool(r)
       PROVE  TypeOK'
  BY <1>16, <1>17, <1>18, <1>19, <1>20, <1>21, <1>22, <1>28 DEF CallTool
<1>29. ASSUME NEW r \in Requests, Serve(r)
       PROVE  TypeOK'
  BY <1>5, <1>13, <1>14, <1>27, <1>28, <1>29 DEF Serve
<1>30. QED
  BY <1>15, <1>23, <1>24, <1>25, <1>26, <1>29 DEF Next

\* Every variable keeps its type: in particular an entry of the store is
\* always filed under its own instance, whatever is restored, and every stage
\* has the fields it reads.
THEOREM TypeCorrect == Spec => []TypeOK
  BY InitTyped, StepTyped, PTL DEF Spec

-----------------------------------------------------------------------------
(* The inductive invariant: what one step has to show.                     *)

\* What VerdictAsExpected, OnlyVouchedPass and CallsUseOwnCredentials ask of
\* one request, K being the contended instances and V the vouched credentials.
Justified(q, K, V) ==
  q.pc \notin {"idle", "fallback"} /\ InstanceOf[q.creds] \notin K =>
    /\ q.pc = "await" => q.sent = q.creds
    /\ q.pc \in {"cacheResult", "accepted", "issueCode"} => q.creds \in V
    /\ /\ q.via \in {"header", "bearer"}
       /\ q.pc \in {"inject", "reply"} \cup Holding \cup Connecting
       => q.creds \in V
    /\ q.pc = "reply" /\ q.target = InstanceOf[q.creds] => q.sent = q.creds

\* The invariant says of every single request what one request has to show.
LEMMA InvJustifies == TypeOK /\ Inv => \A r \in Requests : Justified(req[r], contended, vouched)
  BY DEF TypeOK, Request, WellFormed, Inv, VerdictAsExpected, OnlyVouchedPass,
         CallsUseOwnCredentials, Justified, Own

\* A step that justifies the record it moves to keeps these three.
LEMMA JustifiedStep ==
  ASSUME TypeOK, Inv, NEW r \in Requests, NEW q, Become(r, q),
         contended \subseteq contended', vouched \subseteq vouched',
         Justified(q, contended', vouched')
  PROVE  (VerdictAsExpected /\ OnlyVouchedPass /\ CallsUseOwnCredentials)'
<1>1. \A s \in Requests : Justified(req'[s], contended', vouched')
  <2> SUFFICES ASSUME NEW s \in Requests PROVE Justified(req'[s], contended', vouched')
    OBVIOUS
  <2>1. CASE s = r
    BY <2>1, BecomeMeans DEF TypeOK, RequestsTyped
  <2>2. CASE s # r
    <3>1. req'[s] = req[s]
      BY <2>2, BecomeMeans DEF TypeOK, RequestsTyped
    <3>2. Justified(req[s], contended, vouched)
      BY InvJustifies
    <3> QED
      BY <3>1, <3>2 DEF Justified
  <2> QED
    BY <2>1, <2>2
<1> QED
  BY <1>1 DEF VerdictAsExpected, OnlyVouchedPass, CallsUseOwnCredentials, Justified, Own,
              Holding, Connecting

\* The record r moves to uses the store as the one it leaves does.
SameRole(p, q) ==
  /\ q.pc \in Swapped <=> p.pc \in Swapped
  /\ q.pc \in Holding => p.pc \in Holding
  /\ q.pc \in Swapped \cup Holding => q.creds = p.creds /\ q.orig = p.orig

\* A step that leaves the store alone.
LEMMA QuietStep ==
  ASSUME TypeOK, EntryAsExpected, NEW r \in Requests, NEW q, Become(r, q),
         UNCHANGED <<instances, settled, contended>>,
         SameRole(req[r], q),
         q.pc = "addTemporary" => instances[InstanceOf[q.creds]] = q.orig
  PROVE  EntryAsExpected'
<1>1. req'[r] = q /\ \A s \in Requests \ {r} : req'[s] = req[s]
  BY BecomeMeans DEF TypeOK, RequestsTyped
<1> SUFFICES ASSUME NEW i \in Ids \ contended
             PROVE
    /\ \A s \in Requests : req'[s].pc = "addTemporary" /\ InstanceOf[req'[s].creds] = i
         => instances[i] = req'[s].orig
    /\ \A s \in Requests : req'[s].pc \in Swapped \cup Holding /\ InstanceOf[req'[s].creds] = i
         => instances[i] = req'[s].creds
    /\ \A s \in Requests :
         req'[s].pc \in Swapped /\ InstanceOf[req'[s].creds] = i /\ req'[s].orig # instances[i]
           => req'[s].orig = settled[i]
    /\ (\A s \in Requests : req'[s].pc \in Swapped /\ InstanceOf[req'[s].creds] = i
                               => req'[s].orig = instances[i])
         => instances[i] = settled[i]
  BY DEF EntryAsExpected, Own
<1> USE DEF EntryAsExpected, Own, SameRole
<1>2. \A s \in Requests : req'[s].pc = "addTemporary" /\ InstanceOf[req'[s].creds] = i
         => instances[i] = req'[s].orig
  BY <1>1
<1>3. \A s \in Requests : req'[s].pc \in Swapped \cup Holding /\ InstanceOf[req'[s].creds] = i
         => instances[i] = req'[s].creds
  BY <1>1
<1>4. \A s \in Requests :
         req'[s].pc \in Swapped /\ InstanceOf[req'[s].creds] = i /\ req'[s].orig # instances[i]
           => req'[s].orig = settled[i]
  BY <1>1
<1>5. (\A s \in Requests : req'[s].pc \in Swapped /\ InstanceOf[req'[s].creds] = i
                               => req'[s].orig = instances[i])
         => instances[i] = settled[i]
  BY <1>1
<1> QED
  BY <1>2, <1>3, <1>4, <1>5

\* A step that writes an entry for good.  If it changes anything while the
\* entry is in use, the instance is contended afterwards; otherwise nobody's
\* expectation is touched.
LEMMA WriteStep ==
  ASSUME TypeOK, EntryAsExpected, NEW r \in Requests, NEW q, Become(r, q),
         NEW i \in Ids, NEW e \in Entry,
         instances' = [instances EXCEPT ![i] = e], ForGood(r, i, e),
         req[r].pc \notin Swapping, q.pc \notin Swapping,
         q.pc \in Holding => InstanceOf[q.creds] = i /\ q.creds = e
  PROVE  EntryAsExpected'
<1>1. req'[r] = q /\ \A s \in Requests \ {r} : req'[s] = req[s]
  BY BecomeMeans DEF TypeOK, RequestsTyped
<1>2. /\ instances'[i] = e /\ settled'[i] = e
      /\ \A j \in Ids \ {i} : instances'[j] = instances[j] /\ settled'[j] = settled[j]
  BY DEF TypeOK, StoreType, ForGood
<1>3. \A j \in Ids : j \notin contended' => j \notin contended
  BY DEF ForGood, Observe
<1>4. i \notin contended' =>
        \/ instances[i] = e /\ settled[i] = e
        \/ \A s \in Requests \ {r} : ~ InUse(s, i)
  BY <1>2 DEF ForGood, Observe
<1> SUFFICES ASSUME NEW j \in Ids, j \notin contended'
             PROVE
    /\ \A s \in Requests : req'[s].pc = "addTemporary" /\ InstanceOf[req'[s].creds] = j
         => instances'[j] = req'[s].orig
    /\ \A s \in Requests : req'[s].pc \in Swapped \cup Holding /\ InstanceOf[req'[s].creds] = j
         => instances'[j] = req'[s].creds
    /\ \A s \in Requests :
         req'[s].pc \in Swapped /\ InstanceOf[req'[s].creds] = j /\ req'[s].orig # instances'[j]
           => req'[s].orig = settled'[j]
    /\ (\A s \in Requests : req'[s].pc \in Swapped /\ InstanceOf[req'[s].creds] = j
                               => req'[s].orig = instances'[j])
         => instances'[j] = settled'[j]
  BY DEF EntryAsExpected, Own
<1>5. CASE j # i
  BY <1>1, <1>2, <1>3, <1>5 DEF EntryAsExpected, Own, Swapping, Swapped, Holding
<1>6. CASE j = i /\ instances[i] = e /\ settled[i] = e
  BY <1>1, <1>2, <1>3, <1>6 DEF EntryAsExpected, Own, Swapping, Swapped, Holding
<1>7. CASE j = i /\ \A s \in Requests \ {r} : ~ InUse(s, i)
  BY <1>1, <1>2, <1>7 DEF InUse, Own, Swapping, Swapped, Holding
<1> QED
  BY <1>4, <1>5, <1>6, <1>7

\* Putting the candidate in: if that changes the entry, no other request was
\* using it, and the saved entry is the settled one.
LEMMA SwapInStep ==
  ASSUME TypeOK, EntryAsExpected, NEW r \in Requests, AddTemporary(r)
  PROVE  EntryAsExpected'
<1> DEFINE c == req[r].creds
           o == Own(r)
           q == [req[r] EXCEPT !.pc = "buildURL"]
<1>0. c \in Creds /\ o \in Ids /\ req[r].pc = "addTemporary" /\ req[r] \in Request
  BY DEF AddTemporary, TypeOK, WellFormed, Own
<1>1. /\ req'[r].pc = "buildURL" /\ req'[r].creds = c /\ req'[r].orig = req[r].orig
      /\ \A s \in Requests \ {r} : req'[s] = req[s]
  <2>1. Become(r, q)
    BY DEF AddTemporary, Goto
  <2>2. q.pc = "buildURL" /\ q.creds = c /\ q.orig = req[r].orig
    BY <1>0 DEF Request
  <2> HIDE DEF q
  <2> QED
    BY <2>1, <2>2, BecomeMeans DEF TypeOK, RequestsTyped
<1>2. /\ instances'[o] = c
      /\ \A j \in Ids \ {o} : instances'[j] = instances[j]
      /\ settled' = settled
  BY <1>0 DEF AddTemporary, AddInstance, TypeOK, StoreType, Own, Temporarily
<1>3. contended' = contended \cup
        {i \in Ids : /\ instances'[i] # instances[i] \/ settled'[i] # settled[i]
                     /\ \E s \in Requests \ {r} : InUse(s, i)}
  BY DEF AddTemporary, Temporarily, Observe
<1>4. o \notin contended' =>
        o \notin contended /\ (instances[o] = c \/ \A s \in Requests \ {r} : ~ InUse(s, o))
  BY <1>0, <1>2, <1>3
<1> SUFFICES ASSUME NEW j \in Ids, j \notin contended'
             PROVE
    /\ \A s \in Requests : req'[s].pc = "addTemporary" /\ InstanceOf[req'[s].creds] = j
         => instances'[j] = req'[s].orig
    /\ \A s \in Requests : req'[s].pc \in Swapped \cup Holding /\ InstanceOf[req'[s].creds] = j
         => instances'[j] = req'[s].creds
    /\ \A s \in Requests :
         req'[s].pc \in Swapped /\ InstanceOf[req'[s].creds] = j /\ req'[s].orig # instances'[j]
           => req'[s].orig = settled'[j]
    /\ (\A s \in Requests : req'[s].pc \in Swapped /\ InstanceOf[req'[s].creds] = j
                               => req'[s].orig = instances'[j])
         => instances'[j] = settled'[j]
  BY DEF EntryAsExpected, Own
<1>5. j \notin contended
  BY <1>3
<1>6. CASE j # o
  BY <1>0, <1>1, <1>2, <1>5, <1>6 DEF EntryAsExpected, Own, Swapping, Swapped, Holding
<1>7. CASE j = o /\ instances[o] = c
  BY <1>0, <1>1, <1>2, <1>5, <1>7 DEF EntryAsExpected, Own, Swapping, Swapped, Holding
<1>8. CASE j = o /\ \A s \in Requests \ {r} : ~ InUse(s, o)
  <2>1. \A s \in Requests \ {r} : req[s].pc \in Swapping \cup Holding => Own(s) # o
    BY <1>8 DEF InUse
  <2>2. instances[o] = req[r].orig
    BY <1>0, <1>5, <1>8 DEF EntryAsExpected
  <2>3. instances[o] = settled[o]
    BY <1>0, <1>5, <1>8, <2>1 DEF EntryAsExpected, Swapped, Swapping
  <2> QED
    BY <1>0, <1>1, <1>2, <1>8, <2>1, <2>2, <2>3 DEF Own, Swapping, Swapped, Holding
<1> QED
  BY <1>0, <1>4, <1>6, <1>7, <1>8

\* Putting the saved entry back: if that changes the entry, r was the only
\* user left and the saved entry is the settled one; if it does not, the
\* others still see what they expect.
LEMMA SwapBackStep ==
  ASSUME TypeOK, EntryAsExpected, NEW r \in Requests, RestoreOriginal(r)
  PROVE  EntryAsExpected'
<1> DEFINE o == Own(r)
           old == req[r].orig
           q == IF req[r].pc = "rejected"
                  THEN NoRequest
                  ELSE [req[r] EXCEPT !.pc = IF req[r].via = "form" THEN "issueCode" ELSE "inject"]
<1>0. req[r].creds \in Creds /\ o \in Ids /\ old \in Entry /\ req[r] \in Request
      /\ req[r].pc \in {"accepted", "rejected"} /\ (old # NoCreds => InstanceOf[old] = o)
  BY DEF RestoreOriginal, TypeOK, WellFormed, Own, Request, Swapping
<1>1. /\ req'[r].pc \in {"idle", "issueCode", "inject"}
      /\ \A s \in Requests \ {r} : req'[s] = req[s]
  <2>1. Become(r, q)
    BY DEF RestoreOriginal, Goto, Finish
  <2>2. q.pc \in {"idle", "issueCode", "inject"}
    BY <1>0 DEF Request, NoRequest
  <2> HIDE DEF q
  <2> QED
    BY <2>1, <2>2, BecomeMeans DEF TypeOK, RequestsTyped
<1>2. /\ instances'[o] = old
      /\ \A j \in Ids \ {o} : instances'[j] = instances[j]
      /\ settled' = settled
  BY <1>0 DEF RestoreOriginal, PutBack, AddInstance, RemoveInstance, TypeOK, StoreType, Own,
              Temporarily
<1>3. contended' = contended \cup
        {i \in Ids : /\ instances'[i] # instances[i] \/ settled'[i] # settled[i]
                     /\ \E s \in Requests \ {r} : InUse(s, i)}
  BY DEF RestoreOriginal, Temporarily, Observe
<1>4. o \notin contended' =>
        o \notin contended /\ (instances[o] = old \/ \A s \in Requests \ {r} : ~ InUse(s, o))
  BY <1>0, <1>2, <1>3
<1> SUFFICES ASSUME NEW j \in Ids, j \notin contended'
             PROVE
    /\ \A s \in Requests : req'[s].pc = "addTemporary" /\ InstanceOf[req'[s].creds] = j
         => instances'[j] = req'[s].orig
    /\ \A s \in Requests : req'[s].pc \in Swapped \cup Holding /\ InstanceOf[req'[s].creds] = j
         => instances'[j] = req'[s].creds
    /\ \A s \in Requests :
         req'[s].pc \in Swapped /\ InstanceOf[req'[s].creds] = j /\ req'[s].orig # instances'[j]
           => req'[s].orig = settled'[j]
    /\ (\A s \in Requests : req'[s].pc \in Swapped /\ InstanceOf[req'[s].creds] = j
                               => req'[s].orig = instances'[j])
         => instances'[j] = settled'[j]
  BY DEF EntryAsExpected, Own
<1>5. j \notin contended
  BY <1>3
<1>6. CASE j # o
  BY <1>0, <1>1, <1>2, <1>5, <1>6 DEF EntryAsExpected, Own, Swapping, Swapped, Holding
<1>7. CASE j = o /\ instances[o] = old
  BY <1>0, <1>1, <1>2, <1>5, <1>7 DEF EntryAsExpected, Own, Swapping, Swapped, Holding
<1>8. CASE j = o /\ instances[o] # old /\ \A s \in Requests \ {r} : ~ InUse(s, o)
  <2>1. \A s \in Requests \ {r} : req[s].pc \in Swapping \cup Holding => Own(s) # o
    BY <1>8 DEF InUse
  <2>2. old = settled[o]
    BY <1>0, <1>5, <1>8 DEF EntryAsExpected, Swapped, Swapping
  <2> QED
    BY <1>0, <1>1, <1>2, <1>8, <2>1, <2>2 DEF Own, Swapping, Swapped, Holding
<1> QED
  BY <1>0, <1>4, <1>6, <1>7, <1>8

-----------------------------------------------------------------------------
(* Every step keeps the invariant.                                         *)

\* The invariant holds initially: nobody is using any entry.
LEMMA InitInv == Init => Inv
  BY DEF Init, Inv, EntryAsExpected, VerdictAsExpected, RecordedMeansVouched, OnlyVouchedPass,
         CallsUseOwnCredentials, NoRequest, Swapping, Swapped, Holding, Connecting

\* One case per action: the record it moves to, what it does to the store, why
\* that record is justified, and what happens to the cache and the tokens.
LEMMA StepInv == TypeOK /\ Inv /\ [Next]_vars => Inv'
<1> SUFFICES ASSUME TypeOK, Inv, [Next]_vars PROVE Inv'
  OBVIOUS
<1>0. EntryAsExpected /\ RecordedMeansVouched
  BY DEF Inv
<1> USE DEF histVars
<1>1. ASSUME NEW r \in Requests, NEW c \in Creds, NEW conn \in {"GET", "POST"},
             ExtractCredentialsFromRequest(r, c, conn)
      PROVE  Inv'
  <2> DEFINE q == [NoRequest EXCEPT !.pc = "checkCache", !.via = "header",
                           !.conn = conn, !.creds = c]
  <2>1. Become(r, q) /\ contended \subseteq contended' /\ vouched \subseteq vouched'
    BY <1>1 DEF ExtractCredentialsFromRequest
  <2>2. /\ UNCHANGED <<instances, settled, contended>>
        /\ SameRole(req[r], q)
        /\ q.pc = "addTemporary" => instances[InstanceOf[q.creds]] = q.orig
    BY <1>1 DEF ExtractCredentialsFromRequest, TypeOK, SameRole, Request, WellFormed, NoRequest, Own, Swapping, Swapped, Holding, Connecting
  <2>3. Justified(q, contended', vouched')
    BY <1>1, <1>0, <2>1, InvJustifies DEF ExtractCredentialsFromRequest, TypeOK, Inv, Justified, RecordedMeansVouched, EntryAsExpected,
       GetCredentials, Request, WellFormed, NoRequest, Own, Swapping, Swapped, Holding, Connecting
  <2>4. RecordedMeansVouched'
    BY <1>1, <1>0, <2>1, InvJustifies DEF RecordedMeansVouched, Justified, ExtractCredentialsFromRequest
  <2> HIDE DEF q
  <2>5. EntryAsExpected'
    BY <1>0, <2>1, <2>2, QuietStep
  <2> QED
    BY <2>1, <2>3, <2>4, <2>5, JustifiedStep DEF Inv
<1>2. ASSUME NEW r \in Requests, NEW c \in Creds, NEW conn \in {"GET", "POST"},
             LookupToken(r, c, conn)
      PROVE  Inv'
  <2> DEFINE q == [NoRequest EXCEPT !.pc = "inject", !.via = "bearer",
                           !.conn = conn, !.creds = c]
  <2>1. Become(r, q) /\ contended \subseteq contended' /\ vouched \subseteq vouched'
    BY <1>2 DEF LookupToken
  <2>2. /\ UNCHANGED <<instances, settled, contended>>
        /\ SameRole(req[r], q)
        /\ q.pc = "addTemporary" => instances[InstanceOf[q.creds]] = q.orig
    BY <1>2 DEF LookupToken, TypeOK, SameRole, Request, WellFormed, NoRequest, Own, Swapping, Swapped, Holding, Connecting
  <2>3. Justified(q, contended', vouched')
    BY <1>2, <1>0, <2>1, InvJustifies DEF LookupToken, TypeOK, Inv, Justified, RecordedMeansVouched, EntryAsExpected,
       GetCredentials, Request, WellFormed, NoRequest, Own, Swapping, Swapped, Holding, Connecting
  <2>4. RecordedMeansVouched'
    BY <1>2, <1>0, <2>1, InvJustifies DEF RecordedMeansVouched, Justified, LookupToken
  <2> HIDE DEF q
  <2>5. EntryAsExpected'
    BY <1>0, <2>1, <2>2, QuietStep
  <2> QED
    BY <2>1, <2>3, <2>4, <2>5, JustifiedStep DEF Inv
<1>3. ASSUME NEW r \in Requests, NEW i \in Ids, NEW conn \in {"GET", "POST"},
             ChooseFallback(r, i, conn)
      PROVE  Inv'
  <2> DEFINE q == [NoRequest EXCEPT !.pc = "fallback", !.via = "config",
                           !.conn = conn, !.target = i]
  <2>1. Become(r, q) /\ contended \subseteq contended' /\ vouched \subseteq vouched'
    BY <1>3 DEF ChooseFallback
  <2>2. /\ UNCHANGED <<instances, settled, contended>>
        /\ SameRole(req[r], q)
        /\ q.pc = "addTemporary" => instances[InstanceOf[q.creds]] = q.orig
    BY <1>3 DEF ChooseFallback, TypeOK, SameRole, Request, WellFormed, NoRequest, Own, Swapping, Swapped, Holding, Connecting
  <2>3. Justified(q, contended', vouched')
    BY <1>3, <1>0, <2>1, InvJustifies DEF ChooseFallback, TypeOK, Inv, Justified, RecordedMeansVouched, EntryAsExpected,
       GetCredentials, Request, WellFormed, NoRequest, Own, Swapping, Swapped, Holding, Connecting
  <2>4. RecordedMeansVouched'
    BY <1>3, <1>0, <2>1, InvJustifies DEF RecordedMeansVouched, Justified, ChooseFallback
  <2> HIDE DEF q
  <2>5. EntryAsExpected'
    BY <1>0, <2>1, <2>2, QuietStep
  <2> QED
    BY <2>1, <2>3, <2>4, <2>5, JustifiedStep DEF Inv
<1>4. ASSUME NEW r \in Requests, NEW c \in Creds,
             SubmitForm(r, c)
      PROVE  Inv'
  <2> DEFINE q == [NoRequest EXCEPT !.pc = "readOriginal", !.via = "form", !.creds = c]
  <2>1. Become(r, q) /\ contended \subseteq contended' /\ vouched \subseteq vouched'
    BY <1>4 DEF SubmitForm
  <2>2. /\ UNCHANGED <<instances, settled, contended>>
        /\ SameRole(req[r], q)
        /\ q.pc = "addTemporary" => instances[InstanceOf[q.creds]] = q.orig
    BY <1>4 DEF SubmitForm, TypeOK, SameRole, Request, WellFormed, NoRequest, Own, Swapping, Swapped, Holding, Connecting
  <2>3. Justified(q, contended', vouched')
    BY <1>4, <1>0, <2>1, InvJustifies DEF SubmitForm, TypeOK, Inv, Justified, RecordedMeansVouched, EntryAsExpected,
       GetCredentials, Request, WellFormed, NoRequest, Own, Swapping, Swapped, Holding, Connecting
  <2>4. RecordedMeansVouched'
    BY <1>4, <1>0, <2>1, InvJustifies DEF RecordedMeansVouched, Justified, SubmitForm
  <2> HIDE DEF q
  <2>5. EntryAsExpected'
    BY <1>0, <2>1, <2>2, QuietStep
  <2> QED
    BY <2>1, <2>3, <2>4, <2>5, JustifiedStep DEF Inv
<1>5. ASSUME NEW r \in Requests, ReadFallback(r)
      PROVE  Inv'
  <2> DEFINE q == IF instances[req[r].target] = NoCreds
                THEN NoRequest
                ELSE [req[r] EXCEPT !.pc = "inject", !.creds = instances[req[r].target]]
  <2>1. Become(r, q) /\ contended \subseteq contended' /\ vouched \subseteq vouched'
    BY <1>5 DEF ReadFallback, GetCredentials, Finish
  <2>2. /\ UNCHANGED <<instances, settled, contended>>
        /\ SameRole(req[r], q)
        /\ q.pc = "addTemporary" => instances[InstanceOf[q.creds]] = q.orig
    BY <1>5 DEF ReadFallback, TypeOK, SameRole, Request, WellFormed, NoRequest, Own, Swapping, Swapped, Holding, Connecting
  <2>3. Justified(q, contended', vouched')
    BY <1>5, <1>0, <2>1, InvJustifies DEF ReadFallback, TypeOK, Inv, Justified, RecordedMeansVouched, EntryAsExpected,
       GetCredentials, Request, WellFormed, NoRequest, Own, Swapping, Swapped, Holding, Connecting
  <2>4. RecordedMeansVouched'
    BY <1>5, <1>0, <2>1, InvJustifies DEF RecordedMeansVouched, Justified, ReadFallback
  <2> HIDE DEF q
  <2>5. EntryAsExpected'
    BY <1>0, <2>1, <2>2, QuietStep
  <2> QED
    BY <2>1, <2>3, <2>4, <2>5, JustifiedStep DEF Inv
<1>6. ASSUME NEW r \in Requests, CheckCache(r)
      PROVE  Inv'
  <2> DEFINE q == [req[r] EXCEPT !.pc = IF cache[req[r].creds] = "fresh"
                                   THEN "inject" ELSE "readOriginal"]
  <2>1. Become(r, q) /\ contended \subseteq contended' /\ vouched \subseteq vouched'
    BY <1>6 DEF CheckCache, Goto
  <2>2. /\ UNCHANGED <<instances, settled, contended>>
        /\ SameRole(req[r], q)
        /\ q.pc = "addTemporary" => instances[InstanceOf[q.creds]] = q.orig
    BY <1>6 DEF CheckCache, TypeOK, SameRole, Request, WellFormed, NoRequest, Own, Swapping, Swapped, Holding, Connecting
  <2>3. Justified(q, contended', vouched')
    BY <1>6, <1>0, <2>1, InvJustifies DEF CheckCache, TypeOK, Inv, Justified, RecordedMeansVouched, EntryAsExpected,
       GetCredentials, Request, WellFormed, NoRequest, Own, Swapping, Swapped, Holding, Connecting
  <2>4. RecordedMeansVouched'
    BY <1>6, <1>0, <2>1, InvJustifies DEF RecordedMeansVouched, Justified, CheckCache
  <2> HIDE DEF q
  <2>5. EntryAsExpected'
    BY <1>0, <2>1, <2>2, QuietStep
  <2> QED
    BY <2>1, <2>3, <2>4, <2>5, JustifiedStep DEF Inv
<1>7. ASSUME NEW r \in Requests, ReadOriginal(r)
      PROVE  Inv'
  <2> DEFINE q == [req[r] EXCEPT !.pc = "addTemporary", !.orig = instances[Own(r)]]
  <2>1. Become(r, q) /\ contended \subseteq contended' /\ vouched \subseteq vouched'
    BY <1>7 DEF ReadOriginal, GetCredentials
  <2>2. /\ UNCHANGED <<instances, settled, contended>>
        /\ SameRole(req[r], q)
        /\ q.pc = "addTemporary" => instances[InstanceOf[q.creds]] = q.orig
    BY <1>7 DEF ReadOriginal, TypeOK, SameRole, Request, WellFormed, NoRequest, Own, Swapping, Swapped, Holding, Connecting
  <2>3. Justified(q, contended', vouched')
    BY <1>7, <1>0, <2>1, InvJustifies DEF ReadOriginal, TypeOK, Inv, Justified, RecordedMeansVouched, EntryAsExpected,
       GetCredentials, Request, WellFormed, NoRequest, Own, Swapping, Swapped, Holding, Connecting
  <2>4. RecordedMeansVouched'
    BY <1>7, <1>0, <2>1, InvJustifies DEF RecordedMeansVouched, Justified, ReadOriginal
  <2> HIDE DEF q
  <2>5. EntryAsExpected'
    BY <1>0, <2>1, <2>2, QuietStep
  <2> QED
    BY <2>1, <2>3, <2>4, <2>5, JustifiedStep DEF Inv
<1>8. ASSUME NEW r \in Requests, AddTemporary(r)
      PROVE  Inv'
  <2> DEFINE q == [req[r] EXCEPT !.pc = "buildURL"]
  <2>1. Become(r, q) /\ contended \subseteq contended' /\ vouched \subseteq vouched'
    BY <1>8 DEF AddTemporary, AddInstance, Goto, Temporarily, Observe
  <2>3. Justified(q, contended', vouched')
    BY <1>8, <1>0, <2>1, InvJustifies DEF AddTemporary, TypeOK, Inv, Justified, RecordedMeansVouched, EntryAsExpected,
       GetCredentials, Request, WellFormed, NoRequest, Own, Swapping, Swapped, Holding, Connecting
  <2>4. RecordedMeansVouched'
    BY <1>8, <1>0, <2>1, InvJustifies DEF RecordedMeansVouched, Justified, AddTemporary
  <2> HIDE DEF q
  <2>5. EntryAsExpected'
    BY <1>8, <1>0, SwapInStep
  <2> QED
    BY <2>1, <2>3, <2>4, <2>5, JustifiedStep DEF Inv
<1>9. ASSUME NEW r \in Requests, BuildStateURL(r)
      PROVE  Inv'
  <2> DEFINE q == [req[r] EXCEPT !.sent = instances[Own(r)],
                           !.pc = IF instances[Own(r)] = NoCreds THEN "rejected" ELSE "await"]
  <2>1. Become(r, q) /\ contended \subseteq contended' /\ vouched \subseteq vouched'
    BY <1>9 DEF BuildStateURL, GetCredentials
  <2>2. /\ UNCHANGED <<instances, settled, contended>>
        /\ SameRole(req[r], q)
        /\ q.pc = "addTemporary" => instances[InstanceOf[q.creds]] = q.orig
    BY <1>9 DEF BuildStateURL, TypeOK, SameRole, Request, WellFormed, NoRequest, Own, Swapping, Swapped, Holding, Connecting
  <2>3. Justified(q, contended', vouched')
    BY <1>9, <1>0, <2>1, InvJustifies DEF BuildStateURL, TypeOK, Inv, Justified, RecordedMeansVouched, EntryAsExpected,
       GetCredentials, Request, WellFormed, NoRequest, Own, Swapping, Swapped, Holding, Connecting
  <2>4. RecordedMeansVouched'
    BY <1>9, <1>0, <2>1, InvJustifies DEF RecordedMeansVouched, Justified, BuildStateURL
  <2> HIDE DEF q
  <2>5. EntryAsExpected'
    BY <1>0, <2>1, <2>2, QuietStep
  <2> QED
    BY <2>1, <2>3, <2>4, <2>5, JustifiedStep DEF Inv
<1>10. ASSUME NEW r \in Requests, AnswerState(r)
      PROVE  Inv'
  <2>0. PICK p \in {"cacheResult", "accepted", "rejected"} :
          Goto(r, p) /\ (p # "rejected" => req[r].sent \in vouched')
    BY <1>10 DEF AnswerState
  <2> DEFINE q == [req[r] EXCEPT !.pc = p]
  <2>1. Become(r, q) /\ contended \subseteq contended' /\ vouched \subseteq vouched'
    BY <2>0, <1>10 DEF AnswerState, Goto
  <2>2. /\ UNCHANGED <<instances, settled, contended>>
        /\ SameRole(req[r], q)
        /\ q.pc = "addTemporary" => instances[InstanceOf[q.creds]] = q.orig
    BY <2>0, <1>10 DEF AnswerState, TypeOK, SameRole, Request, WellFormed, NoRequest, Own, Swapping, Swapped, Holding, Connecting
  <2>3. Justified(q, contended', vouched')
    BY <2>0, <1>10, <1>0, <2>1, InvJustifies DEF AnswerState, TypeOK, Inv, Justified, RecordedMeansVouched, EntryAsExpected,
       GetCredentials, Request, WellFormed, NoRequest, Own, Swapping, Swapped, Holding, Connecting
  <2>4. RecordedMeansVouched'
    BY <1>10, <1>0, <2>1, InvJustifies DEF RecordedMeansVouched, Justified, AnswerState
  <2> HIDE DEF q
  <2>5. EntryAsExpected'
    BY <1>0, <2>1, <2>2, QuietStep
  <2> QED
    BY <2>1, <2>3, <2>4, <2>5, JustifiedStep DEF Inv
<1>11. ASSUME NEW r \in Requests, CacheResult(r)
      PROVE  Inv'
  <2> DEFINE q == [req[r] EXCEPT !.pc = "accepted"]
  <2>1. Become(r, q) /\ contended \subseteq contended' /\ vouched \subseteq vouched'
    BY <1>11 DEF CacheResult, Goto
  <2>2. /\ UNCHANGED <<instances, settled, contended>>
        /\ SameRole(req[r], q)
        /\ q.pc = "addTemporary" => instances[InstanceOf[q.creds]] = q.orig
    BY <1>11 DEF CacheResult, TypeOK, SameRole, Request, WellFormed, NoRequest, Own, Swapping, Swapped, Holding, Connecting
  <2>3. Justified(q, contended', vouched')
    BY <1>11, <1>0, <2>1, InvJustifies DEF CacheResult, TypeOK, Inv, Justified, RecordedMeansVouched, EntryAsExpected,
       GetCredentials, Request, WellFormed, NoRequest, Own, Swapping, Swapped, Holding, Connecting
  <2>4. RecordedMeansVouched'
    BY <1>11, <1>0, <2>1, InvJustifies DEF RecordedMeansVouched, Justified, CacheResult, TypeOK, WellFormed, Request
  <2> HIDE DEF q
  <2>5. EntryAsExpected'
    BY <1>0, <2>1, <2>2, QuietStep
  <2> QED
    BY <2>1, <2>3, <2>4, <2>5, JustifiedStep DEF Inv
<1>12. ASSUME NEW r \in Requests, RestoreOriginal(r)
      PROVE  Inv'
  <2> DEFINE q == IF req[r].pc = "rejected"
                    THEN NoRequest
                    ELSE [req[r] EXCEPT !.pc = IF req[r].via = "form" THEN "issueCode" ELSE "inject"]
  <2>1. Become(r, q) /\ contended \subseteq contended' /\ vouched \subseteq vouched'
    BY <1>12 DEF RestoreOriginal, PutBack, AddInstance, RemoveInstance, Goto, Finish, Temporarily, Observe
  <2>3. Justified(q, contended', vouched')
    BY <1>12, <1>0, <2>1, InvJustifies DEF RestoreOriginal, TypeOK, Inv, Justified, RecordedMeansVouched, EntryAsExpected,
       GetCredentials, Request, WellFormed, NoRequest, Own, Swapping, Swapped, Holding, Connecting
  <2>4. RecordedMeansVouched'
    BY <1>12, <1>0, <2>1, InvJustifies DEF RecordedMeansVouched, Justified, RestoreOriginal
  <2> HIDE DEF q
  <2>5. EntryAsExpected'
    BY <1>12, <1>0, SwapBackStep
  <2> QED
    BY <2>1, <2>3, <2>4, <2>5, JustifiedStep DEF Inv
<1>13. ASSUME NEW r \in Requests, IssueCode(r)
      PROVE  Inv'
  <2> DEFINE q == NoRequest
  <2>1. Become(r, q) /\ contended \subseteq contended' /\ vouched \subseteq vouched'
    BY <1>13 DEF IssueCode, Finish
  <2>2. /\ UNCHANGED <<instances, settled, contended>>
        /\ SameRole(req[r], q)
        /\ q.pc = "addTemporary" => instances[InstanceOf[q.creds]] = q.orig
    BY <1>13 DEF IssueCode, TypeOK, SameRole, Request, WellFormed, NoRequest, Own, Swapping, Swapped, Holding, Connecting
  <2>3. Justified(q, contended', vouched')
    BY <1>13, <1>0, <2>1, InvJustifies DEF IssueCode, TypeOK, Inv, Justified, RecordedMeansVouched, EntryAsExpected,
       GetCredentials, Request, WellFormed, NoRequest, Own, Swapping, Swapped, Holding, Connecting
  <2>4. RecordedMeansVouched'
    BY <1>13, <1>0, <2>1, InvJustifies DEF RecordedMeansVouched, Justified, IssueCode, TypeOK, WellFormed, Request
  <2> HIDE DEF q
  <2>5. EntryAsExpected'
    BY <1>0, <2>1, <2>2, QuietStep
  <2> QED
    BY <2>1, <2>3, <2>4, <2>5, JustifiedStep DEF Inv
<1>14. ASSUME NEW r \in Requests, InjectCredentials(r)
      PROVE  Inv'
  <2> DEFINE q == [req[r] EXCEPT !.pc = IF req[r].conn = "GET" THEN "stream" ELSE "tool"]
  <2>1. Become(r, q) /\ contended \subseteq contended' /\ vouched \subseteq vouched'
    BY <1>14 DEF InjectCredentials, AddInstance, Goto, ForGood, Observe
  <2>2. /\ Own(r) \in Ids /\ req[r].creds \in Entry
        /\ instances' = [instances EXCEPT ![Own(r)] = req[r].creds]
        /\ ForGood(r, Own(r), req[r].creds)
        /\ req[r].pc \notin Swapping /\ q.pc \notin Swapping
        /\ q.pc \in Holding => InstanceOf[q.creds] = Own(r) /\ q.creds = req[r].creds
    BY <1>14 DEF InjectCredentials, AddInstance, RemoveInstance, TypeOK, Entry, Request, WellFormed, NoRequest, Own, Swapping, Swapped, Holding, Connecting
  <2>3. Justified(q, contended', vouched')
    BY <1>14, <1>0, <2>1, InvJustifies DEF InjectCredentials, TypeOK, Inv, Justified, RecordedMeansVouched, EntryAsExpected,
       GetCredentials, Request, WellFormed, NoRequest, Own, Swapping, Swapped, Holding, Connecting
  <2>4. RecordedMeansVouched'
    BY <1>14, <1>0, <2>1, InvJustifies DEF RecordedMeansVouched, Justified, InjectCredentials
  <2> HIDE DEF q
  <2>5. EntryAsExpected'
    BY <1>0, <2>1, <2>2, WriteStep
  <2> QED
    BY <2>1, <2>3, <2>4, <2>5, JustifiedStep DEF Inv
<1>15. ASSUME NEW r \in Requests, CloseStream(r)
      PROVE  Inv'
  <2> DEFINE q == NoRequest
  <2>1. Become(r, q) /\ contended \subseteq contended' /\ vouched \subseteq vouched'
    BY <1>15 DEF CloseStream, RemoveInstance, Finish, ForGood, Observe
  <2>2. /\ Own(r) \in Ids /\ NoCreds \in Entry
        /\ instances' = [instances EXCEPT ![Own(r)] = NoCreds]
        /\ ForGood(r, Own(r), NoCreds)
        /\ req[r].pc \notin Swapping /\ q.pc \notin Swapping
        /\ q.pc \in Holding => InstanceOf[q.creds] = Own(r) /\ q.creds = NoCreds
    BY <1>15 DEF CloseStream, AddInstance, RemoveInstance, TypeOK, Entry, Request, WellFormed, NoRequest, Own, Swapping, Swapped, Holding, Connecting
  <2>3. Justified(q, contended', vouched')
    BY <1>15, <1>0, <2>1, InvJustifies DEF CloseStream, TypeOK, Inv, Justified, RecordedMeansVouched, EntryAsExpected,
       GetCredentials, Request, WellFormed, NoRequest, Own, Swapping, Swapped, Holding, Connecting
  <2>4. RecordedMeansVouched'
    BY <1>15, <1>0, <2>1, InvJustifies DEF RecordedMeansVouched, Justified, CloseStream
  <2> HIDE DEF q
  <2>5. EntryAsExpected'
    BY <1>0, <2>1, <2>2, WriteStep
  <2> QED
    BY <2>1, <2>3, <2>4, <2>5, JustifiedStep DEF Inv
<1>16. ASSUME NEW r \in Requests, SkipTool(r)
      PROVE  Inv'
  <2> DEFINE q == NoRequest
  <2>1. Become(r, q) /\ contended \subseteq contended' /\ vouched \subseteq vouched'
    BY <1>16 DEF SkipTool, Finish
  <2>2. /\ UNCHANGED <<instances, settled, contended>>
        /\ SameRole(req[r], q)
        /\ q.pc = "addTemporary" => instances[InstanceOf[q.creds]] = q.orig
    BY <1>16 DEF SkipTool, TypeOK, SameRole, Request, WellFormed, NoRequest, Own, Swapping, Swapped, Holding, Connecting
  <2>3. Justified(q, contended', vouched')
    BY <1>16, <1>0, <2>1, InvJustifies DEF SkipTool, TypeOK, Inv, Justified, RecordedMeansVouched, EntryAsExpected,
       GetCredentials, Request, WellFormed, NoRequest, Own, Swapping, Swapped, Holding, Connecting
  <2>4. RecordedMeansVouched'
    BY <1>16, <1>0, <2>1, InvJustifies DEF RecordedMeansVouched, Justified, SkipTool
  <2> HIDE DEF q
  <2>5. EntryAsExpected'
    BY <1>0, <2>1, <2>2, QuietStep
  <2> QED
    BY <2>1, <2>3, <2>4, <2>5, JustifiedStep DEF Inv
<1>17. ASSUME NEW r \in Requests, NEW i \in Ids,
             CallMethod(r, i)
      PROVE  Inv'
  <2> DEFINE q == [req[r] EXCEPT !.pc = "reply", !.target = i, !.sent = instances[i]]
  <2>1. Become(r, q) /\ contended \subseteq contended' /\ vouched \subseteq vouched'
    BY <1>17 DEF CallMethod, GetCredentials
  <2>2. /\ UNCHANGED <<instances, settled, contended>>
        /\ SameRole(req[r], q)
        /\ q.pc = "addTemporary" => instances[InstanceOf[q.creds]] = q.orig
    BY <1>17 DEF CallMethod, TypeOK, SameRole, Request, WellFormed, NoRequest, Own, Swapping, Swapped, Holding, Connecting
  <2>3. Justified(q, contended', vouched')
    BY <1>17, <1>0, <2>1, InvJustifies DEF CallMethod, TypeOK, Inv, Justified, RecordedMeansVouched, EntryAsExpected,
       GetCredentials, Request, WellFormed, NoRequest, Own, Swapping, Swapped, Holding, Connecting
  <2>4. RecordedMeansVouched'
    BY <1>17, <1>0, <2>1, InvJustifies DEF RecordedMeansVouched, Justified, CallMethod
  <2> HIDE DEF q
  <2>5. EntryAsExpected'
    BY <1>0, <2>1, <2>2, QuietStep
  <2> QED
    BY <2>1, <2>3, <2>4, <2>5, JustifiedStep DEF Inv
<1>18. ASSUME NEW r \in Requests, Reply(r)
      PROVE  Inv'
  <2> DEFINE q == NoRequest
  <2>1. Become(r, q) /\ contended \subseteq contended' /\ vouched \subseteq vouched'
    BY <1>18 DEF Reply, Finish
  <2>2. /\ UNCHANGED <<instances, settled, contended>>
        /\ SameRole(req[r], q)
        /\ q.pc = "addTemporary" => instances[InstanceOf[q.creds]] = q.orig
    BY <1>18 DEF Reply, TypeOK, SameRole, Request, WellFormed, NoRequest, Own, Swapping, Swapped, Holding, Connecting
  <2>3. Justified(q, contended', vouched')
    BY <1>18, <1>0, <2>1, InvJustifies DEF Reply, TypeOK, Inv, Justified, RecordedMeansVouched, EntryAsExpected,
       GetCredentials, Request, WellFormed, NoRequest, Own, Swapping, Swapped, Holding, Connecting
  <2>4. RecordedMeansVouched'
    BY <1>18, <1>0, <2>1, InvJustifies DEF RecordedMeansVouched, Justified, Reply
  <2> HIDE DEF q
  <2>5. EntryAsExpected'
    BY <1>0, <2>1, <2>2, QuietStep
  <2> QED
    BY <2>1, <2>3, <2>4, <2>5, JustifiedStep DEF Inv
<1>19. ASSUME NEW r \in Requests, NEW c \in Creds,
             Connect(r, c)
      PROVE  Inv'
  <2> DEFINE q == [req[r] EXCEPT !.pc = "connectURL", !.target = InstanceOf[c]]
  <2>1. Become(r, q) /\ contended \subseteq contended' /\ vouched \subseteq vouched'
    BY <1>19 DEF Connect, AddInstance, ForGood, Observe
  <2>2. /\ InstanceOf[c] \in Ids /\ c \in Entry
        /\ instances' = [instances EXCEPT ![InstanceOf[c]] = c]
        /\ ForGood(r, InstanceOf[c], c)
        /\ req[r].pc \notin Swapping /\ q.pc \notin Swapping
        /\ q.pc \in Holding => InstanceOf[q.creds] = InstanceOf[c] /\ q.creds = c
    BY <1>19 DEF Connect, AddInstance, RemoveInstance, TypeOK, Entry, Request, WellFormed, NoRequest, Own, Swapping, Swapped, Holding, Connecting
  <2>3. Justified(q, contended', vouched')
    BY <1>19, <1>0, <2>1, InvJustifies DEF Connect, TypeOK, Inv, Justified, RecordedMeansVouched, EntryAsExpected,
       GetCredentials, Request, WellFormed, NoRequest, Own, Swapping, Swapped, Holding, Connecting
  <2>4. RecordedMeansVouched'
    BY <1>19, <1>0, <2>1, InvJustifies DEF RecordedMeansVouched, Justified, Connect
  <2> HIDE DEF q
  <2>5. EntryAsExpected'
    BY <1>0, <2>1, <2>2, WriteStep
  <2> QED
    BY <2>1, <2>3, <2>4, <2>5, JustifiedStep DEF Inv
<1>20. ASSUME NEW r \in Requests, ConnectURL(r)
      PROVE  Inv'
  <2> DEFINE q == [req[r] EXCEPT !.pc = "connectAwait", !.sent = instances[req[r].target]]
  <2>1. Become(r, q) /\ contended \subseteq contended' /\ vouched \subseteq vouched'
    BY <1>20 DEF ConnectURL, GetCredentials
  <2>2. /\ UNCHANGED <<instances, settled, contended>>
        /\ SameRole(req[r], q)
        /\ q.pc = "addTemporary" => instances[InstanceOf[q.creds]] = q.orig
    BY <1>20 DEF ConnectURL, TypeOK, SameRole, Request, WellFormed, NoRequest, Own, Swapping, Swapped, Holding, Connecting
  <2>3. Justified(q, contended', vouched')
    BY <1>20, <1>0, <2>1, InvJustifies DEF ConnectURL, TypeOK, Inv, Justified, RecordedMeansVouched, EntryAsExpected,
       GetCredentials, Request, WellFormed, NoRequest, Own, Swapping, Swapped, Holding, Connecting
  <2>4. RecordedMeansVouched'
    BY <1>20, <1>0, <2>1, InvJustifies DEF RecordedMeansVouched, Justified, ConnectURL
  <2> HIDE DEF q
  <2>5. EntryAsExpected'
    BY <1>0, <2>1, <2>2, QuietStep
  <2> QED
    BY <2>1, <2>3, <2>4, <2>5, JustifiedStep DEF Inv
<1>21. ASSUME NEW r \in Requests, ConnectAnswer(r)
      PROVE  Inv'
  <2>1. Become(r, NoRequest) /\ contended \subseteq contended' /\ vouched \subseteq vouched'
    BY <1>21 DEF ConnectAnswer, RemoveInstance, Finish, ForGood, Observe
  <2>2. NoRequest.pc = "idle"
    BY DEF NoRequest
  <2>3. EntryAsExpected'
    <3>1. CASE UNCHANGED <<instances, settled, contended>>
      <4>1. req[r].pc \notin Swapping
        BY <1>21 DEF ConnectAnswer, Swapping
      <4> QED
        BY <1>0, <2>1, <2>2, <3>1, <4>1, QuietStep DEF SameRole, Swapping, Swapped, Holding
    <3>2. CASE RemoveInstance(req[r].target) /\ ForGood(r, req[r].target, NoCreds)
      <4>1. req[r].target \in Ids /\ req[r].pc \notin Swapping /\ NoCreds \in Entry
        BY <1>21 DEF ConnectAnswer, TypeOK, WellFormed, Connecting, Swapping, Entry
      <4> DEFINE t == req[r].target
      <4>2. instances' = [instances EXCEPT ![t] = NoCreds] /\ ForGood(r, t, NoCreds)
        BY <3>2 DEF RemoveInstance
      <4> HIDE DEF t
      <4>3. t \in Ids
        BY <4>1 DEF t
      <4> QED
        BY <1>0, <2>1, <2>2, <4>1, <4>2, <4>3, WriteStep DEF Swapping, Holding
    <3> QED
      BY <1>21, <3>1, <3>2 DEF ConnectAnswer
  <2>4. Justified(NoRequest, contended', vouched')
    BY <2>2 DEF Justified
  <2>5. RecordedMeansVouched'
    BY <1>21, <1>0, <2>1 DEF RecordedMeansVouched, ConnectAnswer
  <2> QED
    BY <2>1, <2>3, <2>4, <2>5, JustifiedStep DEF Inv
<1>22. ASSUME NEW r \in Requests, NEW i \in Ids,
             Disconnect(r, i)
      PROVE  Inv'
  <2> DEFINE q == NoRequest
  <2>1. Become(r, q) /\ contended \subseteq contended' /\ vouched \subseteq vouched'
    BY <1>22 DEF Disconnect, RemoveInstance, Finish, ForGood, Observe
  <2>2. /\ i \in Ids /\ NoCreds \in Entry
        /\ instances' = [instances EXCEPT ![i] = NoCreds]
        /\ ForGood(r, i, NoCreds)
        /\ req[r].pc \notin Swapping /\ q.pc \notin Swapping
        /\ q.pc \in Holding => InstanceOf[q.creds] = i /\ q.creds = NoCreds
    BY <1>22 DEF Disconnect, AddInstance, RemoveInstance, TypeOK, Entry, Request, WellFormed, NoRequest, Own, Swapping, Swapped, Holding, Connecting
  <2>3. Justified(q, contended', vouched')
    BY <1>22, <1>0, <2>1, InvJustifies DEF Disconnect, TypeOK, Inv, Justified, RecordedMeansVouched, EntryAsExpected,
       GetCredentials, Request, WellFormed, NoRequest, Own, Swapping, Swapped, Holding, Connecting
  <2>4. RecordedMeansVouched'
    BY <1>22, <1>0, <2>1, InvJustifies DEF RecordedMeansVouched, Justified, Disconnect
  <2> HIDE DEF q
  <2>5. EntryAsExpected'
    BY <1>0, <2>1, <2>2, WriteStep
  <2> QED
    BY <2>1, <2>3, <2>4, <2>5, JustifiedStep DEF Inv
<1>23. ASSUME NEW c \in Creds, Expire(c)
      PROVE  Inv'
  BY <1>23 DEF Expire, TypeOK, Inv, EntryAsExpected, VerdictAsExpected, RecordedMeansVouched, OnlyVouchedPass, CallsUseOwnCredentials, Own
<1>24. CASE CleanExpiredCache
  BY <1>24 DEF CleanExpiredCache, Inv, EntryAsExpected, VerdictAsExpected, RecordedMeansVouched, OnlyVouchedPass, CallsUseOwnCredentials, Own
<1>25. CASE UNCHANGED vars
  BY <1>25 DEF vars, Inv, EntryAsExpected, VerdictAsExpected, RecordedMeansVouched, OnlyVouchedPass, CallsUseOwnCredentials, Own
<1>26. ASSUME NEW r \in Requests, Arrive(r)
       PROVE  Inv'
  BY <1>1, <1>2, <1>3, <1>4, <1>26 DEF Arrive
<1>27. ASSUME NEW r \in Requests, Validate(r)
       PROVE  Inv'
  BY <1>6, <1>7, <1>8, <1>9, <1>10, <1>11, <1>12, <1>27 DEF Validate
<1>28. ASSUME NEW r \in Requests, CallTool(r)
       PROVE  Inv'
  BY <1>16, <1>17, <1>18, <1>19, <1>20, <1>21, <1>22, <1>28 DEF CallTool
<1>29. ASSUME NEW r \in Requests, Serve(r)
       PROVE  Inv'
  BY <1>5, <1>13, <1>14, <1>27, <1>28, <1>29 DEF Serve
<1>30. QED
  BY <1>15, <1>23, <1>24, <1>25, <1>26, <1>29 DEF Next

-----------------------------------------------------------------------------
(* The theorems.                                                           *)

\* The strengthened invariant holds in every state.
THEOREM InvHolds == Spec => []Inv
<1>1. TypeOK /\ Inv /\ [Next]_vars => TypeOK' /\ Inv'
  BY StepTyped, StepInv
<1> QED
  BY <1>1, InitTyped, InitInv, PTL DEF Spec

\* However many requests share the store: on an uncontended instance, one whose
\* entry nobody changed under a user, the swap of ValidateCredentials and of the
\* OAuth form's validateCredentials is undone completely.
THEOREM SwapIsUndone == Spec => []SwapLeavesNoTrace
<1>1. Inv => SwapLeavesNoTrace
  BY DEF Inv, EntryAsExpected, SwapLeavesNoTrace
<1> QED
  BY <1>1, InvHolds, PTL

\* On an uncontended instance a cache entry or a bearer token always stands for a
\* success of getStateInstance with those very credentials.
THEOREM RecordsAreVouched == Spec => []RecordedMeansVouched
<1>1. Inv => RecordedMeansVouched
  BY DEF Inv
<1> QED
  BY <1>1, InvHolds, PTL

\* On an uncontended instance ProxyAuthMiddleware lets nobody in on headers or a
\* token whose credentials the API has not accepted.  With overlaps, and through
\* the configuration door, it may.
THEOREM MiddlewareAdmitsVouched == Spec => []OnlyVouchedPass
<1>1. Inv => OnlyVouchedPass
  BY DEF Inv
<1> QED
  BY <1>1, InvHolds, PTL

\* On an uncontended instance a tool call is sent under the caller's credentials:
\* what injectCredentials registered is what buildURL reads.
THEOREM CallsAreOwn == Spec => []CallsUseOwnCredentials
<1>1. Inv => CallsUseOwnCredentials
  BY DEF Inv
<1> QED
  BY <1>1, InvHolds, PTL

-----------------------------------------------------------------------------
(* What no overlap can take away: the instance of a verdict.               *)

\* What VerdictOfInstance and InstanceWasVouched ask of one request, V being
\* the vouched credentials.
Sponsored(q, V) ==
  /\ q.pc = "await" => q.sent # NoCreds /\ InstanceOf[q.sent] = InstanceOf[q.creds]
  /\ \/ q.pc \in {"cacheResult", "accepted", "issueCode"}
     \/ /\ q.via \in {"header", "bearer"}
        /\ q.pc \in {"inject", "reply"} \cup Holding \cup Connecting
     => \E g \in V : InstanceOf[g] = InstanceOf[q.creds]

\* The same of the cache and of the tokens.
RecordsSponsored(C, G, V) ==
  \A c \in Creds : C[c] # "absent" \/ c \in G => \E g \in V : InstanceOf[g] = InstanceOf[c]

\* The invariant is this of every request and of the records.
LEMMA InstanceInvMeans ==
  InstanceInv <=> /\ \A r \in Requests : Sponsored(req[r], vouched)
                  /\ RecordsSponsored(cache, granted, vouched)
  BY DEF InstanceInv, VerdictOfInstance, InstanceWasVouched, InstanceVouched, Sponsored,
         RecordsSponsored, Own

\* A step that gives one request a record with a sponsor keeps the invariant.
LEMMA SponsoredStep ==
  ASSUME TypeOK, InstanceInv, NEW r \in Requests, NEW q, Become(r, q),
         vouched \subseteq vouched', Sponsored(q, vouched'),
         RecordsSponsored(cache', granted', vouched)
  PROVE  InstanceInv'
<1>1. \A s \in Requests : Sponsored(req'[s], vouched')
  BY BecomeMeans, InstanceInvMeans DEF TypeOK, RequestsTyped, Sponsored
<1>2. RecordsSponsored(cache', granted', vouched')
  BY DEF RecordsSponsored
<1> QED
  BY <1>1, <1>2 DEF InstanceInv, VerdictOfInstance, InstanceWasVouched, InstanceVouched,
                    Sponsored, RecordsSponsored, Own

\* A validation takes its verdict from an entry of its own instance.
LEMMA ValidateSponsored ==
  ASSUME TypeOK, InstanceInv, NEW r \in Requests, Validate(r)
  PROVE  InstanceInv'
<1>0. /\ req \in [Requests -> Request] /\ req[r] \in Request /\ WellFormed(req[r])
      /\ Sponsored(req[r], vouched) /\ RecordsSponsored(cache, granted, vouched)
  BY InstanceInvMeans DEF TypeOK
<1>1. CASE CheckCache(r)
  <2> DEFINE q == [req[r] EXCEPT !.pc = IF cache[req[r].creds] = "fresh"
                                   THEN "inject" ELSE "readOriginal"]
  <2>1. Become(r, q) /\ UNCHANGED <<cache, granted, vouched>> /\ req[r].creds \in Creds
    BY <1>0, <1>1 DEF CheckCache, Goto, histVars, WellFormed
  <2>2. Sponsored(q, vouched)
    BY <1>0, <2>1 DEF Request, Sponsored, RecordsSponsored, Holding, Connecting
  <2> HIDE DEF q
  <2> QED
    BY <1>0, <2>1, <2>2, SponsoredStep
<1>2. CASE ReadOriginal(r)
  <2> DEFINE q == [req[r] EXCEPT !.pc = "addTemporary", !.orig = GetCredentials(Own(r))]
  <2>1. Become(r, q) /\ UNCHANGED <<cache, granted, vouched>>
    BY <1>2 DEF ReadOriginal, histVars
  <2>2. Sponsored(q, vouched)
    BY <1>0 DEF Request, Sponsored, Holding, Connecting
  <2> HIDE DEF q
  <2> QED
    BY <1>0, <2>1, <2>2, SponsoredStep
<1>3. CASE AddTemporary(r)
  <2> DEFINE q == [req[r] EXCEPT !.pc = "buildURL"]
  <2>1. Become(r, q) /\ UNCHANGED <<cache, granted, vouched>>
    BY <1>3 DEF AddTemporary, Goto
  <2>2. Sponsored(q, vouched)
    BY <1>0 DEF Request, Sponsored, Holding, Connecting
  <2> HIDE DEF q
  <2> QED
    BY <1>0, <2>1, <2>2, SponsoredStep
<1>4. CASE BuildStateURL(r)
  <2> DEFINE c == instances[Own(r)]
             q == [req[r] EXCEPT !.sent = c, !.pc = IF c = NoCreds THEN "rejected" ELSE "await"]
  <2>1. Become(r, q) /\ UNCHANGED <<cache, granted, vouched>>
    BY <1>4 DEF BuildStateURL, GetCredentials, histVars
  <2>2. Own(r) \in Ids
    BY <1>0, <1>4 DEF BuildStateURL, WellFormed, Own
  <2>3. c # NoCreds => InstanceOf[c] = Own(r)
    BY <2>2 DEF TypeOK, StoreType
  <2> HIDE DEF c
  <2>4. Sponsored(q, vouched)
    BY <1>0, <2>3 DEF Request, Sponsored, Holding, Connecting, Own
  <2> HIDE DEF q
  <2> QED
    BY <1>0, <2>1, <2>4, SponsoredStep
<1>5. CASE AnswerState(r)
  <2>1. CASE Goto(r, "rejected") /\ UNCHANGED vouched
    <3> DEFINE q == [req[r] EXCEPT !.pc = "rejected"]
    <3>1. Become(r, q) /\ UNCHANGED <<cache, granted, vouched>>
      BY <1>5, <2>1 DEF AnswerState, Goto
    <3>2. Sponsored(q, vouched)
      BY <1>0 DEF Request, Sponsored, Holding, Connecting
    <3> HIDE DEF q
    <3> QED
      BY <1>0, <3>1, <3>2, SponsoredStep
  <2>2. CASE ~(Goto(r, "rejected") /\ UNCHANGED vouched)
    <3>1. PICK p \in {"accepted", "cacheResult"} : Goto(r, p)
      BY <1>5, <2>2 DEF AnswerState
    <3> DEFINE q == [req[r] EXCEPT !.pc = p]
    <3>2. Become(r, q) /\ UNCHANGED <<cache, granted>> /\ vouched' = vouched \cup {req[r].sent}
      BY <1>5, <2>2, <3>1 DEF AnswerState, Goto
    <3>3. InstanceOf[req[r].sent] = InstanceOf[req[r].creds]
      BY <1>0, <1>5 DEF AnswerState, Sponsored
    <3>4. Sponsored(q, vouched')
      BY <1>0, <3>2, <3>3 DEF Request, Sponsored, Holding, Connecting
    <3> HIDE DEF q
    <3> QED
      BY <1>0, <3>2, <3>4, SponsoredStep
  <2> QED
    BY <2>1, <2>2
<1>6. CASE CacheResult(r)
  <2> DEFINE q == [req[r] EXCEPT !.pc = "accepted"]
  <2>1. /\ Become(r, q) /\ UNCHANGED <<granted, vouched>> /\ req[r].pc = "cacheResult"
        /\ cache' = [cache EXCEPT ![req[r].creds] = "fresh"]
    BY <1>6 DEF CacheResult, Goto, histVars
  <2>2. Sponsored(q, vouched)
    BY <1>0, <2>1 DEF Request, Sponsored, Holding, Connecting
  <2>3. RecordsSponsored(cache', granted', vouched)
    BY <1>0, <2>1 DEF Sponsored, RecordsSponsored, TypeOK
  <2> HIDE DEF q
  <2> QED
    BY <2>1, <2>2, <2>3, SponsoredStep
<1>7. CASE RestoreOriginal(r)
  <2> DEFINE q == IF req[r].pc = "rejected"
                    THEN NoRequest
                    ELSE [req[r] EXCEPT !.pc = IF req[r].via = "form" THEN "issueCode" ELSE "inject"]
  <2>1. Become(r, q) /\ UNCHANGED <<cache, granted, vouched>>
    BY <1>7 DEF RestoreOriginal, Goto, Finish
  <2>2. Sponsored(q, vouched)
    BY <1>0, <1>7 DEF RestoreOriginal, NoRequest, Request, Sponsored, Holding, Connecting
  <2> HIDE DEF q
  <2> QED
    BY <1>0, <2>1, <2>2, SponsoredStep
<1> QED
  BY <1>1, <1>2, <1>3, <1>4, <1>5, <1>6, <1>7 DEF Validate

\* A tool runs under the credentials that were let in.
LEMMA CallToolSponsored ==
  ASSUME TypeOK, InstanceInv, NEW r \in Requests, CallTool(r)
  PROVE  InstanceInv'
<1>0. /\ req \in [Requests -> Request] /\ req[r] \in Request
      /\ Sponsored(req[r], vouched) /\ RecordsSponsored(cache, granted, vouched)
  BY InstanceInvMeans DEF TypeOK
<1>1. CASE SkipTool(r) \/ Reply(r) \/ ConnectAnswer(r) \/ \E i \in Ids : Disconnect(r, i)
  <2>1. Become(r, NoRequest) /\ UNCHANGED <<cache, granted>> /\ vouched \subseteq vouched'
    BY <1>1 DEF SkipTool, Reply, ConnectAnswer, Disconnect, Finish, histVars
  <2>2. Sponsored(NoRequest, vouched')
    BY DEF NoRequest, Sponsored, Holding, Connecting
  <2> QED
    BY <1>0, <2>1, <2>2, SponsoredStep
<1>2. CASE \/ \E i \in Ids : CallMethod(r, i)
           \/ ConnectURL(r) \/ \E c \in Creds : Connect(r, c)
  <2> DEFINE Fits(q) == /\ Become(r, q) /\ UNCHANGED <<cache, granted, vouched>>
                        /\ req[r].pc \in Holding \cup Connecting
                        /\ q.pc \in {"reply"} \cup Connecting
                        /\ q.via = req[r].via /\ q.creds = req[r].creds
  <2>1. PICK q \in Request : Fits(q)
    <3>1. ASSUME NEW i \in Ids, CallMethod(r, i)
          PROVE  \E q \in Request : Fits(q)
      <4> DEFINE q == [req[r] EXCEPT !.pc = "reply", !.target = i, !.sent = GetCredentials(i)]
      <4>1. q \in Request
        BY <1>0, StageFacts DEF Request, GetCredentials, TypeOK, StoreType
      <4> QED
        BY <1>0, <3>1, <4>1 DEF CallMethod, histVars, Holding, Request
    <3>2. ASSUME NEW c \in Creds, Connect(r, c)
          PROVE  \E q \in Request : Fits(q)
      <4> DEFINE q == [req[r] EXCEPT !.pc = "connectURL", !.target = InstanceOf[c]]
      <4>1. q \in Request
        BY <1>0, StageFacts DEF Request
      <4> QED
        BY <1>0, <3>2, <4>1 DEF Connect, Holding, Connecting, Request
    <3>3. ASSUME ConnectURL(r)
          PROVE  \E q \in Request : Fits(q)
      <4> DEFINE q == [req[r] EXCEPT !.pc = "connectAwait", !.sent = GetCredentials(req[r].target)]
      <4>1. req[r].target \in Ids
        BY <3>3 DEF ConnectURL, TypeOK, WellFormed, Connecting
      <4>2. q \in Request
        BY <1>0, <4>1, StageFacts DEF Request, GetCredentials, TypeOK, StoreType
      <4> QED
        BY <1>0, <3>3, <4>2 DEF ConnectURL, histVars, Connecting, Request
    <3> QED
      BY <1>2, <3>1, <3>2, <3>3
  <2>2. Sponsored(q, vouched)
    BY <1>0, <2>1 DEF Sponsored, Connecting
  <2> QED
    BY <1>0, <2>1, <2>2, SponsoredStep
<1> QED
  BY <1>1, <1>2 DEF CallTool

\* Every step of the gateway keeps the sponsors.
LEMMA InstanceStep == TypeOK /\ InstanceInv /\ [Next]_vars => InstanceInv'
<1> SUFFICES ASSUME TypeOK, InstanceInv, [Next]_vars PROVE InstanceInv'
  OBVIOUS
<1>0. /\ req \in [Requests -> Request] /\ RecordsSponsored(cache, granted, vouched)
      /\ \A r \in Requests : req[r] \in Request /\ Sponsored(req[r], vouched)
  BY InstanceInvMeans DEF TypeOK
<1>1. ASSUME NEW r \in Requests, Arrive(r) PROVE InstanceInv'
  <2> DEFINE Fits(q) == /\ Become(r, q) /\ UNCHANGED <<cache, granted, vouched>>
                        /\ q.pc \in {"checkCache", "inject", "fallback", "readOriginal"}
                        /\ q.pc = "inject" => q.creds \in granted
  <2>1. \E q : Fits(q)
    <3>1. ASSUME NEW c \in Creds, NEW conn, ExtractCredentialsFromRequest(r, c, conn)
          PROVE  Fits([NoRequest EXCEPT !.pc = "checkCache", !.via = "header",
                                        !.conn = conn, !.creds = c])
      BY <3>1 DEF ExtractCredentialsFromRequest, histVars, NoRequest
    <3>2. ASSUME NEW c \in Creds, NEW conn, LookupToken(r, c, conn)
          PROVE  Fits([NoRequest EXCEPT !.pc = "inject", !.via = "bearer",
                                        !.conn = conn, !.creds = c])
      BY <3>2 DEF LookupToken, histVars, NoRequest
    <3>3. ASSUME NEW i \in Ids, NEW conn, ChooseFallback(r, i, conn)
          PROVE  Fits([NoRequest EXCEPT !.pc = "fallback", !.via = "config",
                                        !.conn = conn, !.target = i])
      BY <3>3 DEF ChooseFallback, histVars, NoRequest
    <3>4. ASSUME NEW c \in Creds, SubmitForm(r, c)
          PROVE  Fits([NoRequest EXCEPT !.pc = "readOriginal", !.via = "form", !.creds = c])
      BY <3>4 DEF SubmitForm, histVars, NoRequest
    <3> HIDE DEF Fits
    <3> QED
      BY <1>1, <3>1, <3>2, <3>3, <3>4 DEF Arrive
  <2>2. PICK q : Fits(q)
    BY <2>1
  <2>3. Sponsored(q, vouched)
    BY <1>0, <2>2 DEF Sponsored, RecordsSponsored, Holding, Connecting, TypeOK
  <2> QED
    BY <1>0, <2>2, <2>3, SponsoredStep
<1>2. ASSUME NEW r \in Requests, ReadFallback(r) PROVE InstanceInv'
  <2> DEFINE c == GetCredentials(req[r].target)
             q == IF c = NoCreds THEN NoRequest ELSE [req[r] EXCEPT !.pc = "inject", !.creds = c]
  <2>1. Become(r, q) /\ UNCHANGED <<cache, granted, vouched>> /\ req[r].via = "config"
    BY <1>2 DEF ReadFallback, Finish, histVars, TypeOK, WellFormed
  <2> HIDE DEF c
  <2>2. Sponsored(q, vouched)
    BY <1>0, <2>1 DEF Request, NoRequest, Sponsored, Holding, Connecting
  <2> HIDE DEF q
  <2> QED
    BY <1>0, <2>1, <2>2, SponsoredStep
<1>3. ASSUME NEW r \in Requests, IssueCode(r) \/ CloseStream(r) PROVE InstanceInv'
  <2>1. /\ Become(r, NoRequest) /\ UNCHANGED <<cache, vouched>>
        /\ granted' \subseteq granted \cup {req[r].creds}
        /\ IssueCode(r) \/ UNCHANGED granted
    BY <1>3 DEF IssueCode, CloseStream, Finish, histVars
  <2>2. Sponsored(NoRequest, vouched)
    BY DEF NoRequest, Sponsored, Holding, Connecting
  <2>3. RecordsSponsored(cache', granted', vouched)
    BY <1>0, <2>1 DEF IssueCode, Sponsored, RecordsSponsored
  <2> QED
    BY <2>1, <2>2, <2>3, SponsoredStep
<1>4. ASSUME NEW r \in Requests, InjectCredentials(r) PROVE InstanceInv'
  <2> DEFINE q == [req[r] EXCEPT !.pc = IF req[r].conn = "GET" THEN "stream" ELSE "tool"]
  <2>1. Become(r, q) /\ UNCHANGED <<cache, granted, vouched>> /\ req[r].pc = "inject"
    BY <1>4 DEF InjectCredentials, Goto
  <2>2. Sponsored(q, vouched)
    BY <1>0, <2>1 DEF Request, Sponsored, Holding, Connecting
  <2> HIDE DEF q
  <2> QED
    BY <1>0, <2>1, <2>2, SponsoredStep
<1>5. ASSUME NEW r \in Requests, Serve(r) PROVE InstanceInv'
  BY <1>2, <1>3, <1>4, <1>5, ValidateSponsored, CallToolSponsored DEF Serve
<1>6. CASE CleanExpiredCache \/ \E c \in Creds : Expire(c)
  <2>1. /\ UNCHANGED <<req, granted, vouched>>
        /\ \A c \in Creds : cache'[c] # "absent" => cache[c] # "absent"
    BY <1>6 DEF CleanExpiredCache, Expire, histVars, TypeOK
  <2> QED
    BY <2>1 DEF InstanceInv, VerdictOfInstance, InstanceWasVouched, InstanceVouched, Own
<1>7. CASE UNCHANGED vars
  BY <1>7 DEF vars, InstanceInv, VerdictOfInstance, InstanceWasVouched, InstanceVouched, Own
<1> QED
  BY <1>1, <1>3, <1>5, <1>6, <1>7 DEF Next

\* However requests overlap on the entry of an instance: nobody passes
\* ProxyAuthMiddleware with credentials or a token, and nothing is cached or
\* granted, for an instance of which the API never accepted any credentials.
THEOREM InstancesAreVouched == Spec => []InstanceWasVouched
<1>1. Init => InstanceInv
  BY DEF Init, NoRequest, InstanceInv, VerdictOfInstance, InstanceWasVouched, Holding, Connecting
<1>2. TypeOK /\ InstanceInv /\ [Next]_vars => InstanceInv'
  BY InstanceStep
<1>3. InstanceInv => InstanceWasVouched
  BY DEF InstanceInv
<1> QED
  BY <1>1, <1>2, <1>3, TypeCorrect, PTL DEF Spec

-----------------------------------------------------------------------------
(* No request goes back.                                                   *)

\* The stages in the order of StepsLeft.
LEMMA StageOrder ==
  /\ StepsLeft("idle") = 0
  /\ \A s \in {"reply", "stream", "connectAwait", "rejected", "issueCode"} : StepsLeft(s) = 1
  /\ StepsLeft("connectURL") = 2 /\ StepsLeft("tool") = 3 /\ StepsLeft("inject") = 4
  /\ StepsLeft("fallback") = 5 /\ StepsLeft("accepted") = 5 /\ StepsLeft("cacheResult") = 6
  /\ StepsLeft("await") = 7 /\ StepsLeft("buildURL") = 8 /\ StepsLeft("addTemporary") = 9
  /\ StepsLeft("readOriginal") = 10 /\ StepsLeft("checkCache") = 11
BY DEF StepsLeft

\* Request r has come nearer to its answer, and no other request has moved.
Nearer(r) ==
  /\ StepsLeft(req'[r].pc) < StepsLeft(req[r].pc)
  /\ \A s \in Requests \ {r} : req'[s] = req[s]

\* A request that changes its stage for a later one comes nearer.
LEMMA GotoNearer ==
  ASSUME TypeOK, NEW r \in Requests, NEW s \in Stage, Goto(r, s),
         StepsLeft(s) < StepsLeft(req[r].pc)
  PROVE  Nearer(r)
<1>1. req \in [Requests -> Request] /\ req[r] \in Request
  BY DEF TypeOK
<1>2. req'[r] = [req[r] EXCEPT !.pc = s] /\ \A t \in Requests \ {r} : req'[t] = req[t]
  BY <1>1 DEF Goto, Become
<1>3. req'[r].pc = s
  BY <1>1, <1>2 DEF Request
<1> QED
  BY <1>2, <1>3 DEF Nearer

\* So does one that is finished.
LEMMA FinishNearer ==
  ASSUME TypeOK, NEW r \in Requests, Finish(r), req[r].pc \in Stage \ {"idle"},
         StepsLeft(req[r].pc) > 0
  PROVE  Nearer(r)
BY StageOrder DEF TypeOK, Finish, Become, NoRequest, Nearer

\* Validation goes through its steps once.
LEMMA ValidateAdvances ==
  ASSUME TypeOK, NEW r \in Requests, Validate(r)
  PROVE  Nearer(r)
<1> USE StageOrder, StageFacts
<1>0. req \in [Requests -> Request] /\ req[r] \in Request
  BY DEF TypeOK
<1>1. CASE CheckCache(r)
  BY <1>1, GotoNearer DEF CheckCache
<1>2. CASE ReadOriginal(r)
  BY <1>0, <1>2 DEF ReadOriginal, Become, Request, Nearer
<1>3. CASE AddTemporary(r)
  BY <1>3, GotoNearer DEF AddTemporary
<1>4. CASE BuildStateURL(r)
  BY <1>0, <1>4 DEF BuildStateURL, Become, Request, Nearer
<1>5. CASE AnswerState(r)
  BY <1>5, GotoNearer DEF AnswerState
<1>6. CASE CacheResult(r)
  BY <1>6, GotoNearer DEF CacheResult
<1>7. CASE RestoreOriginal(r)
  BY <1>7, GotoNearer, FinishNearer DEF RestoreOriginal
<1> QED
  BY <1>1, <1>2, <1>3, <1>4, <1>5, <1>6, <1>7 DEF Validate

\* A tool is called once.
LEMMA CallToolAdvances ==
  ASSUME TypeOK, NEW r \in Requests, CallTool(r)
  PROVE  Nearer(r)
<1> USE StageOrder, StageFacts
<1>0. req \in [Requests -> Request] /\ req[r] \in Request
  BY DEF TypeOK
<1>1. CASE SkipTool(r) \/ Reply(r) \/ ConnectAnswer(r) \/ \E i \in Ids : Disconnect(r, i)
  BY <1>1, FinishNearer DEF SkipTool, Reply, ConnectAnswer, Disconnect
<1>2. ASSUME NEW i \in Ids, CallMethod(r, i) PROVE Nearer(r)
  BY <1>0, <1>2 DEF CallMethod, Become, Request, Nearer
<1>3. ASSUME NEW c \in Creds, Connect(r, c) PROVE Nearer(r)
  BY <1>0, <1>3 DEF Connect, Become, Request, Nearer
<1>4. CASE ConnectURL(r)
  BY <1>0, <1>4 DEF ConnectURL, Become, Request, Nearer
<1> QED
  BY <1>1, <1>2, <1>3, <1>4 DEF CallTool

\* Every step of a request that has come in brings it nearer.
LEMMA StepAdvances ==
  ASSUME TypeOK, NEW r \in Requests, Serve(r) \/ CloseStream(r)
  PROVE  Nearer(r)
<1> USE StageOrder, StageFacts
<1>0. req \in [Requests -> Request] /\ req[r] \in Request
  BY DEF TypeOK
<1>1. CASE ReadFallback(r)
  <2>1. CASE Finish(r)
    BY <1>1, <2>1, FinishNearer DEF ReadFallback
  <2>2. CASE ~Finish(r)
    <3>1. PICK c : Become(r, [req[r] EXCEPT !.pc = "inject", !.creds = c])
      BY <1>1, <2>2 DEF ReadFallback
    <3>2. req'[r].pc = "inject" /\ req[r].pc = "fallback" /\ \A s \in Requests \ {r} : req'[s] = req[s]
      BY <1>0, <1>1, <3>1 DEF ReadFallback, Become, Request
    <3> QED
      BY <3>2 DEF Nearer
  <2> QED
    BY <2>1, <2>2
<1>2. CASE IssueCode(r) \/ CloseStream(r)
  BY <1>2, FinishNearer DEF IssueCode, CloseStream
<1>3. CASE InjectCredentials(r)
  BY <1>3, GotoNearer DEF InjectCredentials
<1> QED
  BY <1>1, <1>2, <1>3, ValidateAdvances, CallToolAdvances DEF Serve

\* The part of EveryRequestAnswered that needs no fairness: a request is never
\* sent back, so it is answered after at most eleven steps of its own.
THEOREM NoRequestGoesBack == Spec => RequestsAdvance
<1> DEFINE Advance ==
      \A r \in Requests :
        /\ Serve(r) => req'[r] # req[r]
        /\ req'[r] # req[r] /\ req[r].pc # "idle"
             => StepsLeft(req'[r].pc) < StepsLeft(req[r].pc)
<1>1. ASSUME TypeOK, Next PROVE Advance
  <2> SUFFICES ASSUME NEW r \in Requests
      PROVE  /\ Serve(r) => req'[r] # req[r]
             /\ req'[r] # req[r] /\ req[r].pc # "idle"
                  => StepsLeft(req'[r].pc) < StepsLeft(req[r].pc)
    OBVIOUS
  <2>0. req \in [Requests -> Request] /\ \A s \in Requests : req[s].pc \in Stage
    BY <1>1 DEF TypeOK, Request
  <2>1. \A s \in Stage : StepsLeft(s) \in Nat
    BY DEF StepsLeft
  <2>2. Serve(r) => req'[r] # req[r]
    <3>1. Serve(r) => StepsLeft(req'[r].pc) < StepsLeft(req[r].pc)
      BY <1>1, StepAdvances DEF Nearer
    <3>2. ~(StepsLeft(req[r].pc) < StepsLeft(req[r].pc))
      BY <2>0, <2>1
    <3> QED
      BY <3>1, <3>2
  <2>3. ASSUME req'[r] # req[r], req[r].pc # "idle"
        PROVE  StepsLeft(req'[r].pc) < StepsLeft(req[r].pc)
    <3>1. ASSUME NEW s \in Requests, Serve(s) \/ CloseStream(s)
          PROVE  StepsLeft(req'[r].pc) < StepsLeft(req[r].pc)
      BY <1>1, <2>3, <3>1, StepAdvances DEF Nearer
    <3>2. ASSUME NEW s \in Requests, Arrive(s) PROVE FALSE
      <4>1. req[s].pc = "idle" /\ \E q : Become(s, q)
        BY <3>2 DEF Arrive, ExtractCredentialsFromRequest, LookupToken, ChooseFallback, SubmitForm
      <4> QED
        BY <2>0, <2>3, <4>1 DEF Become
    <3>3. CASE CleanExpiredCache \/ \E c \in Creds : Expire(c)
      BY <2>3, <3>3 DEF CleanExpiredCache, Expire
    <3> QED
      BY <1>1, <3>1, <3>2, <3>3 DEF Next
  <2> QED
    BY <2>2, <2>3
<1>2. TypeOK /\ [Next]_vars => [Advance]_vars
  BY <1>1
<1> QED
  BY <1>2, TypeCorrect, PTL DEF Spec, RequestsAdvance

=============================================================================
