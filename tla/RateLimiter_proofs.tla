------------------------- MODULE RateLimiter_proofs -------------------------
(***************************************************************************)
(* Theorems about RateLimiter: its types, the budget of every instance,    *)
(* that a quiet instance is never refused, and that a refused caller is    *)
(* told to wait, for any number of callers, any rate and any burst.        *)
(***************************************************************************)
EXTENDS RateLimiter, FiniteSetTheorems, TLAPS

\* The capacity of a bucket is a natural number.
LEMMA FullNat == Full \in Nat
BY LimiterAssumption DEF Full

\* A bucket never holds more than its capacity, and what it holds is an
\* integer.
LEMMA CreditBounds ==
  ASSUME TypeOK, NEW b \in Buckets
  PROVE  Credit(b) \in Int /\ Credit(b) <= Full
BY FullNat DEF TypeOK, Credit, Times

\* So it is after a step.
LEMMA CreditNext ==
  ASSUME TypeOK', NEW b \in Buckets
  PROVE  Credit(b)' \in Int
BY FullNat DEF TypeOK, Credit, Times, Full

\* Taking a token costs Cost now, whatever was earned before.
LEMMA TakeMeans ==
  ASSUME TypeOK, NEW b \in Buckets, Take(b), now' = now
  PROVE  /\ bucket' \in [Buckets -> [credit : Int, last : Times]]
         /\ bucket'[b].last = now
         /\ Credit(b)' = Credit(b) - Cost
         /\ \A c \in Buckets \ {b} : bucket'[c] = bucket[c] /\ Credit(c)' = Credit(c)
<1> DEFINE e == [credit |-> Credit(b) - Cost, last |-> now]
<1>0. now \in Times
  BY DEF TypeOK
<1>1. Credit(b) \in Int /\ Credit(b) <= Full /\ Cost \in Nat /\ Full \in Nat /\ now \in Times /\ now \in Nat
  BY <1>0, CreditBounds, FullNat, LimiterAssumption DEF Times
<1>2. e \in [credit : Int, last : Times] /\ e.credit = Credit(b) - Cost /\ e.last = now
  BY <1>1
<1>3. bucket' = [bucket EXCEPT ![b] = e]
  BY DEF Take
<1> HIDE DEF e
<1>4. /\ bucket' \in [Buckets -> [credit : Int, last : Times]]
      /\ bucket'[b] = e
      /\ \A c \in Buckets \ {b} : bucket'[c] = bucket[c]
  BY <1>2, <1>3 DEF TypeOK
<1>5. Credit(b)' = IF e.credit + (now - e.last) > Full THEN Full ELSE e.credit + (now - e.last)
  BY <1>4 DEF Credit, Full
<1>6. Credit(b)' = Credit(b) - Cost
  BY <1>1, <1>2, <1>5
<1>7. \A c \in Buckets \ {b} : Credit(c)' = Credit(c)
  BY <1>4 DEF Credit, Full
<1> QED
  BY <1>2, <1>4, <1>6, <1>7

\* Charging a token keeps the counters' types, and adds its cost to the counts
\* of that instance since every time up to now.
LEMMA ChargedMeans ==
  ASSUME TypeOK, NEW count \in [Ids -> [Times -> Nat]], NEW i \in Ids
  PROVE  /\ Charged(count, i) \in [Ids -> [Times -> Nat]]
         /\ \A s \in Times :
              Charged(count, i)[i][s] = IF s <= now THEN count[i][s] + Cost ELSE count[i][s]
         /\ \A j \in Ids \ {i} : Charged(count, i)[j] = count[j]
BY LimiterAssumption DEF Charged

\* Moving one call leaves the others alone.
LEMMA BecomeMeans ==
  ASSUME TypeOK, NEW g \in Callers, NEW c \in Call, Become(g, c)
  PROVE  /\ call' \in [Callers -> Call]
         /\ call'[g] = c
         /\ \A h \in Callers \ {g} : call'[h] = call[h]
BY DEF TypeOK, Become

CallTyped(c) ==
  /\ c \in Call
  /\ c.pc # "idle" => c.inst \in Ids
  /\ c.pc \in {"allow", "reserve"} => c.bucket \in Buckets

\* So it is enough to type the call that moves.
LEMMA Retype ==
  ASSUME TypeOK, NEW g \in Callers, NEW c, CallTyped(c), Become(g, c)
  PROVE  /\ call' \in [Callers -> Call]
         /\ \A h \in Callers : CallTyped(call'[h])
BY BecomeMeans DEF TypeOK, CallTyped

-----------------------------------------------------------------------------
(* Typing.                                                                 *)

\* The initial state is well typed.
LEMMA InitTyped == Init => TypeOK
BY FullNat, LimiterAssumption DEF Init, TypeOK, Idle, Call, Times, Never

\* Every step keeps the types.
LEMMA StepTyped == TypeOK /\ [Next]_vars => TypeOK'
<1> SUFFICES ASSUME TypeOK, [Next]_vars PROVE TypeOK'
  OBVIOUS
<1>0. \A g \in Callers : CallTyped(call[g])
  BY DEF TypeOK, CallTyped
<1>1. CASE Tick
  BY <1>1, LimiterAssumption DEF Tick, TypeOK, Times
<1>2. ASSUME NEW g \in Callers, NEW i \in Ids, NEW named \in BOOLEAN, Start(g, i, named)
      PROVE  TypeOK'
  <2> DEFINE w == named /\ retryAt[i] # Never /\ now >= retryAt[i]
             c == [Idle EXCEPT !.pc = IF named THEN "find" ELSE "run", !.inst = i,
                               !.named = named, !.waited = w]
  <2>1. w \in BOOLEAN
    OBVIOUS
  <2>2. Become(g, c)
    BY <1>2 DEF Start
  <2> HIDE DEF w
  <2>3. CallTyped(c)
    BY <2>1 DEF CallTyped, Call, Idle
  <2> HIDE DEF c
  <2> QED
    BY <1>2, <2>2, <2>3, Retype DEF Start, TypeOK, CallTyped, Never
<1>3. ASSUME NEW g \in Callers, Finish(g) PROVE TypeOK'
  <2>1. CallTyped(Idle)
    BY DEF CallTyped, Idle, Call
  <2> QED
    BY <1>3, <2>1, Retype DEF Finish, TypeOK, CallTyped
<1>4. ASSUME NEW g \in Callers, FindBucket(g) PROVE TypeOK'
  <2> DEFINE b == limiters[call[g].inst]
             c == [call[g] EXCEPT !.bucket = b, !.pc = IF b = None THEN "create" ELSE "allow"]
  <2>1. b \in Buckets \cup {None}
    BY <1>4, <1>0 DEF FindBucket, CallTyped, TypeOK
  <2>2. Become(g, c)
    BY <1>4 DEF FindBucket
  <2> HIDE DEF b
  <2>3. CallTyped(c)
    BY <1>4, <1>0, <2>1 DEF FindBucket, CallTyped, Call
  <2> HIDE DEF c
  <2> QED
    BY <1>4, <2>2, <2>3, Retype DEF FindBucket, TypeOK, CallTyped
<1>5. ASSUME NEW g \in Callers, CreateBucket(g) PROVE TypeOK'
  <2>1. PICK b \in Buckets : Become(g, [call[g] EXCEPT !.bucket = b, !.pc = "allow"])
    BY <1>5, <1>0 DEF CreateBucket, Fresh, CallTyped, TypeOK
  <2> DEFINE c == [call[g] EXCEPT !.bucket = b, !.pc = "allow"]
  <2>2. CallTyped(c)
    BY <1>5, <1>0 DEF CreateBucket, CallTyped, Call
  <2>3. limiters' \in [Ids -> Buckets \cup {None}]
    BY <1>5, <1>0 DEF CreateBucket, Fresh, CallTyped, TypeOK
  <2>4. \A d \in Buckets : [credit |-> Full, last |-> now] \in [credit : Int, last : Times]
    BY FullNat DEF TypeOK
  <2>5. bucket' \in [Buckets -> [credit : Int, last : Times]]
    BY <1>5, <2>4 DEF CreateBucket, Fresh, TypeOK
  <2> HIDE DEF c
  <2> QED
    BY <1>5, <2>1, <2>2, <2>3, <2>5, Retype DEF CreateBucket, TypeOK, CallTyped, c
<1>6. ASSUME NEW g \in Callers, Allow(g) PROVE TypeOK'
  <2>1. call[g].bucket \in Buckets /\ call[g].inst \in Ids
    BY <1>6, <1>0 DEF Allow, CallTyped
  <2>2. PICK p \in {"run", "reserve"} : Become(g, [call[g] EXCEPT !.pc = p])
    BY <1>6 DEF Allow
  <2>3. CallTyped([call[g] EXCEPT !.pc = p])
    BY <1>6, <1>0, <2>1 DEF Allow, CallTyped, Call
  <2>4. bucket' \in [Buckets -> [credit : Int, last : Times]]
    BY <1>6, <2>1, TakeMeans DEF Allow, TypeOK
  <2>5. spent' \in [Ids -> [Times -> Nat]]
    BY <1>6, <2>1, ChargedMeans DEF Allow, TypeOK
  <2>6. call' \in [Callers -> Call] /\ \A h \in Callers : CallTyped(call'[h])
    BY <2>2, <2>3, Retype
  <2> QED
    BY <1>6, <2>4, <2>5, <2>6 DEF Allow, TypeOK, CallTyped
<1>7. ASSUME NEW g \in Callers, Reserve(g) PROVE TypeOK'
  <2>1. call[g].bucket \in Buckets /\ call[g].inst \in Ids
    BY <1>7, <1>0 DEF Reserve, CallTyped
  <2>2. bucket' \in [Buckets -> [credit : Int, last : Times]]
    BY <1>7, <2>1, TakeMeans DEF Reserve, TypeOK
  <2>3. ASSUME NEW retry \in Nat, Deny(g, retry)
        PROVE  /\ call' \in [Callers -> Call] /\ \A h \in Callers : CallTyped(call'[h])
               /\ retryAt' \in [Ids -> Int]
    <3>1. CallTyped([call[g] EXCEPT !.pc = "denied", !.retry = retry])
      BY <1>0, <2>1 DEF CallTyped, Call
    <3>2. Become(g, [call[g] EXCEPT !.pc = "denied", !.retry = retry])
      BY <2>3 DEF Deny
    <3>3. now + retry \in Int /\ Never \in Int
      BY LimiterAssumption DEF TypeOK, Times, Never
    <3>4. retryAt' \in [Ids -> Int]
      BY <2>3, <3>3 DEF Deny, TypeOK
    <3> QED
      BY <3>1, <3>2, <3>4, Retype
  <2>4. ASSUME Become(g, [call[g] EXCEPT !.pc = "panicked"])
        PROVE  call' \in [Callers -> Call] /\ \A h \in Callers : CallTyped(call'[h])
    <3>1. CallTyped([call[g] EXCEPT !.pc = "panicked"])
      BY <1>0, <2>1 DEF CallTyped, Call
    <3> QED
      BY <2>4, <3>1, Retype
  <2>5. /\ Cost - Credit(call[g].bucket) > 0 => Cost - Credit(call[g].bucket) \in Nat
        /\ WholeRate > 0 => Second \div WholeRate \in Nat
        /\ MaxTime + 1 \in Nat
    BY <2>1, CreditBounds, LimiterAssumption DEF WholeRate
  <2>6. /\ call' \in [Callers -> Call] /\ \A h \in Callers : CallTyped(call'[h])
        /\ retryAt' \in [Ids -> Int]
    BY <1>7, <2>3, <2>4, <2>5 DEF Reserve, TypeOK
  <2> QED
    BY <1>7, <2>2, <2>6 DEF Reserve, TypeOK, CallTyped
<1>8. CASE UNCHANGED vars
  BY <1>8 DEF vars, TypeOK
<1> QED
  BY <1>1, <1>2, <1>3, <1>4, <1>5, <1>6, <1>7, <1>8 DEF Next

\* The types hold in every run of the limiter.
THEOREM TypeCorrect == Spec => []TypeOK
<1>1. Init => TypeOK
  BY InitTyped
<1>2. TypeOK /\ [Next]_vars => TypeOK'
  BY StepTyped
<1> QED
  BY <1>1, <1>2, PTL DEF Spec

-----------------------------------------------------------------------------
(* The budget.                                                             *)

\* At the start nothing is admitted and no bucket is in use.
LEMMA InitInv == Init => Inv
BY FullNat, LimiterAssumption
DEF Init, Inv, SoleBuckets, Balanced, WithinBudget, Times, Idle

\* Steps that touch neither the buckets nor the counts: the calls may move as
\* long as each one holds the bucket of its instance.
LEMMA QuietStep ==
  ASSUME TypeOK, Inv, UNCHANGED <<now, limiters, bucket, spent>>,
         \A g \in Callers : call'[g].bucket # None =>
           call'[g].inst \in Ids /\ call'[g].bucket = limiters[call'[g].inst]
  PROVE  Inv'
BY DEF Inv, SoleBuckets, Balanced, WithinBudget, Credit, Full

\* As time passes a bucket earns no more than the budget of every window does.
LEMMA TickInv ==
  ASSUME TypeOK, Inv, Tick
  PROVE  Inv'
<1>1. /\ now' = now + 1
      /\ UNCHANGED <<limiters, bucket, call, spent>>
  BY DEF Tick
<1>2. now \in Nat /\ Times \subseteq Nat /\ Full \in Nat
  BY FullNat, LimiterAssumption DEF TypeOK, Times
<1>3. \A b \in Buckets : /\ Credit(b) \in Int /\ Credit(b)' \in Int
                         /\ Credit(b)' <= Credit(b) + 1 /\ Credit(b)' <= Full
  BY <1>1, <1>2 DEF TypeOK, Credit, Full, Times
<1>4. SoleBuckets'
  BY <1>1 DEF Inv, SoleBuckets
<1>5. \A b \in Buckets : bucket'[b].last <= now'
  BY <1>1, <1>2 DEF Inv, TypeOK, Times
<1>6. \A i \in Ids, s \in Times : spent[i][s] \in Nat
  BY DEF TypeOK
<1>7. WithinBudget'
  <2> SUFFICES ASSUME NEW i \in Ids, NEW s \in Times, s <= now + 1
               PROVE  spent[i][s] <= Full + (now + 1 - s)
    BY <1>1, <1>2 DEF WithinBudget, Full, Times
  <2>1. CASE s <= now
    BY <1>2, <1>6, <2>1 DEF Inv, WithinBudget
  <2>2. CASE s = now + 1
    BY <1>2, <1>6, <2>2 DEF Inv, Balanced
  <2> QED
    BY <1>2, <2>1, <2>2
<1>8. Balanced'
  <2> SUFFICES ASSUME NEW i \in Ids, NEW s \in Times
               PROVE  /\ limiters[i] = None \/ s > now + 1 => spent[i][s] = 0
                      /\ limiters[i] # None /\ s <= now + 1
                           => spent[i][s] + Credit(limiters[i])' <= Full + (now + 1 - s)
    BY <1>1, <1>2 DEF Balanced, Full
  <2>1. limiters[i] = None \/ s > now + 1 => spent[i][s] = 0
    BY <1>2 DEF Inv, Balanced
  <2>2. ASSUME limiters[i] # None, s <= now + 1
        PROVE  spent[i][s] + Credit(limiters[i])' <= Full + (now + 1 - s)
    <3>1. PICK b \in Buckets : b = limiters[i] /\ b = limiters'[i]
      BY <1>1, <2>2 DEF TypeOK
    <3>2. CASE s <= now
      <4>1. spent[i][s] + Credit(b) <= Full + (now - s)
        BY <2>2, <3>1, <3>2 DEF Inv, Balanced
      <4>2. spent[i][s] + Credit(b)' <= Full + (now + 1 - s)
        BY <1>2, <1>3, <1>6, <4>1
      <4> QED
        BY <3>1, <4>2
    <3>3. CASE s = now + 1
      <4>1. spent[i][s] = 0
        BY <1>2, <3>3 DEF Inv, Balanced
      <4>2. spent[i][s] + Credit(b)' <= Full + (now + 1 - s)
        BY <1>2, <1>3, <3>3, <4>1
      <4> QED
        BY <3>1, <4>2
    <3> QED
      BY <1>2, <2>2, <3>2, <3>3
  <2> QED
    BY <2>1, <2>2
<1> QED
  BY <1>4, <1>5, <1>7, <1>8 DEF Inv

\* A bucket is created once, full, for an instance nobody was admitted for.
LEMMA CreateInv ==
  ASSUME TypeOK, Inv, NEW g \in Callers, CreateBucket(g)
  PROVE  Inv'
<1>1. PICK i \in Ids : i = call[g].inst
  BY DEF CreateBucket, TypeOK
<1>2. CASE limiters[i] # None
  <2> DEFINE c == [call[g] EXCEPT !.bucket = limiters[i], !.pc = "allow"]
  <2>1. UNCHANGED <<now, limiters, bucket, spent>> /\ Become(g, c)
    BY <1>1, <1>2 DEF CreateBucket
  <2>2. c \in Call /\ c.inst = i /\ c.bucket = limiters[i]
    BY <1>1 DEF TypeOK, Call
  <2> HIDE DEF c
  <2> QED
    BY <2>1, <2>2, QuietStep, BecomeMeans DEF Inv, SoleBuckets
<1>3. CASE limiters[i] = None
  <2>1. PICK b \in Fresh :
          /\ limiters' = [limiters EXCEPT ![i] = b]
          /\ bucket' = [bucket EXCEPT ![b] = [credit |-> Full, last |-> now]]
          /\ Become(g, [call[g] EXCEPT !.bucket = b, !.pc = "allow"])
    BY <1>1, <1>3 DEF CreateBucket
  <2>2. UNCHANGED <<now, spent>>
    BY DEF CreateBucket
  <2> DEFINE c == [call[g] EXCEPT !.bucket = b, !.pc = "allow"]
  <2>3. b \in Buckets /\ (\A j \in Ids : limiters[j] # b) /\ (\A h \in Callers : call[h].bucket # b)
    BY DEF Fresh
  <2>4. c \in Call /\ c.inst = i /\ c.bucket = b
    BY <1>1, <2>3 DEF TypeOK, Call
  <2>5. Become(g, c)
    BY <2>1
  <2> HIDE DEF c
  <2>6. call'[g] = c /\ \A h \in Callers \ {g} : call'[h] = call[h]
    BY <2>4, <2>5, BecomeMeans
  <2>7. limiters'[i] = b /\ \A j \in Ids \ {i} : limiters'[j] = limiters[j]
    BY <2>1 DEF TypeOK
  <2>8. bucket'[b] = [credit |-> Full, last |-> now] /\ \A d \in Buckets \ {b} : bucket'[d] = bucket[d]
    BY <2>1, <2>3 DEF TypeOK
  <2>9. now \in Nat /\ Times \subseteq Nat /\ Full \in Nat
    BY FullNat, LimiterAssumption DEF TypeOK, Times
  <2>10. SoleBuckets'
    <3>1. \A j, k \in Ids : limiters'[j] # None /\ limiters'[j] = limiters'[k] => j = k
      BY <2>3, <2>7 DEF Inv, SoleBuckets
    <3>2. ASSUME NEW h \in Callers, call'[h].bucket # None
          PROVE  call'[h].inst \in Ids /\ call'[h].bucket = limiters'[call'[h].inst]
      <4>1. CASE h = g
        BY <2>4, <2>6, <2>7, <4>1
      <4>2. CASE h # g
        <5>1. call[h].inst \in Ids /\ call[h].bucket = limiters[call[h].inst] /\ call[h].bucket # None
          BY <2>6, <3>2, <4>2 DEF Inv, SoleBuckets
        <5> QED
          BY <1>3, <2>6, <2>7, <4>2, <5>1
      <4> QED
        BY <4>1, <4>2
    <3> QED
      BY <3>1, <3>2 DEF SoleBuckets
  <2>11. Credit(b)' = Full /\ \A d \in Buckets \ {b} : Credit(d)' = Credit(d)
    BY <2>2, <2>8, <2>9 DEF Credit, Full
  <2>12. Balanced'
    <3> SUFFICES ASSUME NEW j \in Ids, NEW s \in Times
                 PROVE  /\ limiters'[j] = None \/ s > now => spent[j][s] = 0
                        /\ limiters'[j] # None /\ s <= now
                             => spent[j][s] + Credit(limiters[j])' <= Full + (now - s)
      BY <2>2 DEF Balanced, Full
    <3>1. CASE j = i
      <4>1. spent[j][s] = 0
        BY <1>3, <3>1 DEF Inv, Balanced
      <4>2. Credit(limiters[j])' = Full
        BY <2>7, <2>11, <3>1 DEF Credit, Full
      <4> QED
        BY <2>9, <4>1, <4>2
    <3>2. CASE j # i
      <4>1. limiters'[j] = limiters[j] /\ limiters[j] \in Buckets \cup {None} /\ limiters[j] # b
        BY <2>3, <2>7, <3>2 DEF TypeOK
      <4>2. limiters[j] # None => Credit(limiters[j])' = Credit(limiters[j])
        BY <2>2, <2>8, <4>1 DEF Credit, Full
      <4> QED
        BY <4>1, <4>2 DEF Inv, Balanced
    <3> QED
      BY <3>1, <3>2
  <2>13. \A d \in Buckets : bucket'[d].last <= now'
    BY <2>2, <2>3, <2>8, <2>9 DEF Inv
  <2> QED
    BY <2>2, <2>10, <2>12, <2>13 DEF Inv, WithinBudget, Full
<1> QED
  BY <1>2, <1>3

\* Taking a token without admitting anybody only leaves less.
LEMMA ReserveInv ==
  ASSUME TypeOK, Inv, NEW g \in Callers, Reserve(g)
  PROVE  Inv'
<1>1. UNCHANGED <<now, limiters, spent>>
  BY DEF Reserve
<1>2. PICK b \in Buckets : b = call[g].bucket
  BY DEF Reserve, TypeOK
<1>3. Take(b) \/ UNCHANGED bucket
  BY <1>2 DEF Reserve
<1>4. /\ \A d \in Buckets : /\ Credit(d) \in Int /\ Credit(d)' \in Int
                             /\ Credit(d)' <= Credit(d)
                             /\ bucket'[d].last <= now
  <2>1. now \in Nat /\ Cost \in Nat
    BY LimiterAssumption DEF TypeOK, Times
  <2>2. CASE Take(b)
    BY <1>1, <2>1, <2>2, TakeMeans, CreditBounds DEF Inv
  <2>3. CASE UNCHANGED bucket
    <3>1. \A d \in Buckets : Credit(d)' = Credit(d)
      BY <1>1, <2>3 DEF Credit, Full
    <3> QED
      BY <2>1, <2>3, <3>1, CreditBounds DEF Inv
  <2> QED
    BY <1>3, <2>2, <2>3
<1>5. \A h \in Callers : call'[h].bucket = call[h].bucket /\ call'[h].inst = call[h].inst
  <2>1. ASSUME NEW p, NEW n, Become(g, [call[g] EXCEPT !.pc = p, !.retry = n])
        PROVE  \A h \in Callers : call'[h].bucket = call[h].bucket /\ call'[h].inst = call[h].inst
    BY <2>1 DEF Become, TypeOK, Call
  <2>2. ASSUME NEW p, Become(g, [call[g] EXCEPT !.pc = p])
        PROVE  \A h \in Callers : call'[h].bucket = call[h].bucket /\ call'[h].inst = call[h].inst
    BY <2>2 DEF Become, TypeOK, Call
  <2> QED
    BY <2>1, <2>2 DEF Reserve, Deny
<1>6. SoleBuckets'
  BY <1>1, <1>5 DEF Inv, SoleBuckets
<1>7. Balanced'
  <2> SUFFICES ASSUME NEW i \in Ids, NEW s \in Times
               PROVE  /\ limiters[i] = None \/ s > now => spent[i][s] = 0
                      /\ limiters[i] # None /\ s <= now
                           => spent[i][s] + Credit(limiters[i])' <= Full + (now - s)
    BY <1>1 DEF Balanced, Full
  <2>1. limiters[i] = None \/ s > now => spent[i][s] = 0
    BY DEF Inv, Balanced
  <2>2. ASSUME limiters[i] # None, s <= now
        PROVE  spent[i][s] + Credit(limiters[i])' <= Full + (now - s)
    <3>1. PICK d \in Buckets : d = limiters[i] /\ d = limiters'[i]
      BY <1>1, <2>2 DEF TypeOK
    <3>2. spent[i][s] + Credit(d) <= Full + (now - s)
      BY <2>2, <3>1 DEF Inv, Balanced
    <3>3. spent[i][s] \in Nat /\ now \in Int /\ s \in Int /\ Full \in Int
      BY FullNat, LimiterAssumption DEF TypeOK, Times
    <3>4. spent[i][s] + Credit(d)' <= Full + (now - s)
      BY <1>4, <3>2, <3>3
    <3> QED
      BY <3>1, <3>4
  <2> QED
    BY <2>1, <2>2
<1> QED
  BY <1>1, <1>4, <1>6, <1>7 DEF Inv, WithinBudget, Full

\* An admitted call moves its cost from the bucket to the counts.
LEMMA AllowInv ==
  ASSUME TypeOK, Inv, NEW g \in Callers, Allow(g)
  PROVE  Inv'
<1>1. PICK b \in Buckets, i \in Ids : b = call[g].bucket /\ i = call[g].inst
  BY DEF Allow, TypeOK
<1>2. \A h \in Callers : call'[h].bucket = call[h].bucket /\ call'[h].inst = call[h].inst
  <2>1. PICK p : Become(g, [call[g] EXCEPT !.pc = p])
    BY DEF Allow
  <2> QED
    BY <2>1 DEF Become, TypeOK, Call
<1>3. UNCHANGED <<now, limiters>>
  BY DEF Allow
<1>4. CASE ~ (Credit(b) >= Cost)
  <2>1. UNCHANGED <<bucket, spent>>
    BY <1>1, <1>4 DEF Allow
  <2> QED
    BY <1>2, <1>3, <2>1, QuietStep DEF Inv, SoleBuckets
<1>5. CASE Credit(b) >= Cost
  <2>1. Take(b) /\ spent' = Charged(spent, i)
    BY <1>1, <1>5 DEF Allow
  <2>2. b = limiters[i] /\ b # None /\ \A j \in Ids \ {i} : limiters[j] # b
    BY <1>1, LimiterAssumption DEF Inv, SoleBuckets
  <2>3. /\ Credit(b) \in Int /\ Credit(b)' = Credit(b) - Cost
        /\ bucket'[b].last = now
        /\ \A d \in Buckets \ {b} : bucket'[d] = bucket[d] /\ Credit(d)' = Credit(d)
    BY <1>3, <2>1, TakeMeans, CreditBounds
  <2>4. /\ \A s \in Times : spent'[i][s] = IF s <= now THEN spent[i][s] + Cost ELSE spent[i][s]
        /\ \A j \in Ids \ {i} : spent'[j] = spent[j]
    BY <2>1, ChargedMeans DEF TypeOK
  <2>5. /\ now \in Nat /\ Times \subseteq Nat /\ Full \in Nat /\ Cost \in Nat
    BY FullNat, LimiterAssumption DEF TypeOK, Times
  <2>t. \A j \in Ids, s \in Times : spent[j][s] \in Nat
    BY DEF TypeOK
  <2>6. SoleBuckets'
    BY <1>2, <1>3 DEF Inv, SoleBuckets
  <2>7. Balanced' /\ WithinBudget'
    <3> SUFFICES ASSUME NEW j \in Ids, NEW s \in Times
                 PROVE  /\ limiters[j] = None \/ s > now => spent'[j][s] = 0
                        /\ limiters[j] # None /\ s <= now
                             => spent'[j][s] + Credit(limiters[j])' <= Full + (now - s)
                        /\ s <= now => spent'[j][s] <= Full + (now - s)
      BY <1>3 DEF Balanced, WithinBudget, Full
    <3>1. CASE j = i
      <4>1. s > now => spent'[j][s] = 0
        BY <2>4, <2>5, <3>1 DEF Inv, Balanced
      <4>2. ASSUME s <= now
            PROVE  /\ spent'[j][s] + Credit(b)' <= Full + (now - s)
                   /\ spent'[j][s] <= Full + (now - s)
        <5>1. spent[j][s] + Credit(b) <= Full + (now - s)
          BY <2>2, <3>1, <4>2 DEF Inv, Balanced
        <5>2. spent'[j][s] = spent[j][s] + Cost
          BY <2>4, <3>1, <4>2
        <5> QED
          BY <1>5, <2>3, <2>5, <2>t, <5>1, <5>2
      <4>3. limiters[j] # None /\ Credit(limiters[j])' = Credit(b)'
        BY <1>3, <2>2, <3>1 DEF Credit, Full
      <4> QED
        BY <4>1, <4>2, <4>3
    <3>2. CASE j # i
      <4>1. spent'[j][s] = spent[j][s] /\ limiters[j] # b /\ limiters[j] \in Buckets \cup {None}
        BY <2>2, <2>4, <3>2 DEF TypeOK
      <4>2. limiters[j] # None => Credit(limiters[j])' = Credit(limiters[j])
        BY <1>3, <2>3, <4>1 DEF Credit, Full
      <4> QED
        BY <4>1, <4>2 DEF Inv, Balanced, WithinBudget
    <3> QED
      BY <3>1, <3>2
  <2>8. \A d \in Buckets : bucket'[d].last <= now'
    BY <1>3, <2>3, <2>5 DEF Inv
  <2> QED
    BY <2>6, <2>7, <2>8 DEF Inv
<1> QED
  BY <1>4, <1>5

\* Every step keeps Inv.
LEMMA StepInv == TypeOK /\ Inv /\ [Next]_vars => Inv'
<1> SUFFICES ASSUME TypeOK, Inv, [Next]_vars PROVE Inv'
  OBVIOUS
<1>1. ASSUME NEW g \in Callers, NEW i \in Ids, NEW named \in BOOLEAN, Start(g, i, named)
      PROVE  Inv'
  <2>1. /\ call'[g].bucket = None
        /\ \A h \in Callers \ {g} : call'[h] = call[h]
        /\ UNCHANGED <<now, limiters, bucket, spent>>
    BY <1>1 DEF Start, Become, TypeOK, Idle
  <2> QED
    BY <2>1, QuietStep DEF Inv, SoleBuckets
<1>2. ASSUME NEW g \in Callers, Finish(g) PROVE Inv'
  <2>1. /\ call'[g].bucket = None
        /\ \A h \in Callers \ {g} : call'[h] = call[h]
        /\ UNCHANGED <<now, limiters, bucket, spent>>
    BY <1>2 DEF Finish, Become, TypeOK, Idle
  <2> QED
    BY <2>1, QuietStep DEF Inv, SoleBuckets
<1>3. ASSUME NEW g \in Callers, FindBucket(g) PROVE Inv'
  <2>1. /\ call[g].inst \in Ids
        /\ call'[g].inst = call[g].inst
        /\ call'[g].bucket = limiters[call[g].inst]
        /\ \A h \in Callers \ {g} : call'[h] = call[h]
        /\ UNCHANGED <<now, limiters, bucket, spent>>
    BY <1>3 DEF FindBucket, Become, TypeOK, Call
  <2> QED
    BY <2>1, QuietStep DEF Inv, SoleBuckets
<1>4. CASE UNCHANGED vars
  BY <1>4, QuietStep DEF vars, Inv, SoleBuckets
<1> QED
  BY <1>1, <1>2, <1>3, <1>4, TickInv, CreateInv, AllowInv, ReserveInv DEF Next

\* In any stretch of time, the calls admitted for an instance stay within the
\* burst and what the rate earns: for every number of callers, every rate,
\* and however the first calls race to create the bucket.
THEOREM BudgetHolds == Spec => []WithinBudget
<1>1. Init => TypeOK /\ Inv
  BY InitTyped, InitInv
<1>2. TypeOK /\ Inv /\ [Next]_vars => (TypeOK /\ Inv)'
  BY StepTyped, StepInv
<1>3. Inv => WithinBudget
  BY DEF Inv
<1> QED
  BY <1>1, <1>2, <1>3, PTL DEF Spec

-----------------------------------------------------------------------------
(* The refusals.                                                           *)

\* One second over the integer part of the rate is a delay: the integer part
\* is never more than the ticks of a second.
LEMMA WholeDelay == WholeRate > 0 => Second \div WholeRate \in Nat \ {0}
<1>1. Second \in Nat \ {0} /\ Cost \in Nat \ {0}
  BY LimiterAssumption
<1>2. \A a, b \in Nat \ {0} : a \div b \in Nat /\ a \div b <= a
  OBVIOUS
<1>3. WholeRate \in Nat /\ WholeRate <= Second
  BY <1>1, <1>2 DEF WholeRate
<1>4. \A a, b \in Nat \ {0} : b <= a => a \div b >= 1
  OBVIOUS
<1> QED
  BY <1>1, <1>2, <1>3, <1>4

\* A caller is refused in one place, after the reservation, and no branch of it
\* answers with no delay.
LEMMA StepRetry == TypeOK /\ RetryIsPositive /\ [Next]_vars => RetryIsPositive'
<1> SUFFICES ASSUME TypeOK, RetryIsPositive, [Next]_vars PROVE RetryIsPositive'
  OBVIOUS
<1>1. ASSUME NEW g \in Callers, NEW c, Become(g, c), c.pc = "denied" => c.retry > 0
      PROVE  RetryIsPositive'
  BY <1>1 DEF Become, TypeOK, RetryIsPositive
<1>2. ASSUME NEW g \in Callers, NEW i \in Ids, NEW named \in BOOLEAN, Start(g, i, named)
      PROVE  RetryIsPositive'
  BY <1>1, <1>2 DEF Start, Idle
<1>3. ASSUME NEW g \in Callers, Finish(g)
      PROVE  RetryIsPositive'
  BY <1>1, <1>3 DEF Finish, Idle
<1>4. ASSUME NEW g \in Callers, FindBucket(g)
      PROVE  RetryIsPositive'
  BY <1>1, <1>4 DEF FindBucket, TypeOK, Call
<1>5. ASSUME NEW g \in Callers, CreateBucket(g)
      PROVE  RetryIsPositive'
  <2>1. PICK b : Become(g, [call[g] EXCEPT !.bucket = b, !.pc = "allow"])
    BY <1>5 DEF CreateBucket
  <2> QED
    BY <1>1, <2>1 DEF TypeOK, Call
<1>6. ASSUME NEW g \in Callers, Allow(g)
      PROVE  RetryIsPositive'
  <2>1. PICK p \in {"run", "reserve"} : Become(g, [call[g] EXCEPT !.pc = p])
    BY <1>6 DEF Allow
  <2> QED
    BY <1>1, <2>1 DEF TypeOK, Call
<1>7. ASSUME NEW g \in Callers, Reserve(g)
      PROVE  RetryIsPositive'
  <2>1. ASSUME NEW retry \in Nat \ {0}, Deny(g, retry)
        PROVE  RetryIsPositive'
    <3> DEFINE c == [call[g] EXCEPT !.pc = "denied", !.retry = retry]
    <3>1. c.retry = retry
      BY DEF TypeOK, Call
    <3>2. Become(g, c)
      BY <2>1 DEF Deny
    <3> HIDE DEF c
    <3> QED
      BY <1>1, <2>1, <3>1, <3>2
  <2>2. ASSUME Become(g, [call[g] EXCEPT !.pc = "panicked"])
        PROVE  RetryIsPositive'
    BY <1>1, <2>2 DEF TypeOK, Call
  <2>3. /\ Cost - Credit(call[g].bucket) > 0 => Cost - Credit(call[g].bucket) \in Nat \ {0}
        /\ MaxTime + 1 \in Nat \ {0}
    BY <1>7, CreditBounds, LimiterAssumption DEF Reserve, TypeOK
  <2> QED
    BY <1>7, <2>1, <2>2, <2>3, WholeDelay DEF Reserve
<1>8. CASE UNCHANGED call
  BY <1>8 DEF RetryIsPositive
<1> QED
  BY <1>2, <1>3, <1>4, <1>5, <1>6, <1>7, <1>8 DEF Next, Tick, vars

\* A refused caller is always told to stay away for some time, whatever its
\* bucket earned between the refusal and the reservation.
THEOREM RefusalsHaveDelay == Spec => []RetryIsPositive
<1>1. Init => TypeOK /\ RetryIsPositive
  BY InitTyped DEF Init, RetryIsPositive, Idle
<1>2. TypeOK /\ RetryIsPositive /\ [Next]_vars => (TypeOK /\ RetryIsPositive)'
  BY StepTyped, StepRetry
<1> QED
  BY <1>1, <1>2, PTL DEF Spec

-----------------------------------------------------------------------------
(* Quiet instances.                                                        *)

\* What n tokens cost.
Price(n) == Cost * n

\* The price of one token more or less, and of the whole burst.
LEMMA Prices ==
  /\ \A n \in Int : Price(n) \in Int /\ Price(n + 1) = Price(n) + Cost
  /\ \A n \in Int : n >= 1 => Price(n) >= Cost
  /\ \A n \in Int : n <= Burst => Price(n) <= Full
<1>1. Cost \in Nat \ {0} /\ Burst \in Nat
  BY LimiterAssumption
<1>2. \A c, n \in Int : c * n \in Int /\ c * (n + 1) = c * n + c
  OBVIOUS
<1>3. \A c, n \in Int : c > 0 /\ n >= 1 => c * n >= c
  <2> SUFFICES ASSUME NEW c \in Int, NEW n \in Int, c > 0, n >= 1 PROVE c * n >= c
    OBVIOUS
  <2>1. c * (n - 1) >= 0
    OBVIOUS
  <2>2. c * n = c * (n - 1) + c
    OBVIOUS
  <2> QED
    BY <2>1, <2>2
<1>4. \A c, n, m \in Int : c > 0 /\ n <= m => c * n <= m * c
  <2> SUFFICES ASSUME NEW c \in Int, NEW n \in Int, NEW m \in Int, c > 0, n <= m PROVE c * n <= m * c
    OBVIOUS
  <2>1. c * (m - n) >= 0
    OBVIOUS
  <2>2. m * c = c * n + c * (m - n)
    OBVIOUS
  <2> QED
    BY <2>1, <2>2
<1>5. \A n \in Int : Price(n) \in Int /\ Price(n + 1) = Price(n) + Cost
  BY <1>1, <1>2 DEF Price
<1>6. \A n \in Int : n >= 1 => Price(n) >= Cost
  BY <1>1, <1>3 DEF Price
<1>7. \A n \in Int : n <= Burst => Price(n) <= Full
  BY <1>1, <1>4 DEF Price, Full
<1> QED
  BY <1>5, <1>6, <1>7

\* What the three clauses say of one instance.
Tokens(i) ==
  /\ IsFiniteSet(Asking(i))
  /\ Cardinality(Asking(i)) <= made[i]
  /\ limiters[i] # None /\ made[i] <= Burst =>
       Credit(limiters[i]) >= Price(Burst - made[i] + Cardinality(Asking(i)))

\* TokensForAll, instance by instance.
LEMMA TokensEach ==
  /\ TokensForAll <=> \A i \in Ids : Tokens(i)
  /\ TokensForAll' <=> \A i \in Ids : Tokens(i)'
BY DEF TokensForAll, Tokens, Price

\* A caller asks for one instance at most, and a call that moves changes only
\* its own place among them.
LEMMA AskingMoves ==
  ASSUME TypeOK, NEW g \in Callers, \A h \in Callers \ {g} : call'[h] = call[h],
         NEW i \in Ids
  PROVE  /\ g \in Asking(i) /\ g \in Asking(i)' => Asking(i)' = Asking(i)
         /\ g \in Asking(i) /\ g \notin Asking(i)' => Asking(i)' = Asking(i) \ {g}
         /\ g \notin Asking(i) /\ g \in Asking(i)' => Asking(i)' = Asking(i) \cup {g}
         /\ g \notin Asking(i) /\ g \notin Asking(i)' => Asking(i)' = Asking(i)
BY DEF Asking

\* Counting a set that gains or loses one element.
LEMMA CountOne ==
  ASSUME NEW S, IsFiniteSet(S), NEW x
  PROVE  /\ Cardinality(S) \in Nat
         /\ x \in S => /\ IsFiniteSet(S \ {x}) /\ Cardinality(S) >= 1
                       /\ Cardinality(S \ {x}) = Cardinality(S) - 1
         /\ x \notin S => /\ IsFiniteSet(S \cup {x})
                          /\ Cardinality(S \cup {x}) = Cardinality(S) + 1
<1>1. Cardinality(S) \in Nat
  BY FS_CardinalityType
<1>2. ASSUME x \in S
      PROVE  /\ IsFiniteSet(S \ {x}) /\ Cardinality(S) >= 1
             /\ Cardinality(S \ {x}) = Cardinality(S) - 1
  <2>1. IsFiniteSet(S \ {x}) /\ Cardinality(S \ {x}) = Cardinality(S) - 1
    BY <1>2, FS_RemoveElement
  <2>2. Cardinality(S \ {x}) \in Nat
    BY <2>1, FS_CardinalityType
  <2> QED
    BY <1>1, <2>1, <2>2
<1>3. x \notin S => IsFiniteSet(S \cup {x}) /\ Cardinality(S \cup {x}) = Cardinality(S) + 1
  BY FS_AddElement
<1> QED
  BY <1>1, <1>2, <1>3

\* An instance whose bucket holds no less than it did, whose callers that ask
\* are the same and whose calls have not become fewer keeps its tokens.
LEMMA TokensKept ==
  ASSUME TypeOK, TypeOK', NEW i \in Ids, Tokens(i),
         Asking(i)' = Asking(i), made'[i] = made[i], limiters'[i] = limiters[i],
         limiters[i] # None => Credit(limiters[i])' >= Credit(limiters[i])
  PROVE  Tokens(i)'
<1> DEFINE n == Burst - made[i] + Cardinality(Asking(i))
<1>1. n \in Int /\ Burst \in Int /\ made[i] \in Nat
  BY LimiterAssumption, FS_CardinalityType DEF TypeOK, Tokens
<1>2. ASSUME limiters[i] # None, made[i] <= Burst
      PROVE  Credit(limiters[i])' >= Price(n)
  <2>1. PICK b \in Buckets : b = limiters[i] /\ b = limiters'[i]
    BY <1>2 DEF TypeOK
  <2>2. Credit(b) \in Int /\ Credit(b) >= Price(n)
    BY <1>2, <2>1, CreditBounds DEF Tokens
  <2>3. Credit(b)' \in Int
    BY <2>1, CreditNext
  <2>4. Credit(b)' >= Credit(b)
    BY <1>2, <2>1
  <2>5. Credit(b)' >= Price(n)
    BY <1>1, <2>2, <2>3, <2>4, Prices
  <2> QED
    BY <2>1, <2>5
<1> QED
  BY <1>2 DEF Tokens

Quiet == TypeOK /\ Inv /\ TokensForAll /\ QuietInstanceAllowed

\* Time only fills the buckets.
LEMMA TickTokens ==
  ASSUME Quiet, TypeOK', Tick
  PROVE  TokensForAll'
<1>1. now' = now + 1 /\ UNCHANGED <<limiters, bucket, call, made>>
  BY DEF Tick
<1>2. now \in Nat /\ Times \subseteq Nat /\ Full \in Nat
  BY FullNat, LimiterAssumption DEF Quiet, TypeOK, Times
<1>3. \A b \in Buckets : Credit(b)' >= Credit(b)
  <2> SUFFICES ASSUME NEW b \in Buckets PROVE Credit(b)' >= Credit(b)
    OBVIOUS
  <2>1. PICK c \in Int, l \in Nat : c = bucket[b].credit /\ l = bucket[b].last
    BY <1>2 DEF Quiet, TypeOK
  <2>2. bucket'[b].credit = c /\ bucket'[b].last = l
    BY <1>1, <2>1
  <2>3. Credit(b) = IF c + (now - l) > Full THEN Full ELSE c + (now - l)
    BY <2>1 DEF Credit
  <2>4. Credit(b)' = IF c + (now + 1 - l) > Full THEN Full ELSE c + (now + 1 - l)
    <3>1. Full' = Full
      BY DEF Full
    <3>2. Credit(b)' = LET earned == c + (now' - l) IN IF earned > Full' THEN Full' ELSE earned
      BY <2>2 DEF Credit
    <3> QED
      BY <1>1, <1>2, <3>1, <3>2
  <2> QED
    BY <1>2, <2>3, <2>4
<1>4. ASSUME NEW i \in Ids PROVE Tokens(i)'
  <2>1. Asking(i)' = Asking(i)
    BY <1>1 DEF Asking
  <2>2. limiters[i] # None => Credit(limiters[i])' >= Credit(limiters[i])
    <3> SUFFICES ASSUME limiters[i] # None PROVE Credit(limiters[i])' >= Credit(limiters[i])
      OBVIOUS
    <3>1. PICK b \in Buckets : b = limiters[i] /\ b = limiters'[i]
      BY <1>1 DEF Quiet, TypeOK
    <3> QED
      BY <1>3, <3>1
  <2> QED
    BY <1>1, <2>1, <2>2, TokensKept, TokensEach DEF Quiet
<1> QED
  BY <1>4, TokensEach

\* The tokens of an instance after a step, from what the step leaves of it.
LEMMA TokensAfter ==
  ASSUME NEW i \in Ids, NEW a, NEW m, NEW credit,
         IsFiniteSet(Asking(i)'), Cardinality(Asking(i)') = a, made'[i] = m, a <= m,
         limiters'[i] # None => Credit(limiters[i])' = credit,
         limiters'[i] # None /\ m <= Burst => credit >= Price(Burst - m + a)
  PROVE  Tokens(i)'
BY DEF Tokens, Price

\* A step that moves no bucket, and no caller into or out of the asking.
LEMMA StillTokens ==
  ASSUME Quiet, TypeOK', NEW g \in Callers, \A h \in Callers \ {g} : call'[h] = call[h],
         \A i \in Ids : g \in Asking(i)' <=> g \in Asking(i),
         UNCHANGED <<now, limiters, bucket, made>>
  PROVE  TokensForAll'
<1>1. ASSUME NEW i \in Ids PROVE Tokens(i)'
  <2>1. Asking(i)' = Asking(i)
    BY AskingMoves DEF Quiet
  <2>2. limiters[i] # None => Credit(limiters[i])' >= Credit(limiters[i])
    <3> SUFFICES ASSUME limiters[i] # None PROVE Credit(limiters[i])' >= Credit(limiters[i])
      OBVIOUS
    <3>1. PICK b \in Buckets : b = limiters[i]
      BY DEF Quiet, TypeOK
    <3>2. Credit(b)' = Credit(b) /\ Credit(limiters[i])' = Credit(limiters[i])
      BY DEF Credit, Full
    <3>3. Credit(b) \in Int
      BY CreditBounds DEF Quiet
    <3> QED
      BY <3>1, <3>2, <3>3
  <2> QED
    BY <2>1, <2>2, TokensKept, TokensEach DEF Quiet
<1> QED
  BY <1>1, TokensEach

\* A new call that will be limited is one more to ask and one less to come; one
\* that will not be limited is one less to come.
LEMMA StartTokens ==
  ASSUME Quiet, TypeOK', NEW g \in Callers, NEW i \in Ids, NEW named \in BOOLEAN,
         Start(g, i, named)
  PROVE  TokensForAll'
<1>1. /\ call[g].pc = "idle"
      /\ UNCHANGED <<now, limiters, bucket>>
      /\ made' = [made EXCEPT ![i] = @ + 1]
      /\ \A h \in Callers \ {g} : call'[h] = call[h]
      /\ call'[g].inst = i
      /\ call'[g].pc = IF named THEN "find" ELSE "run"
  BY DEF Start, Become, Idle, Quiet, TypeOK
<1>2. \A j \in Ids : g \notin Asking(j)
  BY <1>1 DEF Asking
<1>3. \A j \in Ids : g \in Asking(j)' <=> named /\ j = i
  BY <1>1 DEF Asking
<1>4. \A j \in Ids : limiters[j] # None =>
         Credit(limiters[j])' = Credit(limiters[j]) /\ Credit(limiters[j]) \in Int
  <2> SUFFICES ASSUME NEW j \in Ids, limiters[j] # None
               PROVE  Credit(limiters[j])' = Credit(limiters[j]) /\ Credit(limiters[j]) \in Int
    OBVIOUS
  <2>1. limiters[j] \in Buckets
    BY DEF Quiet, TypeOK
  <2> QED
    BY <1>1, <2>1, CreditBounds DEF Credit, Full, Quiet
<1>5. ASSUME NEW j \in Ids, j # i PROVE Tokens(j)'
  <2>1. Asking(j)' = Asking(j)
    BY <1>1, <1>2, <1>3, <1>5, AskingMoves DEF Quiet
  <2>2. made'[j] = made[j]
    BY <1>1, <1>5 DEF Quiet, TypeOK
  <2> QED
    BY <1>1, <1>4, <2>1, <2>2, TokensKept, TokensEach DEF Quiet
<1>6. Tokens(i)'
  <2> DEFINE a == Cardinality(Asking(i))
             n == Burst - made[i] + a
             credit == Credit(limiters[i])
  <2>1. /\ a \in Nat /\ made[i] \in Nat /\ Burst \in Nat /\ Cost \in Nat
        /\ IsFiniteSet(Asking(i)) /\ a <= made[i]
        /\ limiters[i] # None /\ made[i] <= Burst => credit >= Price(n)
    BY LimiterAssumption, TokensEach, FS_CardinalityType DEF Quiet, TypeOK, Tokens
  <2>2. made'[i] = made[i] + 1 /\ limiters'[i] = limiters[i]
    BY <1>1 DEF Quiet, TypeOK
  <2>3. limiters'[i] # None => Credit(limiters[i])' = credit /\ credit \in Int
    BY <1>4, <2>2
  <2>4. CASE named
    <3>1. Asking(i)' = Asking(i) \cup {g}
      BY <1>1, <1>2, <1>3, <2>4, AskingMoves DEF Quiet
    <3>2. IsFiniteSet(Asking(i)') /\ Cardinality(Asking(i)') = a + 1
      BY <1>2, <2>1, <3>1, CountOne
    <3>3. Burst - (made[i] + 1) + (a + 1) = n /\ a + 1 <= made[i] + 1
      BY <2>1
    <3>4. limiters'[i] # None /\ made[i] + 1 <= Burst => credit >= Price(Burst - (made[i] + 1) + (a + 1))
      BY <2>1, <2>2, <3>3
    <3> HIDE DEF n, a, credit
    <3> QED
      BY <2>2, <2>3, <3>2, <3>3, <3>4, TokensAfter
  <2>5. CASE ~ named
    <3>1. Asking(i)' = Asking(i)
      BY <1>1, <1>2, <1>3, <2>5, AskingMoves DEF Quiet
    <3>2. /\ Burst - (made[i] + 1) + a = n - 1 /\ a <= made[i] + 1
          /\ n - 1 \in Int /\ n - 1 + 1 = n
      BY <2>1
    <3>3. Price(n - 1) \in Int /\ Price(n) = Price(n - 1) + Cost
      BY <3>2, Prices
    <3>4. limiters'[i] # None /\ made[i] + 1 <= Burst => credit >= Price(n - 1)
      BY <2>1, <2>2, <2>3, <3>3
    <3>5. IsFiniteSet(Asking(i)') /\ Cardinality(Asking(i)') = a
      BY <2>1, <3>1
    <3>6. limiters'[i] # None /\ made[i] + 1 <= Burst => credit >= Price(Burst - (made[i] + 1) + a)
      BY <3>2, <3>4
    <3> HIDE DEF n, a, credit
    <3> QED
      BY <2>2, <2>3, <3>2, <3>5, <3>6, TokensAfter
  <2> QED
    BY <2>4, <2>5
<1> QED
  BY <1>5, <1>6, TokensEach

\* A new bucket is full: the burst is enough for those that ask, who are no
\* more than the calls made.
LEMMA CreateTokens ==
  ASSUME Quiet, TypeOK', NEW g \in Callers, CreateBucket(g)
  PROVE  TokensForAll'
<1>1. PICK i \in Ids : i = call[g].inst
  BY DEF CreateBucket, Quiet, TypeOK
<1>2. /\ \A h \in Callers \ {g} : call'[h] = call[h]
      /\ \A j \in Ids : g \in Asking(j)' <=> g \in Asking(j)
      /\ now' = now /\ made' = made
  <2>1. PICK b : Become(g, [call[g] EXCEPT !.bucket = b, !.pc = "allow"])
    BY DEF CreateBucket
  <2>2. call'[g].inst = call[g].inst /\ call'[g].pc = "allow" /\ call[g].pc = "create"
    <3>1. call'[g].inst = call[g].inst /\ call'[g].pc = "allow"
      BY <2>1 DEF Become, Quiet, TypeOK, Call
    <3> QED
      BY <3>1 DEF CreateBucket
  <2>3. \A h \in Callers \ {g} : call'[h] = call[h]
    BY <2>1 DEF Become, Quiet, TypeOK
  <2> QED
    BY <2>2, <2>3 DEF Asking, CreateBucket
<1>3. CASE limiters[i] # None
  <2>1. UNCHANGED <<limiters, bucket>>
    BY <1>1, <1>3 DEF CreateBucket
  <2> QED
    BY <1>2, <2>1, StillTokens
<1>4. CASE limiters[i] = None
  <2>1. PICK b \in Fresh : /\ limiters' = [limiters EXCEPT ![i] = b]
                           /\ bucket' = [bucket EXCEPT ![b] = [credit |-> Full, last |-> now]]
    BY <1>1, <1>4 DEF CreateBucket
  <2>2. b \in Buckets /\ \A j \in Ids : limiters[j] # b
    BY DEF Fresh
  <2>3. /\ limiters'[i] = b /\ \A j \in Ids \ {i} : limiters'[j] = limiters[j]
        /\ bucket'[b] = [credit |-> Full, last |-> now]
        /\ \A d \in Buckets \ {b} : bucket'[d] = bucket[d]
    BY <2>1, <2>2 DEF Quiet, TypeOK
  <2>4. Full \in Nat /\ now \in Nat
    BY FullNat, LimiterAssumption DEF Quiet, TypeOK, Times
  <2>5. Credit(b)' = Full /\ \A d \in Buckets \ {b} : Credit(d)' = Credit(d)
    BY <1>2, <2>3, <2>4 DEF Credit, Full
  <2>6. ASSUME NEW j \in Ids, j # i PROVE Tokens(j)'
    <3>1. Asking(j)' = Asking(j) /\ made'[j] = made[j] /\ limiters'[j] = limiters[j]
      BY <1>2, <2>3, <2>6, AskingMoves DEF Quiet
    <3>2. limiters[j] # None => Credit(limiters[j])' >= Credit(limiters[j])
      <4> SUFFICES ASSUME limiters[j] # None PROVE Credit(limiters[j])' >= Credit(limiters[j])
        OBVIOUS
      <4>1. PICK d \in Buckets \ {b} : d = limiters[j] /\ d = limiters'[j]
        BY <2>2, <3>1 DEF Quiet, TypeOK
      <4>2. Credit(d)' = Credit(d) /\ Credit(d) \in Int
        BY <2>5, CreditBounds DEF Quiet
      <4> QED
        BY <4>1, <4>2
    <3> QED
      BY <3>1, <3>2, TokensKept, TokensEach DEF Quiet
  <2>7. Tokens(i)'
    <3> DEFINE a == Cardinality(Asking(i))
    <3>1. /\ a \in Nat /\ made[i] \in Nat /\ Burst \in Nat
          /\ IsFiniteSet(Asking(i)) /\ a <= made[i]
      BY LimiterAssumption, TokensEach, FS_CardinalityType DEF Quiet, TypeOK, Tokens
    <3>2. Asking(i)' = Asking(i) /\ made'[i] = made[i]
      BY <1>2, AskingMoves DEF Quiet
    <3>3. IsFiniteSet(Asking(i)') /\ Cardinality(Asking(i)') = a
      BY <3>1, <3>2
    <3>4. Full >= Price(Burst - made[i] + a)
      <4>1. Burst - made[i] + a \in Int /\ Burst - made[i] + a <= Burst
        BY <3>1
      <4>2. Price(Burst - made[i] + a) \in Int /\ Price(Burst - made[i] + a) <= Full
        BY <4>1, Prices
      <4> QED
        BY <2>4, <4>2
    <3>5. Credit(limiters[i])' = Full
      BY <2>3, <2>5 DEF Credit, Full
    <3> HIDE DEF a
    <3> QED
      BY <3>1, <3>2, <3>3, <3>4, <3>5, TokensAfter
  <2> QED
    BY <2>6, <2>7, TokensEach
<1> QED
  BY <1>3, <1>4

\* A caller of a quiet instance finds a token: it is one of those the bucket
\* still holds a token for.
LEMMA TokenThere ==
  ASSUME Quiet, NEW g \in Callers, call[g].pc = "allow", made[call[g].inst] <= Burst
  PROVE  Credit(call[g].bucket) >= Cost
<1>1. PICK i \in Ids, b \in Buckets : i = call[g].inst /\ b = call[g].bucket
  BY DEF Quiet, TypeOK
<1>2. b = limiters[i] /\ b # None
  BY <1>1, LimiterAssumption DEF Quiet, Inv, SoleBuckets
<1>3. g \in Asking(i)
  BY <1>1 DEF Asking
<1> DEFINE a == Cardinality(Asking(i))
           n == Burst - made[i] + a
<1>4. /\ IsFiniteSet(Asking(i)) /\ a \in Nat /\ a >= 1 /\ a <= made[i]
      /\ Credit(b) >= Price(n)
  <2>1. IsFiniteSet(Asking(i)) /\ a <= made[i] /\ Credit(b) >= Price(n)
    BY <1>1, <1>2, TokensEach DEF Quiet, Tokens
  <2> QED
    BY <1>3, <2>1, CountOne
<1>5. made[i] \in Nat /\ made[i] <= Burst /\ Burst \in Nat /\ Cost \in Nat
  BY <1>1, LimiterAssumption DEF Quiet, TypeOK
<1>6. n \in Int /\ n >= 1
  BY <1>4, <1>5
<1>7. Price(n) \in Int /\ Price(n) >= Cost
  BY <1>6, Prices
<1>8. Credit(b) \in Int
  BY CreditBounds DEF Quiet
<1> QED
  BY <1>1, <1>4, <1>5, <1>7, <1>8

\* An answer, whichever it is, is one fewer to ask, and costs one token at most.
LEMMA AllowTokens ==
  ASSUME Quiet, TypeOK', NEW g \in Callers, Allow(g)
  PROVE  TokensForAll'
<1>1. PICK i \in Ids, b \in Buckets : i = call[g].inst /\ b = call[g].bucket
  BY DEF Allow, Quiet, TypeOK
<1>2. b = limiters[i] /\ \A j \in Ids \ {i} : limiters[j] # b
  BY <1>1, LimiterAssumption DEF Quiet, Inv, SoleBuckets
<1>3. /\ \A h \in Callers \ {g} : call'[h] = call[h]
      /\ \A j \in Ids : g \in Asking(j) <=> j = i
      /\ \A j \in Ids : g \notin Asking(j)'
      /\ UNCHANGED <<now, limiters, made>>
  <2>1. PICK p \in {"run", "reserve"} : Become(g, [call[g] EXCEPT !.pc = p])
    BY DEF Allow
  <2>2. /\ call'[g].pc \in {"run", "reserve"} /\ call[g].pc = "allow"
        /\ \A h \in Callers \ {g} : call'[h] = call[h]
    BY <2>1 DEF Become, Allow, Quiet, TypeOK, Call
  <2> QED
    BY <1>1, <2>2 DEF Asking, Allow
<1>4. /\ \A d \in Buckets : Credit(d) \in Int /\ Credit(d)' \in Int
      /\ \A d \in Buckets \ {b} : Credit(d)' = Credit(d)
      /\ Credit(b)' = Credit(b) \/ Credit(b)' = Credit(b) - Cost
  <2>1. \A d \in Buckets : Credit(d) \in Int /\ Credit(d)' \in Int
    BY CreditBounds, CreditNext DEF Quiet
  <2>2. CASE Take(b)
    BY <1>3, <2>1, <2>2, TakeMeans DEF Quiet
  <2>3. CASE UNCHANGED bucket
    BY <1>3, <2>1, <2>3 DEF Credit, Full
  <2> QED
    BY <1>1, <2>1, <2>2, <2>3 DEF Allow
<1>5. ASSUME NEW j \in Ids, j # i PROVE Tokens(j)'
  <2>1. Asking(j)' = Asking(j) /\ made'[j] = made[j] /\ limiters'[j] = limiters[j]
    BY <1>3, <1>5, AskingMoves DEF Quiet
  <2>2. limiters[j] # None => Credit(limiters[j])' >= Credit(limiters[j])
    <3> SUFFICES ASSUME limiters[j] # None PROVE Credit(limiters[j])' >= Credit(limiters[j])
      OBVIOUS
    <3>1. PICK d \in Buckets \ {b} : d = limiters[j] /\ d = limiters'[j]
      BY <1>2, <1>5, <2>1 DEF Quiet, TypeOK
    <3>2. Credit(d)' = Credit(d) /\ Credit(d) \in Int
      BY <1>4
    <3> QED
      BY <3>1, <3>2
  <2> QED
    BY <2>1, <2>2, TokensKept, TokensEach DEF Quiet
<1>6. Tokens(i)'
  <2> DEFINE a == Cardinality(Asking(i))
             n == Burst - made[i] + a
  <2>1. /\ IsFiniteSet(Asking(i)) /\ a \in Nat /\ a >= 1 /\ a <= made[i]
        /\ made[i] <= Burst => Credit(b) >= Price(n)
    <3>1. Tokens(i) /\ limiters[i] # None
      BY <1>2, TokensEach, LimiterAssumption DEF Quiet
    <3>2. g \in Asking(i)
      BY <1>3
    <3> QED
      BY <1>2, <3>1, <3>2, CountOne DEF Tokens
  <2>2. made[i] \in Nat /\ Burst \in Nat /\ Cost \in Nat
    BY LimiterAssumption DEF Quiet, TypeOK
  <2>3. Asking(i)' = Asking(i) \ {g}
    BY <1>3, AskingMoves DEF Quiet
  <2>4. IsFiniteSet(Asking(i)') /\ Cardinality(Asking(i)') = a - 1
    BY <1>3, <2>1, <2>3, CountOne
  <2>5. Credit(limiters[i])' = Credit(b)' /\ made'[i] = made[i]
    BY <1>2, <1>3 DEF Credit, Full
  <2>6. /\ Burst - made[i] + (a - 1) = n - 1 /\ a - 1 <= made[i]
        /\ n - 1 \in Int /\ n - 1 + 1 = n
    BY <2>1, <2>2
  <2>7. Price(n - 1) \in Int /\ Price(n) = Price(n - 1) + Cost
    BY <2>6, Prices
  <2>8. made[i] <= Burst => Credit(b)' >= Price(n - 1)
    BY <1>4, <2>1, <2>2, <2>7
  <2>9. made[i] <= Burst => Credit(b)' >= Price(Burst - made[i] + (a - 1))
    BY <2>6, <2>8
  <2> HIDE DEF n, a
  <2> QED
    BY <2>4, <2>5, <2>6, <2>9, TokensAfter
<1> QED
  BY <1>5, <1>6, TokensEach

\* Only calls of instances that are not quiet reserve, from their own bucket.
LEMMA ReserveTokens ==
  ASSUME Quiet, TypeOK', NEW g \in Callers, Reserve(g)
  PROVE  TokensForAll'
<1>1. PICK i \in Ids, b \in Buckets : i = call[g].inst /\ b = call[g].bucket
  BY DEF Reserve, Quiet, TypeOK
<1>2. b = limiters[i] /\ \A j \in Ids \ {i} : limiters[j] # b
  BY <1>1, LimiterAssumption DEF Quiet, Inv, SoleBuckets
<1>3. made[i] \in Nat /\ Burst \in Nat /\ made[i] > Burst
  BY <1>1, LimiterAssumption DEF Quiet, QuietInstanceAllowed, Reserve, TypeOK
<1>4. /\ \A h \in Callers \ {g} : call'[h] = call[h]
      /\ \A j \in Ids : g \in Asking(j)' <=> g \in Asking(j)
      /\ UNCHANGED <<now, limiters, made>>
  <2>1. PICK c : /\ Become(g, c) /\ c.pc \in {"denied", "panicked"}
    <3>1. \A r : [call[g] EXCEPT !.pc = "denied", !.retry = r].pc = "denied"
      BY DEF Quiet, TypeOK, Call
    <3>2. [call[g] EXCEPT !.pc = "panicked"].pc = "panicked"
      BY DEF Quiet, TypeOK, Call
    <3> QED
      BY <3>1, <3>2 DEF Reserve, Deny
  <2>2. /\ call'[g].pc \in {"denied", "panicked"} /\ call[g].pc = "reserve"
        /\ \A h \in Callers \ {g} : call'[h] = call[h]
    BY <2>1 DEF Become, Reserve, Quiet, TypeOK
  <2> QED
    BY <2>2 DEF Asking, Reserve
<1>5. \A d \in Buckets \ {b} : Credit(d)' = Credit(d) /\ Credit(d) \in Int
  <2>1. CASE Take(b)
    BY <1>4, <2>1, TakeMeans, CreditBounds DEF Quiet
  <2>2. CASE UNCHANGED bucket
    BY <1>4, <2>2, CreditBounds DEF Credit, Full, Quiet
  <2> QED
    BY <1>1, <2>1, <2>2 DEF Reserve
<1>6. ASSUME NEW j \in Ids, j # i PROVE Tokens(j)'
  <2>1. Asking(j)' = Asking(j) /\ made'[j] = made[j] /\ limiters'[j] = limiters[j]
    BY <1>4, <1>6, AskingMoves DEF Quiet
  <2>2. limiters[j] # None => Credit(limiters[j])' >= Credit(limiters[j])
    <3> SUFFICES ASSUME limiters[j] # None PROVE Credit(limiters[j])' >= Credit(limiters[j])
      OBVIOUS
    <3>1. PICK d \in Buckets \ {b} : d = limiters[j] /\ d = limiters'[j]
      BY <1>2, <1>6, <2>1 DEF Quiet, TypeOK
    <3>2. Credit(d)' = Credit(d) /\ Credit(d) \in Int
      BY <1>5
    <3> QED
      BY <3>1, <3>2
  <2> QED
    BY <2>1, <2>2, TokensKept, TokensEach DEF Quiet
<1>7. Tokens(i)'
  <2>1. Asking(i)' = Asking(i) /\ made'[i] = made[i]
    BY <1>4, AskingMoves DEF Quiet
  <2>2. IsFiniteSet(Asking(i)) /\ Cardinality(Asking(i)) <= made[i]
    BY TokensEach DEF Quiet, Tokens
  <2> QED
    BY <1>3, <2>1, <2>2 DEF Tokens
<1> QED
  BY <1>6, <1>7, TokensEach

\* Every step leaves a token for each call of a quiet instance.
LEMMA StepTokens == Quiet /\ [Next]_vars => TokensForAll'
<1> SUFFICES ASSUME Quiet, [Next]_vars PROVE TokensForAll'
  OBVIOUS
<1>0. TypeOK'
  BY StepTyped DEF Quiet
<1>1. ASSUME NEW g \in Callers, Finish(g) PROVE TokensForAll'
  <2>1. /\ \A h \in Callers \ {g} : call'[h] = call[h]
        /\ call'[g].pc = "idle" /\ call[g].pc \in {"run", "denied"}
        /\ UNCHANGED <<now, limiters, bucket, made>>
    BY <1>1 DEF Finish, Become, Idle, Quiet, TypeOK
  <2>2. \A i \in Ids : g \in Asking(i)' <=> g \in Asking(i)
    BY <2>1 DEF Asking
  <2> QED
    BY <1>0, <2>1, <2>2, StillTokens
<1>2. ASSUME NEW g \in Callers, FindBucket(g) PROVE TokensForAll'
  <2>1. /\ \A h \in Callers \ {g} : call'[h] = call[h]
        /\ call'[g].pc \in {"create", "allow"} /\ call[g].pc = "find"
        /\ call'[g].inst = call[g].inst
        /\ UNCHANGED <<now, limiters, bucket, made>>
    BY <1>2 DEF FindBucket, Become, Quiet, TypeOK, Call
  <2>2. \A i \in Ids : g \in Asking(i)' <=> g \in Asking(i)
    BY <2>1 DEF Asking
  <2> QED
    BY <1>0, <2>1, <2>2, StillTokens
<1>3. CASE UNCHANGED vars
  <2>1. ASSUME NEW i \in Ids PROVE Tokens(i)'
    <3>1. Tokens(i)
      BY TokensEach DEF Quiet
    <3>2. Asking(i)' = Asking(i) /\ Credit(limiters[i])' = Credit(limiters[i])
      BY <1>3 DEF vars, Asking, Credit, Full
    <3> QED
      BY <1>3, <3>1, <3>2 DEF vars, Tokens, Price
  <2> QED
    BY <2>1, TokensEach
<1>4. ASSUME NEW g \in Callers,
             \/ \E i \in Ids, named \in BOOLEAN : Start(g, i, named)
             \/ FindBucket(g) \/ CreateBucket(g)
             \/ Allow(g) \/ Reserve(g) \/ Finish(g)
      PROVE  TokensForAll'
  BY <1>0, <1>1, <1>2, <1>4, StartTokens, CreateTokens, AllowTokens, ReserveTokens
<1> QED
  BY <1>0, <1>3, <1>4, TickTokens DEF Next

\* So a caller of a quiet instance is not refused, and an instance does not
\* become quiet again.
LEMMA StepQuiet == Quiet /\ [Next]_vars => QuietInstanceAllowed'
<1> SUFFICES ASSUME Quiet, [Next]_vars PROVE QuietInstanceAllowed'
  OBVIOUS
<1>1. \A i \in Ids : made[i] \in Nat /\ made'[i] \in Nat /\ made'[i] >= made[i] /\ Burst \in Nat
  <2>1. \A i \in Ids : made[i] \in Nat
    BY DEF Quiet, TypeOK
  <2>2. ASSUME NEW j \in Ids, made' = [made EXCEPT ![j] = @ + 1]
        PROVE  \A i \in Ids : made'[i] \in Nat /\ made'[i] >= made[i]
    BY <2>1, <2>2 DEF Quiet, TypeOK
  <2>3. ASSUME made' = made
        PROVE  \A i \in Ids : made'[i] \in Nat /\ made'[i] >= made[i]
    BY <2>1, <2>3
  <2> QED
    BY <2>1, <2>2, <2>3, LimiterAssumption
    DEF Next, vars, Tick, Start, Finish, FindBucket, CreateBucket, Allow, Reserve
<1>2. SUFFICES ASSUME NEW h \in Callers, call'[h].pc \in {"reserve", "denied"}
               PROVE  /\ call'[h].inst = call[h].inst /\ call[h].inst \in Ids
                      /\ made[call[h].inst] > Burst
  BY <1>1 DEF QuietInstanceAllowed
<1>3. ASSUME call'[h] = call[h]
      PROVE  /\ call'[h].inst = call[h].inst /\ call[h].inst \in Ids
             /\ made[call[h].inst] > Burst
  BY <1>2, <1>3 DEF Quiet, TypeOK, QuietInstanceAllowed
<1>4. ASSUME NEW g \in Callers, Allow(g)
      PROVE  /\ call'[h].inst = call[h].inst /\ call[h].inst \in Ids
             /\ made[call[h].inst] > Burst
  <2>1. CASE h # g
    <3>1. call'[h] = call[h]
      BY <1>4, <2>1 DEF Allow, Become, Quiet, TypeOK
    <3> QED
      BY <1>3, <3>1
  <2>2. CASE h = g
    <3>1. ~ (Credit(call[g].bucket) >= Cost)
      BY <1>2, <1>4, <2>2 DEF Allow, Become, Quiet, TypeOK, Call
    <3>2. call'[h].inst = call[h].inst
      BY <1>4, <2>2, <3>1 DEF Allow, Become, Quiet, TypeOK, Call
    <3>3. call[h].inst \in Ids /\ call[h].pc = "allow"
      BY <1>4, <2>2 DEF Allow, Quiet, TypeOK
    <3>4. ~ (made[call[h].inst] <= Burst)
      BY <2>2, <3>1, <3>3, TokenThere
    <3> QED
      BY <1>1, <3>2, <3>3, <3>4
  <2> QED
    BY <2>1, <2>2
<1>5. ASSUME NEW g \in Callers, Reserve(g)
      PROVE  /\ call'[h].inst = call[h].inst /\ call[h].inst \in Ids
             /\ made[call[h].inst] > Burst
  <2>1. CASE h # g
    <3>1. call'[h] = call[h]
      BY <1>5, <2>1 DEF Reserve, Deny, Become, Quiet, TypeOK
    <3> QED
      BY <1>3, <3>1
  <2>2. CASE h = g
    <3>1. ASSUME NEW r, Become(g, [call[g] EXCEPT !.pc = "denied", !.retry = r])
          PROVE  call'[g].inst = call[g].inst
      BY <3>1 DEF Become, Quiet, TypeOK, Call
    <3>2. ASSUME Become(g, [call[g] EXCEPT !.pc = "panicked"])
          PROVE  call'[g].inst = call[g].inst
      BY <3>2 DEF Become, Quiet, TypeOK, Call
    <3> QED
      BY <1>5, <2>2, <3>1, <3>2 DEF Reserve, Deny, Quiet, TypeOK, QuietInstanceAllowed
  <2> QED
    BY <2>1, <2>2
<1>6. ASSUME NEW g \in Callers, NEW c, Become(g, c), c.pc \notin {"reserve", "denied"}
      PROVE  call'[h] = call[h]
  BY <1>2, <1>6 DEF Become, Quiet, TypeOK
<1>7. ASSUME NEW g \in Callers, NEW i \in Ids, NEW named \in BOOLEAN, Start(g, i, named)
      PROVE  call'[h] = call[h]
  BY <1>6, <1>7 DEF Start, Idle
<1>8. ASSUME NEW g \in Callers, FindBucket(g) \/ CreateBucket(g)
      PROVE  call'[h] = call[h]
  <2>1. CASE FindBucket(g)
    <3>1. call'[g].pc \in {"create", "allow"} /\ \A k \in Callers \ {g} : call'[k] = call[k]
      BY <2>1 DEF FindBucket, Become, Quiet, TypeOK, Call
    <3> QED
      BY <1>2, <3>1
  <2>2. CASE CreateBucket(g)
    <3>1. PICK b : Become(g, [call[g] EXCEPT !.bucket = b, !.pc = "allow"])
      BY <2>2 DEF CreateBucket
    <3>2. [call[g] EXCEPT !.bucket = b, !.pc = "allow"].pc = "allow"
      BY DEF Quiet, TypeOK, Call
    <3> QED
      BY <1>6, <3>1, <3>2
  <2> QED
    BY <1>8, <2>1, <2>2
<1>9. ASSUME NEW g \in Callers, Finish(g)
      PROVE  call'[h] = call[h]
  BY <1>6, <1>9 DEF Finish, Idle
<1>10. CASE UNCHANGED call
  BY <1>3, <1>10
<1> QED
  BY <1>3, <1>4, <1>5, <1>7, <1>8, <1>9, <1>10 DEF Next, Tick, vars

\* An instance whose callers never made more calls than the burst is never
\* refused, however its first calls race to create its bucket and whatever the
\* callers of other instances do.
THEOREM QuietNeverRefused == Spec => []QuietInstanceAllowed
<1>1. Init => Quiet
  <2>1. Init => TypeOK /\ Inv
    BY InitTyped, InitInv
  <2>2. Init => QuietInstanceAllowed
    BY DEF Init, QuietInstanceAllowed, Idle
  <2>3. ASSUME Init, NEW i \in Ids PROVE Tokens(i)
    <3>1. Asking(i) = {}
      BY <2>3 DEF Init, Asking, Idle
    <3>2. made[i] = 0 /\ limiters[i] = None
      BY <2>3 DEF Init
    <3> QED
      BY <3>1, <3>2, FS_EmptySet DEF Tokens
  <2> QED
    BY <2>1, <2>2, <2>3, TokensEach DEF Quiet
<1>2. Quiet /\ [Next]_vars => Quiet'
  BY StepTyped, StepInv, StepTokens, StepQuiet DEF Quiet
<1>3. Quiet => QuietInstanceAllowed
  BY DEF Quiet
<1> QED
  BY <1>1, <1>2, <1>3, PTL DEF Spec

=============================================================================
