---------------------------- MODULE RateLimiter ----------------------------
(***************************************************************************)
(* Per-instance rate limiting of tool calls: the wrapper addTool puts      *)
(* around every tool (mcp/server.go) and the Limiter it asks               *)
(* (ratelimit/limiter.go), which keeps one token bucket per instance and   *)
(* creates it on the first call.  Tool calls run concurrently; finding,    *)
(* creating, asking and reserving are separate critical sections.          *)
(*                                                                         *)
(* Credit is counted in ticks of the clock: a request costs Cost ticks of  *)
(* it, which is how long the bucket takes to earn one token, so that       *)
(* RequestsPerSecond = Second / Cost and every quantity is an integer.     *)
(* The bucket (golang.org/x/time/rate) is external: Allow and Reserve are  *)
(* atomic and see the time of the step.                                    *)
(***************************************************************************)
EXTENDS Integers, FiniteSets

CONSTANTS
  Callers,     \* tool calls that may run at the same time
  Ids,         \* instance IDs
  Buckets,     \* rate.Limiter objects that can be allocated
  None,        \* no instance, no bucket
  Burst,       \* Config.Burst
  Cost,        \* ticks per token
  Second,      \* ticks per second
  MaxTime,     \* bound on the clock
  MaxCalls     \* bound on the calls made for each instance

ASSUME LimiterAssumption ==
  /\ None \notin Ids \cup Buckets
  /\ Burst \in Nat
  /\ Cost \in Nat \ {0}
  /\ Second \in Nat \ {0}
  /\ MaxTime \in Nat
  /\ MaxCalls \in Nat

VARIABLES
  now,        \* time.Now()
  limiters,   \* Limiter.limiters
  bucket,     \* by bucket object: its credit, and when it was last updated
  call,       \* what each tool call holds
  \* History
  made,       \* by instance: calls that named it
  spent,      \* by instance and time s: credit admitted calls took since s
  retryAt     \* by instance: when the last caller was told to come back, if
              \* nobody has called for the instance since

vars == <<now, limiters, bucket, call, made, spent, retryAt>>

Times == 0 .. MaxTime
Full  == Burst * Cost
Never == -1

Idle == [pc |-> "idle", inst |-> None, named |-> FALSE, waited |-> FALSE,
         bucket |-> None, retry |-> 0]

Call == [pc     : {"idle", "find", "create", "allow", "reserve", "run", "denied", "panicked"},
         inst   : Ids \cup {None},
         named  : BOOLEAN,    \* instance_id is a number in the arguments
         waited : BOOLEAN,    \* the caller waited as long as it was told
         bucket : Buckets \cup {None},
         retry  : Nat]        \* RateLimitError.RetryAfter

TypeOK ==
  /\ now \in Times
  /\ limiters \in [Ids -> Buckets \cup {None}]
  /\ bucket \in [Buckets -> [credit : Int, last : Times]]
  /\ call \in [Callers -> Call]
  /\ \A g \in Callers : /\ call[g].pc # "idle" => call[g].inst \in Ids
                        /\ call[g].pc \in {"allow", "reserve"} => call[g].bucket \in Buckets
  /\ made \in [Ids -> Nat]
  /\ spent \in [Ids -> [Times -> Nat]]
  /\ retryAt \in [Ids -> Int]

Init ==
  /\ now = 0
  /\ limiters = [i \in Ids |-> None]
  /\ bucket = [b \in Buckets |-> [credit |-> Full, last |-> 0]]
  /\ call = [g \in Callers |-> Idle]
  /\ made = [i \in Ids |-> 0]
  /\ spent = [i \in Ids |-> [s \in Times |-> 0]]
  /\ retryAt = [i \in Ids |-> Never]

Tick ==
  /\ now < MaxTime
  /\ now' = now + 1
  /\ UNCHANGED <<limiters, bucket, call, made, spent, retryAt>>

Become(g, c) == call' = [call EXCEPT ![g] = c]

\* Credit worth one token, counted since every time up to now.
Charged(count, i) ==
  [count EXCEPT ![i] = [s \in Times |-> IF s <= now THEN @[s] + Cost ELSE @[s]]]

-----------------------------------------------------------------------------
(* golang.org/x/time/rate.  A denied request leaves the bucket as it is; a *)
(* reservation always goes through, into debt if need be.                  *)

Credit(b) ==
  LET earned == bucket[b].credit + (now - bucket[b].last)
  IN  IF earned > Full THEN Full ELSE earned

Take(b) == bucket' = [bucket EXCEPT ![b] = [credit |-> Credit(b) - Cost, last |-> now]]

-----------------------------------------------------------------------------
(* addTool's wrapper.                                                      *)

\* A tool call for instance i.  getInstanceID finds the instance only when it
\* is a number in the arguments; resolveInstanceID, in the tool itself, also
\* takes it from a string or from the authenticated request, and such a call
\* is not rate limited.
Start(g, i, named) ==
  /\ call[g].pc = "idle"
  /\ made[i] < MaxCalls
  /\ Become(g, [Idle EXCEPT !.pc = IF named THEN "find" ELSE "run", !.inst = i, !.named = named,
                !.waited = named /\ retryAt[i] # Never /\ now >= retryAt[i]])
  /\ made' = [made EXCEPT ![i] = @ + 1]
  /\ retryAt' = [retryAt EXCEPT ![i] = Never]
  /\ UNCHANGED <<now, limiters, bucket, spent>>

\* The handler is done, or the error result is returned.
Finish(g) ==
  /\ call[g].pc \in {"run", "denied"}
  /\ Become(g, Idle)
  /\ UNCHANGED <<now, limiters, bucket, made, spent, retryAt>>

-----------------------------------------------------------------------------
(* getLimiter.                                                             *)

\* Fault: one bucket serves every instance.
FindAnyBucket(g) ==
  /\ call[g].pc = "find"
  /\ \E i \in Ids :
       /\ (\A j \in Ids : limiters[j] = None) \/ limiters[i] # None
       /\ Become(g, [call[g] EXCEPT !.bucket = limiters[i],
                     !.pc = IF limiters[i] = None THEN "create" ELSE "allow"])
  /\ UNCHANGED <<now, limiters, bucket, made, spent, retryAt>>

\* Under the read lock: the bucket of the instance, if there is one.
FindBucket(g) ==
  /\ call[g].pc = "find"
  /\ LET b == limiters[call[g].inst]
     IN  Become(g, [call[g] EXCEPT !.bucket = b, !.pc = IF b = None THEN "create" ELSE "allow"])
  /\ UNCHANGED <<now, limiters, bucket, made, spent, retryAt>>

\* Buckets nobody refers to.
Fresh == {b \in Buckets : /\ \A i \in Ids : limiters[i] # b
                          /\ \A g \in Callers : call[g].bucket # b}

\* Fault: no second look under the write lock.
CreateUnchecked(g) ==
  /\ call[g].pc = "create"
  /\ \E b \in Fresh :
       /\ limiters' = [limiters EXCEPT ![call[g].inst] = b]
       /\ bucket' = [bucket EXCEPT ![b] = [credit |-> Full, last |-> now]]
       /\ Become(g, [call[g] EXCEPT !.bucket = b, !.pc = "allow"])
  /\ UNCHANGED <<now, made, spent, retryAt>>

\* Under the write lock: look again, and create a full bucket if it is still
\* missing.
CreateBucket(g) ==
  /\ call[g].pc = "create"
  /\ LET i == call[g].inst
     IN  \/ /\ limiters[i] # None
            /\ Become(g, [call[g] EXCEPT !.bucket = limiters[i], !.pc = "allow"])
            /\ UNCHANGED <<limiters, bucket>>
         \/ /\ limiters[i] = None
            /\ \E b \in Fresh :
                 /\ limiters' = [limiters EXCEPT ![i] = b]
                 /\ bucket' = [bucket EXCEPT ![b] = [credit |-> Full, last |-> now]]
                 /\ Become(g, [call[g] EXCEPT !.bucket = b, !.pc = "allow"])
  /\ UNCHANGED <<now, made, spent, retryAt>>

-----------------------------------------------------------------------------
(* Limiter.Allow.                                                          *)

\* limiter.Allow(): take a token if there is one.
Allow(g) ==
  /\ call[g].pc = "allow"
  /\ LET b == call[g].bucket
         i == call[g].inst
     IN  IF Credit(b) >= Cost
           THEN /\ Take(b)
                /\ spent' = Charged(spent, i)
                /\ Become(g, [call[g] EXCEPT !.pc = "run"])
           ELSE /\ Become(g, [call[g] EXCEPT !.pc = "reserve"])
                /\ UNCHANGED <<bucket, spent>>
  /\ UNCHANGED <<now, limiters, made, retryAt>>

\* RequestsPerSecond as an integer: time.Duration(l.config.RequestsPerSecond)
WholeRate == Second \div Cost

Alone(g) == \A h \in Callers \ {g} : call[h].inst # call[g].inst

\* The answer to a denied call: how long it is told to stay away.
Deny(g, retry) ==
  /\ Become(g, [call[g] EXCEPT !.pc = "denied", !.retry = retry])
  /\ retryAt' = [retryAt EXCEPT ![call[g].inst] = IF Alone(g) THEN now + retry ELSE Never]

\* Fault: the delay of the reservation is passed on as it is.
ReserveRaw(g) ==
  /\ call[g].pc = "reserve"
  /\ LET debt == Cost - Credit(call[g].bucket)
     IN  Deny(g, IF debt > 0 THEN debt ELSE 0)
  /\ Take(call[g].bucket)
  /\ UNCHANGED <<now, limiters, made, spent>>

\* limiter.Reserve().Delay(): a token is taken all the same, and the delay is
\* how long the bucket needs to be out of debt.  If a token was earned since
\* the denial there is none: one second over the integer part of the rate
\* then, which panics when the rate is below one.  An empty bucket that can
\* hold nothing refuses the reservation and answers with the longest delay.
Reserve(g) ==
  /\ call[g].pc = "reserve"
  /\ LET b == call[g].bucket
         debt == Cost - Credit(b)
     IN  \/ /\ Burst > 0 /\ debt > 0
            /\ Take(b) /\ Deny(g, debt)
         \/ /\ Burst > 0 /\ debt <= 0 /\ WholeRate > 0
            /\ Take(b) /\ Deny(g, Second \div WholeRate)
         \/ /\ Burst > 0 /\ debt <= 0 /\ WholeRate = 0
            /\ Take(b)
            /\ Become(g, [call[g] EXCEPT !.pc = "panicked"])
            /\ UNCHANGED retryAt
         \/ /\ Burst = 0
            /\ Deny(g, MaxTime + 1)
            /\ UNCHANGED bucket
  /\ UNCHANGED <<now, limiters, made, spent>>

Next ==
  \/ Tick
  \/ \E g \in Callers :
       \/ \E i \in Ids, named \in BOOLEAN : Start(g, i, named)
       \/ FindBucket(g) \/ CreateBucket(g)
       \/ Allow(g) \/ Reserve(g) \/ Finish(g)

Spec == Init /\ [][Next]_vars

-----------------------------------------------------------------------------
(* Properties.                                                             *)

\* Whatever the interleaving, the first calls for an instance included, the
\* calls the limiter admits for it in any stretch of time are at most the
\* burst plus what the rate earns in that time ("allowed should be <= burst",
\* limiter_stress_test.go; the double check in getLimiter).
WithinBudget ==
  \A i \in Ids, s \in Times : s <= now => spent[i][s] <= Full + (now - s)

\* An instance whose callers never made more calls than the burst is never
\* refused, whatever the callers of other instances do
\* (TestRateLimiterPerInstance).
QuietInstanceAllowed ==
  \A g \in Callers : call[g].pc \in {"reserve", "denied"} => made[call[g].inst] > Burst

\* A refused caller is told to stay away for some time, also when a token was
\* earned between the refusal and the reservation (Limiter.Allow).
RetryIsPositive == \A g \in Callers : call[g].pc = "denied" => call[g].retry > 0

\* Why they hold: the invariant the proofs carry.  Every call has the one
\* bucket of its instance, and what the bucket holds and what was admitted
\* make up no more than the budget.
SoleBuckets ==
  /\ \A i, j \in Ids : limiters[i] # None /\ limiters[i] = limiters[j] => i = j
  /\ \A g \in Callers :
       call[g].bucket # None => call[g].bucket = limiters[call[g].inst] /\ call[g].inst \in Ids

Balanced ==
  \A i \in Ids, s \in Times :
    /\ limiters[i] = None \/ s > now => spent[i][s] = 0
    /\ limiters[i] # None /\ s <= now => spent[i][s] + Credit(limiters[i]) <= Full + (now - s)

Inv ==
  /\ \A b \in Buckets : bucket[b].last <= now
  /\ SoleBuckets
  /\ Balanced
  /\ WithinBudget

\* Why a quiet instance is never refused: until its callers have made more
\* calls than the burst, its bucket holds a token for each of them that still
\* asks and for each call they may still make.
Asking(i) == {g \in Callers : call[g].inst = i /\ call[g].pc \in {"find", "create", "allow"}}

TokensForAll ==
  \A i \in Ids :
    /\ IsFiniteSet(Asking(i))
    /\ Cardinality(Asking(i)) <= made[i]
    /\ limiters[i] # None /\ made[i] <= Burst =>
         Credit(limiters[i]) >= Cost * (Burst - made[i] + Cardinality(Asking(i)))

-----------------------------------------------------------------------------
(* What the comments say and the code does not do.                         *)

\* limiter.go: a refused caller is told to "retry after" a delay.  A caller
\* that does, and that nobody else called before or beside, is let in.  (For
\* one caller at a time.)
RetryHonoured ==
  \A g \in Callers : call[g].pc \in {"reserve", "denied"} => ~ call[g].waited

=============================================================================
