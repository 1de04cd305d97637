------------------------- MODULE AuthorizationGrant -------------------------
(***************************************************************************)
(* What the OAuth authorization server promises, with no HTTP handlers, no *)
(* locks and no clock: an authorization code is redeemed at most once, for *)
(* one bearer token that stands for exactly the credentials the code was   *)
(* granted for, and a token that has lapsed never comes back.              *)
(***************************************************************************)

CONSTANTS Codes, Tokens, Creds, None, Spent

VARIABLES
  grant,    \* a code is not granted yet (None), open for credentials, or Spent
  bearer    \* a token is not issued yet (None), stands for credentials, or Spent

Init ==
  /\ grant = [c \in Codes |-> None]
  /\ bearer = [t \in Tokens |-> None]

\* A code is granted for credentials the user has shown to be valid.
Grant(c, k) ==
  /\ grant[c] = None
  /\ grant' = [grant EXCEPT ![c] = k]
  /\ UNCHANGED bearer

\* An open code is turned into a token for its credentials.
Redeem(c, t) ==
  /\ grant[c] \in Creds
  /\ bearer[t] = None
  /\ grant' = [grant EXCEPT ![c] = Spent]
  /\ bearer' = [bearer EXCEPT ![t] = grant[c]]

\* Open codes are lost: a failed exchange, or they expired.
Void(C) ==
  /\ C # {} /\ \A c \in C : grant[c] \in Creds
  /\ grant' = [c \in Codes |-> IF c \in C THEN Spent ELSE grant[c]]
  /\ UNCHANGED bearer

\* Tokens expire.
Lapse(T) ==
  /\ T # {} /\ \A t \in T : bearer[t] \in Creds
  /\ bearer' = [t \in Tokens |-> IF t \in T THEN Spent ELSE bearer[t]]
  /\ UNCHANGED grant

Next ==
  \/ \E c \in Codes, k \in Creds : Grant(c, k)
  \/ \E c \in Codes, t \in Tokens : Redeem(c, t)
  \/ \E C \in SUBSET Codes : Void(C)
  \/ \E T \in SUBSET Tokens : Lapse(T)

Spec == Init /\ [][Next]_<<grant, bearer>>

=============================================================================
