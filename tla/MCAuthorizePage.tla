-------------------------- MODULE MCAuthorizePage --------------------------
(* Two clients with a page each.  The first page runs its script, the      *)
(* second does not, and may have been opened without a sound request.      *)
(* Right credentials exist for the instance of k1, which may be right or   *)
(* wrong itself, and none for that of k2.                                   *)
EXTENDS AuthorizePage

CONSTANTS p1, p2, v1, v2, u1, u2, k1, k2, right

Asks(first, second) == [p \in Pages |-> IF p = p1 THEN first ELSE second]

R1 == [challenge |-> v1, redirect |-> u1]
R2 == [challenge |-> v2, redirect |-> u2]

AskedBy == {Asks(R1, R2), Asks(R1, Absent)}

InstanceOfCreds == [k \in Creds \cup Valid |-> IF k = k2 THEN "other" ELSE "one"]

=============================================================================
