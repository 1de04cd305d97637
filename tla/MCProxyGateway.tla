--------------------------- MODULE MCProxyGateway ---------------------------
(***************************************************************************)
(* Small instances of ProxyGateway: one WhatsApp instance with a genuine   *)
(* credential and, in some runs, a wrong one; in some it is configured.    *)
(***************************************************************************)
EXTENDS ProxyGateway, FiniteSets, TLC

CONSTANTS i1, genuine1, wrong1

OneId          == {i1}
OneCreds       == {genuine1, wrong1}
OneInstanceOf  == [c \in OneCreds |-> i1]
OneGenuine     == {genuine1}
OneConfigured  == [i \in OneId |-> genuine1]
NoneConfigured == [i \in OneId |-> NoCreds]

SoleCreds      == {genuine1}
SoleInstanceOf == [c \in SoleCreds |-> i1]

AllDoors    == {"header", "bearer", "config", "form"}
HeaderDoor  == {"header"}

AllTools    == {"method", "connect", "disconnect"}
MethodTools == {"method"}

\* A bound: once the instance is contended most safety properties say nothing
\* about what follows, so the search goes on from there only with two requests,
\* without streams, connects and the configuration door, and until something
\* expires.
PairOnceContended ==
  contended = Ids =>
    /\ Cardinality({r \in Requests : req[r].pc # "idle"}) <= 2
    /\ \A r \in Requests : /\ req[r].via # "config" /\ req[r].conn # "GET"
                           /\ req[r].pc \notin Connecting
    /\ \A c \in Creds : cache[c] # "stale"

RequestSymmetry == Permutations(Requests)

=============================================================================
