--------------------------- MODULE CredentialStore ---------------------------
(***************************************************************************)
(* The in-memory credential store of the gateway (CredentialManager in     *)
(* internal/infrastructure/auth.go): one map from instance IDs to the      *)
(* credentials currently registered for the instance.  Every method holds  *)
(* the store's RWMutex from its first to its last line, so each of them is *)
(* one atomic step; the requests, the OAuth form and the tools that share  *)
(* the store compose these steps without holding anything in between.      *)
(*                                                                         *)
(* A credential (instance, token, API URL) is an opaque value; the only    *)
(* part of it the store looks at is the instance it belongs to.            *)
(***************************************************************************)

CONSTANTS
  Ids,         \* the WhatsApp instance IDs
  Creds,       \* every credential a request, a form or the config can name
  NoCreds,     \* stands for "no entry in the map"
  InstanceOf   \* the instance a credential is for: InstanceCredentials.InstanceID

ASSUME CredentialAssumption ==
  /\ InstanceOf \in [Creds -> Ids]
  /\ NoCreds \notin Creds

VARIABLE instances   \* CredentialManager.instances

Entry == Creds \cup {NoCreds}

\* An entry is filed under the instance it belongs to.
StoreType ==
  /\ instances \in [Ids -> Entry]
  /\ \A i \in Ids : instances[i] # NoCreds => InstanceOf[instances[i]] = i

GetCredentials(i) == instances[i]

AddInstance(c) == instances' = [instances EXCEPT ![InstanceOf[c]] = c]

RemoveInstance(i) == instances' = [instances EXCEPT ![i] = NoCreds]

ListInstances == {i \in Ids : instances[i] # NoCreds}

=============================================================================
