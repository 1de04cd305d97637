--------------------------- MODULE Configuration ---------------------------
(***************************************************************************)
(* What the gateway is told before it starts (config/config.go) and what   *)
(* main makes of it (cmd/server/main.go): a file laid over the defaults,   *)
(* the environment laid over the file, one pass over the instances that    *)
(* fills the credential store, and the choice of the parts to start.       *)
(* Pure: nothing here changes a state.                                     *)
(*                                                                         *)
(* A credential is what an entry has besides its instance: token and URL.  *)
(* An environment credential without a URL stands with the default one.    *)
(***************************************************************************)
EXTENDS Naturals, Sequences

CONSTANTS
  Ids,        \* instances
  Creds,      \* token and URL of an instance
  Unset       \* not in the file, or not in the environment

\* The settings that choose what main starts.
Settings == {"transport", "auth", "webhook"}

\* Any other name stands for all that main does not know.
Values == {"stdio", "sse", "http", "hybrid", "config", "proxy", "polling", "receiver", "other"}

\* An item of green_api.instances.
Item == [id : Ids, cred : Creds]

\* A file; an environment has one instance at most, and all of it or nothing:
\* half of the pair, or an ID that is not a number, is as good as nothing.
FileType == [settings : [Settings -> Values \cup {Unset}], instances : Seq(Item)]

EnvType == [settings : [Settings -> Values \cup {Unset}], instance : Item \cup {Unset}]

Default == [transport |-> "stdio", auth |-> "config", webhook |-> "polling"]

\* What is set goes over what was there.
Overlay(settings, over) ==
  [s \in Settings |-> IF over[s] = Unset THEN settings[s] ELSE over[s]]

Positions(list, i) == {k \in DOMAIN list : list[k].id = i}

\* Fault: the first item is overridden instead of the one found.
OverrideFirstItem(list, item) ==
  IF Positions(list, item.id) = {} THEN Append(list, item) ELSE [list EXCEPT ![1] = item]

\* The loop of applyEnvOverrides: the first item of that instance is replaced,
\* or there is one more.
OverrideItem(list, item) ==
  IF Positions(list, item.id) = {}
    THEN Append(list, item)
    ELSE [k \in DOMAIN list |->
            IF /\ k \in Positions(list, item.id)
               /\ \A m \in Positions(list, item.id) : k <= m
            THEN item
            ELSE list[k]]

ApplyEnvOverrides(cfg, env) ==
  [settings |-> Overlay(cfg.settings, env.settings),
   instances |-> IF env.instance = Unset THEN cfg.instances
                 ELSE OverrideItem(cfg.instances, env.instance)]

\* Load, of a file that can be read and parsed.
Load(file, env) ==
  ApplyEnvOverrides([settings |-> Overlay(Default, file.settings), instances |-> file.instances], env)

\* main's loop over the instances: the last item of an instance stays.
LastCred(list, i) ==
  list[CHOOSE k \in Positions(list, i) : \A m \in Positions(list, i) : m <= k].cred

Registered(list) == [i \in {list[k].id : k \in DOMAIN list} |-> LastCred(list, i)]

\* The Serve method main calls.  Hybrid without the proxy serves SSE only, and
\* a name main does not know stands for stdio.
ServeMethod(settings) ==
  CASE settings["transport"] \in {"sse", "http"} -> settings["transport"]
    [] settings["transport"] = "hybrid" -> IF settings["auth"] = "proxy" THEN "hybrid" ELSE "sse"
    [] OTHER -> "stdio"

\* The switch over webhook.mode.
WebhookPart(cfg) ==
  CASE cfg.settings["webhook"] = "receiver" -> "receiver"
    [] cfg.settings["webhook"] = "polling" /\ Len(cfg.instances) > 0 -> "bridge"
    [] OTHER -> "none"

=============================================================================
