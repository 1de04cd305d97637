---------------------------- MODULE MCLifecycle ----------------------------
(* The small instances of Lifecycle; what is not here is in the            *)
(* configurations.                                                         *)
EXTENDS Lifecycle, TLC

\* Every list of up to two items, and every environment; each setting is set in
\* the file, in the environment, in both and in neither somewhere.
Lists == UNION {[1 .. n -> Item] : n \in 0 .. 2}

Silent == [transport |-> Unset, auth |-> Unset, webhook |-> Unset]

FileSettings == {Silent, [transport |-> "hybrid", auth |-> "proxy", webhook |-> "receiver"]}

EnvSettings == {Silent, [transport |-> "hybrid", auth |-> "config", webhook |-> "receiver"],
                [transport |-> "http", auth |-> Unset, webhook |-> "other"]}

AnySource ==
  [file : [settings : FileSettings, instances : Lists],
   env  : [settings : EnvSettings, instance : Item \cup {Unset}]]

=============================================================================
