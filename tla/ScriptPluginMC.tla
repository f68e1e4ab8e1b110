--------------------------- MODULE ScriptPluginMC ---------------------------
(* A small instance of ScriptPlugin for TLC. *)
EXTENDS ScriptPlugin

FourKinds == {[form |-> "chat", onToken |-> TRUE], [form |-> "chat", onToken |-> FALSE],
              [form |-> "prompt", onToken |-> TRUE], [form |-> "none", onToken |-> FALSE]}
=============================================================================
