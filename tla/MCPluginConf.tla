---------------------------- MODULE MCPluginConf ----------------------------
(* Two workers and the configuration of one plugin. *)
EXTENDS Hooks, MCHooks
=============================================================================
