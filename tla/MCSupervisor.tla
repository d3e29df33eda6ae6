---------------------------- MODULE MCSupervisor ----------------------------
(* Supervisor for TLC: process ids for two runs of server_main. *)
EXTENDS Supervisor

MCPids == 1 .. 2 * MaxWorker + 2
=============================================================================
