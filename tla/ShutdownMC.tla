----------------------------- MODULE ShutdownMC -----------------------------
(* Instances of Shutdown for TLC. *)
EXTENDS Shutdown

TwoTasks == {"entry", "receipt"}
OneWork == {"lookup"}
TwoQueues == {"tokens", "trades"}
=============================================================================
