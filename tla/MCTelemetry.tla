---------------------------- MODULE MCTelemetry ----------------------------
(* A small instance of Telemetry: MCTelemetry.cfg gives the constants.     *)
EXTENDS Telemetry
=============================================================================
