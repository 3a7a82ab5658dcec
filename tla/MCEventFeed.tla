---------------------------- MODULE MCEventFeed ----------------------------
(* Small instances of EventFeed for TLC. They need no definitions: requests   *)
(* are model values, and symmetry is left out because of the liveness         *)
(* property.                                                                  *)
EXTENDS EventFeed
============================================================================
