---------------------------- MODULE MCDemoSetup ----------------------------
(* A small instance of DemoSetup: one of the agents stands for the roles     *)
(* that come before the model owner.                                         *)
EXTENDS DemoSetup

MCRoles == <<"agent_a", "model_owner">>
=============================================================================
