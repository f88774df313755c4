-------------------------------- MODULE MCNodes --------------------------------
(* Model-checking instances of the nodes.                                      *)
EXTENDS NodeService

Config(authority, grandpa) == [authority |-> authority, grandpa |-> grandpa,
                               offchain |-> authority, telemetry |-> FALSE]

MCConfigs == {Config(TRUE, TRUE), Config(FALSE, TRUE)}
=============================================================================
