----------------------------- MODULE MCRuntime -----------------------------
(* An instance of Runtime for TLC: the default configuration, one with     *)
(* another control channel, and two that are refused.                      *)
EXTENDS Runtime

DefaultMMAConfig ==
  [version |-> "1.0.0", mode |-> "ambient", transport |-> "grpc_uds", address |-> "/tmp/ua_mma.sock",
   tls |-> FALSE, defaultTTL |-> 3600000, maxTTL |-> 86400000, poolSize |-> 100, timeout |-> 5000]

MCConfigs == {DefaultMMAConfig,
              [DefaultMMAConfig EXCEPT !.transport = "grpc_tcp", !.address = "ua:9000", !.maxTTL = 3600000],
              [DefaultMMAConfig EXCEPT !.maxTTL = 3599999],
              [DefaultMMAConfig EXCEPT !.version = ""]}
=============================================================================
