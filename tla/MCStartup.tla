------------------------------ MODULE MCStartup ------------------------------
\* Two replicas and a shell with the migrate command; configurations that differ
\* where start-up does.
EXTENDS Startup

MCFiles == {[auto |-> TRUE]}

MCEnvs ==
  {<< >>, [auto |-> FALSE], [transport |-> "smtp"], [auto |-> FALSE, listen |-> "wrong"],
   [dsn |-> "keywords"]}
=============================================================================
