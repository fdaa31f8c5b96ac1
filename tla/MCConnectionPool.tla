-------------------------- MODULE MCConnectionPool --------------------------
(* ConnectionPool for two commands: the configuration gives the constants. *)
EXTENDS ConnectionPool
=============================================================================
