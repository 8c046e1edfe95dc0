--------------------------- MODULE MCRedisClients -----------------------------
(***************************************************************************)
(* An instance of RedisClients for TLC.  Everybody calls again and again;  *)
(* senders do not differ, nor do administrators.                           *)
(***************************************************************************)
EXTENDS RedisClients, TLC

Symmetric == Permutations(Senders) \cup Permutations(Admins)
=============================================================================
