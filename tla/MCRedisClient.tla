--------------------------- MODULE MCRedisClient ---------------------------
(* RedisClient for TLC: finite as it is, since a call has at most one SET      *)
(* beside the command it waits for.                                            *)
EXTENDS RedisClient
=============================================================================
