-------------------------- MODULE MCRedisPublisher --------------------------
(* RedisPublisher has numbers for constants only. *)
EXTENDS RedisPublisher
=============================================================================
