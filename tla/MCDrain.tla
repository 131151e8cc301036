------------------------------ MODULE MCDrain ------------------------------
(* Both loops and a request that asks again and again, over two shards. *)
EXTENDS RedisDrain
=============================================================================
