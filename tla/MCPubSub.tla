------------------------------ MODULE MCPubSub ------------------------------
(* Small instances of PubSub: three subscribers of one channel.            *)
EXTENDS PubSub, TLC

CONSTANTS s1, s2, s3

AnyOrder == Permutations(Subscribers)
=============================================================================
