------------------------------ MODULE MCWorker ------------------------------
(* Worker on small instances: two workers of one consumer; one item has a  *)
(* handler and one has none.                                               *)
EXTENDS Worker, TLC

CONSTANTS w1, w2, i1, i2, consumer

MCConsumerOf == w1 :> consumer @@ w2 :> consumer
MCHandles == w1 :> {i1} @@ w2 :> {i1}
=============================================================================
