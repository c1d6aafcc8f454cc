--------------------------- MODULE MCDeliveryClient ---------------------------
(* Instances of DeliveryClient.                                             *)
EXTENDS DeliveryClient, TLC

Interchangeable == Permutations(Sender) \cup Permutations(Conn)

\* Send of one unit, and a batch of units of different lengths.
Batches ==
  {[boundaries |-> <<>>, total |-> 2],
   [boundaries |-> <<1, 3, 4>>, total |-> 4]}

OneUnit == {[boundaries |-> <<>>, total |-> 1]}
=============================================================================
