--------------------------- MODULE MCRequestWindow ---------------------------
(* RequestWindow on small instances: a request for the latest block, stored  *)
(* with the number of that block, and another one.                           *)
EXTENDS RequestWindow

MCNormalize == [r \in Requests |-> IF r = "latest" THEN "block" ELSE r]
=============================================================================
