------------------------ MODULE MCCacheMaintenance ------------------------
(* Instances of CacheMaintenance for TLC.                                *)
EXTENDS CacheMaintenance

CONSTANTS f1, f2, f3

\* One thumbnail larger than a target and small ones, in units of the smallest.
MCSize == [f \in Thumbs |-> IF f = f2 THEN 3 ELSE 1]

\* A generous and a tight configuration; the tight target is above its maximum,
\* as restored preferences may leave it.
MCLimits == {[max |-> 3, target |-> 2], [max |-> 2, target |-> 3]}
===========================================================================
