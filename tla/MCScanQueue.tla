---------------------------- MODULE MCScanQueue ----------------------------
(* Instances of ScanQueue small enough for TLC.                            *)
EXTENDS ScanQueue, TLC

CONSTANTS r1, r2, r3, a, b, c

(* Everyone scans a receipt of their own.                                  *)
OneTabEach == (a :> r1 @@ b :> r2 @@ c :> r3)

TwoTabsEach == (a :> r1 @@ b :> r2)

AnyTicket == Permutations(Tickets)

=============================================================================
