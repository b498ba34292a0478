---------------------------- MODULE MCSyncEngine ----------------------------
(* Small instances of SyncEngine for TLC.                                  *)
EXTENDS SyncEngine, TLC

CONSTANTS r1, r2, p1

OneRecord  == {r1}
TwoRecords == {r1, r2}
OnePusher  == {p1}
=============================================================================
