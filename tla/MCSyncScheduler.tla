-------------------------- MODULE MCSyncScheduler --------------------------
(* Small instances of SyncScheduler for TLC.                               *)
EXTENDS SyncScheduler, TLC

CONSTANTS p1, p2, q1

TwoPushers == {p1, p2}

\* The modes of sync-policy.ts, with and without a floor.
Config(mode, pulls, floors) ==
    [push : {mode}, pull : pulls, floor : floors, onUnload : {TRUE}]
OnChange == Config("on-change", {"manual"}, BOOLEAN)
Debounce == Config("debounce", {"interval"}, BOOLEAN)
Interval == Config("interval", {"interval"}, BOOLEAN)
Presets  == OnChange \cup Debounce \cup Interval
=============================================================================
