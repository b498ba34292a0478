---------------------------- MODULE MCCollection ----------------------------
(***************************************************************************)
(* Collection on a small instance for TLC: a single writer whose calls     *)
(* fail and crash half way.  (MCData has it with calls that all come to    *)
(* their end.)                                                             *)
(***************************************************************************)
EXTENDS Collection, TLC

CONSTANTS r1, r2, h1, c1

TwoRecords == {r1, r2}
OneHandle  == {h1}
OneCaller  == {c1}
=============================================================================
