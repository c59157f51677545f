---------------------------- MODULE MCTaskEngine ----------------------------
(***************************************************************************)
(* Values of the constants of TaskEngine for TLC.                          *)
(***************************************************************************)
EXTENDS TaskEngine

CONSTANTS t1, t2, t3, k1

ThreeTasks  == {t1, t2, t3}
OneKey      == {k1}
AllKeys     == OneKey \cup [of : {"post", "memory"}, task : ThreeTasks]
AllKinds    == {"work", "archive", "encode", "review", "post"}
Requestable == AllKinds \ {"post"}
=============================================================================
