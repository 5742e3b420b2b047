-------------------------- MODULE MCGlacierRestore --------------------------
(* Instances of GlacierRestore: three archived objects that take three days *)
(* to download and no copies at the start; three that take half a day, some *)
(* with copies that expire soon; copies of two days and restores of one and *)
(* a half, so that a copy may be about to expire when the poll gets to it.  *)
(* Then restores of two days, with copies that expire in the wait for them, *)
(* and with AWS_S3_RESTORE_DAYS set to one day.                             *)
EXTENDS GlacierRestore

MCKeys == <<"x", "y", "z">>
Nothing == [k \in {"x", "y", "z"} |-> 0]
Small == [Nothing EXCEPT !["x"] = 1]
Large == [k \in {"x", "y", "z"} |-> 2]
MCScenarios ==
    {[size |-> Large, left |-> {0}, restoreTime |-> 4, maxErrors |-> 1, override |-> 0],
     [size |-> Small, left |-> {0, 2, 3, 4}, restoreTime |-> 2, maxErrors |-> 0, override |-> 0],
     [size |-> Nothing, left |-> {0}, restoreTime |-> 3, maxErrors |-> 0, override |-> 2]}
MCRounds ==
    {[size |-> Small, left |-> {0, 4}, restoreTime |-> 4, maxErrors |-> 0, override |-> 0]}
MCShort ==
    {[size |-> Nothing, left |-> {0}, restoreTime |-> 4, maxErrors |-> 0, override |-> 1]}
=============================================================================
