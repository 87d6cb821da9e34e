--------------------------- MODULE MCRestRLDaemon ---------------------------
(* Values for TLC: up to three tasks, of which t1 and t2 share an id and   *)
(* t2 and t3 a target file.                                                *)
EXTENDS RestRLDaemon

MCIdOf == [t \in Tasks |-> IF t = "t3" THEN "b" ELSE "a"]
MCTargetOf == [t \in Tasks |-> IF t = "t1" THEN "f" ELSE "g"]
===============================================================================
