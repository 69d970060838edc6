---------------------------- MODULE DurableStore ----------------------------
(***************************************************************************)
(* What a component of the trading engine expects of its data file: the    *)
(* file only ever receives the current contents of the store, a write that *)
(* is under way may leave it torn, a clean close leaves nothing behind,    *)
(* and a restart brings back exactly what the file holds.  Persister.tla   *)
(* is shown to implement this specification.                               *)
(***************************************************************************)
EXTENDS Naturals

CONSTANTS NoFile,  \* the file has not been written yet
          Torn     \* the file is truncated: a write began and did not finish

VARIABLES mem,      \* version of the data in memory
          disk,     \* version in the file, NoFile or Torn
          tainted,  \* the latest write failed
          status    \* "open", "closed" (cleanly), "down" (killed)

vars == <<mem, disk, tainted, status>>

Restored(d) == IF d = NoFile THEN 0 ELSE d

Init == mem = 0 /\ disk = NoFile /\ tainted = FALSE /\ status = "open"

Update == status = "open" /\ mem' \in Nat /\ UNCHANGED <<disk, tainted, status>>

Tear == status = "open" /\ disk' = Torn /\ UNCHANGED <<mem, tainted, status>>

Flush == status = "open" /\ disk' = mem /\ tainted' = FALSE /\ UNCHANGED <<mem, status>>

Fail == status = "open" /\ tainted' = TRUE /\ UNCHANGED <<mem, disk, status>>

Close == /\ status = "open"
         /\ disk = mem \/ tainted
         /\ status' = "closed"
         /\ UNCHANGED <<mem, disk, tainted>>

Crash == status' = "down" /\ UNCHANGED <<mem, disk, tainted>>

Restart == /\ status # "open"
           /\ disk # Torn
           /\ mem' = Restored(disk)
           /\ status' = "open"
           /\ tainted' = FALSE
           /\ UNCHANGED disk

Next == Update \/ Tear \/ Flush \/ Fail \/ Close \/ Crash \/ Restart

Spec == Init /\ [][Next]_vars
=============================================================================
