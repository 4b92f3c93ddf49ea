-------------------------------- MODULE Batch --------------------------------
(***************************************************************************)
(* What worker::spawn promises to its callers: started with a set of       *)
(* targets, it takes exactly one result for each of them, in any order,    *)
(* returns when it has them all, and returns how many were not Ok.  The    *)
(* process may be ended at any time.                                       *)
(***************************************************************************)
EXTENDS Naturals

CONSTANT Args   \* the targets a batch can be about

VARIABLES
  phase,   \* "idle", "busy", or "off" when the process has exited
  open,    \* targets whose result has not come in
  count    \* results other than Ok

batchVars == <<phase, open, count>>

BatchInit == phase = "idle" /\ open = {} /\ count = 0

Begin == /\ phase = "idle"
         /\ phase' = "busy"
         /\ open' \in SUBSET Args
         /\ count' = 0

Report(a) == /\ phase = "busy"
             /\ a \in open
             /\ open' = open \ {a}
             /\ count' \in {count, count + 1}
             /\ UNCHANGED phase

Return == /\ phase = "busy"
          /\ open = {}
          /\ phase' = "idle"
          /\ UNCHANGED <<open, count>>

Quit == /\ phase # "off"
        /\ phase' = "off"
        /\ UNCHANGED <<open, count>>

BatchNext == Begin \/ (\E a \in Args : Report(a)) \/ Return \/ Quit

BatchSpec == BatchInit /\ [][BatchNext]_batchVars
=============================================================================
