--------------------------- MODULE SchemaHistory ---------------------------
(***************************************************************************)
(* What migrate-up and migrate-down promise together, with no tables,      *)
(* lists of ids or awaits in sight: the first five migrations come at once *)
(* and for good, only the last two come and go, and no transaction is lost *)
(* or left with a source required that it does not have.                   *)
(***************************************************************************)
EXTENDS Naturals

VARIABLES
  done,   \* the migrations that are listed as executed
  rows,   \* whether there are transactions
  unpaid  \* whether one of them has no source

historyVars == <<done, rows, unpaid>>

HistoryInit ==
  /\ done \in {{}, 1..5, 1..6, 1..7}
  /\ rows \in BOOLEAN /\ unpaid \in BOOLEAN
  /\ rows => done # {}
  /\ unpaid => rows /\ 7 \in done

Install == /\ done = {}
           /\ done' = 1..7
           /\ UNCHANGED <<rows, unpaid>>

\* A call whose list is stale may add only the seventh again.
Advance == /\ done # {}
           /\ \E M \in SUBSET {6, 7} : done' = done \cup M
           /\ UNCHANGED <<rows, unpaid>>

\* Of two calls that undo the same one, the second has no effect.
Retreat == /\ done # {}
           /\ \E m \in {6, 7} : /\ m = 7 => ~unpaid
                                /\ done' = done \ {m}
           /\ UNCHANGED <<rows, unpaid>>

Insert == /\ 7 \in done
          /\ rows' = TRUE /\ unpaid' = TRUE
          /\ UNCHANGED done

Complete == /\ unpaid /\ unpaid' = FALSE
            /\ UNCHANGED <<done, rows>>

HistoryNext == Install \/ Advance \/ Retreat \/ Insert \/ Complete

HistorySpec == HistoryInit /\ [][HistoryNext]_historyVars
=============================================================================
