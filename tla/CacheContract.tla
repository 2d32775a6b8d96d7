--------------------------- MODULE CacheContract ---------------------------
(***************************************************************************)
(* What once() and clear-cache promise together, with no cache, write or   *)
(* await in sight: a call is answered with data that were current at some  *)
(* time since its floor, never with older ones.  The floor is the moment   *)
(* of the last effective clear before the call, or, for a call that        *)
(* ignores the cache, of the call itself.                                  *)
(***************************************************************************)
EXTENDS Integers

CONSTANTS Keys, Callers

VARIABLES
  source,  \* the version that the data of each key have now
  clean,   \* the version they had at the last clear that had its effect
  calls    \* each caller's last call: its floor, and its answer

contractVars == <<source, clean, calls>>

ContractInit ==
  /\ source = [k \in Keys |-> 0]
  /\ clean = [k \in Keys |-> 0]
  /\ calls \in [Callers -> [state : {"idle"}, key : Keys, floor : {0}, answer : {0}]]

Open(c) == calls[c].state = "open"

Ask(c, k) ==
  /\ ~Open(c)
  /\ \E floor \in {clean[k], source[k]} :
       calls' = [calls EXCEPT ![c] =
                  [state |-> "open", key |-> k, floor |-> floor, answer |-> 0]]
  /\ UNCHANGED <<source, clean>>

Answer(c) ==
  /\ Open(c)
  /\ \E v \in calls[c].floor..source[calls[c].key] :
       calls' = [calls EXCEPT ![c] =
                  [state |-> "answered", key |-> @.key, floor |-> @.floor, answer |-> v]]
  /\ UNCHANGED <<source, clean>>

\* Calls may fail, many at once when their process dies.
Break(D) ==
  /\ \A c \in D : Open(c)
  /\ calls' = [c \in Callers |->
                IF c \in D THEN [calls[c] EXCEPT !.state = "failed"] ELSE calls[c]]
  /\ UNCHANGED <<source, clean>>

Clear(K) ==
  /\ clean' = [k \in Keys |-> IF k \in K THEN source[k] ELSE clean[k]]
  /\ UNCHANGED <<source, calls>>

Change(k) ==
  /\ source' = [source EXCEPT ![k] = @ + 1]
  /\ UNCHANGED <<clean, calls>>

ContractNext ==
  \/ \E c \in Callers : Answer(c) \/ \E k \in Keys : Ask(c, k)
  \/ \E D \in SUBSET Callers : Break(D)
  \/ \E K \in SUBSET Keys : Clear(K)
  \/ \E k \in Keys : Change(k)

ContractSpec == ContractInit /\ [][ContractNext]_contractVars
=============================================================================
