------------------------------ MODULE IdChange ------------------------------
(***************************************************************************)
(* What the identifier-change service promises (id_change.hpp, TS 102      *)
(* 723-8 clause 6.3.1.3), without hooks, answers, timers or locks: the     *)
(* station and its members move from one identifier to the next together.  *)
(* A change is prepared, then abandoned, with nobody moved, or decided;    *)
(* the station moves with the decision, every member afterwards, and the   *)
(* change is complete only when all that are still members have moved.     *)
(***************************************************************************)
EXTENDS Naturals

CONSTANTS
  Identifiers,
  Members,
  None         \* no identifier

VARIABLES
  phase,       \* "idle", "preparing" or "committing"
  next,        \* the identifier a change is under way to, else None
  station,     \* the identifier messages are signed with
  members,     \* who takes part
  used         \* the identifier each one uses

vars == <<phase, next, station, members, used>>

Init ==
  /\ phase = "idle" /\ next = None
  /\ station \in Identifiers
  /\ members = {}
  /\ used = [m \in Members |-> None]

\* Where the service stands between two changes, and at the start of one.
Rest == phase' = "idle" /\ next' = None
Begin == /\ phase' = "preparing"
         /\ next' \in Identifiers \ {station}

Prepare ==
  /\ phase = "idle"
  /\ Begin
  /\ UNCHANGED <<station, members, used>>

Abandon ==
  /\ phase = "preparing"
  /\ Rest
  /\ UNCHANGED <<station, members, used>>

\* The last answer may be a member's leaving.
Decide ==
  /\ phase = "preparing"
  /\ phase' = "committing"
  /\ station' = next
  /\ members' \subseteq members
  /\ UNCHANGED <<next, used>>

Adopt(m) ==
  /\ phase = "committing"
  /\ m \in members
  /\ used' = [used EXCEPT ![m] = next]
  /\ UNCHANGED <<phase, next, station, members>>

\* Another change may have been asked for meanwhile.
Complete ==
  /\ phase = "committing"
  /\ Rest \/ Begin
  /\ members' \subseteq members
  /\ \A m \in members' : used[m] = station
  /\ UNCHANGED <<station, used>>

Join(m) ==
  /\ m \notin members
  /\ members' = members \cup {m}
  /\ used' = [used EXCEPT ![m] = station]
  /\ UNCHANGED <<phase, next, station>>

Leave ==
  /\ members' \subseteq members
  /\ UNCHANGED <<phase, next, station, used>>

Next ==
  \/ Prepare \/ Abandon \/ Decide \/ Complete \/ Leave
  \/ \E m \in Members : Adopt(m) \/ Join(m)

Spec == Init /\ [][Next]_vars
=============================================================================
