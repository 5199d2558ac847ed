---------------------------- MODULE ConsoleReads ----------------------------
(***************************************************************************)
(* What the callers of HiQnetClient rely on, without lines, sockets or     *)
(* echoes: a get that returns, returns what the unit had at one instant    *)
(* between the call and the return.  It may fail at any time instead, and  *)
(* the unit may change at any time, whoever asked it to.                   *)
(***************************************************************************)
CONSTANTS Callers, Paths, Values

VARIABLES
  value,   \* value[p]: the unit's parameter p
  ask      \* ask[c]: what caller c's get is at

Idle == [at |-> "idle"]
Asked(p) == [at |-> "asked", path |-> p]
Seen(p, v) == [at |-> "seen", path |-> p, value |-> v]
Returned(p, v) == [at |-> "returned", path |-> p, value |-> v]

Init ==
  /\ value \in [Paths -> Values]
  /\ ask = [c \in Callers |-> Idle]

Call(c) ==
  /\ ask[c].at \in {"idle", "returned"}
  /\ \E p \in Paths : ask' = [ask EXCEPT ![c] = Asked(p)]
  /\ UNCHANGED value

\* The unit looks the parameter up for a get under way.
Look(c) ==
  /\ ask[c].at = "asked"
  /\ ask' = [ask EXCEPT ![c] = Seen(ask[c].path, value[ask[c].path])]
  /\ UNCHANGED value

Return(c) ==
  /\ ask[c].at = "seen"
  /\ ask' = [ask EXCEPT ![c] = Returned(ask[c].path, ask[c].value)]
  /\ UNCHANGED value

\* The get fails, the answer is lost, or the caller goes on to something else.
GiveUp(c) ==
  /\ ask[c].at # "idle"
  /\ ask' = [ask EXCEPT ![c] = Idle]
  /\ UNCHANGED value

LoseAnswer(c) ==
  /\ ask[c].at = "seen"
  /\ ask' = [ask EXCEPT ![c] = Asked(ask[c].path)]
  /\ UNCHANGED value

Change ==
  /\ \E p \in Paths, v \in Values : value' = [value EXCEPT ![p] = v]
  /\ UNCHANGED ask

Next ==
  \/ \E c \in Callers : Call(c) \/ Look(c) \/ Return(c) \/ GiveUp(c)
                        \/ LoseAnswer(c)
  \/ Change

Spec == Init /\ [][Next]_<<value, ask>>
=============================================================================
