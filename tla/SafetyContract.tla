--------------------------- MODULE SafetyContract ---------------------------
(***************************************************************************)
(* What the README's safety contract promises of one operation, whatever   *)
(* the calls it is made of: which stage it is in, what it may write to the *)
(* unit in that stage, and from where it may report what.  Every change of *)
(* the unit that is not the unit's own doing is a mute, the unmuting of    *)
(* outputs after a confirmation, or one Recall under verified mutes.       *)
(***************************************************************************)
EXTENDS Integers

CONSTANTS N, Slots

VARIABLES
  mute, slot, loading,  \* the unit: output mutes, CurrentPreset, pending load
  faults,               \* outside interference left
  stage,                \* where the operation stands
  result                \* what it reported

vars == <<mute, slot, loading, faults, stage, result>>
unit == <<mute, slot, loading>>

Stages == {"idle", "checking", "muting", "muted", "recalled", "confirmed",
           "opening", "opened", "closing", "over"}

Init ==
  /\ mute \in [1 .. N -> {"On", "Off"}]
  /\ slot \in Slots
  /\ loading = 0
  /\ stage = "idle"
  /\ result = "none"

Move(from, to) ==
  /\ stage \in from
  /\ stage' \in to
  /\ UNCHANGED <<unit, faults, result>>

Report(from, results) ==
  /\ stage \in from
  /\ stage' = "over"
  /\ result' \in results
  /\ UNCHANGED unit

\* A command is taken up; a mute needs no check before its first write.
Ask == Move({"idle"}, {"checking", "muting"})
\* Checks lead to a mute (activation) or straight to an unmute, or refuse.
Checked == Move({"checking"}, {"muting", "opening"})
Refuse == Report({"checking"}, {"refused", "kept"})
\* Step 2: outputs are only ever muted here and while failing closed.
MuteOutput ==
  /\ stage \in {"muting", "closing"}
  /\ \E c \in 1 .. N : mute' = [mute EXCEPT ![c] = "On"]
  /\ UNCHANGED <<slot, loading, faults, stage, result>>
Expire == Report({"muting", "opening"}, {"expired"})
Muted == Move({"muting"}, {"muted"})
MuteDone == Report({"muting"}, {"ok"})
\* Step 3: Recall, once, and only after all outputs were verified muted.
Recall ==
  /\ stage = "muted"
  /\ stage' = "recalled"
  /\ loading' \in Slots
  /\ UNCHANGED <<mute, slot, faults, result>>
NoRecall == Move({"muted"}, {"recalled"})
\* Steps 4 to 8: nothing is written until the target is confirmed.
Confirm == Move({"recalled"}, {"confirmed"})
LeaveMuted == Report({"recalled"}, {"ok"})
\* Steps 9 and 10: outputs are opened only from there, and reported verified.
StartOpening == Move({"confirmed"}, {"opening"})
OpenOutput ==
  /\ stage = "opening"
  /\ \E c \in 1 .. N : mute' = [mute EXCEPT ![c] = "Off"]
  /\ UNCHANGED <<slot, loading, faults, stage, result>>
Opened == Move({"opening"}, {"opened"})
OpenDone == Report({"opened"}, {"ok"})
\* Steps 11 and 12: any failure closes, and closing only reports failure.
Fail == Move({"muting", "muted", "recalled", "confirmed", "opening", "opened"},
             {"closing"})
Closed == Report({"closing"}, {"failed", "unsafe"})
\* A reconnect that reached an unvalidated unit ends the operation at once.
Abandon == Report({"recalled", "closing"}, {"untrusted"})

Return ==
  /\ stage = "over"
  /\ stage' = "idle"
  /\ result' = "none"
  /\ UNCHANGED <<unit, faults>>

\* The unit finishes a load, or something outside interferes.
UnitMoves ==
  /\ \/ loading # 0 /\ loading' = 0
     \/ faults' # faults
  /\ UNCHANGED <<stage, result>>

Next ==
  \/ Ask \/ Checked \/ Refuse \/ MuteOutput \/ Expire \/ Muted \/ MuteDone
  \/ Recall \/ NoRecall \/ Confirm \/ LeaveMuted \/ StartOpening \/ OpenOutput
  \/ Opened \/ OpenDone \/ Fail \/ Closed \/ Abandon \/ Return \/ UnitMoves

Spec == Init /\ [][Next]_vars
=============================================================================
