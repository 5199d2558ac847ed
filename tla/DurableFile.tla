---------------------------- MODULE DurableFile -----------------------------
(***************************************************************************)
(* What a caller of _save_state_payload may rely on, whatever directories  *)
(* and system calls stand behind it: one register that a crash sets to one *)
(* of its possible contents.  Only the contents being saved are ever added *)
(* to these, all at once, and a save that returns leaves nothing else.     *)
(***************************************************************************)

CONSTANTS
  Values,   \* what may be saved
  Missing   \* there is no file yet

VARIABLES
  seen,    \* what a process reads
  found,   \* what a process may read after a power loss
  call,    \* the save: "none", "saving", "saved" or "failed"
  new      \* the contents being saved

vars == <<seen, found, call, new>>

Init == seen = Missing /\ found = {Missing} /\ call = "none" /\ new = Missing

Begin ==
  /\ call = "none" /\ call' = "saving"
  /\ new' \in Values
  /\ UNCHANGED <<seen, found>>

\* The new contents take the place of the old, for now.
Take ==
  /\ call = "saving"
  /\ seen' = new /\ found' = found \cup {new}
  /\ UNCHANGED <<call, new>>

\* What is not what a process reads may be ruled out at any time of a save.
Settle ==
  /\ call = "saving"
  /\ seen \in found' /\ found' \subseteq found
  /\ UNCHANGED <<seen, call, new>>

Return ==
  /\ call = "saving" /\ call' = "saved"
  /\ seen = new /\ found' = {new}
  /\ UNCHANGED <<seen, new>>

\* A failed save is as far as it came, and so is a killed one.
Fail == call = "saving" /\ call' = "failed" /\ UNCHANGED <<seen, found, new>>
Leave == call' = "none" /\ UNCHANGED <<seen, found, new>>

PowerLoss ==
  /\ seen' \in found /\ found' = {seen'}
  /\ call' = "none" /\ UNCHANGED new

Next ==
  \/ Begin \/ Take \/ Settle \/ Return \/ Fail \/ Leave \/ PowerLoss

Spec == Init /\ [][Next]_vars
=============================================================================
