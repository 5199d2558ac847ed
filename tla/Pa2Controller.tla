--------------------------- MODULE Pa2Controller ---------------------------
(***************************************************************************)
(* Pa2Controller (controller.py): preset activation and output mute        *)
(* transactions over a PA2 that may drop the console, load a preset late,  *)
(* or be changed by somebody else.  pc names the client call the           *)
(* controller is about to make; between two calls time may pass (the       *)
(* sleeps and pacing of the code are such moments), the session may die    *)
(* and the device may change.                                              *)
(***************************************************************************)
EXTENDS Pa2Link

CONSTANTS
  Catalog,        \* slots the device's preset catalog names
  Allowed,        \* allowed_slots; all of Slots when it is None
  RecallTimeout,  \* recall_timeout, in ticks
  Kinds           \* the operations callers make

AllKinds == {"activate", "unmuteAll", "muteAll", "unmuteOne", "muteOne"}

ASSUME CatalogAssumption == Catalog \subseteq Slots /\ Allowed \subseteq Slots
ASSUME TimeoutAssumption == RecallTimeout \in Nat \ {0}
ASSUME KindsAssumption == Kinds \subseteq AllKinds

VARIABLES
  op,          \* the operation running
  pc,          \* its next client call, "idle", or "done"
  want,        \* the mute value the current pass writes or expects
  idx,         \* the channel the current pass is at
  seen,        \* the channels read so far in this pass: "good" or "bad"
  cur,         \* the last direct read of CurrentPreset
  base,        \* expected_preset: the slot verified before the Off writes
  level,       \* the rollback running: of the pass, or of activate_preset
  round,       \* its recovery round
  failed,      \* round_failed
  left,        \* time to the operation deadline
  adm,         \* time to the admission deadline
  result,      \* how the operation ended
  wrote,       \* history: the operation sent a write
  sessSince    \* history: was there a reconnect since the last pass began

pass == <<want, idx, seen>>
evidence == <<cur, base>>
rollback == <<level, round, failed>>
clock == <<left, adm>>
vars == <<linkVars, op, pc, pass, evidence, rollback, clock, result,
          wrote, sessSince>>

Ops == [kind : AllKinds, target : Slots \cup {NoSlot}, chan : Channels,
        unmute : BOOLEAN]
NoOp == [kind |-> "muteAll", target |-> NoSlot, chan |-> 1, unmute |-> FALSE]
Rounds == N + 2

\* Read-only calls that admission bounds, before any try that rolls back.
PreWriteChecks == {"preDirect", "preCatalog"}
PreflightPcs == {"resolve", "current", "already"}
\* Calls inside the try of _set_all_outputs_muted or set_output_muted.
GuardedPcs == {"write", "readback", "confirm", "postDirect", "postCatalog"}
\* Calls of _activate_resolved_preset outside that inner try.
ActivationPcs == {"recheck", "recall", "poll", "reopen", "immediate",
                  "finalDirect", "finalCatalog", "final",
                  "endDirect", "endCatalog"}
RollbackPcs == {"rbReconnect", "rbWrite", "rbRead", "rbRecover",
                "rbFinal", "rbRecoverFinal"}
Passes == {"already", "confirm", "immediate", "final"}
Directs == {"preDirect", "postDirect", "endDirect"}

Pcs == PreWriteChecks \cup PreflightPcs \cup GuardedPcs \cup ActivationPcs
       \cup RollbackPcs \cup {"idle", "done"}
Results == {"none", "ok", "kept", "refused", "expired", "failed", "unsafe",
            "untrusted"}

DataOK ==
  /\ LinkDataOK
  /\ op \in Ops
  /\ pc \in Pcs
  /\ want \in OnOff
  /\ idx \in 1 .. N + 1
  /\ cur \in Slots \cup {NoSlot}
  /\ base \in Slots \cup {NoSlot}
  /\ level \in {"none", "inner", "outer"}
  /\ round \in 1 .. Rounds
  /\ left \in 0 .. RecallTimeout
  /\ adm \in 0 .. RecallTimeout
  /\ result \in Results
  /\ seen \in {"good", "bad"}
  /\ sessSince \in Since

FlagsOK ==
  /\ LinkFlagsOK
  /\ failed \in BOOLEAN
  /\ wrote \in BOOLEAN

TypeOK == DataOK /\ FlagsOK

Init ==
  /\ LinkInit
  /\ op = NoOp
  /\ pc = "idle"
  /\ want = "On"
  /\ idx = 1
  /\ seen = "good"
  /\ cur = NoSlot
  /\ base = NoSlot
  /\ level = "none"
  /\ round = 1
  /\ failed = FALSE
  /\ left = 0
  /\ adm = 0
  /\ result = "none"
  /\ wrote = FALSE
  /\ sessSince = "moved"

-----------------------------------------------------------------------------
(* Control transfers *)

Activating == op.kind = "activate"
Single == op.kind \in {"muteOne", "unmuteOne"}

Go(p) == pc' = p

\* Return from the operation; its caller sees the result.
Finish(r) == pc' = "done" /\ result' = r

\* Start writing (or reading) the channels from the first one.
StartWrites(v) ==
  /\ pc' = "write"
  /\ want' = v
  /\ idx' = op.chan
  /\ UNCHANGED seen

StartPass(p) ==
  /\ pc' = p
  /\ idx' = 1
  /\ seen' = "good"
  /\ muteSince' = "still"
  /\ sessSince' = "still"
  /\ UNCHANGED <<want, slotSince>>

\* _rollback_outputs_to_muted, with or without reconnect_first.
StartRollback(lv) ==
  /\ pc' = IF lv = "inner" THEN "rbReconnect" ELSE "rbWrite"
  /\ level' = lv
  /\ round' = 1
  /\ failed' = FALSE
  /\ idx' = 1
  /\ UNCHANGED <<want, seen, result>>

\* Which handler an exception of the current call reaches: none (nothing was
\* written), the one of the write pass, or the one of activate_preset.
HandlerForgetsChecks ==
  CASE pc \in PreflightPcs \cup PreWriteChecks -> "none"
    [] pc \in GuardedPcs -> "inner"
    [] OTHER -> "outer"

Handler ==
  CASE pc \in PreflightPcs -> "none"
    [] pc \in PreWriteChecks -> IF Activating THEN "outer" ELSE "none"
    [] pc \in GuardedPcs -> "inner"
    [] OTHER -> "outer"

Raise ==
  \/ /\ Handler = "none"
     /\ Finish("refused")
     /\ UNCHANGED <<pass, rollback>>
  \/ /\ Handler # "none"
     /\ StartRollback(Handler)

\* The deadline of the current call: admission until the first write.
Limit ==
  IF pc \in PreflightPcs \/ (pc \in PreWriteChecks /\ ~Activating)
  THEN adm ELSE left

Answered == Limit > 0 /\ Live

-----------------------------------------------------------------------------
(* Frames: what a call of each sort leaves alone *)

\* A read: neither the device nor the request moves.
ReadFrame == UNCHANGED <<device, network, creds, strayed, op, clock, wrote>>
\* Nothing recorded about evidence.
NoNews == UNCHANGED <<evidence, history, sessSince>>

\* A lost session is closed; a passed deadline closes it inside the client,
\* but not where the controller itself looks at the clock between calls.
HangUp == sess' \in IF Live THEN {sess, "closed"} ELSE {"closed"}

CallFails ==
  /\ ~Answered
  /\ HangUp
  /\ Raise
  /\ ReadFrame
  /\ NoNews

\* A read answered with something that must stop the operation.
Reject == Raise /\ NoNews

-----------------------------------------------------------------------------
(* Entry, and the reads before the first write *)

\* activate_preset, set_all_outputs_muted and set_output_muted.  A caller
\* gives a start_deadline anywhere up to, or already past, its command's age.
Begin ==
  /\ pc = "idle"
  /\ \E kind \in Kinds, target \in Slots, chan \in Channels, un \in BOOLEAN :
       /\ op' = [kind |-> kind,
                 target |-> IF kind = "activate" THEN target ELSE NoSlot,
                 chan |-> IF kind \in {"muteOne", "unmuteOne"} THEN chan ELSE 1,
                 unmute |-> kind = "activate" /\ un]
       /\ want' = IF kind \in {"activate", "muteAll", "muteOne"}
                THEN "On" ELSE "Off"
       /\ pc' = CASE kind = "activate" -> "resolve"
                  [] kind \in {"unmuteAll", "unmuteOne"} -> "preDirect"
                  [] OTHER -> "write"
  /\ idx' = op'.chan
  /\ left' = RecallTimeout
  /\ adm' \in 0 .. RecallTimeout
  /\ wrote' = FALSE
  /\ UNCHANGED <<linkVars, seen, evidence, rollback, result, sessSince>>

\* _resolve_preset: the target is looked up in a fresh catalog.
Resolve ==
  /\ pc = "resolve"
  /\ Answered
  /\ \E v \in Reads(slot, Slots) :
       IF v \in Catalog /\ op.target \in Catalog \cap Allowed
       THEN Go("current") /\ UNCHANGED <<pass, rollback, result>>
       ELSE Raise
  /\ ReadFrame
  /\ NoNews
  /\ UNCHANGED sess

ReadCurrentUnmuted ==
  /\ pc = "current"
  /\ Answered
  /\ \E v \in Reads(slot, Slots) :
       IF v = op.target
       THEN StartPass("already")
       ELSE Go("recall") /\ UNCHANGED <<pass, history, sessSince>>
  /\ ReadFrame
  /\ UNCHANGED <<sess, evidence, rollback, result>>

\* CurrentPreset already the target: only read the outputs, never write.
ReadCurrent ==
  /\ pc = "current"
  /\ Answered
  /\ \E v \in Reads(slot, Slots) :
       IF v = op.target
       THEN StartPass("already")
       ELSE StartWrites("On") /\ UNCHANGED <<history, sessSince>>
  /\ ReadFrame
  /\ UNCHANGED <<sess, evidence, rollback, result>>

-----------------------------------------------------------------------------
(* Writing outputs: _write_all_outputs, and set_output_muted's one write *)

\* set_starting_before: the write that must begin before admission ends.
FirstWriteEveryTime == TRUE
FirstWrite == idx = op.chan /\ (Activating => want = "On")

WriteExpires ==
  /\ pc = "write"
  /\ FirstWrite
  /\ adm = 0
  /\ Finish("expired")
  /\ sess' = "closed"
  /\ ReadFrame
  /\ NoNews
  /\ UNCHANGED <<pass, rollback>>

MayWriteLate == left > 0
MayWrite == left > 0 /\ (FirstWrite => adm > 0)

WriteOutput ==
  /\ pc = "write"
  /\ MayWrite
  /\ SendOutput(idx, want)
  /\ wrote' = TRUE
  /\ Go("readback")
  /\ UNCHANGED <<network, client, op, clock, pass, rollback, result>>
  /\ NoNews

WriteFails ==
  /\ pc = "write"
  /\ \/ ~FirstWrite /\ left = 0
     \/ MayWrite /\ SendFails
  /\ HangUp
  /\ Raise
  /\ ReadFrame
  /\ NoNews

\* Each write is read back before the next one is paced out.
Readback ==
  /\ pc = "readback"
  /\ Answered
  /\ \E v \in Reads(mute[idx], OnOff) :
       \/ v # want /\ Reject
       \/ /\ v = want /\ ~Single /\ idx < N
          /\ Go("write")
          /\ idx' = idx + 1
          /\ NoNews
          /\ UNCHANGED <<want, seen, rollback, result>>
       \/ /\ v = want /\ ~Single /\ idx = N
          /\ StartPass("confirm")
          /\ UNCHANGED <<evidence, rollback, result>>
       \/ /\ v = want /\ Single
          /\ IF want = "On" THEN Finish("ok")
             ELSE Go("postDirect") /\ UNCHANGED result
          /\ muteSince' = "still"
          /\ sessSince' = "still"
          /\ UNCHANGED <<pass, evidence, rollback, slotSince>>
  /\ ReadFrame
  /\ UNCHANGED sess

StillGoodLastOnly(v) == IF v = want THEN "good" ELSE "bad"
\* All six readbacks of a pass count, not the last one alone.
StillGood(v) == IF v = want THEN seen ELSE "bad"

\* _read_all_output_mutes, one channel; the verdict comes after the last.
ReadOutput ==
  /\ pc \in Passes
  /\ idx <= N
  /\ Answered
  /\ \E v \in Reads(mute[idx], OnOff) : seen' = StillGood(v)
  /\ idx' = idx + 1
  /\ ReadFrame
  /\ NoNews
  /\ UNCHANGED <<sess, pc, want, rollback, result>>

PassVerdict ==
  /\ pc \in Passes
  /\ idx = N + 1
  /\ \/ /\ pc = "already"
        /\ Finish("kept")
        /\ UNCHANGED <<pass, rollback>>
     \/ /\ pc # "already" /\ seen = "bad"
        /\ Raise
     \/ /\ pc = "confirm" /\ seen = "good"
        /\ \/ want = "Off" /\ Go("postDirect") /\ UNCHANGED result
           \/ want = "On" /\ Activating /\ Go("recheck") /\ UNCHANGED result
           \/ want = "On" /\ ~Activating /\ Finish("ok")
        /\ UNCHANGED <<pass, rollback>>
     \/ /\ pc = "immediate" /\ seen = "good"
        /\ IF op.unmute THEN Go("finalDirect") /\ UNCHANGED result
                        ELSE Finish("ok")
        /\ UNCHANGED <<pass, rollback>>
     \/ /\ pc = "final" /\ seen = "good"
        /\ Go("preDirect")
        /\ want' = "Off"
        /\ UNCHANGED <<idx, seen, rollback, result>>
  /\ ReadFrame
  /\ NoNews
  /\ UNCHANGED sess

-----------------------------------------------------------------------------
(* Recall and its confirmation: _activate_resolved_preset *)

Recheck ==
  /\ pc = "recheck"
  /\ Answered
  /\ \E v \in Reads(slot, Slots) :
       IF v = op.target
       THEN StartPass("immediate")
       ELSE Go("recall") /\ UNCHANGED <<pass, history, sessSince>>
  /\ ReadFrame
  /\ UNCHANGED <<sess, evidence, rollback, result>>

Recall ==
  /\ pc = "recall"
  /\ left > 0
  /\ SendRecall(op.target)
  /\ wrote' = TRUE
  /\ Go("poll")
  /\ UNCHANGED <<network, client, op, clock, pass, rollback, result>>
  /\ NoNews

RecallFails ==
  /\ pc = "recall"
  /\ left = 0 \/ SendFails
  /\ sess' = "closed"
  /\ Raise
  /\ ReadFrame
  /\ NoNews

\* One round of the polling loop; it leaves only by the target or the deadline.
Poll ==
  /\ pc = "poll"
  /\ Answered
  /\ \E v \in Reads(slot, Slots) :
       IF v = op.target
       THEN StartPass("immediate")
       ELSE UNCHANGED <<pc, pass, history, sessSince>>
  /\ ReadFrame
  /\ UNCHANGED <<sess, evidence, rollback, result>>

PollFails ==
  /\ pc = "poll"
  /\ left > 0
  /\ ~Live
  /\ sess' = "closed"
  /\ Go("reopen")
  /\ ReadFrame
  /\ NoNews
  /\ UNCHANGED <<pass, rollback, result>>

ReopenExtends(next) ==
  /\ left > 0
  /\ sessSince' = "moved"
  /\ left' = RecallTimeout
  /\ UNCHANGED <<device, host, strayed, history, op, evidence, adm, wrote>>
  /\ \/ Reconnected /\ next
     \/ ReconnectFails /\ next
     \/ PeerRejected /\ Finish("untrusted") /\ UNCHANGED <<pass, rollback>>

\* _client_reconnect: connect, log in, and let the validator see the peer.
Reopen(next) ==
  /\ left > 0
  /\ sessSince' = "moved"
  /\ UNCHANGED <<device, host, strayed, history, op, evidence, clock, wrote>>
  /\ \/ Reconnected /\ next
     \/ ReconnectFails /\ next
     \/ PeerRejected /\ Finish("untrusted") /\ UNCHANGED <<pass, rollback>>

PollReopens ==
  /\ pc = "reopen"
  /\ Reopen(Go("poll") /\ UNCHANGED <<pass, rollback, result>>)

ReopenTooLate ==
  /\ pc = "reopen"
  /\ left = 0
  /\ Raise
  /\ ReadFrame
  /\ NoNews
  /\ UNCHANGED sess

-----------------------------------------------------------------------------
(* The checks around the Off writes *)

\* After post_recall_delay: CurrentPreset alone, then with the catalog.
FinalDirect ==
  /\ pc = "finalDirect"
  /\ Answered
  /\ \E v \in Reads(slot, Slots) :
       IF v = op.target
       THEN Go("finalCatalog") /\ UNCHANGED <<pass, rollback, result>>
       ELSE Raise
  /\ slotSince' = "still"
  /\ ReadFrame
  /\ UNCHANGED <<sess, evidence, muteSince, sessSince>>

FinalCatalog ==
  /\ pc = "finalCatalog"
  /\ Answered
  /\ \E v \in Reads(slot, Slots) :
       IF v = op.target /\ v \in Catalog
       THEN StartPass("final") /\ UNCHANGED <<evidence, rollback, result>>
       ELSE Reject
  /\ ReadFrame
  /\ UNCHANGED sess

\* _verify_current_preset_before_unmute, first half: the direct read.
VerifyDirect ==
  /\ pc \in Directs
  /\ Answered
  /\ cur' \in Reads(slot, Slots)
  /\ Go(CASE pc = "preDirect" -> "preCatalog"
          [] pc = "postDirect" -> "postCatalog"
          [] OTHER -> "endCatalog")
  /\ slotSince' = "still"
  /\ ReadFrame
  /\ UNCHANGED <<sess, base, muteSince, sessSince, pass, rollback, result>>

\* Second half: a fresh catalog names the same slot, and it is allowlisted.
AgreesUnlisted(v) == v = cur /\ cur \in Catalog
Agrees(v) == v = cur /\ cur \in Catalog \cap Allowed

VerifyBefore ==
  /\ pc = "preCatalog"
  /\ Answered
  /\ \E v \in Reads(slot, Slots) :
       IF Agrees(v)
       THEN /\ base' = cur
            /\ StartWrites("Off")
            /\ UNCHANGED <<rollback, result>>
       ELSE Raise /\ UNCHANGED base
  /\ ReadFrame
  /\ UNCHANGED <<sess, cur, history, sessSince>>

\* After the verified Off writes the slot must still be the one before them.
VerifyAfter ==
  /\ pc = "postCatalog"
  /\ Answered
  /\ \E v \in Reads(slot, Slots) :
       IF Agrees(v) /\ cur = base
       THEN /\ IF Activating THEN Go("endDirect") /\ UNCHANGED result
                            ELSE Finish("ok")
            /\ UNCHANGED <<pass, rollback>>
       ELSE Raise
  /\ ReadFrame
  /\ NoNews
  /\ UNCHANGED sess

EndsOnAnySlot == TRUE
EndsOnTarget == cur = op.target

\* activate_preset checks once more, and against the preset it was asked for.
VerifyEnd ==
  /\ pc = "endCatalog"
  /\ Answered
  /\ \E v \in Reads(slot, Slots) :
       IF Agrees(v) /\ EndsOnTarget
       THEN Finish("ok") /\ UNCHANGED <<pass, rollback>>
       ELSE Raise
  /\ ReadFrame
  /\ NoNews
  /\ UNCHANGED sess

\* Every get or ls outside rollback and the polling loop, when it fails; the
\* polling loop too, once its deadline has passed.
ReadFails ==
  /\ \/ pc \in PreflightPcs \cup PreWriteChecks
     \/ pc \in GuardedPcs \ {"write"}
     \/ pc \in ActivationPcs \ {"recall", "poll", "reopen"}
     \/ pc = "poll" /\ left = 0
  /\ pc \in Passes => idx <= N
  /\ CallFails

-----------------------------------------------------------------------------
(* _rollback_outputs_to_muted *)

RbFrame == UNCHANGED <<network, creds, op, clock, want, evidence>>

\* The rollback of the write pass re-raises into activate_preset, which then
\* runs its own; any other ends the operation.
EndRollback(safe) ==
  \/ /\ level = "inner" /\ Activating
     /\ StartRollback("outer")
  \/ /\ ~(level = "inner" /\ Activating)
     /\ Finish(IF safe THEN "failed" ELSE "unsafe")
     /\ UNCHANGED <<pass, rollback>>

RoundsLeftOneMore == round <= Rounds
RoundsLeft == round < Rounds

NextRound ==
  \/ /\ RoundsLeft
     /\ Go("rbWrite")
     /\ round' = round + 1
     /\ idx' = 1
     /\ failed' = FALSE
     /\ UNCHANGED <<want, seen, level, result>>
  \/ /\ ~RoundsLeft
     /\ EndRollback(FALSE)

\* The channel is done, well or not (bad); the round goes on all the same.
NextChannel(bad) ==
  \/ /\ idx < N
     /\ Go("rbWrite")
     /\ idx' = idx + 1
     /\ failed' = bad
     /\ UNCHANGED <<want, seen, level, round, result, muteSince, sessSince>>
  \/ /\ idx = N /\ bad
     /\ NextRound
     /\ UNCHANGED <<muteSince, sessSince>>
  \/ /\ idx = N /\ ~bad
     /\ Go("rbFinal")
     /\ idx' = 1
     /\ seen' = "good"
     /\ muteSince' = "still"
     /\ sessSince' = "still"
     /\ UNCHANGED <<want, rollback, result>>

\* _require_rollback_before: no recovery step starts after the deadline.
RbTooLate ==
  /\ pc \in RollbackPcs
  /\ left = 0
  /\ Finish("unsafe")
  /\ HangUp
  /\ RbFrame
  /\ UNCHANGED <<device, strayed, history, wrote, sessSince, idx, seen,
                 rollback>>

RbReconnect ==
  /\ pc = "rbReconnect"
  /\ Reopen(Go("rbWrite") /\ UNCHANGED <<pass, rollback, result>>)

RbWrite ==
  /\ pc = "rbWrite"
  /\ left > 0
  /\ SendOutput(idx, "On")
  /\ wrote' = TRUE
  /\ Go("rbRead")
  /\ RbFrame
  /\ UNCHANGED <<sess, history, sessSince, idx, seen, rollback, result>>

\* A failed write, readback or confirmation goes to a reconnect.
RbFails ==
  /\ left > 0
  /\ \/ pc = "rbWrite" /\ SendFails /\ Go("rbRecover")
     \/ pc = "rbRead" /\ ~Live /\ Go("rbRecover")
     \/ pc = "rbFinal" /\ idx <= N /\ ~Live /\ Go("rbRecoverFinal")
  /\ sess' = "closed"
  /\ RbFrame
  /\ UNCHANGED <<device, strayed, history, wrote, sessSince, idx, seen,
                 rollback, result>>

RbRead ==
  /\ pc = "rbRead"
  /\ left > 0
  /\ Live
  /\ \E v \in Reads(mute[idx], OnOff) :
       IF v = "On" THEN NextChannel(failed)
            ELSE /\ Go("rbRecover")
                 /\ UNCHANGED <<pass, rollback, result, muteSince, sessSince>>
  /\ RbFrame
  /\ UNCHANGED <<device, sess, strayed, slotSince, wrote>>

RbRecoverRetries ==
  /\ pc = "rbRecover"
  /\ Reopen(/\ Go("rbWrite")
            /\ failed' = TRUE
            /\ UNCHANGED <<pass, level, round, result>>)

RbRecover ==
  /\ pc = "rbRecover"
  /\ Reopen(/\ IF idx < N
               THEN /\ Go("rbWrite")
                    /\ idx' = idx + 1
                    /\ failed' = TRUE
                    /\ UNCHANGED <<want, seen, level, round, result>>
               ELSE NextRound)

StillMutedLastOnly(v) == IF v = "On" THEN "good" ELSE "bad"
StillMuted(v) == IF v = "On" THEN seen ELSE "bad"

\* The all-six readback of a clean round, in the session it was written in.
RbFinal ==
  /\ pc = "rbFinal"
  /\ left > 0
  /\ idx <= N
  /\ Live
  /\ \E v \in Reads(mute[idx], OnOff) : seen' = StillMuted(v)
  /\ idx' = idx + 1
  /\ RbFrame
  /\ UNCHANGED <<device, sess, strayed, history, wrote, sessSince, pc,
                 rollback, result>>

RbVerdict ==
  /\ pc = "rbFinal"
  /\ idx = N + 1
  /\ IF seen = "good" THEN EndRollback(TRUE) ELSE NextRound
  /\ RbFrame
  /\ UNCHANGED <<device, sess, strayed, history, wrote, sessSince>>

RbRecoverFinalResumes ==
  /\ pc = "rbRecoverFinal"
  /\ Reopen(Go("rbFinal") /\ UNCHANGED <<pass, rollback, result>>)

RbRecoverFinal ==
  /\ pc = "rbRecoverFinal"
  /\ Reopen(NextRound)

-----------------------------------------------------------------------------
(* The caller, the clock, and the specification *)

\* _execute_command closes the client after a failed operation; the command
\* line exits.  Either way nothing more is sent through that session.
Return ==
  /\ pc = "done"
  /\ Go("idle")
  /\ op' = NoOp
  /\ sess' = IF result \in {"ok", "kept"} THEN sess ELSE "closed"
  /\ result' = "none"
  /\ want' = "On" /\ idx' = 1 /\ seen' = "good"
  /\ cur' = NoSlot /\ base' = NoSlot
  /\ level' = "none" /\ round' = 1 /\ failed' = FALSE
  /\ left' = 0 /\ adm' = 0
  /\ muteSince' = "moved" /\ slotSince' = "moved" /\ sessSince' = "moved"
  /\ wrote' = FALSE
  /\ UNCHANGED <<device, network, creds, strayed>>

\* _connect_pa2 (validated) or connected_controller opens the session.
Connect ==
  /\ pc = "idle"
  /\ sess \in {"closed", "dead"}
  /\ host \in Units
  /\ Validates => host = "ours"
  /\ sess' = host
  /\ creds' = TRUE
  /\ UNCHANGED <<device, network, strayed, history, op, pc, pass, evidence,
                 rollback, clock, result, wrote, sessSince>>

Tick ==
  /\ left > 0
  /\ left' = left - 1
  /\ adm' = IF adm > 0 THEN adm - 1 ELSE 0
  /\ UNCHANGED <<linkVars, op, pc, pass, evidence, rollback, result, wrote,
                 sessSince>>

Preflight == Resolve \/ ReadCurrent
Writing == WriteExpires \/ WriteOutput \/ WriteFails \/ Readback
Reading == ReadOutput \/ PassVerdict \/ ReadFails
Recalling ==
  Recheck \/ Recall \/ RecallFails \/ Poll \/ PollFails \/ PollReopens
  \/ ReopenTooLate
Verifying ==
  FinalDirect \/ FinalCatalog \/ VerifyDirect \/ VerifyBefore \/ VerifyAfter
  \/ VerifyEnd
RollingBack ==
  RbTooLate \/ RbReconnect \/ RbWrite \/ RbFails \/ RbRead \/ RbRecover
  \/ RbFinal \/ RbVerdict \/ RbRecoverFinal

Controller ==
  Preflight \/ Writing \/ Reading \/ Recalling \/ Verifying \/ RollingBack

Elsewhere ==
  /\ Surroundings
  /\ UNCHANGED <<op, pc, pass, evidence, rollback, clock, result, wrote,
                 sessSince>>

Next == Begin \/ Controller \/ Return \/ Connect \/ Tick \/ Elsewhere

Spec == Init /\ [][Next]_vars

\* The thread of the operation keeps running and time keeps passing; nothing
\* is assumed of the device, the network or the callers.
FairSpec == Spec /\ WF_vars(Controller) /\ WF_vars(Tick)

-----------------------------------------------------------------------------
(* Properties *)

AllAre(v) == \A c \in Channels : mute[c] = v

\* The outputs are as the finished operation says they are.
Achieved ==
  /\ op.kind = "muteOne" => mute[op.chan] = "On"
  /\ op.kind = "unmuteOne" => mute[op.chan] = "Off"
  /\ op.kind = "muteAll" \/ (Activating /\ ~op.unmute) => AllAre("On")
  /\ op.kind = "unmuteAll" \/ (Activating /\ op.unmute) => AllAre("Off")

\* A reported success is true of the outputs: every channel has the value the
\* caller is told, unless the device itself moved one after the confirming
\* readback had begun (set_output_muted, _write_all_outputs, and the
\* post-recall readbacks of _activate_resolved_preset).
SuccessIsTrue ==
  pc = "done" /\ result = "ok" /\ muteSince = "still" => Achieved

\* A reported unmute left the outputs open under the preset that was checked:
\* the target for an activation, an allowlisted catalog slot for the others,
\* unless the slot changed after the last direct read of it.
SuccessUnderCheckedSlot ==
  pc = "done" /\ result = "ok" /\ slotSince = "still" /\ want = "Off" =>
    /\ slot \in Catalog \cap Allowed
    /\ Activating => slot = op.target

\* A failure reported as rolled back is true of all six outputs: they are
\* muted unless the device moved one after the final readback had begun
\* (_rollback_outputs_to_muted).
RollbackIsTrue ==
  pc = "done" /\ result = "failed" /\ muteSince = "still" => AllAre("On")

\* "Success requires one final all-six readback with no intervening
\* reconnect": whatever outcome is reported as verified rests on readbacks
\* that all came over one console session.
EvidenceOfOneSession ==
  pc = "done" /\ result \in {"ok", "failed"} => sessSince = "still"

\* Recall is only written after every output was verified muted, and the
\* first Off of an activation only after all were verified muted again.
MutedAcrossRecall ==
  /\ muteSince = "still"
  /\ \/ pc \in {"recheck", "recall", "finalDirect", "finalCatalog"}
     \/ pc \in PreWriteChecks /\ Activating
     \/ pc = "write" /\ Activating /\ want = "Off" /\ idx = 1
  => AllAre("On")

\* No output is opened under a preset that was not verified: while Off is
\* being written, the slot is the allowlisted one captured before, unless it
\* changed after that direct read.
OffUnderVerifiedSlot ==
  pc \in GuardedPcs /\ want = "Off" =>
    /\ base \in Catalog \cap Allowed
    /\ /\ slotSince = "still"
       /\ pc \in {"write", "readback", "confirm", "postDirect"}
       => slot = base

\* An operation that is refused, expires before its first write, or finds the
\* preset already active has written nothing at all, rollback included.
NothingWritten ==
  pc = "done" /\ result \in {"refused", "expired", "kept"} => ~wrote

\* With a validator no write of any kind reaches a unit other than ours, even
\* when the address changes hands in the middle of a transaction.
NeverStrays == Validates => ~strayed

\* Commands that expire before any write do not trigger rollback writes
\* (CHANGELOG 0.1.8): no operation sends its first write after admission.
FirstWriteInTime == [][wrote' /\ ~wrote => adm > 0]_vars

\* The first write of an operation, if it comes after the admission has passed,
\* is a mute of the rollback (_set_parameter's start deadline and the callers'
\* handlers).
LateWritesOnlyMute == [][wrote' /\ ~wrote /\ adm = 0 => pc = "rbWrite"]_vars

\* The phases of an operation, counted down to its end.
Phase ==
  CASE pc = "resolve" -> 22
    [] pc = "current" -> 21
    [] pc = "already" -> 20
    [] pc \in {"write", "readback"} -> IF want = "On" THEN 19 ELSE 8
    [] pc = "confirm" -> IF want = "On" THEN 18 ELSE 7
    [] pc = "recheck" -> 17
    [] pc = "recall" -> 16
    [] pc \in {"poll", "reopen"} -> 15
    [] pc = "immediate" -> 14
    [] pc = "finalDirect" -> 13
    [] pc = "finalCatalog" -> 12
    [] pc = "final" -> 11
    [] pc = "preDirect" -> 10
    [] pc = "preCatalog" -> 9
    [] pc = "postDirect" -> 6
    [] pc = "postCatalog" -> 5
    [] pc = "endDirect" -> 4
    [] pc = "endCatalog" -> 3
    [] pc \in RollbackPcs -> IF level = "inner" THEN 2 ELSE 1
    [] OTHER -> 0

\* The parts of a rollback round, and the calls about one channel.
Part ==
  CASE pc = "rbReconnect" -> 3
    [] pc \in {"rbWrite", "rbRead", "rbRecover"} -> 2
    [] pc = "rbFinal" -> 1
    [] OTHER -> 0
Call ==
  CASE pc \in {"write", "rbWrite"} -> 2
    [] pc \in {"readback", "rbRead"} -> 1
    [] OTHER -> 0

\* What an operation still has before it: phases, rounds, parts of the round,
\* channels, calls; fewer of one outweigh any number of what follows it.
Ahead == <<Phase, Rounds - round, Part, N + 1 - idx, Call>>
Fewer(r, s) ==
  \E i \in 1 .. 5 : r[i] < s[i] /\ \A j \in 1 .. i - 1 : r[j] = s[j]

\* Whatever fails and is tried again, an operation only goes forward: every
\* call leaves fewer before it, but those of the polling loop, so that nothing
\* but that loop needs the clock to end (the loops of
\* _rollback_outputs_to_muted, _write_all_outputs and the passes).
CallsRunOut ==
  [][/\ pc \notin {"idle", "done"}
     /\ <<pc, pass, rollback>>' # <<pc, pass, rollback>>
     /\ ~({pc, pc'} \subseteq {"poll", "reopen"})
     => Fewer(Ahead', Ahead)]_vars

\* Every operation ends: no device, network or clock behaviour keeps the
\* operation lock held for ever.
EveryOperationEnds == (pc # "idle") ~> (pc = "done")

\* The stage of the safety contract each call belongs to.
Stage ==
  CASE pc = "idle" -> "idle"
    [] pc = "done" -> "over"
    [] pc \in PreflightPcs -> "checking"
    [] pc \in PreWriteChecks -> IF Activating THEN "confirmed" ELSE "checking"
    [] pc \in {"write", "readback", "confirm"} ->
         IF want = "On" THEN "muting" ELSE "opening"
    [] pc \in {"recheck", "recall"} -> "muted"
    [] pc \in {"poll", "reopen", "immediate"} -> "recalled"
    [] pc \in {"finalDirect", "finalCatalog", "final"} -> "confirmed"
    [] pc \in {"postDirect", "postCatalog", "endDirect", "endCatalog"} ->
         "opened"
    [] OTHER -> "closing"

Contract == INSTANCE SafetyContract WITH stage <- Stage

\* The controller keeps the README's safety contract, steps 1 to 12.
KeepsContract == Contract!Spec

=============================================================================
