------------------------ MODULE Pa2ControllerProofs ------------------------
(***************************************************************************)
(* Pa2Controller keeps its types and its course of calls, for any number   *)
(* of outputs, any slots, catalog and allowlist, any recall timeout, and   *)
(* any number of faults; with a validator, its only session with another   *)
(* unit is one it has already given up.                                    *)
(***************************************************************************)
EXTENDS Pa2Controller, TLAPS

BeforeOff == {"recheck", "recall", "poll", "reopen", "immediate",
              "finalDirect", "finalCatalog", "final"}
AfterOff == {"postDirect", "postCatalog", "endDirect", "endCatalog"}

\* Which operation can be at a call, and which value it then works towards.
Course ==
  /\ pc \in PreflightPcs \cup ActivationPcs => Activating
  /\ pc \in PreflightPcs \cup BeforeOff => want = "On"
  /\ pc \in AfterOff => want = "Off"
  /\ pc \in PreWriteChecks => want = "Off"
  /\ op.kind \in {"muteAll", "muteOne"} => want = "On"
  /\ pc \in GuardedPcs /\ op.kind \in {"unmuteAll", "unmuteOne"} => want = "Off"
  /\ Single => pc \notin Passes
  /\ Single /\ pc \in {"write", "readback"} => idx = op.chan
  /\ ~Single => op.chan = 1
  /\ pc \in {"write", "readback", "rbWrite", "rbRead", "rbRecover",
            "rbReconnect"} => idx <= N
  /\ /\ Activating
     /\ \/ pc \in {"finalDirect", "finalCatalog", "final"} \cup AfterOff
        \/ pc \in GuardedPcs /\ want = "Off"
        \/ pc \in PreWriteChecks
     => op.unmute

\* The only session with another unit is one whose operation was given up.
Trusted == sess = "other" => pc = "done" /\ result = "untrusted"

-----------------------------------------------------------------------------
USE DEF linkVars, device, network, client, history, pass, evidence, rollback,
        clock, Channels, NoSlot, Units, OnOff

\* The initial state is well typed.
LEMMA TypeInit == Init => TypeOK
<1>1. Init => DataOK
  BY FaultsAssumption, OutputsAssumption, TimeoutAssumption, SMT
     DEF Init, LinkInit, DataOK, LinkDataOK, Since, Rounds, Ops, NoOp, AllKinds,
         Pcs, Results
<1>2. Init => FlagsOK
  BY Zenon DEF Init, LinkInit, FlagsOK, LinkFlagsOK
<1> QED
  BY <1>1, <1>2 DEF TypeOK

\* Writing On or Off leaves every output On or Off.
LEMMA SendKeepsMutes ==
  ASSUME mute \in Mutes, NEW c, NEW v \in OnOff, SendOutput(c, v)
  PROVE  mute' \in Mutes
BY SMT DEF SendOutput, Mutes

\* A step keeps the types and ranges of everything that is not a flag.
LEMMA DataStep ==
  ASSUME TypeOK, [Next]_vars
  PROVE  DataOK'
<1> USE DEF TypeOK, DataOK, LinkDataOK, Since, Rounds, Pcs, PreWriteChecks,
   PreflightPcs, GuardedPcs, ActivationPcs, RollbackPcs, Passes, Directs,
   Results
<1>1. CASE Begin
  BY <1>1, OutputsAssumption, TimeoutAssumption, KindsAssumption, SMT DEF
     Begin, Ops, AllKinds
<1>2. CASE Preflight
  <2>1. CASE Resolve
    BY <2>1, OutputsAssumption, TimeoutAssumption, FaultsAssumption, SMT DEF
       Resolve, Answered, Limit, Live, Reads, ReadFrame, NoNews, Raise,
       Handler, Finish, StartRollback, Go
  <2>2. CASE ReadCurrent
    BY <2>2, OutputsAssumption, SMT DEF ReadCurrent, Answered, Limit, Live,
       Reads, ReadFrame, NoNews, StartPass, StartWrites, Ops
  <2> QED
    BY <1>2, <2>1, <2>2 DEF Preflight
<1>3. CASE Writing
  <2>1. CASE WriteExpires
    BY <2>1, OutputsAssumption, TimeoutAssumption, FaultsAssumption, SMT DEF
       WriteExpires, FirstWrite, Finish, ReadFrame, NoNews
  <2>2. CASE WriteOutput
    <3>1. mute' \in Mutes
      BY <2>2, SendKeepsMutes, SMT DEF WriteOutput, FlagsOK
    <3> QED
      BY <2>2, <3>1, SMT DEF WriteOutput, SendOutput, NoNews, Go
  <2>3. CASE WriteFails
    BY <2>3, OutputsAssumption, TimeoutAssumption, FaultsAssumption, SMT DEF
       WriteFails, MayWrite, FirstWrite, SendFails, HangUp, Live, ReadFrame,
       NoNews, Raise, Handler, Finish, StartRollback, Go
  <2>4. CASE Readback
    BY <2>4, OutputsAssumption, TimeoutAssumption, FaultsAssumption, SMT DEF
       Readback, Answered, Limit, Live, Reads, ReadFrame, NoNews, Reject,
       StartPass, Raise, Handler, Finish, StartRollback, Go
  <2> QED
    BY <1>3, <2>1, <2>2, <2>3, <2>4 DEF Writing
<1>4. CASE Reading
  BY <1>4, OutputsAssumption, TimeoutAssumption, FaultsAssumption, SMT DEF
     Reading, ReadOutput, Answered, Limit, Live, Reads, ReadFrame, NoNews,
     StillGood, PassVerdict, Raise, Handler, Finish, StartRollback, Go,
     ReadFails, CallFails, HangUp
<1>5. CASE Recalling
  <2>1. CASE Recheck
    BY <2>1, OutputsAssumption, TimeoutAssumption, FaultsAssumption, SMT DEF
       Recheck, Answered, Limit, Live, Reads, ReadFrame, NoNews, StartPass, Go
  <2>2. CASE Recall
    BY <2>2, SMT DEF Recall, SendRecall, Go, NoNews, Ops
  <2>3. CASE RecallFails
    BY <2>3, OutputsAssumption, TimeoutAssumption, FaultsAssumption, SMT DEF
       RecallFails, SendFails, ReadFrame, NoNews, Raise, Handler, Finish,
       StartRollback, Go
  <2>4. CASE Poll
    BY <2>4, OutputsAssumption, TimeoutAssumption, FaultsAssumption, SMT DEF
       Poll, Answered, Limit, Live, Reads, ReadFrame, NoNews, StartPass
  <2>5. CASE PollFails
    BY <2>5, OutputsAssumption, TimeoutAssumption, FaultsAssumption, SMT DEF
       PollFails, Live, Go, ReadFrame, NoNews
  <2>6. CASE PollReopens
    BY <2>6, OutputsAssumption, TimeoutAssumption, FaultsAssumption, SMT DEF
       PollReopens, Reopen, Reconnected, ReconnectFails, PeerRejected, Fault,
       Finish, Go
  <2>7. CASE ReopenTooLate
    BY <2>7, OutputsAssumption, TimeoutAssumption, FaultsAssumption, SMT DEF
       ReopenTooLate, ReadFrame, NoNews, Raise, Handler, Finish, StartRollback,
       Go
  <2> QED
    BY <1>5, <2>1, <2>2, <2>3, <2>4, <2>5, <2>6, <2>7 DEF Recalling
<1>6. CASE Verifying
  <2>1. CASE FinalDirect
    BY <2>1, OutputsAssumption, SMT DEF FinalDirect, Answered, Limit, Live,
       Reads, ReadFrame, NoNews, Raise, Handler, Finish, StartRollback, Go
  <2>2. CASE FinalCatalog
    BY <2>2, OutputsAssumption, TimeoutAssumption, FaultsAssumption, SMT DEF
       FinalCatalog, Answered, Limit, Live, Reads, ReadFrame, NoNews, Reject,
       StartPass, Raise, Handler, Finish, StartRollback, Go
  <2>3. CASE VerifyDirect
    BY <2>3, OutputsAssumption, TimeoutAssumption, FaultsAssumption, SMT DEF
       VerifyDirect, Answered, Limit, Live, Reads, ReadFrame, NoNews, Go
  <2>4. CASE VerifyBefore
    BY <2>4, OutputsAssumption, SMT DEF VerifyBefore, Answered, Limit, Live,
       Reads, ReadFrame, NoNews, Agrees, StartWrites, Raise, Handler, Finish,
       StartRollback, Go, Ops
  <2>5. CASE VerifyAfter
    BY <2>5, OutputsAssumption, TimeoutAssumption, FaultsAssumption, SMT DEF
       VerifyAfter, Answered, Limit, Live, Reads, ReadFrame, NoNews, Agrees,
       Raise, Handler, Finish, StartRollback, Go
  <2>6. CASE VerifyEnd
    BY <2>6, OutputsAssumption, TimeoutAssumption, FaultsAssumption, SMT DEF
       VerifyEnd, Answered, Limit, Live, Reads, ReadFrame, NoNews, Agrees,
       EndsOnTarget, Raise, Handler, Finish, StartRollback, Go
  <2> QED
    BY <1>6, <2>1, <2>2, <2>3, <2>4, <2>5, <2>6 DEF Verifying
<1>7. CASE RollingBack
  <2>1. CASE RbTooLate
    BY <2>1, OutputsAssumption, TimeoutAssumption, FaultsAssumption, SMT DEF
       RbTooLate, HangUp, Live, RbFrame, Finish
  <2>2. CASE RbReconnect
    BY <2>2, OutputsAssumption, TimeoutAssumption, FaultsAssumption, SMT DEF
       RbReconnect, Reopen, Reconnected, ReconnectFails, PeerRejected, Fault,
       Finish, Go
  <2>3. CASE RbWrite
    <3>1. mute' \in Mutes
      BY <2>3, SendKeepsMutes, SMT DEF RbWrite
    <3> QED
      BY <2>3, <3>1, SMT DEF RbWrite, SendOutput, RbFrame, Go
  <2>4. CASE RbFails
    BY <2>4, OutputsAssumption, TimeoutAssumption, FaultsAssumption, SMT DEF
       RbFails, SendFails, Live, RbFrame, Go
  <2>5. CASE RbRead
    BY <2>5, OutputsAssumption, TimeoutAssumption, FaultsAssumption, SMT DEF
       RbRead, Live, Reads, NextChannel, NextRound, RoundsLeft, EndRollback,
       RbFrame, StartRollback, Finish, Go
  <2>6. CASE RbRecover
    BY <2>6, OutputsAssumption, TimeoutAssumption, FaultsAssumption, SMT DEF
       RbRecover, NextRound, RoundsLeft, EndRollback, StartRollback, Reopen,
       Reconnected, ReconnectFails, PeerRejected, Fault, Finish, Go
  <2>7. CASE RbFinal
    BY <2>7, OutputsAssumption, TimeoutAssumption, FaultsAssumption, SMT DEF
       RbFinal, Live, Reads, StillMuted, RbFrame
  <2>8. CASE RbVerdict
    BY <2>8, OutputsAssumption, TimeoutAssumption, FaultsAssumption, SMT DEF
       RbVerdict, NextRound, RoundsLeft, EndRollback, StartRollback, RbFrame,
       Finish, Go
  <2>9. CASE RbRecoverFinal
    BY <2>9, OutputsAssumption, TimeoutAssumption, FaultsAssumption, SMT DEF
       RbRecoverFinal, NextRound, RoundsLeft, EndRollback, StartRollback,
       Reopen, Reconnected, ReconnectFails, PeerRejected, Fault, Finish, Go
  <2> QED
    BY <1>7, <2>1, <2>2, <2>3, <2>4, <2>5, <2>6, <2>7, <2>8, <2>9 DEF
       RollingBack
<1>8. CASE Return
  <2>1. op' \in Ops
    BY <1>8, OutputsAssumption, SMT DEF Return, Ops, NoOp, AllKinds
  <2> QED
    BY <1>8, <2>1, OutputsAssumption, TimeoutAssumption, SMT DEF Return, Go
<1>9. CASE Connect
  BY <1>9, OutputsAssumption, TimeoutAssumption, FaultsAssumption, SMT DEF
     Connect
<1>10. CASE Tick
  BY <1>10, OutputsAssumption, TimeoutAssumption, FaultsAssumption, SMT DEF
     Tick
<1>11. CASE Elsewhere
  BY <1>11, OutputsAssumption, TimeoutAssumption, FaultsAssumption, SMT DEF
     Elsewhere, Surroundings, PresetLoads, OtherWriter, ConsoleDrops,
     AddressMoves, Fault, Live
<1>12. CASE UNCHANGED vars
  BY <1>12, SMT DEF vars
<1> QED
  BY <1>1, <1>2, <1>3, <1>4, <1>5, <1>6, <1>7, <1>8, <1>9, <1>10, <1>11, <1>12
     DEF Next, Controller

\* A step keeps the flags Boolean.
LEMMA FlagsStep ==
  ASSUME TypeOK, [Next]_vars
  PROVE  FlagsOK'
<1> USE DEF TypeOK, FlagsOK, LinkFlagsOK
<1>1. CASE Begin
  BY <1>1, Zenon DEF Begin
<1>2. CASE Preflight
  BY <1>2, Zenon DEF Preflight, Resolve, Answered, Limit, Live, Reads,
     ReadFrame, NoNews, Raise, Handler, Finish, StartRollback, Go, ReadCurrent,
     StartPass, StartWrites
<1>3. CASE Writing
  BY <1>3, Zenon DEF Writing, WriteExpires, FirstWrite, Finish, ReadFrame,
     NoNews, WriteOutput, MayWrite, SendOutput, Go, WriteFails, SendFails,
     HangUp, Live, Raise, Handler, StartRollback, Readback, Answered, Limit,
     Reads, Reject, StartPass
<1>4. CASE Reading
  BY <1>4, Zenon DEF Reading, ReadOutput, Answered, Limit, Live, Reads,
     ReadFrame, NoNews, StillGood, PassVerdict, Raise, Handler, Finish,
     StartRollback, Go, ReadFails, CallFails, HangUp
<1>5. CASE Recalling
  BY <1>5, Zenon DEF Recalling, Recheck, Answered, Limit, Live, Reads,
     ReadFrame, NoNews, StartPass, Go, Recall, SendRecall, RecallFails,
     SendFails, Raise, Handler, Finish, StartRollback, Poll, PollFails,
     PollReopens, Reopen, Reconnected, ReconnectFails, PeerRejected, Fault,
     ReopenTooLate
<1>6. CASE Verifying
  BY <1>6, Zenon DEF Verifying, FinalDirect, Answered, Limit, Live, Reads,
     ReadFrame, NoNews, Raise, Handler, Finish, StartRollback, Go,
     FinalCatalog, Reject, StartPass, VerifyDirect, VerifyBefore, Agrees,
     StartWrites, VerifyAfter, VerifyEnd, EndsOnTarget
<1>7. CASE RollingBack
  BY <1>7, Zenon DEF RollingBack, RbTooLate, HangUp, Live, RbFrame, Finish,
     RbReconnect, Reopen, Reconnected, ReconnectFails, PeerRejected, Fault, Go,
     RbWrite, SendOutput, RbFails, SendFails, RbRead, Reads, NextChannel,
     NextRound, RoundsLeft, EndRollback, StartRollback, RbRecover, RbFinal,
     StillMuted, RbVerdict, RbRecoverFinal
<1>8. CASE Return
  BY <1>8, Zenon DEF Return, Go
<1>9. CASE Connect
  BY <1>9, Zenon DEF Connect
<1>10. CASE Tick
  BY <1>10, Zenon DEF Tick
<1>11. CASE Elsewhere
  BY <1>11, Zenon DEF Elsewhere, Surroundings, PresetLoads, OtherWriter,
     ConsoleDrops, AddressMoves, Fault, Live
<1>12. CASE UNCHANGED vars
  BY <1>12, Zenon DEF vars
<1> QED
  BY <1>1, <1>2, <1>3, <1>4, <1>5, <1>6, <1>7, <1>8, <1>9, <1>10, <1>11, <1>12
     DEF Next, Controller

\* Every reachable state is well typed; among the bounds this contains, the
\* rollback never starts more than N + 2 rounds (recovery_round) and no
\* channel index runs past the last output.
THEOREM TypeCorrect == Spec => []TypeOK
<1>1. TypeOK /\ [Next]_vars => TypeOK'
  BY DataStep, FlagsStep DEF TypeOK
<1> QED
  BY TypeInit, <1>1, PTL DEF Spec

\* A step keeps the operation on the course its kind prescribes.
LEMMA CourseStep ==
  ASSUME TypeOK, Course, [Next]_vars
  PROVE  Course'
<1> USE DEF TypeOK, DataOK, FlagsOK, Course, BeforeOff, AfterOff,
   PreWriteChecks, PreflightPcs, GuardedPcs, ActivationPcs, RollbackPcs,
   Passes, Directs, Activating, Single, Rounds, Pcs
<1>1. CASE Begin
  BY <1>1, OutputsAssumption, SMT DEF Begin, AllKinds
<1>2. CASE Preflight
  <2>1. CASE Resolve
    BY <2>1, OutputsAssumption, SMT DEF Resolve, ReadFrame, NoNews, Raise,
       Handler, Finish, StartRollback, Go
  <2>2. CASE ReadCurrent
    BY <2>2, OutputsAssumption, SMT DEF ReadCurrent, ReadFrame, NoNews,
       StartPass, StartWrites
  <2> QED
    BY <1>2, <2>1, <2>2 DEF Preflight
<1>3. CASE Writing
  <2>1. CASE WriteExpires
    BY <2>1, OutputsAssumption, SMT DEF WriteExpires, FirstWrite, Finish,
       ReadFrame, NoNews
  <2>2. CASE WriteOutput
    BY <2>2, OutputsAssumption, SMT DEF WriteOutput, MayWrite, FirstWrite,
       SendOutput, Go, NoNews
  <2>3. CASE WriteFails
    BY <2>3, OutputsAssumption, SMT DEF WriteFails, MayWrite, FirstWrite,
       SendFails, HangUp, ReadFrame, NoNews, Raise, Handler, Finish,
       StartRollback, Go
  <2>4. CASE Readback
    BY <2>4, OutputsAssumption, SMT DEF Readback, ReadFrame, NoNews, Reject,
       StartPass, Raise, Handler, Finish, StartRollback, Go
  <2> QED
    BY <1>3, <2>1, <2>2, <2>3, <2>4 DEF Writing
<1>4. CASE Reading
  <2>1. CASE ReadOutput
    BY <2>1, OutputsAssumption, SMT DEF ReadOutput, ReadFrame, NoNews,
       StillGood
  <2>2. CASE PassVerdict
    BY <2>2, OutputsAssumption, SMT DEF PassVerdict, ReadFrame, NoNews, Raise,
       Handler, Finish, StartRollback, Go
  <2>3. CASE ReadFails
    BY <2>3, OutputsAssumption, SMT DEF ReadFails, CallFails, HangUp,
       ReadFrame, NoNews, Raise, Handler, Finish, StartRollback, Go
  <2> QED
    BY <1>4, <2>1, <2>2, <2>3 DEF Reading
<1>5. CASE Recalling
  <2>1. CASE Recheck
    BY <2>1, OutputsAssumption, SMT DEF Recheck, ReadFrame, NoNews, StartPass,
       Go
  <2>2. CASE Recall
    BY <2>2, OutputsAssumption, SMT DEF Recall, SendRecall, Go, NoNews
  <2>3. CASE RecallFails
    BY <2>3, OutputsAssumption, SMT DEF RecallFails, SendFails, ReadFrame,
       NoNews, Raise, Handler, Finish, StartRollback, Go
  <2>4. CASE Poll
    BY <2>4, OutputsAssumption, SMT DEF Poll, ReadFrame, NoNews, StartPass
  <2>5. CASE PollFails
    BY <2>5, OutputsAssumption, SMT DEF PollFails, Go, ReadFrame, NoNews
  <2>6. CASE PollReopens
    BY <2>6, OutputsAssumption, SMT DEF PollReopens, Reopen, Finish, Go
  <2>7. CASE ReopenTooLate
    BY <2>7, OutputsAssumption, SMT DEF ReopenTooLate, ReadFrame, NoNews,
       Raise, Handler, Finish, StartRollback, Go
  <2> QED
    BY <1>5, <2>1, <2>2, <2>3, <2>4, <2>5, <2>6, <2>7 DEF Recalling
<1>6. CASE Verifying
  <2>1. CASE FinalDirect
    BY <2>1, OutputsAssumption, SMT DEF FinalDirect, ReadFrame, NoNews, Raise,
       Handler, Finish, StartRollback, Go
  <2>2. CASE FinalCatalog
    BY <2>2, OutputsAssumption, SMT DEF FinalCatalog, ReadFrame, NoNews,
       Reject, StartPass, Raise, Handler, Finish, StartRollback, Go
  <2>3. CASE VerifyDirect
    BY <2>3, OutputsAssumption, SMT DEF VerifyDirect, ReadFrame, NoNews, Go
  <2>4. CASE VerifyBefore
    BY <2>4, OutputsAssumption, SMT DEF VerifyBefore, Ops, ReadFrame, NoNews,
       StartWrites, Raise, Handler, Finish, StartRollback, Go
  <2>5. CASE VerifyAfter
    BY <2>5, OutputsAssumption, SMT DEF VerifyAfter, ReadFrame, NoNews, Raise,
       Handler, Finish, StartRollback, Go
  <2>6. CASE VerifyEnd
    BY <2>6, OutputsAssumption, SMT DEF VerifyEnd, ReadFrame, NoNews,
       EndsOnTarget, Raise, Handler, Finish, StartRollback, Go
  <2> QED
    BY <1>6, <2>1, <2>2, <2>3, <2>4, <2>5, <2>6 DEF Verifying
<1>7. CASE RollingBack
  <2>1. CASE RbTooLate
    BY <2>1, OutputsAssumption, SMT DEF RbTooLate, HangUp, RbFrame, Finish
  <2>2. CASE RbReconnect
    BY <2>2, OutputsAssumption, SMT DEF RbReconnect, Reopen, Finish, Go
  <2>3. CASE RbWrite
    BY <2>3, OutputsAssumption, SMT DEF RbWrite, SendOutput, RbFrame, Go
  <2>4. CASE RbFails
    BY <2>4, OutputsAssumption, SMT DEF RbFails, SendFails, RbFrame, Go
  <2>5. CASE RbRead
    BY <2>5, OutputsAssumption, SMT DEF RbRead, NextChannel, NextRound,
       RoundsLeft, EndRollback, RbFrame, StartRollback, Finish, Go
  <2>6. CASE RbRecover
    BY <2>6, OutputsAssumption, SMT DEF RbRecover, NextRound, RoundsLeft,
       EndRollback, StartRollback, Reopen, Finish, Go
  <2>7. CASE RbFinal
    BY <2>7, OutputsAssumption, SMT DEF RbFinal, StillMuted, RbFrame
  <2>8. CASE RbVerdict
    BY <2>8, OutputsAssumption, SMT DEF RbVerdict, NextRound, RoundsLeft,
       EndRollback, StartRollback, RbFrame, Finish, Go
  <2>9. CASE RbRecoverFinal
    BY <2>9, OutputsAssumption, SMT DEF RbRecoverFinal, NextRound, RoundsLeft,
       EndRollback, StartRollback, Reopen, Finish, Go
  <2> QED
    BY <1>7, <2>1, <2>2, <2>3, <2>4, <2>5, <2>6, <2>7, <2>8, <2>9 DEF
       RollingBack
<1>8. CASE Return
  BY <1>8, OutputsAssumption, SMT DEF Return, Go, NoOp
<1>9. CASE Connect
  BY <1>9, OutputsAssumption, SMT DEF Connect
<1>10. CASE Tick
  BY <1>10, OutputsAssumption, SMT DEF Tick
<1>11. CASE Elsewhere
  BY <1>11, OutputsAssumption, SMT DEF Elsewhere, Surroundings, PresetLoads,
     OtherWriter, ConsoleDrops, AddressMoves
<1>12. CASE UNCHANGED vars
  BY <1>12, SMT DEF vars
<1> QED
  BY <1>1, <1>2, <1>3, <1>4, <1>5, <1>6, <1>7, <1>8, <1>9, <1>10, <1>11, <1>12
     DEF Next, Controller

\* A step ends at once any operation whose session another unit answers.
LEMMA TrustedStep ==
  ASSUME Validates, TypeOK, Trusted, [Next]_vars
  PROVE  Trusted'
<1> USE DEF Trusted, TypeOK, DataOK, LinkDataOK, PreWriteChecks, PreflightPcs,
   GuardedPcs, ActivationPcs, RollbackPcs, Passes, Directs
<1>1. CASE Begin
  BY <1>1, SMT DEF Begin
<1>2. CASE Preflight
  BY <1>2, SMT DEF Preflight, Resolve, Answered, Limit, Live, Reads, ReadFrame,
     NoNews, Raise, Handler, Finish, StartRollback, Go, ReadCurrent, StartPass,
     StartWrites
<1>3. CASE Writing
  BY <1>3, SMT DEF Writing, WriteExpires, FirstWrite, Finish, ReadFrame,
     NoNews, WriteOutput, MayWrite, SendOutput, Go, WriteFails, SendFails,
     HangUp, Live, Raise, Handler, StartRollback, Readback, Answered, Limit,
     Reads, Reject, StartPass
<1>4. CASE Reading
  BY <1>4, SMT DEF Reading, ReadOutput, Answered, Limit, Live, Reads,
     ReadFrame, NoNews, StillGood, PassVerdict, Raise, Handler, Finish,
     StartRollback, Go, ReadFails, CallFails, HangUp
<1>5. CASE Recalling
  <2>1. CASE Recheck
    BY <2>1, SMT DEF Recheck, Answered, Limit, Live, Reads, ReadFrame, NoNews,
       StartPass, Go
  <2>2. CASE Recall
    BY <2>2, SMT DEF Recall, SendRecall, Go, NoNews
  <2>3. CASE RecallFails
    BY <2>3, SMT DEF RecallFails, SendFails, ReadFrame, NoNews, Raise, Handler,
       Finish, StartRollback, Go
  <2>4. CASE Poll
    BY <2>4, SMT DEF Poll, Answered, Limit, Live, Reads, ReadFrame, NoNews,
       StartPass
  <2>5. CASE PollFails
    BY <2>5, SMT DEF PollFails, Live, Go, ReadFrame, NoNews
  <2>6. CASE PollReopens
    BY <2>6, SMT DEF PollReopens, Reopen, Reconnected, ReconnectFails,
       PeerRejected, Fault, Finish, Go
  <2>7. CASE ReopenTooLate
    BY <2>7, SMT DEF ReopenTooLate, ReadFrame, NoNews, Raise, Handler, Finish,
       StartRollback, Go
  <2> QED
    BY <1>5, <2>1, <2>2, <2>3, <2>4, <2>5, <2>6, <2>7 DEF Recalling
<1>6. CASE Verifying
  BY <1>6, SMT DEF Verifying, FinalDirect, Answered, Limit, Live, Reads,
     ReadFrame, NoNews, Raise, Handler, Finish, StartRollback, Go,
     FinalCatalog, Reject, StartPass, VerifyDirect, VerifyBefore, Agrees,
     StartWrites, VerifyAfter, VerifyEnd, EndsOnTarget
<1>7. CASE RollingBack
  <2>1. CASE RbTooLate
    BY <2>1, SMT DEF RbTooLate, HangUp, Live, RbFrame, Finish
  <2>2. CASE RbReconnect
    BY <2>2, SMT DEF RbReconnect, Reopen, Reconnected, ReconnectFails,
       PeerRejected, Fault, Finish, Go
  <2>3. CASE RbWrite
    BY <2>3, SMT DEF RbWrite, SendOutput, RbFrame, Go
  <2>4. CASE RbFails
    BY <2>4, SMT DEF RbFails, SendFails, Live, RbFrame, Go
  <2>5. CASE RbRead
    BY <2>5, SMT DEF RbRead, Live, Reads, NextChannel, NextRound, RoundsLeft,
       EndRollback, RbFrame, StartRollback, Finish, Go
  <2>6. CASE RbRecover
    BY <2>6, SMT DEF RbRecover, NextRound, RoundsLeft, EndRollback,
       StartRollback, Reopen, Reconnected, ReconnectFails, PeerRejected, Fault,
       Finish, Go
  <2>7. CASE RbFinal
    BY <2>7, SMT DEF RbFinal, Live, Reads, StillMuted, RbFrame
  <2>8. CASE RbVerdict
    BY <2>8, SMT DEF RbVerdict, NextRound, RoundsLeft, EndRollback,
       StartRollback, RbFrame, Finish, Go
  <2>9. CASE RbRecoverFinal
    BY <2>9, SMT DEF RbRecoverFinal, NextRound, RoundsLeft, EndRollback,
       StartRollback, Reopen, Reconnected, ReconnectFails, PeerRejected, Fault,
       Finish, Go
  <2> QED
    BY <1>7, <2>1, <2>2, <2>3, <2>4, <2>5, <2>6, <2>7, <2>8, <2>9 DEF
       RollingBack
<1>8. CASE Return
  BY <1>8, SMT DEF Return, Go
<1>9. CASE Connect
  BY <1>9, SMT DEF Connect
<1>10. CASE Tick
  BY <1>10, SMT DEF Tick
<1>11. CASE Elsewhere
  BY <1>11, SMT DEF Elsewhere, Surroundings, PresetLoads, OtherWriter,
     ConsoleDrops, AddressMoves, Fault, Live
<1>12. CASE UNCHANGED vars
  BY <1>12, SMT DEF vars
<1> QED
  BY <1>1, <1>2, <1>3, <1>4, <1>5, <1>6, <1>7, <1>8, <1>9, <1>10, <1>11, <1>12
     DEF Next, Controller
=============================================================================
