------------------------ MODULE Pa2ControllerSafety ------------------------
(***************************************************************************)
(* What Pa2Controller reports is true and what it writes is covered by a   *)
(* check: the safety properties of its runs, for every value of the        *)
(* constants.  Each is carried by what the calls before it established:    *)
(* the readbacks of a pass, the session they came over, and the slot that  *)
(* the two reads of a preset check agreed on.                              *)
(***************************************************************************)
EXTENDS Pa2ControllerProofs

\* What the readbacks of a pass, and the calls after it, rely on.
SeenAre(v) == \A c \in Channels : c < idx => mute[c] = v

PassEvidence ==
  muteSince = "still" /\ seen = "good" =>
    /\ pc \in {"confirm", "immediate", "final"} => SeenAre(want)
    /\ pc = "rbFinal" => SeenAre("On")

OffEvidence ==
  muteSince = "still" /\ pc \in AfterOff =>
    IF Single THEN mute[op.chan] = "Off" ELSE AllAre("Off")

\* What the two reads of a preset check agree on.
SlotEvidence ==
  slotSince = "still" /\ pc \in {"preCatalog", "postCatalog", "endCatalog"} =>
    slot = cur

\* A pass read in one session, and no call after it that could reconnect.
SessionEvidence ==
  \/ pc \in {"confirm", "immediate", "final", "finalDirect", "finalCatalog",
             "rbFinal"}
  \/ pc \in AfterOff
  => sessSince = "still"

\* The calls before the first write.
Unwritten ==
  \/ pc \in PreflightPcs
  \/ pc \in PreWriteChecks /\ ~Activating
  \/ pc = "write" /\ FirstWrite
  => ~wrote

\* Holds whoever answers: it speaks of the controller's own state alone.
OwnInv ==
  /\ TypeOK /\ Course
  /\ SessionEvidence /\ EvidenceOfOneSession
  /\ Unwritten /\ NothingWritten

\* Needs the answers to be our unit's, hence a validator.
UnitInv ==
  /\ Trusted /\ NeverStrays
  /\ PassEvidence /\ OffEvidence /\ MutedAcrossRecall
  /\ RollbackIsTrue /\ SuccessIsTrue
  /\ SlotEvidence /\ OffUnderVerifiedSlot /\ SuccessUnderCheckedSlot

-----------------------------------------------------------------------------
USE DEF linkVars, device, network, client, history, pass, evidence, rollback,
        clock, Channels, NoSlot, Units, OnOff, PreWriteChecks, PreflightPcs,
        GuardedPcs, ActivationPcs, RollbackPcs, Passes, Directs

\* A readback in a pass counts only if all before it did.
LEMMA PassStep ==
  ASSUME TypeOK, TypeOK', Course, Course', Trusted, PassEvidence, [Next]_vars
  PROVE  PassEvidence'
<1> USE DEF PassEvidence, Mutes, SeenAre, AllAre, Trusted, Activating, Single,
   Course, BeforeOff, AfterOff, TypeOK, DataOK, LinkDataOK, Ops
<1>1. CASE Begin
  BY <1>1, OutputsAssumption, SMT DEF Begin
<1>2. CASE Preflight
  BY <1>2, OutputsAssumption, SMT DEF Preflight, Resolve, Answered, Limit,
     Live, Reads, ReadFrame, NoNews, Raise, Handler, Finish, StartRollback, Go,
     ReadCurrent, StartPass, StartWrites
<1>3. CASE Writing
  <2>1. CASE WriteExpires
    BY <2>1, OutputsAssumption, SMT DEF WriteExpires, FirstWrite, Finish,
       ReadFrame, NoNews
  <2>2. CASE WriteOutput
    BY <2>2, OutputsAssumption, SMT DEF WriteOutput, MayWrite, FirstWrite,
       SendOutput, Go, NoNews
  <2>3. CASE WriteFails
    BY <2>3, OutputsAssumption, SMT DEF WriteFails, MayWrite, FirstWrite,
       SendFails, HangUp, Live, ReadFrame, NoNews, Raise, Handler, Finish,
       StartRollback, Go
  <2>4. CASE Readback
    BY <2>4, OutputsAssumption, SMT DEF Readback, Answered, Limit, Live, Reads,
       ReadFrame, NoNews, Reject, StartPass, Raise, Handler, Finish,
       StartRollback, Go
  <2> QED
    BY <1>3, <2>1, <2>2, <2>3, <2>4 DEF Writing
<1>4. CASE Reading
  <2>1. CASE ReadOutput
    BY <2>1, OutputsAssumption, SMT DEF ReadOutput, Answered, Limit, Live,
       Reads, ReadFrame, NoNews, StillGood
  <2>2. CASE PassVerdict
    BY <2>2, OutputsAssumption, SMT DEF PassVerdict, ReadFrame, NoNews, Raise,
       Handler, Finish, StartRollback, Go
  <2>3. CASE ReadFails
    BY <2>3, OutputsAssumption, SMT DEF ReadFails, CallFails, HangUp, Answered,
       Limit, Live, ReadFrame, NoNews, Raise, Handler, Finish, StartRollback,
       Go
  <2> QED
    BY <1>4, <2>1, <2>2, <2>3 DEF Reading
<1>5. CASE Recalling
  <2>1. CASE Recheck
    BY <2>1, OutputsAssumption, SMT DEF Recheck, Answered, Limit, Live, Reads,
       ReadFrame, NoNews, StartPass, Go
  <2>2. CASE Recall
    BY <2>2, OutputsAssumption, SMT DEF Recall, SendRecall, Go, NoNews
  <2>3. CASE RecallFails
    BY <2>3, OutputsAssumption, SMT DEF RecallFails, SendFails, ReadFrame,
       NoNews, Raise, Handler, Finish, StartRollback, Go
  <2>4. CASE Poll
    BY <2>4, OutputsAssumption, SMT DEF Poll, Answered, Limit, Live, Reads,
       ReadFrame, NoNews, StartPass
  <2>5. CASE PollFails
    BY <2>5, OutputsAssumption, SMT DEF PollFails, Live, Go, ReadFrame, NoNews
  <2>6. CASE PollReopens
    BY <2>6, OutputsAssumption, SMT DEF PollReopens, Reopen, Reconnected,
       ReconnectFails, PeerRejected, Fault, Finish, Go
  <2>7. CASE ReopenTooLate
    BY <2>7, OutputsAssumption, SMT DEF ReopenTooLate, ReadFrame, NoNews,
       Raise, Handler, Finish, StartRollback, Go
  <2> QED
    BY <1>5, <2>1, <2>2, <2>3, <2>4, <2>5, <2>6, <2>7 DEF Recalling
<1>6. CASE Verifying
  <2>1. CASE FinalDirect
    BY <2>1, OutputsAssumption, SMT DEF FinalDirect, Answered, Limit, Live,
       Reads, ReadFrame, NoNews, Raise, Handler, Finish, StartRollback, Go
  <2>2. CASE FinalCatalog
    BY <2>2, OutputsAssumption, SMT DEF FinalCatalog, Answered, Limit, Live,
       Reads, ReadFrame, NoNews, Reject, StartPass, Raise, Handler, Finish,
       StartRollback, Go
  <2>3. CASE VerifyDirect
    BY <2>3, OutputsAssumption, SMT DEF VerifyDirect, Answered, Limit, Live,
       Reads, ReadFrame, NoNews, Go
  <2>4. CASE VerifyBefore
    BY <2>4, OutputsAssumption, SMT DEF VerifyBefore, Answered, Limit, Live,
       Reads, ReadFrame, NoNews, Agrees, StartWrites, Raise, Handler, Finish,
       StartRollback, Go
  <2>5. CASE VerifyAfter
    BY <2>5, OutputsAssumption, SMT DEF VerifyAfter, Answered, Limit, Live,
       Reads, ReadFrame, NoNews, Agrees, Raise, Handler, Finish, StartRollback,
       Go
  <2>6. CASE VerifyEnd
    BY <2>6, OutputsAssumption, SMT DEF VerifyEnd, Answered, Limit, Live,
       Reads, ReadFrame, NoNews, Agrees, EndsOnTarget, Raise, Handler, Finish,
       StartRollback, Go
  <2> QED
    BY <1>6, <2>1, <2>2, <2>3, <2>4, <2>5, <2>6 DEF Verifying
<1>7. CASE RollingBack
  <2>1. CASE RbTooLate
    BY <2>1, OutputsAssumption, SMT DEF RbTooLate, HangUp, Live, RbFrame,
       Finish
  <2>2. CASE RbReconnect
    BY <2>2, OutputsAssumption, SMT DEF RbReconnect, Reopen, Reconnected,
       ReconnectFails, PeerRejected, Fault, Finish, Go
  <2>3. CASE RbWrite
    BY <2>3, OutputsAssumption, SMT DEF RbWrite, SendOutput, RbFrame, Go
  <2>4. CASE RbFails
    BY <2>4, OutputsAssumption, SMT DEF RbFails, SendFails, Live, RbFrame, Go
  <2>5. CASE RbRead
    BY <2>5, OutputsAssumption, SMT DEF RbRead, Live, Reads, NextChannel,
       NextRound, RoundsLeft, EndRollback, RbFrame, StartRollback, Finish, Go
  <2>6. CASE RbRecover
    BY <2>6, OutputsAssumption, SMT DEF RbRecover, NextRound, RoundsLeft,
       EndRollback, StartRollback, Reopen, Reconnected, ReconnectFails,
       PeerRejected, Fault, Finish, Go
  <2>7. CASE RbFinal
    BY <2>7, OutputsAssumption, SMT DEF RbFinal, Live, Reads, StillMuted,
       RbFrame
  <2>8. CASE RbVerdict
    BY <2>8, OutputsAssumption, SMT DEF RbVerdict, NextRound, RoundsLeft,
       EndRollback, StartRollback, RbFrame, Finish, Go
  <2>9. CASE RbRecoverFinal
    BY <2>9, OutputsAssumption, SMT DEF RbRecoverFinal, NextRound, RoundsLeft,
       EndRollback, StartRollback, Reopen, Reconnected, ReconnectFails,
       PeerRejected, Fault, Finish, Go
  <2> QED
    BY <1>7, <2>1, <2>2, <2>3, <2>4, <2>5, <2>6, <2>7, <2>8, <2>9 DEF
       RollingBack
<1>8. CASE Return
  BY <1>8, OutputsAssumption, SMT DEF Return, Go
<1>9. CASE Connect
  BY <1>9, OutputsAssumption, SMT DEF Connect
<1>10. CASE Tick
  BY <1>10, OutputsAssumption, SMT DEF Tick
<1>11. CASE Elsewhere
  BY <1>11, OutputsAssumption, SMT DEF Elsewhere, Surroundings, PresetLoads,
     OtherWriter, ConsoleDrops, AddressMoves, Fault, Live
<1>12. CASE UNCHANGED vars
  BY <1>12, SMT DEF vars
<1> QED
  BY <1>1, <1>2, <1>3, <1>4, <1>5, <1>6, <1>7, <1>8, <1>9, <1>10, <1>11, <1>12
     DEF Next, Controller

\* After the Off writes every output that was to open is open.
LEMMA OffStep ==
  ASSUME TypeOK, TypeOK', Course, Course', Trusted, PassEvidence, OffEvidence, [Next]_vars
  PROVE  OffEvidence'
<1> USE DEF OffEvidence, Mutes, SeenAre, AllAre, PassEvidence, Trusted,
   Activating, Single, Course, BeforeOff, AfterOff, TypeOK, DataOK, LinkDataOK,
   Ops
<1>1. CASE Begin
  BY <1>1, OutputsAssumption, SMT DEF Begin
<1>2. CASE Preflight
  BY <1>2, OutputsAssumption, SMT DEF Preflight, Resolve, Answered, Limit,
     Live, Reads, ReadFrame, NoNews, Raise, Handler, Finish, StartRollback, Go,
     ReadCurrent, StartPass, StartWrites
<1>3. CASE Writing
  <2>1. CASE WriteExpires
    BY <2>1, OutputsAssumption, SMT DEF WriteExpires, FirstWrite, Finish,
       ReadFrame, NoNews
  <2>2. CASE WriteOutput
    BY <2>2, OutputsAssumption, SMT DEF WriteOutput, MayWrite, FirstWrite,
       SendOutput, Go, NoNews
  <2>3. CASE WriteFails
    BY <2>3, OutputsAssumption, SMT DEF WriteFails, MayWrite, FirstWrite,
       SendFails, HangUp, Live, ReadFrame, NoNews, Raise, Handler, Finish,
       StartRollback, Go
  <2>4. CASE Readback
    BY <2>4, OutputsAssumption, SMT DEF Readback, Answered, Limit, Live, Reads,
       ReadFrame, NoNews, Reject, StartPass, Raise, Handler, Finish,
       StartRollback, Go
  <2> QED
    BY <1>3, <2>1, <2>2, <2>3, <2>4 DEF Writing
<1>4. CASE Reading
  <2>1. CASE ReadOutput
    BY <2>1, OutputsAssumption, SMT DEF ReadOutput, Answered, Limit, Live,
       Reads, ReadFrame, NoNews, StillGood
  <2>2. CASE PassVerdict
    BY <2>2, OutputsAssumption, SMT DEF PassVerdict, ReadFrame, NoNews, Raise,
       Handler, Finish, StartRollback, Go
  <2>3. CASE ReadFails
    BY <2>3, OutputsAssumption, SMT DEF ReadFails, CallFails, HangUp, Answered,
       Limit, Live, ReadFrame, NoNews, Raise, Handler, Finish, StartRollback,
       Go
  <2> QED
    BY <1>4, <2>1, <2>2, <2>3 DEF Reading
<1>5. CASE Recalling
  BY <1>5, OutputsAssumption, SMT DEF Recalling, Recheck, Answered, Limit,
     Live, Reads, ReadFrame, NoNews, StartPass, Go, Recall, SendRecall,
     RecallFails, SendFails, Raise, Handler, Finish, StartRollback, Poll,
     PollFails, PollReopens, Reopen, Reconnected, ReconnectFails, PeerRejected,
     Fault, ReopenTooLate
<1>6. CASE Verifying
  <2>1. CASE FinalDirect
    BY <2>1, OutputsAssumption, SMT DEF FinalDirect, Answered, Limit, Live,
       Reads, ReadFrame, NoNews, Raise, Handler, Finish, StartRollback, Go
  <2>2. CASE FinalCatalog
    BY <2>2, OutputsAssumption, SMT DEF FinalCatalog, Answered, Limit, Live,
       Reads, ReadFrame, NoNews, Reject, StartPass, Raise, Handler, Finish,
       StartRollback, Go
  <2>3. CASE VerifyDirect
    BY <2>3, OutputsAssumption, SMT DEF VerifyDirect, Answered, Limit, Live,
       Reads, ReadFrame, NoNews, Go
  <2>4. CASE VerifyBefore
    BY <2>4, OutputsAssumption, SMT DEF VerifyBefore, Answered, Limit, Live,
       Reads, ReadFrame, NoNews, Agrees, StartWrites, Raise, Handler, Finish,
       StartRollback, Go
  <2>5. CASE VerifyAfter
    BY <2>5, OutputsAssumption, SMT DEF VerifyAfter, Answered, Limit, Live,
       Reads, ReadFrame, NoNews, Agrees, Raise, Handler, Finish, StartRollback,
       Go
  <2>6. CASE VerifyEnd
    BY <2>6, OutputsAssumption, SMT DEF VerifyEnd, Answered, Limit, Live,
       Reads, ReadFrame, NoNews, Agrees, EndsOnTarget, Raise, Handler, Finish,
       StartRollback, Go
  <2> QED
    BY <1>6, <2>1, <2>2, <2>3, <2>4, <2>5, <2>6 DEF Verifying
<1>7. CASE RollingBack
  BY <1>7, OutputsAssumption, SMT DEF RollingBack, RbTooLate, HangUp, Live,
     RbFrame, Finish, RbReconnect, Reopen, Reconnected, ReconnectFails,
     PeerRejected, Fault, Go, RbWrite, SendOutput, RbFails, SendFails, RbRead,
     Reads, NextChannel, NextRound, RoundsLeft, EndRollback, StartRollback,
     RbRecover, RbFinal, StillMuted, RbVerdict, RbRecoverFinal
<1>8. CASE Return
  BY <1>8, OutputsAssumption, SMT DEF Return, Go
<1>9. CASE Connect
  BY <1>9, OutputsAssumption, SMT DEF Connect
<1>10. CASE Tick
  BY <1>10, OutputsAssumption, SMT DEF Tick
<1>11. CASE Elsewhere
  BY <1>11, OutputsAssumption, SMT DEF Elsewhere, Surroundings, PresetLoads,
     OtherWriter, ConsoleDrops, AddressMoves, Fault, Live
<1>12. CASE UNCHANGED vars
  BY <1>12, SMT DEF vars
<1> QED
  BY <1>1, <1>2, <1>3, <1>4, <1>5, <1>6, <1>7, <1>8, <1>9, <1>10, <1>11, <1>12
     DEF Next, Controller

\* Recall and the first Off come only after verified mutes.
LEMMA MutedStep ==
  ASSUME TypeOK, TypeOK', Course, Course', Trusted, PassEvidence, MutedAcrossRecall, [Next]_vars
  PROVE  MutedAcrossRecall'
<1> USE DEF MutedAcrossRecall, Mutes, SeenAre, AllAre, PassEvidence, Trusted,
   Activating, Single, Course, BeforeOff, AfterOff, TypeOK, DataOK, LinkDataOK,
   Ops
<1>1. CASE Begin
  BY <1>1, OutputsAssumption, SMT DEF Begin
<1>2. CASE Preflight
  <2>1. CASE Resolve
    BY <2>1, OutputsAssumption, SMT DEF Resolve, Answered, Limit, Live, Reads,
       ReadFrame, NoNews, Raise, Handler, Finish, StartRollback, Go
  <2>2. CASE ReadCurrent
    BY <2>2, OutputsAssumption, SMT DEF ReadCurrent, Answered, Limit, Live,
       Reads, ReadFrame, NoNews, StartPass, StartWrites
  <2> QED
    BY <1>2, <2>1, <2>2 DEF Preflight
<1>3. CASE Writing
  BY <1>3, OutputsAssumption, SMT DEF Writing, WriteExpires, FirstWrite,
     Finish, ReadFrame, NoNews, WriteOutput, MayWrite, SendOutput, Go,
     WriteFails, SendFails, HangUp, Live, Raise, Handler, StartRollback,
     Readback, Answered, Limit, Reads, Reject, StartPass
<1>4. CASE Reading
  <2>1. CASE ReadOutput
    BY <2>1, OutputsAssumption, SMT DEF ReadOutput, Answered, Limit, Live,
       Reads, ReadFrame, NoNews, StillGood
  <2>2. CASE PassVerdict
    BY <2>2, OutputsAssumption, SMT DEF PassVerdict, ReadFrame, NoNews, Raise,
       Handler, Finish, StartRollback, Go
  <2>3. CASE ReadFails
    BY <2>3, OutputsAssumption, SMT DEF ReadFails, CallFails, HangUp, Answered,
       Limit, Live, ReadFrame, NoNews, Raise, Handler, Finish, StartRollback,
       Go
  <2> QED
    BY <1>4, <2>1, <2>2, <2>3 DEF Reading
<1>5. CASE Recalling
  <2>1. CASE Recheck
    BY <2>1, OutputsAssumption, SMT DEF Recheck, Answered, Limit, Live, Reads,
       ReadFrame, NoNews, StartPass, Go
  <2>2. CASE Recall
    BY <2>2, OutputsAssumption, SMT DEF Recall, SendRecall, Go, NoNews
  <2>3. CASE RecallFails
    BY <2>3, OutputsAssumption, SMT DEF RecallFails, SendFails, ReadFrame,
       NoNews, Raise, Handler, Finish, StartRollback, Go
  <2>4. CASE Poll
    BY <2>4, OutputsAssumption, SMT DEF Poll, Answered, Limit, Live, Reads,
       ReadFrame, NoNews, StartPass
  <2>5. CASE PollFails
    BY <2>5, OutputsAssumption, SMT DEF PollFails, Live, Go, ReadFrame, NoNews
  <2>6. CASE PollReopens
    BY <2>6, OutputsAssumption, SMT DEF PollReopens, Reopen, Reconnected,
       ReconnectFails, PeerRejected, Fault, Finish, Go
  <2>7. CASE ReopenTooLate
    BY <2>7, OutputsAssumption, SMT DEF ReopenTooLate, ReadFrame, NoNews,
       Raise, Handler, Finish, StartRollback, Go
  <2> QED
    BY <1>5, <2>1, <2>2, <2>3, <2>4, <2>5, <2>6, <2>7 DEF Recalling
<1>6. CASE Verifying
  <2>1. CASE FinalDirect
    BY <2>1, OutputsAssumption, SMT DEF FinalDirect, Answered, Limit, Live,
       Reads, ReadFrame, NoNews, Raise, Handler, Finish, StartRollback, Go
  <2>2. CASE FinalCatalog
    BY <2>2, OutputsAssumption, SMT DEF FinalCatalog, Answered, Limit, Live,
       Reads, ReadFrame, NoNews, Reject, StartPass, Raise, Handler, Finish,
       StartRollback, Go
  <2>3. CASE VerifyDirect
    BY <2>3, OutputsAssumption, SMT DEF VerifyDirect, Answered, Limit, Live,
       Reads, ReadFrame, NoNews, Go
  <2>4. CASE VerifyBefore
    BY <2>4, OutputsAssumption, SMT DEF VerifyBefore, Answered, Limit, Live,
       Reads, ReadFrame, NoNews, Agrees, StartWrites, Raise, Handler, Finish,
       StartRollback, Go
  <2>5. CASE VerifyAfter
    BY <2>5, OutputsAssumption, SMT DEF VerifyAfter, Answered, Limit, Live,
       Reads, ReadFrame, NoNews, Agrees, Raise, Handler, Finish, StartRollback,
       Go
  <2>6. CASE VerifyEnd
    BY <2>6, OutputsAssumption, SMT DEF VerifyEnd, Answered, Limit, Live,
       Reads, ReadFrame, NoNews, Agrees, EndsOnTarget, Raise, Handler, Finish,
       StartRollback, Go
  <2> QED
    BY <1>6, <2>1, <2>2, <2>3, <2>4, <2>5, <2>6 DEF Verifying
<1>7. CASE RollingBack
  BY <1>7, OutputsAssumption, SMT DEF RollingBack, RbTooLate, HangUp, Live,
     RbFrame, Finish, RbReconnect, Reopen, Reconnected, ReconnectFails,
     PeerRejected, Fault, Go, RbWrite, SendOutput, RbFails, SendFails, RbRead,
     Reads, NextChannel, NextRound, RoundsLeft, EndRollback, StartRollback,
     RbRecover, RbFinal, StillMuted, RbVerdict, RbRecoverFinal
<1>8. CASE Return
  BY <1>8, OutputsAssumption, SMT DEF Return, Go
<1>9. CASE Connect
  BY <1>9, OutputsAssumption, SMT DEF Connect
<1>10. CASE Tick
  BY <1>10, OutputsAssumption, SMT DEF Tick
<1>11. CASE Elsewhere
  BY <1>11, OutputsAssumption, SMT DEF Elsewhere, Surroundings, PresetLoads,
     OtherWriter, ConsoleDrops, AddressMoves, Fault, Live
<1>12. CASE UNCHANGED vars
  BY <1>12, SMT DEF vars
<1> QED
  BY <1>1, <1>2, <1>3, <1>4, <1>5, <1>6, <1>7, <1>8, <1>9, <1>10, <1>11, <1>12
     DEF Next, Controller

\* A rollback reports success only from a clean readback.
LEMMA RollbackStep ==
  ASSUME TypeOK, TypeOK', Course, Course', Trusted, PassEvidence, RollbackIsTrue, [Next]_vars
  PROVE  RollbackIsTrue'
<1> USE DEF RollbackIsTrue, Mutes, SeenAre, AllAre, PassEvidence, Trusted,
   Activating, Single, Course, BeforeOff, AfterOff, TypeOK, DataOK, LinkDataOK,
   Ops
<1>1. CASE Begin
  BY <1>1, OutputsAssumption, SMT DEF Begin
<1>2. CASE Preflight
  BY <1>2, OutputsAssumption, SMT DEF Preflight, Resolve, Answered, Limit,
     Live, Reads, ReadFrame, NoNews, Raise, Handler, Finish, StartRollback, Go,
     ReadCurrent, StartPass, StartWrites
<1>3. CASE Writing
  BY <1>3, OutputsAssumption, SMT DEF Writing, WriteExpires, FirstWrite,
     Finish, ReadFrame, NoNews, WriteOutput, MayWrite, SendOutput, Go,
     WriteFails, SendFails, HangUp, Live, Raise, Handler, StartRollback,
     Readback, Answered, Limit, Reads, Reject, StartPass
<1>4. CASE Reading
  BY <1>4, OutputsAssumption, SMT DEF Reading, ReadOutput, Answered, Limit,
     Live, Reads, ReadFrame, NoNews, StillGood, PassVerdict, Raise, Handler,
     Finish, StartRollback, Go, ReadFails, CallFails, HangUp
<1>5. CASE Recalling
  BY <1>5, OutputsAssumption, SMT DEF Recalling, Recheck, Answered, Limit,
     Live, Reads, ReadFrame, NoNews, StartPass, Go, Recall, SendRecall,
     RecallFails, SendFails, Raise, Handler, Finish, StartRollback, Poll,
     PollFails, PollReopens, Reopen, Reconnected, ReconnectFails, PeerRejected,
     Fault, ReopenTooLate
<1>6. CASE Verifying
  BY <1>6, OutputsAssumption, SMT DEF Verifying, FinalDirect, Answered, Limit,
     Live, Reads, ReadFrame, NoNews, Raise, Handler, Finish, StartRollback, Go,
     FinalCatalog, Reject, StartPass, VerifyDirect, VerifyBefore, Agrees,
     StartWrites, VerifyAfter, VerifyEnd, EndsOnTarget
<1>7. CASE RollingBack
  <2>1. CASE RbTooLate
    BY <2>1, OutputsAssumption, SMT DEF RbTooLate, HangUp, Live, RbFrame,
       Finish
  <2>2. CASE RbReconnect
    BY <2>2, OutputsAssumption, SMT DEF RbReconnect, Reopen, Reconnected,
       ReconnectFails, PeerRejected, Fault, Finish, Go
  <2>3. CASE RbWrite
    BY <2>3, OutputsAssumption, SMT DEF RbWrite, SendOutput, RbFrame, Go
  <2>4. CASE RbFails
    BY <2>4, OutputsAssumption, SMT DEF RbFails, SendFails, Live, RbFrame, Go
  <2>5. CASE RbRead
    BY <2>5, OutputsAssumption, SMT DEF RbRead, Live, Reads, NextChannel,
       NextRound, RoundsLeft, EndRollback, RbFrame, StartRollback, Finish, Go
  <2>6. CASE RbRecover
    BY <2>6, OutputsAssumption, SMT DEF RbRecover, NextRound, RoundsLeft,
       EndRollback, StartRollback, Reopen, Reconnected, ReconnectFails,
       PeerRejected, Fault, Finish, Go
  <2>7. CASE RbFinal
    BY <2>7, OutputsAssumption, SMT DEF RbFinal, Live, Reads, StillMuted,
       RbFrame
  <2>8. CASE RbVerdict
    BY <2>8, OutputsAssumption, SMT DEF RbVerdict, NextRound, RoundsLeft,
       EndRollback, StartRollback, RbFrame, Finish, Go
  <2>9. CASE RbRecoverFinal
    BY <2>9, OutputsAssumption, SMT DEF RbRecoverFinal, NextRound, RoundsLeft,
       EndRollback, StartRollback, Reopen, Reconnected, ReconnectFails,
       PeerRejected, Fault, Finish, Go
  <2> QED
    BY <1>7, <2>1, <2>2, <2>3, <2>4, <2>5, <2>6, <2>7, <2>8, <2>9 DEF
       RollingBack
<1>8. CASE Return
  BY <1>8, OutputsAssumption, SMT DEF Return, Go
<1>9. CASE Connect
  BY <1>9, OutputsAssumption, SMT DEF Connect
<1>10. CASE Tick
  BY <1>10, OutputsAssumption, SMT DEF Tick
<1>11. CASE Elsewhere
  BY <1>11, OutputsAssumption, SMT DEF Elsewhere, Surroundings, PresetLoads,
     OtherWriter, ConsoleDrops, AddressMoves, Fault, Live
<1>12. CASE UNCHANGED vars
  BY <1>12, SMT DEF vars
<1> QED
  BY <1>1, <1>2, <1>3, <1>4, <1>5, <1>6, <1>7, <1>8, <1>9, <1>10, <1>11, <1>12
     DEF Next, Controller

\* Success is reported only from a confirmed pass.
LEMMA SuccessStep ==
  ASSUME TypeOK, TypeOK', Course, Course', Trusted, PassEvidence, OffEvidence, SuccessIsTrue, [Next]_vars
  PROVE  SuccessIsTrue'
<1> USE DEF SuccessIsTrue, Mutes, SeenAre, AllAre, PassEvidence, Trusted,
   OffEvidence, Achieved, Activating, Single, Course, BeforeOff, AfterOff,
   TypeOK, DataOK, LinkDataOK, Ops
<1>1. CASE Begin
  BY <1>1, OutputsAssumption, SMT DEF Begin
<1>2. CASE Preflight
  BY <1>2, OutputsAssumption, SMT DEF Preflight, Resolve, Answered, Limit,
     Live, Reads, ReadFrame, NoNews, Raise, Handler, Finish, StartRollback, Go,
     ReadCurrent, StartPass, StartWrites
<1>3. CASE Writing
  <2>1. CASE WriteExpires
    BY <2>1, OutputsAssumption, SMT DEF WriteExpires, FirstWrite, Finish,
       ReadFrame, NoNews
  <2>2. CASE WriteOutput
    BY <2>2, OutputsAssumption, SMT DEF WriteOutput, MayWrite, FirstWrite,
       SendOutput, Go, NoNews
  <2>3. CASE WriteFails
    BY <2>3, OutputsAssumption, SMT DEF WriteFails, MayWrite, FirstWrite,
       SendFails, HangUp, Live, ReadFrame, NoNews, Raise, Handler, Finish,
       StartRollback, Go
  <2>4. CASE Readback
    BY <2>4, OutputsAssumption, SMT DEF Readback, Answered, Limit, Live, Reads,
       ReadFrame, NoNews, Reject, StartPass, Raise, Handler, Finish,
       StartRollback, Go
  <2> QED
    BY <1>3, <2>1, <2>2, <2>3, <2>4 DEF Writing
<1>4. CASE Reading
  <2>1. CASE ReadOutput
    BY <2>1, OutputsAssumption, SMT DEF ReadOutput, Answered, Limit, Live,
       Reads, ReadFrame, NoNews, StillGood
  <2>2. CASE PassVerdict
    BY <2>2, OutputsAssumption, SMT DEF PassVerdict, ReadFrame, NoNews, Raise,
       Handler, Finish, StartRollback, Go
  <2>3. CASE ReadFails
    BY <2>3, OutputsAssumption, SMT DEF ReadFails, CallFails, HangUp, Answered,
       Limit, Live, ReadFrame, NoNews, Raise, Handler, Finish, StartRollback,
       Go
  <2> QED
    BY <1>4, <2>1, <2>2, <2>3 DEF Reading
<1>5. CASE Recalling
  BY <1>5, OutputsAssumption, SMT DEF Recalling, Recheck, Answered, Limit,
     Live, Reads, ReadFrame, NoNews, StartPass, Go, Recall, SendRecall,
     RecallFails, SendFails, Raise, Handler, Finish, StartRollback, Poll,
     PollFails, PollReopens, Reopen, Reconnected, ReconnectFails, PeerRejected,
     Fault, ReopenTooLate
<1>6. CASE Verifying
  <2>1. CASE FinalDirect
    BY <2>1, OutputsAssumption, SMT DEF FinalDirect, Answered, Limit, Live,
       Reads, ReadFrame, NoNews, Raise, Handler, Finish, StartRollback, Go
  <2>2. CASE FinalCatalog
    BY <2>2, OutputsAssumption, SMT DEF FinalCatalog, Answered, Limit, Live,
       Reads, ReadFrame, NoNews, Reject, StartPass, Raise, Handler, Finish,
       StartRollback, Go
  <2>3. CASE VerifyDirect
    BY <2>3, OutputsAssumption, SMT DEF VerifyDirect, Answered, Limit, Live,
       Reads, ReadFrame, NoNews, Go
  <2>4. CASE VerifyBefore
    BY <2>4, OutputsAssumption, SMT DEF VerifyBefore, Answered, Limit, Live,
       Reads, ReadFrame, NoNews, Agrees, StartWrites, Raise, Handler, Finish,
       StartRollback, Go
  <2>5. CASE VerifyAfter
    BY <2>5, OutputsAssumption, SMT DEF VerifyAfter, Answered, Limit, Live,
       Reads, ReadFrame, NoNews, Agrees, Raise, Handler, Finish, StartRollback,
       Go
  <2>6. CASE VerifyEnd
    BY <2>6, OutputsAssumption, SMT DEF VerifyEnd, Answered, Limit, Live,
       Reads, ReadFrame, NoNews, Agrees, EndsOnTarget, Raise, Handler, Finish,
       StartRollback, Go
  <2> QED
    BY <1>6, <2>1, <2>2, <2>3, <2>4, <2>5, <2>6 DEF Verifying
<1>7. CASE RollingBack
  BY <1>7, OutputsAssumption, SMT DEF RollingBack, RbTooLate, HangUp, Live,
     RbFrame, Finish, RbReconnect, Reopen, Reconnected, ReconnectFails,
     PeerRejected, Fault, Go, RbWrite, SendOutput, RbFails, SendFails, RbRead,
     Reads, NextChannel, NextRound, RoundsLeft, EndRollback, StartRollback,
     RbRecover, RbFinal, StillMuted, RbVerdict, RbRecoverFinal
<1>8. CASE Return
  BY <1>8, OutputsAssumption, SMT DEF Return, Go
<1>9. CASE Connect
  BY <1>9, OutputsAssumption, SMT DEF Connect
<1>10. CASE Tick
  BY <1>10, OutputsAssumption, SMT DEF Tick
<1>11. CASE Elsewhere
  BY <1>11, OutputsAssumption, SMT DEF Elsewhere, Surroundings, PresetLoads,
     OtherWriter, ConsoleDrops, AddressMoves, Fault, Live
<1>12. CASE UNCHANGED vars
  BY <1>12, SMT DEF vars
<1> QED
  BY <1>1, <1>2, <1>3, <1>4, <1>5, <1>6, <1>7, <1>8, <1>9, <1>10, <1>11, <1>12
     DEF Next, Controller

\* The direct read of a check stays the slot until the slot moves.
LEMMA SlotStep ==
  ASSUME TypeOK, TypeOK', Course, Course', Trusted, SlotEvidence, [Next]_vars
  PROVE  SlotEvidence'
<1> USE DEF SlotEvidence, Trusted, Activating, Single, Course, BeforeOff,
   AfterOff, TypeOK, DataOK, LinkDataOK, Ops
<1>1. CASE Begin
  BY <1>1, OutputsAssumption, SMT DEF Begin
<1>2. CASE Preflight
  BY <1>2, OutputsAssumption, SMT DEF Preflight, Resolve, Answered, Limit,
     Live, Reads, ReadFrame, NoNews, Raise, Handler, Finish, StartRollback, Go,
     ReadCurrent, StartPass, StartWrites
<1>3. CASE Writing
  BY <1>3, OutputsAssumption, SMT DEF Writing, WriteExpires, FirstWrite,
     Finish, ReadFrame, NoNews, WriteOutput, MayWrite, SendOutput, Go,
     WriteFails, SendFails, HangUp, Live, Raise, Handler, StartRollback,
     Readback, Answered, Limit, Reads, Reject, StartPass
<1>4. CASE Reading
  BY <1>4, OutputsAssumption, SMT DEF Reading, ReadOutput, Answered, Limit,
     Live, Reads, ReadFrame, NoNews, StillGood, PassVerdict, Raise, Handler,
     Finish, StartRollback, Go, ReadFails, CallFails, HangUp
<1>5. CASE Recalling
  BY <1>5, OutputsAssumption, SMT DEF Recalling, Recheck, Answered, Limit,
     Live, Reads, ReadFrame, NoNews, StartPass, Go, Recall, SendRecall,
     RecallFails, SendFails, Raise, Handler, Finish, StartRollback, Poll,
     PollFails, PollReopens, Reopen, Reconnected, ReconnectFails, PeerRejected,
     Fault, ReopenTooLate
<1>6. CASE Verifying
  <2>1. CASE FinalDirect
    BY <2>1, OutputsAssumption, SMT DEF FinalDirect, Answered, Limit, Live,
       Reads, ReadFrame, NoNews, Raise, Handler, Finish, StartRollback, Go
  <2>2. CASE FinalCatalog
    BY <2>2, OutputsAssumption, SMT DEF FinalCatalog, Answered, Limit, Live,
       Reads, ReadFrame, NoNews, Reject, StartPass, Raise, Handler, Finish,
       StartRollback, Go
  <2>3. CASE VerifyDirect
    BY <2>3, OutputsAssumption, SMT DEF VerifyDirect, Answered, Limit, Live,
       Reads, ReadFrame, NoNews, Go
  <2>4. CASE VerifyBefore
    BY <2>4, OutputsAssumption, SMT DEF VerifyBefore, Answered, Limit, Live,
       Reads, ReadFrame, NoNews, Agrees, StartWrites, Raise, Handler, Finish,
       StartRollback, Go
  <2>5. CASE VerifyAfter
    BY <2>5, OutputsAssumption, SMT DEF VerifyAfter, Answered, Limit, Live,
       Reads, ReadFrame, NoNews, Agrees, Raise, Handler, Finish, StartRollback,
       Go
  <2>6. CASE VerifyEnd
    BY <2>6, OutputsAssumption, SMT DEF VerifyEnd, Answered, Limit, Live,
       Reads, ReadFrame, NoNews, Agrees, EndsOnTarget, Raise, Handler, Finish,
       StartRollback, Go
  <2> QED
    BY <1>6, <2>1, <2>2, <2>3, <2>4, <2>5, <2>6 DEF Verifying
<1>7. CASE RollingBack
  BY <1>7, OutputsAssumption, SMT DEF RollingBack, RbTooLate, HangUp, Live,
     RbFrame, Finish, RbReconnect, Reopen, Reconnected, ReconnectFails,
     PeerRejected, Fault, Go, RbWrite, SendOutput, RbFails, SendFails, RbRead,
     Reads, NextChannel, NextRound, RoundsLeft, EndRollback, StartRollback,
     RbRecover, RbFinal, StillMuted, RbVerdict, RbRecoverFinal
<1>8. CASE Return
  BY <1>8, OutputsAssumption, SMT DEF Return, Go
<1>9. CASE Connect
  BY <1>9, OutputsAssumption, SMT DEF Connect
<1>10. CASE Tick
  BY <1>10, OutputsAssumption, SMT DEF Tick
<1>11. CASE Elsewhere
  BY <1>11, OutputsAssumption, SMT DEF Elsewhere, Surroundings, PresetLoads,
     OtherWriter, ConsoleDrops, AddressMoves, Fault, Live
<1>12. CASE UNCHANGED vars
  BY <1>12, SMT DEF vars
<1> QED
  BY <1>1, <1>2, <1>3, <1>4, <1>5, <1>6, <1>7, <1>8, <1>9, <1>10, <1>11, <1>12
     DEF Next, Controller

\* Off is written only under the slot a check agreed on.
LEMMA OffSlotStep ==
  ASSUME TypeOK, TypeOK', Course, Course', Trusted, SlotEvidence, OffUnderVerifiedSlot, [Next]_vars
  PROVE  OffUnderVerifiedSlot'
<1> USE DEF OffUnderVerifiedSlot, Trusted, SlotEvidence, Activating, Single,
   Course, BeforeOff, AfterOff, TypeOK, DataOK, LinkDataOK, Ops
<1>1. CASE Begin
  <2>1. pc' \in GuardedPcs => want' = "On"
    BY <1>1, KindsAssumption, SMT DEF Begin, AllKinds
  <2> QED
    BY <2>1, SMT
<1>2. CASE Preflight
  <2>1. CASE Resolve
    <3>1. pc' \notin GuardedPcs
      BY <2>1, SMT DEF Resolve, Raise, Handler, Finish, StartRollback, Go
    <3> QED
      BY <3>1, SMT
  <2>2. CASE ReadCurrent
    BY <2>2, OutputsAssumption, SMT DEF ReadCurrent, Answered, Limit, Live,
       Reads, ReadFrame, NoNews, StartPass, StartWrites
  <2> QED
    BY <1>2, <2>1, <2>2 DEF Preflight
<1>3. CASE Writing
  BY <1>3, OutputsAssumption, SMT DEF Writing, WriteExpires, FirstWrite,
     Finish, ReadFrame, NoNews, WriteOutput, MayWrite, SendOutput, Go,
     WriteFails, SendFails, HangUp, Live, Raise, Handler, StartRollback,
     Readback, Answered, Limit, Reads, Reject, StartPass
<1>4. CASE Reading
  BY <1>4, OutputsAssumption, SMT DEF Reading, ReadOutput, Answered, Limit,
     Live, Reads, ReadFrame, NoNews, StillGood, PassVerdict, Raise, Handler,
     Finish, StartRollback, Go, ReadFails, CallFails, HangUp
<1>5. CASE Recalling
  BY <1>5, OutputsAssumption, SMT DEF Recalling, Recheck, Answered, Limit,
     Live, Reads, ReadFrame, NoNews, StartPass, Go, Recall, SendRecall,
     RecallFails, SendFails, Raise, Handler, Finish, StartRollback, Poll,
     PollFails, PollReopens, Reopen, Reconnected, ReconnectFails, PeerRejected,
     Fault, ReopenTooLate
<1>6. CASE Verifying
  <2>1. CASE FinalDirect
    BY <2>1, OutputsAssumption, SMT DEF FinalDirect, Answered, Limit, Live,
       Reads, ReadFrame, NoNews, Raise, Handler, Finish, StartRollback, Go
  <2>2. CASE FinalCatalog
    BY <2>2, OutputsAssumption, SMT DEF FinalCatalog, Answered, Limit, Live,
       Reads, ReadFrame, NoNews, Reject, StartPass, Raise, Handler, Finish,
       StartRollback, Go
  <2>3. CASE VerifyDirect
    BY <2>3, OutputsAssumption, SMT DEF VerifyDirect, Answered, Limit, Live,
       Reads, ReadFrame, NoNews, Go
  <2>4. CASE VerifyBefore
    BY <2>4, OutputsAssumption, SMT DEF VerifyBefore, Answered, Limit, Live,
       Reads, ReadFrame, NoNews, Agrees, StartWrites, Raise, Handler, Finish,
       StartRollback, Go
  <2>5. CASE VerifyAfter
    BY <2>5, OutputsAssumption, SMT DEF VerifyAfter, Answered, Limit, Live,
       Reads, ReadFrame, NoNews, Agrees, Raise, Handler, Finish, StartRollback,
       Go
  <2>6. CASE VerifyEnd
    BY <2>6, OutputsAssumption, SMT DEF VerifyEnd, Answered, Limit, Live,
       Reads, ReadFrame, NoNews, Agrees, EndsOnTarget, Raise, Handler, Finish,
       StartRollback, Go
  <2> QED
    BY <1>6, <2>1, <2>2, <2>3, <2>4, <2>5, <2>6 DEF Verifying
<1>7. CASE RollingBack
  BY <1>7, OutputsAssumption, SMT DEF RollingBack, RbTooLate, HangUp, Live,
     RbFrame, Finish, RbReconnect, Reopen, Reconnected, ReconnectFails,
     PeerRejected, Fault, Go, RbWrite, SendOutput, RbFails, SendFails, RbRead,
     Reads, NextChannel, NextRound, RoundsLeft, EndRollback, StartRollback,
     RbRecover, RbFinal, StillMuted, RbVerdict, RbRecoverFinal
<1>8. CASE Return
  BY <1>8, OutputsAssumption, SMT DEF Return, Go
<1>9. CASE Connect
  BY <1>9, OutputsAssumption, SMT DEF Connect
<1>10. CASE Tick
  BY <1>10, OutputsAssumption, SMT DEF Tick
<1>11. CASE Elsewhere
  BY <1>11, OutputsAssumption, SMT DEF Elsewhere, Surroundings, PresetLoads,
     OtherWriter, ConsoleDrops, AddressMoves, Fault, Live
<1>12. CASE UNCHANGED vars
  BY <1>12, SMT DEF vars
<1> QED
  BY <1>1, <1>2, <1>3, <1>4, <1>5, <1>6, <1>7, <1>8, <1>9, <1>10, <1>11, <1>12
     DEF Next, Controller

\* An unmute succeeds only under the slot a check agreed on.
LEMMA SuccessSlotStep ==
  ASSUME TypeOK, TypeOK', Course, Course', Trusted, SlotEvidence, SuccessUnderCheckedSlot, [Next]_vars
  PROVE  SuccessUnderCheckedSlot'
<1> USE DEF SuccessUnderCheckedSlot, Trusted, SlotEvidence, Activating, Single,
   Course, BeforeOff, AfterOff, TypeOK, DataOK, LinkDataOK, Ops
<1>1. CASE Begin
  BY <1>1, OutputsAssumption, SMT DEF Begin
<1>2. CASE Preflight
  BY <1>2, OutputsAssumption, SMT DEF Preflight, Resolve, Answered, Limit,
     Live, Reads, ReadFrame, NoNews, Raise, Handler, Finish, StartRollback, Go,
     ReadCurrent, StartPass, StartWrites
<1>3. CASE Writing
  BY <1>3, OutputsAssumption, SMT DEF Writing, WriteExpires, FirstWrite,
     Finish, ReadFrame, NoNews, WriteOutput, MayWrite, SendOutput, Go,
     WriteFails, SendFails, HangUp, Live, Raise, Handler, StartRollback,
     Readback, Answered, Limit, Reads, Reject, StartPass
<1>4. CASE Reading
  BY <1>4, OutputsAssumption, SMT DEF Reading, ReadOutput, Answered, Limit,
     Live, Reads, ReadFrame, NoNews, StillGood, PassVerdict, Raise, Handler,
     Finish, StartRollback, Go, ReadFails, CallFails, HangUp
<1>5. CASE Recalling
  BY <1>5, OutputsAssumption, SMT DEF Recalling, Recheck, Answered, Limit,
     Live, Reads, ReadFrame, NoNews, StartPass, Go, Recall, SendRecall,
     RecallFails, SendFails, Raise, Handler, Finish, StartRollback, Poll,
     PollFails, PollReopens, Reopen, Reconnected, ReconnectFails, PeerRejected,
     Fault, ReopenTooLate
<1>6. CASE Verifying
  <2>1. CASE FinalDirect
    BY <2>1, OutputsAssumption, SMT DEF FinalDirect, Answered, Limit, Live,
       Reads, ReadFrame, NoNews, Raise, Handler, Finish, StartRollback, Go
  <2>2. CASE FinalCatalog
    BY <2>2, OutputsAssumption, SMT DEF FinalCatalog, Answered, Limit, Live,
       Reads, ReadFrame, NoNews, Reject, StartPass, Raise, Handler, Finish,
       StartRollback, Go
  <2>3. CASE VerifyDirect
    BY <2>3, OutputsAssumption, SMT DEF VerifyDirect, Answered, Limit, Live,
       Reads, ReadFrame, NoNews, Go
  <2>4. CASE VerifyBefore
    BY <2>4, OutputsAssumption, SMT DEF VerifyBefore, Answered, Limit, Live,
       Reads, ReadFrame, NoNews, Agrees, StartWrites, Raise, Handler, Finish,
       StartRollback, Go
  <2>5. CASE VerifyAfter
    BY <2>5, OutputsAssumption, SMT DEF VerifyAfter, Answered, Limit, Live,
       Reads, ReadFrame, NoNews, Agrees, Raise, Handler, Finish, StartRollback,
       Go
  <2>6. CASE VerifyEnd
    BY <2>6, OutputsAssumption, SMT DEF VerifyEnd, Answered, Limit, Live,
       Reads, ReadFrame, NoNews, Agrees, EndsOnTarget, Raise, Handler, Finish,
       StartRollback, Go
  <2> QED
    BY <1>6, <2>1, <2>2, <2>3, <2>4, <2>5, <2>6 DEF Verifying
<1>7. CASE RollingBack
  BY <1>7, OutputsAssumption, SMT DEF RollingBack, RbTooLate, HangUp, Live,
     RbFrame, Finish, RbReconnect, Reopen, Reconnected, ReconnectFails,
     PeerRejected, Fault, Go, RbWrite, SendOutput, RbFails, SendFails, RbRead,
     Reads, NextChannel, NextRound, RoundsLeft, EndRollback, StartRollback,
     RbRecover, RbFinal, StillMuted, RbVerdict, RbRecoverFinal
<1>8. CASE Return
  BY <1>8, OutputsAssumption, SMT DEF Return, Go
<1>9. CASE Connect
  BY <1>9, OutputsAssumption, SMT DEF Connect
<1>10. CASE Tick
  BY <1>10, OutputsAssumption, SMT DEF Tick
<1>11. CASE Elsewhere
  BY <1>11, OutputsAssumption, SMT DEF Elsewhere, Surroundings, PresetLoads,
     OtherWriter, ConsoleDrops, AddressMoves, Fault, Live
<1>12. CASE UNCHANGED vars
  BY <1>12, SMT DEF vars
<1> QED
  BY <1>1, <1>2, <1>3, <1>4, <1>5, <1>6, <1>7, <1>8, <1>9, <1>10, <1>11, <1>12
     DEF Next, Controller

\* Nothing after a pass reconnects but what starts a new pass.
LEMMA SessionStep ==
  ASSUME TypeOK, TypeOK', Course, Course', SessionEvidence, [Next]_vars
  PROVE  SessionEvidence'
<1> USE DEF SessionEvidence, Activating, Single, Course, BeforeOff, AfterOff,
   TypeOK, DataOK, LinkDataOK, Ops
<1>1. CASE Begin
  BY <1>1, OutputsAssumption, SMT DEF Begin
<1>2. CASE Preflight
  BY <1>2, OutputsAssumption, SMT DEF Preflight, Resolve, Answered, Limit,
     Live, Reads, ReadFrame, NoNews, Raise, Handler, Finish, StartRollback, Go,
     ReadCurrent, StartPass, StartWrites
<1>3. CASE Writing
  BY <1>3, OutputsAssumption, SMT DEF Writing, WriteExpires, FirstWrite,
     Finish, ReadFrame, NoNews, WriteOutput, MayWrite, SendOutput, Go,
     WriteFails, SendFails, HangUp, Live, Raise, Handler, StartRollback,
     Readback, Answered, Limit, Reads, Reject, StartPass
<1>4. CASE Reading
  BY <1>4, OutputsAssumption, SMT DEF Reading, ReadOutput, Answered, Limit,
     Live, Reads, ReadFrame, NoNews, StillGood, PassVerdict, Raise, Handler,
     Finish, StartRollback, Go, ReadFails, CallFails, HangUp
<1>5. CASE Recalling
  BY <1>5, OutputsAssumption, SMT DEF Recalling, Recheck, Answered, Limit,
     Live, Reads, ReadFrame, NoNews, StartPass, Go, Recall, SendRecall,
     RecallFails, SendFails, Raise, Handler, Finish, StartRollback, Poll,
     PollFails, PollReopens, Reopen, Reconnected, ReconnectFails, PeerRejected,
     Fault, ReopenTooLate
<1>6. CASE Verifying
  BY <1>6, OutputsAssumption, SMT DEF Verifying, FinalDirect, Answered, Limit,
     Live, Reads, ReadFrame, NoNews, Raise, Handler, Finish, StartRollback, Go,
     FinalCatalog, Reject, StartPass, VerifyDirect, VerifyBefore, Agrees,
     StartWrites, VerifyAfter, VerifyEnd, EndsOnTarget
<1>7. CASE RollingBack
  <2>1. CASE RbTooLate
    BY <2>1, OutputsAssumption, SMT DEF RbTooLate, HangUp, Live, RbFrame,
       Finish
  <2>2. CASE RbReconnect
    BY <2>2, OutputsAssumption, SMT DEF RbReconnect, Reopen, Reconnected,
       ReconnectFails, PeerRejected, Fault, Finish, Go
  <2>3. CASE RbWrite
    BY <2>3, OutputsAssumption, SMT DEF RbWrite, SendOutput, RbFrame, Go
  <2>4. CASE RbFails
    BY <2>4, OutputsAssumption, SMT DEF RbFails, SendFails, Live, RbFrame, Go
  <2>5. CASE RbRead
    BY <2>5, OutputsAssumption, SMT DEF RbRead, Live, Reads, NextChannel,
       NextRound, RoundsLeft, EndRollback, RbFrame, StartRollback, Finish, Go
  <2>6. CASE RbRecover
    BY <2>6, OutputsAssumption, SMT DEF RbRecover, NextRound, RoundsLeft,
       EndRollback, StartRollback, Reopen, Reconnected, ReconnectFails,
       PeerRejected, Fault, Finish, Go
  <2>7. CASE RbFinal
    BY <2>7, OutputsAssumption, SMT DEF RbFinal, Live, Reads, StillMuted,
       RbFrame
  <2>8. CASE RbVerdict
    BY <2>8, OutputsAssumption, SMT DEF RbVerdict, NextRound, RoundsLeft,
       EndRollback, StartRollback, RbFrame, Finish, Go
  <2>9. CASE RbRecoverFinal
    BY <2>9, OutputsAssumption, SMT DEF RbRecoverFinal, NextRound, RoundsLeft,
       EndRollback, StartRollback, Reopen, Reconnected, ReconnectFails,
       PeerRejected, Fault, Finish, Go
  <2> QED
    BY <1>7, <2>1, <2>2, <2>3, <2>4, <2>5, <2>6, <2>7, <2>8, <2>9 DEF
       RollingBack
<1>8. CASE Return
  BY <1>8, OutputsAssumption, SMT DEF Return, Go
<1>9. CASE Connect
  BY <1>9, OutputsAssumption, SMT DEF Connect
<1>10. CASE Tick
  BY <1>10, OutputsAssumption, SMT DEF Tick
<1>11. CASE Elsewhere
  BY <1>11, OutputsAssumption, SMT DEF Elsewhere, Surroundings, PresetLoads,
     OtherWriter, ConsoleDrops, AddressMoves, Fault, Live
<1>12. CASE UNCHANGED vars
  BY <1>12, SMT DEF vars
<1> QED
  BY <1>1, <1>2, <1>3, <1>4, <1>5, <1>6, <1>7, <1>8, <1>9, <1>10, <1>11, <1>12
     DEF Next, Controller

\* A verified outcome rests on the last pass alone.
LEMMA OneSessionStep ==
  ASSUME TypeOK, TypeOK', Course, Course', SessionEvidence, EvidenceOfOneSession, [Next]_vars
  PROVE  EvidenceOfOneSession'
<1> USE DEF EvidenceOfOneSession, SessionEvidence, Activating, Single, Course,
   BeforeOff, AfterOff, TypeOK, DataOK, LinkDataOK, Ops
<1>1. CASE Begin
  BY <1>1, OutputsAssumption, SMT DEF Begin
<1>2. CASE Preflight
  BY <1>2, OutputsAssumption, SMT DEF Preflight, Resolve, Answered, Limit,
     Live, Reads, ReadFrame, NoNews, Raise, Handler, Finish, StartRollback, Go,
     ReadCurrent, StartPass, StartWrites
<1>3. CASE Writing
  BY <1>3, OutputsAssumption, SMT DEF Writing, WriteExpires, FirstWrite,
     Finish, ReadFrame, NoNews, WriteOutput, MayWrite, SendOutput, Go,
     WriteFails, SendFails, HangUp, Live, Raise, Handler, StartRollback,
     Readback, Answered, Limit, Reads, Reject, StartPass
<1>4. CASE Reading
  BY <1>4, OutputsAssumption, SMT DEF Reading, ReadOutput, Answered, Limit,
     Live, Reads, ReadFrame, NoNews, StillGood, PassVerdict, Raise, Handler,
     Finish, StartRollback, Go, ReadFails, CallFails, HangUp
<1>5. CASE Recalling
  BY <1>5, OutputsAssumption, SMT DEF Recalling, Recheck, Answered, Limit,
     Live, Reads, ReadFrame, NoNews, StartPass, Go, Recall, SendRecall,
     RecallFails, SendFails, Raise, Handler, Finish, StartRollback, Poll,
     PollFails, PollReopens, Reopen, Reconnected, ReconnectFails, PeerRejected,
     Fault, ReopenTooLate
<1>6. CASE Verifying
  BY <1>6, OutputsAssumption, SMT DEF Verifying, FinalDirect, Answered, Limit,
     Live, Reads, ReadFrame, NoNews, Raise, Handler, Finish, StartRollback, Go,
     FinalCatalog, Reject, StartPass, VerifyDirect, VerifyBefore, Agrees,
     StartWrites, VerifyAfter, VerifyEnd, EndsOnTarget
<1>7. CASE RollingBack
  <2>1. CASE RbTooLate
    BY <2>1, OutputsAssumption, SMT DEF RbTooLate, HangUp, Live, RbFrame,
       Finish
  <2>2. CASE RbReconnect
    BY <2>2, OutputsAssumption, SMT DEF RbReconnect, Reopen, Reconnected,
       ReconnectFails, PeerRejected, Fault, Finish, Go
  <2>3. CASE RbWrite
    BY <2>3, OutputsAssumption, SMT DEF RbWrite, SendOutput, RbFrame, Go
  <2>4. CASE RbFails
    BY <2>4, OutputsAssumption, SMT DEF RbFails, SendFails, Live, RbFrame, Go
  <2>5. CASE RbRead
    BY <2>5, OutputsAssumption, SMT DEF RbRead, Live, Reads, NextChannel,
       NextRound, RoundsLeft, EndRollback, RbFrame, StartRollback, Finish, Go
  <2>6. CASE RbRecover
    BY <2>6, OutputsAssumption, SMT DEF RbRecover, NextRound, RoundsLeft,
       EndRollback, StartRollback, Reopen, Reconnected, ReconnectFails,
       PeerRejected, Fault, Finish, Go
  <2>7. CASE RbFinal
    BY <2>7, OutputsAssumption, SMT DEF RbFinal, Live, Reads, StillMuted,
       RbFrame
  <2>8. CASE RbVerdict
    BY <2>8, OutputsAssumption, SMT DEF RbVerdict, NextRound, RoundsLeft,
       EndRollback, StartRollback, RbFrame, Finish, Go
  <2>9. CASE RbRecoverFinal
    BY <2>9, OutputsAssumption, SMT DEF RbRecoverFinal, NextRound, RoundsLeft,
       EndRollback, StartRollback, Reopen, Reconnected, ReconnectFails,
       PeerRejected, Fault, Finish, Go
  <2> QED
    BY <1>7, <2>1, <2>2, <2>3, <2>4, <2>5, <2>6, <2>7, <2>8, <2>9 DEF
       RollingBack
<1>8. CASE Return
  BY <1>8, OutputsAssumption, SMT DEF Return, Go
<1>9. CASE Connect
  BY <1>9, OutputsAssumption, SMT DEF Connect
<1>10. CASE Tick
  BY <1>10, OutputsAssumption, SMT DEF Tick
<1>11. CASE Elsewhere
  BY <1>11, OutputsAssumption, SMT DEF Elsewhere, Surroundings, PresetLoads,
     OtherWriter, ConsoleDrops, AddressMoves, Fault, Live
<1>12. CASE UNCHANGED vars
  BY <1>12, SMT DEF vars
<1> QED
  BY <1>1, <1>2, <1>3, <1>4, <1>5, <1>6, <1>7, <1>8, <1>9, <1>10, <1>11, <1>12
     DEF Next, Controller

\* The first write is the first.
LEMMA UnwrittenStep ==
  ASSUME TypeOK, TypeOK', Course, Course', Unwritten, [Next]_vars
  PROVE  Unwritten'
<1> USE DEF Unwritten, FirstWrite, Activating, Single, Course, BeforeOff,
   AfterOff, TypeOK, DataOK, LinkDataOK, Ops
<1>1. CASE Begin
  BY <1>1, OutputsAssumption, SMT DEF Begin
<1>2. CASE Preflight
  BY <1>2, OutputsAssumption, SMT DEF Preflight, Resolve, Answered, Limit,
     Live, Reads, ReadFrame, NoNews, Raise, Handler, Finish, StartRollback, Go,
     ReadCurrent, StartPass, StartWrites
<1>3. CASE Writing
  <2>1. CASE WriteExpires
    BY <2>1, OutputsAssumption, SMT DEF WriteExpires, FirstWrite, Finish,
       ReadFrame, NoNews
  <2>2. CASE WriteOutput
    BY <2>2, OutputsAssumption, SMT DEF WriteOutput, MayWrite, FirstWrite,
       SendOutput, Go, NoNews
  <2>3. CASE WriteFails
    BY <2>3, OutputsAssumption, SMT DEF WriteFails, MayWrite, FirstWrite,
       SendFails, HangUp, Live, ReadFrame, NoNews, Raise, Handler, Finish,
       StartRollback, Go
  <2>4. CASE Readback
    BY <2>4, OutputsAssumption, SMT DEF Readback, Answered, Limit, Live, Reads,
       ReadFrame, NoNews, Reject, StartPass, Raise, Handler, Finish,
       StartRollback, Go
  <2> QED
    BY <1>3, <2>1, <2>2, <2>3, <2>4 DEF Writing
<1>4. CASE Reading
  BY <1>4, OutputsAssumption, SMT DEF Reading, ReadOutput, Answered, Limit,
     Live, Reads, ReadFrame, NoNews, StillGood, PassVerdict, Raise, Handler,
     Finish, StartRollback, Go, ReadFails, CallFails, HangUp
<1>5. CASE Recalling
  BY <1>5, OutputsAssumption, SMT DEF Recalling, Recheck, Answered, Limit,
     Live, Reads, ReadFrame, NoNews, StartPass, Go, Recall, SendRecall,
     RecallFails, SendFails, Raise, Handler, Finish, StartRollback, Poll,
     PollFails, PollReopens, Reopen, Reconnected, ReconnectFails, PeerRejected,
     Fault, ReopenTooLate
<1>6. CASE Verifying
  BY <1>6, OutputsAssumption, SMT DEF Verifying, FinalDirect, Answered, Limit,
     Live, Reads, ReadFrame, NoNews, Raise, Handler, Finish, StartRollback, Go,
     FinalCatalog, Reject, StartPass, VerifyDirect, VerifyBefore, Agrees,
     StartWrites, VerifyAfter, VerifyEnd, EndsOnTarget
<1>7. CASE RollingBack
  BY <1>7, OutputsAssumption, SMT DEF RollingBack, RbTooLate, HangUp, Live,
     RbFrame, Finish, RbReconnect, Reopen, Reconnected, ReconnectFails,
     PeerRejected, Fault, Go, RbWrite, SendOutput, RbFails, SendFails, RbRead,
     Reads, NextChannel, NextRound, RoundsLeft, EndRollback, StartRollback,
     RbRecover, RbFinal, StillMuted, RbVerdict, RbRecoverFinal
<1>8. CASE Return
  BY <1>8, OutputsAssumption, SMT DEF Return, Go
<1>9. CASE Connect
  BY <1>9, OutputsAssumption, SMT DEF Connect
<1>10. CASE Tick
  BY <1>10, OutputsAssumption, SMT DEF Tick
<1>11. CASE Elsewhere
  BY <1>11, OutputsAssumption, SMT DEF Elsewhere, Surroundings, PresetLoads,
     OtherWriter, ConsoleDrops, AddressMoves, Fault, Live
<1>12. CASE UNCHANGED vars
  BY <1>12, SMT DEF vars
<1> QED
  BY <1>1, <1>2, <1>3, <1>4, <1>5, <1>6, <1>7, <1>8, <1>9, <1>10, <1>11, <1>12
     DEF Next, Controller

\* Refusals and expiries come before the first write.
LEMMA NothingStep ==
  ASSUME TypeOK, TypeOK', Course, Course', Unwritten, NothingWritten, [Next]_vars
  PROVE  NothingWritten'
<1> USE DEF NothingWritten, Unwritten, FirstWrite, Activating, Single, Course,
   BeforeOff, AfterOff, TypeOK, DataOK, LinkDataOK, Ops
<1>1. CASE Begin
  BY <1>1, OutputsAssumption, SMT DEF Begin
<1>2. CASE Preflight
  BY <1>2, OutputsAssumption, SMT DEF Preflight, Resolve, Answered, Limit,
     Live, Reads, ReadFrame, NoNews, Raise, Handler, Finish, StartRollback, Go,
     ReadCurrent, StartPass, StartWrites
<1>3. CASE Writing
  <2>1. CASE WriteExpires
    BY <2>1, OutputsAssumption, SMT DEF WriteExpires, FirstWrite, Finish,
       ReadFrame, NoNews
  <2>2. CASE WriteOutput
    BY <2>2, OutputsAssumption, SMT DEF WriteOutput, MayWrite, FirstWrite,
       SendOutput, Go, NoNews
  <2>3. CASE WriteFails
    BY <2>3, OutputsAssumption, SMT DEF WriteFails, MayWrite, FirstWrite,
       SendFails, HangUp, Live, ReadFrame, NoNews, Raise, Handler, Finish,
       StartRollback, Go
  <2>4. CASE Readback
    BY <2>4, OutputsAssumption, SMT DEF Readback, Answered, Limit, Live, Reads,
       ReadFrame, NoNews, Reject, StartPass, Raise, Handler, Finish,
       StartRollback, Go
  <2> QED
    BY <1>3, <2>1, <2>2, <2>3, <2>4 DEF Writing
<1>4. CASE Reading
  BY <1>4, OutputsAssumption, SMT DEF Reading, ReadOutput, Answered, Limit,
     Live, Reads, ReadFrame, NoNews, StillGood, PassVerdict, Raise, Handler,
     Finish, StartRollback, Go, ReadFails, CallFails, HangUp
<1>5. CASE Recalling
  BY <1>5, OutputsAssumption, SMT DEF Recalling, Recheck, Answered, Limit,
     Live, Reads, ReadFrame, NoNews, StartPass, Go, Recall, SendRecall,
     RecallFails, SendFails, Raise, Handler, Finish, StartRollback, Poll,
     PollFails, PollReopens, Reopen, Reconnected, ReconnectFails, PeerRejected,
     Fault, ReopenTooLate
<1>6. CASE Verifying
  BY <1>6, OutputsAssumption, SMT DEF Verifying, FinalDirect, Answered, Limit,
     Live, Reads, ReadFrame, NoNews, Raise, Handler, Finish, StartRollback, Go,
     FinalCatalog, Reject, StartPass, VerifyDirect, VerifyBefore, Agrees,
     StartWrites, VerifyAfter, VerifyEnd, EndsOnTarget
<1>7. CASE RollingBack
  BY <1>7, OutputsAssumption, SMT DEF RollingBack, RbTooLate, HangUp, Live,
     RbFrame, Finish, RbReconnect, Reopen, Reconnected, ReconnectFails,
     PeerRejected, Fault, Go, RbWrite, SendOutput, RbFails, SendFails, RbRead,
     Reads, NextChannel, NextRound, RoundsLeft, EndRollback, StartRollback,
     RbRecover, RbFinal, StillMuted, RbVerdict, RbRecoverFinal
<1>8. CASE Return
  BY <1>8, OutputsAssumption, SMT DEF Return, Go
<1>9. CASE Connect
  BY <1>9, OutputsAssumption, SMT DEF Connect
<1>10. CASE Tick
  BY <1>10, OutputsAssumption, SMT DEF Tick
<1>11. CASE Elsewhere
  BY <1>11, OutputsAssumption, SMT DEF Elsewhere, Surroundings, PresetLoads,
     OtherWriter, ConsoleDrops, AddressMoves, Fault, Live
<1>12. CASE UNCHANGED vars
  BY <1>12, SMT DEF vars
<1> QED
  BY <1>1, <1>2, <1>3, <1>4, <1>5, <1>6, <1>7, <1>8, <1>9, <1>10, <1>11, <1>12
     DEF Next, Controller

\* Nothing is written through a session another unit answers.
LEMMA StraysStep ==
  ASSUME TypeOK, TypeOK', Course, Course', Trusted, NeverStrays, [Next]_vars
  PROVE  NeverStrays'
<1> USE DEF NeverStrays, Trusted, Activating, Single, Course, BeforeOff,
   AfterOff, TypeOK, DataOK, LinkDataOK, Ops
<1>1. CASE Begin
  BY <1>1, OutputsAssumption, SMT DEF Begin
<1>2. CASE Preflight
  BY <1>2, OutputsAssumption, SMT DEF Preflight, Resolve, Answered, Limit,
     Live, Reads, ReadFrame, NoNews, Raise, Handler, Finish, StartRollback, Go,
     ReadCurrent, StartPass, StartWrites
<1>3. CASE Writing
  BY <1>3, OutputsAssumption, SMT DEF Writing, WriteExpires, FirstWrite,
     Finish, ReadFrame, NoNews, WriteOutput, MayWrite, SendOutput, Go,
     WriteFails, SendFails, HangUp, Live, Raise, Handler, StartRollback,
     Readback, Answered, Limit, Reads, Reject, StartPass
<1>4. CASE Reading
  BY <1>4, OutputsAssumption, SMT DEF Reading, ReadOutput, Answered, Limit,
     Live, Reads, ReadFrame, NoNews, StillGood, PassVerdict, Raise, Handler,
     Finish, StartRollback, Go, ReadFails, CallFails, HangUp
<1>5. CASE Recalling
  BY <1>5, OutputsAssumption, SMT DEF Recalling, Recheck, Answered, Limit,
     Live, Reads, ReadFrame, NoNews, StartPass, Go, Recall, SendRecall,
     RecallFails, SendFails, Raise, Handler, Finish, StartRollback, Poll,
     PollFails, PollReopens, Reopen, Reconnected, ReconnectFails, PeerRejected,
     Fault, ReopenTooLate
<1>6. CASE Verifying
  BY <1>6, OutputsAssumption, SMT DEF Verifying, FinalDirect, Answered, Limit,
     Live, Reads, ReadFrame, NoNews, Raise, Handler, Finish, StartRollback, Go,
     FinalCatalog, Reject, StartPass, VerifyDirect, VerifyBefore, Agrees,
     StartWrites, VerifyAfter, VerifyEnd, EndsOnTarget
<1>7. CASE RollingBack
  BY <1>7, OutputsAssumption, SMT DEF RollingBack, RbTooLate, HangUp, Live,
     RbFrame, Finish, RbReconnect, Reopen, Reconnected, ReconnectFails,
     PeerRejected, Fault, Go, RbWrite, SendOutput, RbFails, SendFails, RbRead,
     Reads, NextChannel, NextRound, RoundsLeft, EndRollback, StartRollback,
     RbRecover, RbFinal, StillMuted, RbVerdict, RbRecoverFinal
<1>8. CASE Return
  BY <1>8, OutputsAssumption, SMT DEF Return, Go
<1>9. CASE Connect
  BY <1>9, OutputsAssumption, SMT DEF Connect
<1>10. CASE Tick
  BY <1>10, OutputsAssumption, SMT DEF Tick
<1>11. CASE Elsewhere
  BY <1>11, OutputsAssumption, SMT DEF Elsewhere, Surroundings, PresetLoads,
     OtherWriter, ConsoleDrops, AddressMoves, Fault, Live
<1>12. CASE UNCHANGED vars
  BY <1>12, SMT DEF vars
<1> QED
  BY <1>1, <1>2, <1>3, <1>4, <1>5, <1>6, <1>7, <1>8, <1>9, <1>10, <1>11, <1>12
     DEF Next, Controller

-----------------------------------------------------------------------------
(* The theorems *)

LEMMA OwnInitially == Init => OwnInv
<1> SUFFICES ASSUME Init PROVE OwnInv
  OBVIOUS
<1>1. TypeOK
  BY TypeInit
<1>2. Course
  BY OutputsAssumption, SMT
     DEF Init, LinkInit, NoOp, Course, BeforeOff, AfterOff, Single, Activating
<1>3. SessionEvidence /\ EvidenceOfOneSession /\ Unwritten /\ NothingWritten
  BY SMT DEF Init, SessionEvidence, AfterOff, EvidenceOfOneSession, Unwritten,
             NothingWritten
<1> QED
  BY <1>1, <1>2, <1>3 DEF OwnInv

\* The controller's own state: course, session of the evidence, first write.
THEOREM OwnInvariant == Spec => []OwnInv
<1>1. OwnInv /\ [Next]_vars => OwnInv'
  <2> SUFFICES ASSUME OwnInv, [Next]_vars PROVE OwnInv'
    OBVIOUS
  <2>1. TypeOK' /\ Course'
    BY DataStep, FlagsStep, CourseStep DEF OwnInv, TypeOK
  <2>2. SessionEvidence' /\ EvidenceOfOneSession'
    BY <2>1, SessionStep, OneSessionStep DEF OwnInv
  <2>3. Unwritten' /\ NothingWritten'
    BY <2>1, UnwrittenStep, NothingStep DEF OwnInv
  <2> QED
    BY <2>1, <2>2, <2>3 DEF OwnInv
<1> QED
  BY OwnInitially, <1>1, PTL DEF Spec

LEMMA UnitInitially == Init => UnitInv
<1> SUFFICES ASSUME Init PROVE UnitInv
  OBVIOUS
<1>1. Trusted /\ NeverStrays
  BY SMT DEF Init, LinkInit, Trusted, NeverStrays
<1>2. PassEvidence /\ OffEvidence /\ MutedAcrossRecall
  BY SMT DEF Init, LinkInit, PassEvidence, OffEvidence, MutedAcrossRecall
<1>3. RollbackIsTrue /\ SuccessIsTrue
  BY SMT DEF Init, RollbackIsTrue, SuccessIsTrue
<1>4. SlotEvidence /\ OffUnderVerifiedSlot /\ SuccessUnderCheckedSlot
  BY SMT DEF Init, SlotEvidence, OffUnderVerifiedSlot, SuccessUnderCheckedSlot
<1> QED
  BY <1>1, <1>2, <1>3, <1>4 DEF UnitInv

\* What was read is true of the unit, as long as only our unit can answer.
THEOREM UnitInvariant == Validates => (Spec => []UnitInv)
<1> SUFFICES ASSUME Validates PROVE Spec => []UnitInv
  OBVIOUS
<1>1. OwnInv /\ OwnInv' /\ UnitInv /\ [Next]_vars => UnitInv'
  <2> SUFFICES ASSUME OwnInv, OwnInv', UnitInv, [Next]_vars PROVE UnitInv'
    OBVIOUS
  <2> USE DEF OwnInv, UnitInv
  <2>1. Trusted' /\ NeverStrays'
    BY TrustedStep, StraysStep
  <2>2. PassEvidence' /\ OffEvidence' /\ MutedAcrossRecall'
    BY PassStep, OffStep, MutedStep
  <2>3. RollbackIsTrue' /\ SuccessIsTrue'
    BY RollbackStep, SuccessStep
  <2>4. SlotEvidence' /\ OffUnderVerifiedSlot' /\ SuccessUnderCheckedSlot'
    BY SlotStep, OffSlotStep, SuccessSlotStep
  <2> QED
    BY <2>1, <2>2, <2>3, <2>4
<1> QED
  BY OwnInvariant, UnitInitially, <1>1, PTL DEF Spec

\* Whatever the device, the network and other consoles do, an outcome that is
\* reported as verified was read back without a reconnect in between.
THEOREM VerifiedInOneSession == Spec => []EvidenceOfOneSession
<1>1. OwnInv => EvidenceOfOneSession
  BY DEF OwnInv
<1> QED
  BY OwnInvariant, <1>1, PTL

\* Nothing was written by an operation that was refused, that expired, or that
\* found its preset already active.
THEOREM RefusalsWriteNothing == Spec => []NothingWritten
<1>1. OwnInv => NothingWritten
  BY DEF OwnInv
<1> QED
  BY OwnInvariant, <1>1, PTL

\* A reported success is true of the outputs (set_all_outputs_muted,
\* set_output_muted, activate_preset).
THEOREM SuccessIsReal == Validates => (Spec => []SuccessIsTrue)
<1> SUFFICES ASSUME Validates PROVE Spec => []SuccessIsTrue
  OBVIOUS
<1>1. Spec => []UnitInv
  BY UnitInvariant
<1>2. UnitInv => SuccessIsTrue
  BY DEF UnitInv
<1> QED
  BY <1>1, <1>2, PTL

\* A failure reported as rolled back left all outputs muted, however many
\* sessions the rollback lost on the way (_rollback_outputs_to_muted).
THEOREM RollbackIsReal == Validates => (Spec => []RollbackIsTrue)
<1> SUFFICES ASSUME Validates PROVE Spec => []RollbackIsTrue
  OBVIOUS
<1>1. Spec => []UnitInv
  BY UnitInvariant
<1>2. UnitInv => RollbackIsTrue
  BY DEF UnitInv
<1> QED
  BY <1>1, <1>2, PTL

\* Recall, and the first Off of an activation, are written only over outputs
\* verified muted (_activate_resolved_preset).
THEOREM RecallUnderMutes == Validates => (Spec => []MutedAcrossRecall)
<1> SUFFICES ASSUME Validates PROVE Spec => []MutedAcrossRecall
  OBVIOUS
<1>1. Spec => []UnitInv
  BY UnitInvariant
<1>2. UnitInv => MutedAcrossRecall
  BY DEF UnitInv
<1> QED
  BY <1>1, <1>2, PTL

\* No output is opened but under the preset a check has just agreed on
\* (_verify_current_preset_before_unmute).
THEOREM OffUnderCheckedSlot == Validates => (Spec => []OffUnderVerifiedSlot)
<1> SUFFICES ASSUME Validates PROVE Spec => []OffUnderVerifiedSlot
  OBVIOUS
<1>1. Spec => []UnitInv
  BY UnitInvariant
<1>2. UnitInv => OffUnderVerifiedSlot
  BY DEF UnitInv
<1> QED
  BY <1>1, <1>2, PTL

\* A successful unmute ends under a preset of the catalog and the allowlist,
\* and a successful activation under its target.
THEOREM UnmuteUnderCheckedSlot == Validates => (Spec => []SuccessUnderCheckedSlot)
<1> SUFFICES ASSUME Validates PROVE Spec => []SuccessUnderCheckedSlot
  OBVIOUS
<1>1. Spec => []UnitInv
  BY UnitInvariant
<1>2. UnitInv => SuccessUnderCheckedSlot
  BY DEF UnitInv
<1> QED
  BY <1>1, <1>2, PTL

\* No write reaches a unit that is not ours once a validator is installed
\* (_validate_reconnected_peer); without one nothing is claimed.
THEOREM WritesStayHome == Spec => []NeverStrays
<1>1. CASE Validates
  <2>1. Spec => []UnitInv
    BY <1>1, UnitInvariant
  <2>2. UnitInv => NeverStrays
    BY DEF UnitInv
  <2> QED
    BY <2>1, <2>2, PTL
<1>2. CASE ~Validates
  <2>1. NeverStrays
    BY <1>2 DEF NeverStrays
  <2> QED
    BY <2>1, PTL
<1> QED
  BY <1>1, <1>2

-----------------------------------------------------------------------------
(* Late writes, and the calls an operation has before it *)

\* The calls after the first write: what they do comes after admission did
\* its work.  The other half of Unwritten.
Written ==
  \/ pc \in {"readback", "confirm", "postDirect", "postCatalog"}
  \/ pc \in ActivationPcs
  \/ pc \in PreWriteChecks /\ Activating
  \/ pc = "write" /\ ~FirstWrite
  => wrote

\* Nobody comes past the first write without having written.
LEMMA WrittenStep ==
  ASSUME TypeOK, TypeOK', Course, Course', Written, [Next]_vars
  PROVE  Written'
<1> USE DEF Written, FirstWrite, Activating, Single, Course, BeforeOff,
   AfterOff, TypeOK, DataOK, LinkDataOK, Ops
<1>1. CASE Begin
  BY <1>1, OutputsAssumption, SMT DEF Begin
<1>2. CASE Preflight
  BY <1>2, OutputsAssumption, SMT DEF Preflight, Resolve, Answered, Limit,
     Live, Reads, ReadFrame, NoNews, Raise, Handler, Finish, StartRollback, Go,
     ReadCurrent, StartPass, StartWrites
<1>3. CASE Writing
  <2>1. CASE WriteExpires
    BY <2>1, OutputsAssumption, SMT DEF WriteExpires, FirstWrite, Finish,
       ReadFrame, NoNews
  <2>2. CASE WriteOutput
    BY <2>2, OutputsAssumption, SMT DEF WriteOutput, MayWrite, FirstWrite,
       SendOutput, Go, NoNews
  <2>3. CASE WriteFails
    BY <2>3, OutputsAssumption, SMT DEF WriteFails, MayWrite, FirstWrite,
       SendFails, HangUp, Live, ReadFrame, NoNews, Raise, Handler, Finish,
       StartRollback, Go
  <2>4. CASE Readback
    BY <2>4, OutputsAssumption, SMT DEF Readback, Answered, Limit, Live, Reads,
       ReadFrame, NoNews, Reject, StartPass, Raise, Handler, Finish,
       StartRollback, Go
  <2> QED
    BY <1>3, <2>1, <2>2, <2>3, <2>4 DEF Writing
<1>4. CASE Reading
  BY <1>4, OutputsAssumption, SMT DEF Reading, ReadOutput, Answered, Limit,
     Live, Reads, ReadFrame, NoNews, StillGood, PassVerdict, Raise, Handler,
     Finish, StartRollback, Go, ReadFails, CallFails, HangUp
<1>5. CASE Recalling
  BY <1>5, OutputsAssumption, SMT DEF Recalling, Recheck, Answered, Limit,
     Live, Reads, ReadFrame, NoNews, StartPass, Go, Recall, SendRecall,
     RecallFails, SendFails, Raise, Handler, Finish, StartRollback, Poll,
     PollFails, PollReopens, Reopen, Reconnected, ReconnectFails, PeerRejected,
     Fault, ReopenTooLate
<1>6. CASE Verifying
  BY <1>6, OutputsAssumption, SMT DEF Verifying, FinalDirect, Answered, Limit,
     Live, Reads, ReadFrame, NoNews, Raise, Handler, Finish, StartRollback, Go,
     FinalCatalog, Reject, StartPass, VerifyDirect, VerifyBefore, Agrees,
     StartWrites, VerifyAfter, VerifyEnd, EndsOnTarget
<1>7. CASE RollingBack
  BY <1>7, OutputsAssumption, SMT DEF RollingBack, RbTooLate, HangUp, Live,
     RbFrame, Finish, RbReconnect, Reopen, Reconnected, ReconnectFails,
     PeerRejected, Fault, Go, RbWrite, SendOutput, RbFails, SendFails, RbRead,
     Reads, NextChannel, NextRound, RoundsLeft, EndRollback, StartRollback,
     RbRecover, RbFinal, StillMuted, RbVerdict, RbRecoverFinal
<1>8. CASE Return
  BY <1>8, OutputsAssumption, SMT DEF Return, Go
<1>9. CASE Connect
  BY <1>9, OutputsAssumption, SMT DEF Connect
<1>10. CASE Tick
  BY <1>10, OutputsAssumption, SMT DEF Tick
<1>11. CASE Elsewhere
  BY <1>11, OutputsAssumption, SMT DEF Elsewhere, Surroundings, PresetLoads,
     OtherWriter, ConsoleDrops, AddressMoves, Fault, Live
<1>12. CASE UNCHANGED vars
  BY <1>12, SMT DEF vars
<1> QED
  BY <1>1, <1>2, <1>3, <1>4, <1>5, <1>6, <1>7, <1>8, <1>9, <1>10, <1>11, <1>12
     DEF Next, Controller

LEMMA WrittenInvariant == Spec => []Written
<1>1. Init => Written
  BY DEF Init, Written
<1>2. Spec => [](TypeOK /\ Course)
  BY OwnInvariant, PTL DEF OwnInv
<1> QED
  BY <1>1, <1>2, WrittenStep, PTL DEF Spec

\* The calls that send anything, and what they find.
LEMMA FirstWriteStep ==
  ASSUME TypeOK, Written, [Next]_vars, wrote', ~wrote, adm = 0
  PROVE  pc = "rbWrite"
<1> USE DEF Written, TypeOK, DataOK
<1>1. ASSUME wrote' = wrote PROVE FALSE
  BY <1>1
<1>2. CASE Begin \/ Return \/ Connect \/ Tick \/ Elsewhere
  BY <1>1, <1>2 DEF Begin, Return, Connect, Tick, Elsewhere
<1>3. CASE Preflight
  BY <1>1, <1>3 DEF Preflight, Resolve, ReadCurrent, ReadFrame
<1>4. CASE Writing
  <2>1. CASE WriteOutput
    BY <2>1, SMT DEF WriteOutput, MayWrite, FirstWrite
  <2>2. CASE WriteExpires \/ WriteFails \/ Readback
    BY <1>1, <2>2 DEF WriteExpires, WriteFails, Readback, ReadFrame
  <2> QED
    BY <1>4, <2>1, <2>2 DEF Writing
<1>5. CASE Reading
  BY <1>1, <1>5 DEF Reading, ReadOutput, PassVerdict, ReadFails, CallFails,
     ReadFrame
<1>6. CASE Recalling
  BY <1>1, <1>6 DEF Recalling, Recheck, Recall, RecallFails, Poll, PollFails,
     PollReopens, Reopen, ReopenTooLate, ReadFrame
<1>7. CASE Verifying
  BY <1>1, <1>7 DEF Verifying, FinalDirect, FinalCatalog, VerifyDirect,
     VerifyBefore, VerifyAfter, VerifyEnd, ReadFrame
<1>8. CASE RollingBack
  BY <1>1, <1>8 DEF RollingBack, RbTooLate, RbReconnect, Reopen, RbWrite,
     RbFails, RbRead, RbRecover, RbFinal, RbVerdict, RbRecoverFinal
<1>9. CASE UNCHANGED vars
  BY <1>1, <1>9 DEF vars
<1> QED
  BY <1>2, <1>3, <1>4, <1>5, <1>6, <1>7, <1>8, <1>9 DEF Next, Controller

\* What an operation sends first, when it sends it after its admission, is the
\* mute of a rollback (the start deadlines of set_starting_before, and the
\* handlers of activate_preset and of the write passes).
THEOREM LateOnesAreMutes == Spec => LateWritesOnlyMute
<1>1. Spec => []TypeOK
  BY OwnInvariant, PTL DEF OwnInv
<1>2. TypeOK /\ Written /\ [Next]_vars
        => [wrote' /\ ~wrote /\ adm = 0 => pc = "rbWrite"]_vars
  BY FirstWriteStep
<1> QED
  BY <1>1, <1>2, WrittenInvariant, PTL DEF Spec, LateWritesOnlyMute

\* What is ahead is five numbers, so that it can go down only so often.
LEMMA AheadIsCounted == TypeOK => Ahead \in Nat \X Nat \X Nat \X Nat \X Nat
<1> SUFFICES ASSUME TypeOK PROVE Ahead \in Nat \X Nat \X Nat \X Nat \X Nat
  OBVIOUS
<1>1. Phase \in Nat /\ Part \in Nat /\ Call \in Nat
  BY SMT DEF Phase, Part, Call
<1>2. Rounds - round \in Nat /\ N + 1 - idx \in Nat
  BY OutputsAssumption, SMT DEF TypeOK, DataOK, Rounds
<1> QED
  BY <1>1, <1>2 DEF Ahead

\* The order of what is ahead, number by number.
LEMMA FewerAhead ==
  ASSUME \/ Phase' < Phase
         \/ /\ Phase' = Phase
            /\ \/ Rounds - round' < Rounds - round
               \/ /\ Rounds - round' = Rounds - round
                  /\ \/ Part' < Part
                     \/ /\ Part' = Part
                        /\ \/ N + 1 - idx' < N + 1 - idx
                           \/ /\ N + 1 - idx' = N + 1 - idx
                              /\ Call' < Call
  PROVE  Fewer(Ahead', Ahead)
<1>1. ASSUME NEW i \in 1 .. 5, Ahead'[i] < Ahead[i],
             \A j \in 1 .. i - 1 : Ahead'[j] = Ahead[j]
      PROVE  Fewer(Ahead', Ahead)
  BY <1>1 DEF Fewer
<1>2. /\ Ahead[1] = Phase /\ Ahead'[1] = Phase'
      /\ Ahead[2] = Rounds - round /\ Ahead'[2] = Rounds - round'
      /\ Ahead[3] = Part /\ Ahead'[3] = Part'
      /\ Ahead[4] = N + 1 - idx /\ Ahead'[4] = N + 1 - idx'
      /\ Ahead[5] = Call /\ Ahead'[5] = Call'
  BY DEF Ahead, Rounds
<1>3. CASE Ahead'[1] < Ahead[1]
  BY <1>1, <1>3
<1>4. CASE Ahead'[1] = Ahead[1] /\ Ahead'[2] < Ahead[2]
  BY <1>1, <1>4
<1>5. CASE /\ Ahead'[1] = Ahead[1] /\ Ahead'[2] = Ahead[2]
           /\ Ahead'[3] < Ahead[3]
  BY <1>1, <1>5
<1>6. CASE /\ Ahead'[1] = Ahead[1] /\ Ahead'[2] = Ahead[2]
           /\ Ahead'[3] = Ahead[3] /\ Ahead'[4] < Ahead[4]
  BY <1>1, <1>6
<1>7. CASE /\ Ahead'[1] = Ahead[1] /\ Ahead'[2] = Ahead[2]
           /\ Ahead'[3] = Ahead[3] /\ Ahead'[4] = Ahead[4]
           /\ Ahead'[5] < Ahead[5]
  BY <1>1, <1>7
<1> QED
  BY <1>2, <1>3, <1>4, <1>5, <1>6, <1>7

\* An exception leaves what was being done for a later phase: a rollback.
LEMMA RaiseGoesForward ==
  ASSUME Raise, pc \in Pcs \ ({"idle", "done"} \cup RollbackPcs)
  PROVE  Phase' < Phase
BY SMT DEF Raise, Finish, StartRollback, Phase, Pcs, Handler

\* A rollback that ends does so for the outer one, or for good.
LEMMA EndRollbackGoesForward ==
  ASSUME NEW safe \in BOOLEAN, EndRollback(safe), pc \in RollbackPcs
  PROVE  Phase' < Phase
BY SMT DEF EndRollback, StartRollback, Finish, Phase

\* A round follows another only while rounds are left.
LEMMA NextRoundGoesForward ==
  ASSUME TypeOK, NextRound, pc \in RollbackPcs
  PROVE  Fewer(Ahead', Ahead)
<1>1. CASE RoundsLeft
  <2>1. Phase' = Phase
    BY <1>1, SMT DEF NextRound, Go, Phase
  <2>2. Rounds - round' < Rounds - round
    <3>1. round' = round + 1
      BY <1>1 DEF NextRound
    <3>2. round \in Int /\ Rounds \in Int
      BY OutputsAssumption, SMT DEF TypeOK, DataOK, Rounds
    <3> QED
      BY <3>1, <3>2, SMT
  <2> QED
    BY <2>1, <2>2, FewerAhead
<1>2. CASE ~RoundsLeft
  BY <1>2, EndRollbackGoesForward, FewerAhead DEF NextRound
<1> QED
  BY <1>1, <1>2

\* Each call takes an operation forward, but those of the polling loop.
LEMMA CallStep ==
  ASSUME TypeOK, [Next]_vars, pc \notin {"idle", "done"},
         <<pc, pass, rollback>>' # <<pc, pass, rollback>>,
         ~({pc, pc'} \subseteq {"poll", "reopen"})
  PROVE  Fewer(Ahead', Ahead)
<1> USE DEF TypeOK, DataOK
<1>1. ASSUME Phase' < Phase PROVE Fewer(Ahead', Ahead)
  BY <1>1, FewerAhead
<1>2. ASSUME Phase' = Phase, round' = round, Part' = Part,
             \/ N + 1 - idx' < N + 1 - idx
             \/ idx' = idx /\ Call' < Call
      PROVE  Fewer(Ahead', Ahead)
  BY <1>2, FewerAhead
<1>3. ASSUME Phase' = Phase, round' = round, Part' < Part
      PROVE  Fewer(Ahead', Ahead)
  BY <1>3, FewerAhead
<1>4. CASE Begin \/ Return \/ Connect \/ Tick \/ Elsewhere
  BY <1>4 DEF Begin, Return, Connect, Tick, Elsewhere
<1>5. CASE Preflight
  <2>1. Phase' < Phase
    BY <1>5, RaiseGoesForward, SMT DEF Preflight, Resolve, ReadCurrent,
       StartPass, StartWrites, Go, Phase, Pcs
  <2> QED
    BY <1>1, <2>1
<1>6. CASE Writing
  <2>1. CASE WriteExpires \/ WriteFails
    <3>1. Phase' < Phase
      BY <2>1, RaiseGoesForward, SMT DEF WriteExpires, WriteFails, Finish,
         Phase, Pcs
    <3> QED
      BY <1>1, <3>1
  <2>2. CASE WriteOutput
    <3>1. Phase' = Phase /\ Part' = Part /\ Call' < Call
      BY <2>2, SMT DEF WriteOutput, Go, Phase, Part, Call
    <3> QED
      BY <1>2, <2>2, <3>1 DEF WriteOutput
  <2>3. CASE Readback
    <3>1. \/ Phase' < Phase
          \/ Go("write") /\ idx' = idx + 1 /\ UNCHANGED <<want, rollback>>
      BY <2>3, RaiseGoesForward, SMT DEF Readback, Reject, StartPass, Go,
         Finish, Phase, Pcs
    <3>2. CASE Go("write") /\ idx' = idx + 1 /\ UNCHANGED <<want, rollback>>
      <4>1. Phase' = Phase /\ Part' = Part
        BY <2>3, <3>2, SMT DEF Readback, Go, Phase, Part
      <4>2. N + 1 - idx' < N + 1 - idx
        BY <3>2, OutputsAssumption, SMT
      <4> QED
        BY <1>2, <3>2, <4>1, <4>2
    <3> QED
      BY <1>1, <3>1, <3>2
  <2> QED
    BY <1>6, <2>1, <2>2, <2>3 DEF Writing
<1>7. CASE Reading
  <2>1. CASE ReadOutput
    <3>1. Phase' = Phase /\ Part' = Part
      BY <2>1, SMT DEF ReadOutput, Phase, Part
    <3>2. N + 1 - idx' < N + 1 - idx
      BY <2>1, OutputsAssumption, SMT DEF ReadOutput
    <3> QED
      BY <1>2, <2>1, <3>1, <3>2 DEF ReadOutput
  <2>2. CASE PassVerdict \/ ReadFails
    <3>1. Phase' < Phase
      BY <2>2, RaiseGoesForward, SMT DEF PassVerdict, ReadFails, CallFails,
         Finish, Go, Phase, Pcs
    <3> QED
      BY <1>1, <3>1
  <2> QED
    BY <1>7, <2>1, <2>2 DEF Reading
<1>8. CASE Recalling
  <2>1. CASE Recheck \/ Recall \/ RecallFails \/ Poll \/ ReopenTooLate
    <3>1. Phase' < Phase
      BY <2>1, RaiseGoesForward, SMT DEF Recheck, Recall, RecallFails, Poll,
         ReopenTooLate, StartPass, Go, Phase, Pcs
    <3> QED
      BY <1>1, <3>1
  <2>2. CASE PollFails
    BY <2>2 DEF PollFails, Go
  <2>3. CASE PollReopens
    <3>1. Phase' < Phase
      BY <2>3, SMT DEF PollReopens, Reopen, Finish, Go, Phase
    <3> QED
      BY <1>1, <3>1
  <2> QED
    BY <1>8, <2>1, <2>2, <2>3 DEF Recalling
<1>9. CASE Verifying
  <2>1. Phase' < Phase
    <3>1. CASE FinalDirect \/ FinalCatalog \/ VerifyDirect
      BY <3>1, RaiseGoesForward, SMT DEF FinalDirect, FinalCatalog, Reject,
         VerifyDirect, StartPass, Go, Phase, Pcs
    <3>2. CASE VerifyBefore \/ VerifyAfter \/ VerifyEnd
      BY <3>2, RaiseGoesForward, SMT DEF VerifyBefore, VerifyAfter, VerifyEnd,
         StartWrites, Finish, Go, Phase, Pcs
    <3> QED
      BY <1>9, <3>1, <3>2 DEF Verifying
  <2> QED
    BY <1>1, <2>1
<1>10. CASE RollingBack
  <2>1. CASE RbTooLate
    <3>1. Phase' < Phase
      BY <2>1, SMT DEF RbTooLate, Finish, Phase
    <3> QED
      BY <1>1, <3>1
  <2>2. ASSUME NEW ACTION next, Reopen(next), pc \in RollbackPcs,
               next => Fewer(Ahead', Ahead)
        PROVE  Fewer(Ahead', Ahead)
    <3>1. next \/ Phase' < Phase
      BY <2>2, SMT DEF Reopen, Finish, Phase
    <3> QED
      BY <1>1, <2>2, <3>1
  <2>3. CASE RbReconnect
    <3>1. Go("rbWrite") /\ UNCHANGED <<pass, rollback>>
            => Phase' = Phase /\ Part' < Part
      BY <2>3, SMT DEF RbReconnect, Go, Phase, Part
    <3>2. Go("rbWrite") /\ UNCHANGED <<pass, rollback, result>>
            => Fewer(Ahead', Ahead)
      BY <1>3, <3>1
    <3> QED
      BY <2>2, <2>3, <3>2 DEF RbReconnect
  <2>4. CASE RbWrite
    <3>1. Phase' = Phase /\ Part' = Part /\ Call' < Call
      BY <2>4, SMT DEF RbWrite, Go, Phase, Part, Call
    <3> QED
      BY <1>2, <2>4, <3>1 DEF RbWrite
  <2>5. CASE RbFails
    <3>1. Phase' = Phase /\ (Part' < Part \/ (Part' = Part /\ Call' < Call))
      BY <2>5, SMT DEF RbFails, Go, Phase, Part, Call
    <3> QED
      BY <1>2, <1>3, <2>5, <3>1 DEF RbFails
  <2>6. ASSUME NEW STATE bad, NextChannel(bad), pc \in {"rbRead"}
        PROVE  Fewer(Ahead', Ahead)
    <3>1. CASE Go("rbWrite") /\ idx' = idx + 1 /\ UNCHANGED <<level, round>>
      <4>1. Phase' = Phase /\ Part' = Part
        BY <2>6, <3>1, SMT DEF Go, Phase, Part
      <4>2. N + 1 - idx' < N + 1 - idx
        BY <3>1, OutputsAssumption, SMT
      <4> QED
        BY <1>2, <3>1, <4>1, <4>2
    <3>2. CASE NextRound
      BY <2>6, <3>2, NextRoundGoesForward
    <3>3. CASE Go("rbFinal") /\ UNCHANGED rollback
      <4>1. Phase' = Phase /\ Part' < Part
        BY <2>6, <3>3, SMT DEF Go, Phase, Part
      <4> QED
        BY <1>3, <3>3, <4>1
    <3> QED
      BY <2>6, <3>1, <3>2, <3>3 DEF NextChannel
  <2>7. CASE RbRead
    <3>1. \/ NextChannel(failed)
          \/ Go("rbRecover") /\ UNCHANGED <<pass, rollback>>
      BY <2>7, Zenon DEF RbRead
    <3>2. CASE Go("rbRecover") /\ UNCHANGED <<pass, rollback>>
      <4>1. Phase' = Phase /\ Part' = Part /\ Call' < Call
        BY <2>7, <3>2, SMT DEF RbRead, Go, Phase, Part, Call
      <4> QED
        BY <1>2, <3>2, <4>1
    <3> QED
      BY <2>6, <2>7, <3>1, <3>2 DEF RbRead
  <2>8. CASE RbRecover
    <3> DEFINE on == IF idx < N
                     THEN /\ Go("rbWrite")
                          /\ idx' = idx + 1
                          /\ failed' = TRUE
                          /\ UNCHANGED <<want, seen, level, round, result>>
                     ELSE NextRound
    <3>1. CASE Go("rbWrite") /\ idx' = idx + 1 /\ UNCHANGED <<level, round>>
      <4>1. Phase' = Phase /\ Part' = Part
        BY <2>8, <3>1, SMT DEF RbRecover, Go, Phase, Part
      <4>2. N + 1 - idx' < N + 1 - idx
        BY <3>1, OutputsAssumption, SMT
      <4> QED
        BY <1>2, <3>1, <4>1, <4>2
    <3>2. CASE NextRound
      BY <2>8, <3>2, NextRoundGoesForward DEF RbRecover
    <3>3. on => Fewer(Ahead', Ahead)
      BY <3>1, <3>2
    <3>4. Reopen(on)
      BY <2>8 DEF RbRecover
    <3> QED
      BY <2>2, <2>8, <3>3, <3>4 DEF RbRecover
  <2>9. CASE RbFinal
    <3>1. Phase' = Phase /\ Part' = Part
      BY <2>9, SMT DEF RbFinal, Phase, Part
    <3>2. N + 1 - idx' < N + 1 - idx
      BY <2>9, OutputsAssumption, SMT DEF RbFinal
    <3> QED
      BY <1>2, <2>9, <3>1, <3>2 DEF RbFinal
  <2>10. CASE RbVerdict
    <3>1. EndRollback(TRUE) \/ NextRound
      BY <2>10 DEF RbVerdict
    <3> QED
      BY <1>1, <2>10, <3>1, EndRollbackGoesForward, NextRoundGoesForward
         DEF RbVerdict
  <2>11. CASE RbRecoverFinal
    BY <2>2, <2>11, NextRoundGoesForward DEF RbRecoverFinal
  <2> QED
    BY <1>10, <2>1, <2>3, <2>4, <2>5, <2>7, <2>8, <2>9, <2>10, <2>11
       DEF RollingBack
<1>11. CASE UNCHANGED vars
  BY <1>11 DEF vars
<1> QED
  BY <1>4, <1>5, <1>6, <1>7, <1>8, <1>9, <1>10, <1>11 DEF Next, Controller

\* An operation has only so many calls before it, outside the polling loop:
\* what is ahead is five numbers, and every call leaves fewer, in whatever way
\* the device fails and however often it is tried again (the loops of
\* _write_all_outputs, _read_all_output_mutes and _rollback_outputs_to_muted).
THEOREM CallsAreCounted ==
  Spec => /\ [](Ahead \in Nat \X Nat \X Nat \X Nat \X Nat)
          /\ CallsRunOut
<1>1. Spec => []TypeOK
  BY OwnInvariant, PTL DEF OwnInv
<1>2. TypeOK /\ [Next]_vars
        => [/\ pc \notin {"idle", "done"}
            /\ <<pc, pass, rollback>>' # <<pc, pass, rollback>>
            /\ ~({pc, pc'} \subseteq {"poll", "reopen"})
            => Fewer(Ahead', Ahead)]_vars
  BY CallStep
<1> QED
  BY <1>1, <1>2, AheadIsCounted, PTL DEF Spec, CallsRunOut

-----------------------------------------------------------------------------
(* Pa2Controller implements SafetyContract under the map Stage: every call   *)
(* of the controller is a step the contract allows at the stage the          *)
(* operation is in, or changes nothing the contract speaks of.               *)

USE DEF linkVars, device, network, client, history, pass, evidence, rollback,
        clock, Channels, NoSlot, Units, OnOff, PreWriteChecks, PreflightPcs,
        GuardedPcs, ActivationPcs, RollbackPcs, Passes, Directs

\* An activation has a target, so that a Recall names a slot.
Targeted == Activating => op.target \in Slots

LEMMA TargetedStep ==
  ASSUME Targeted, [Next]_vars PROVE Targeted'
<1>1. CASE Begin
  BY <1>1 DEF Begin, Targeted, Activating
<1>2. CASE Return
  BY <1>2 DEF Return, NoOp, Targeted, Activating
<1>3. ASSUME op' = op PROVE Targeted'
  BY <1>3 DEF Targeted, Activating
<1>4. CASE Preflight
  BY <1>3, <1>4 DEF Preflight, Resolve, ReadFrame, ReadCurrent
<1>5. CASE Writing
  BY <1>3, <1>5 DEF Writing, WriteExpires, ReadFrame, WriteOutput, WriteFails,
     Readback
<1>6. CASE Reading
  BY <1>3, <1>6 DEF Reading, ReadOutput, ReadFrame, PassVerdict, ReadFails,
     CallFails
<1>7. CASE Recalling
  BY <1>3, <1>7 DEF Recalling, Recheck, ReadFrame, Recall, RecallFails, Poll,
     PollFails, PollReopens, Reopen, ReopenTooLate
<1>8. CASE Verifying
  BY <1>3, <1>8 DEF Verifying, FinalDirect, ReadFrame, FinalCatalog,
     VerifyDirect, VerifyBefore, VerifyAfter, VerifyEnd
<1>9. CASE RollingBack
  BY <1>3, <1>9 DEF RollingBack, RbTooLate, RbFrame, RbReconnect, Reopen,
     RbWrite, RbFails, RbRead, RbRecover, RbFinal, RbVerdict, RbRecoverFinal
<1>10. CASE Connect
  BY <1>3, <1>10 DEF Connect
<1>11. CASE Tick
  BY <1>3, <1>11 DEF Tick
<1>12. CASE Elsewhere
  BY <1>3, <1>12 DEF Elsewhere
<1>13. CASE UNCHANGED vars
  BY <1>3, <1>13 DEF vars
<1> QED
  BY <1>1, <1>2, <1>4, <1>5, <1>6, <1>7, <1>8, <1>9, <1>10, <1>11, <1>12,
     <1>13 DEF Next, Controller

LEMMA TargetedInvariant == Spec => []Targeted
<1>1. Init => Targeted
  BY DEF Init, NoOp, Targeted, Activating
<1> QED
  BY <1>1, TargetedStep, PTL DEF Spec

-----------------------------------------------------------------------------
(* The refinement *)

\* The initial states are initial states of the contract.
LEMMA ContractInit == Init => Contract!Init
BY DEF Init, LinkInit, Mutes, Contract!Init, Stage

\* Every step is a step of the contract, or leaves what it speaks of alone.
LEMMA ContractStep ==
  ASSUME TypeOK, Course, Course', Targeted, [Next]_vars
  PROVE  [Contract!Next]_(Contract!vars)
<1> USE OutputsAssumption DEF Stage, Contract!vars, Course, Targeted,
   Activating, Single, BeforeOff, AfterOff, TypeOK, DataOK, Pcs
<1>1. CASE Begin
  <2>1. /\ Stage = "idle" /\ Stage' \in {"checking", "muting"}
        /\ UNCHANGED <<mute, slot, loading, faults, result>>
    <3>1. PICK kind \in Kinds, target \in Slots, chan \in Channels, un \in BOOLEAN :
            /\ op' = [kind |-> kind,
                      target |-> IF kind = "activate" THEN target ELSE NoSlot,
                      chan |-> IF kind \in {"muteOne", "unmuteOne"} THEN chan ELSE 1,
                      unmute |-> kind = "activate" /\ un]
            /\ want' = IF kind \in {"activate", "muteAll", "muteOne"}
                       THEN "On" ELSE "Off"
            /\ pc' = CASE kind = "activate" -> "resolve"
                       [] kind \in {"unmuteAll", "unmuteOne"} -> "preDirect"
                       [] OTHER -> "write"
      BY <1>1, Zenon DEF Begin
    <3>2. kind \in AllKinds /\ op'.kind = kind
      BY <3>1, KindsAssumption
    <3>3. Stage' \in {"checking", "muting"}
      BY <3>1, <3>2 DEF AllKinds
    <3> QED
      BY <1>1, <3>3 DEF Begin
  <2> QED
    BY <2>1 DEF Contract!Next, Contract!Ask, Contract!Move, Contract!unit
<1>2. CASE Preflight
  <2>1. CASE Resolve
    BY <2>1 DEF Resolve, Answered, Limit, Live, Reads, ReadFrame, NoNews,
       Raise, Handler, Finish, StartRollback, Go, Contract!Next,
       Contract!Refuse, Contract!Report, Contract!unit
  <2>2. CASE ReadCurrent
    BY <2>2 DEF ReadCurrent, Answered, Limit, Live, Reads, ReadFrame, NoNews,
       StartPass, StartWrites, Go, Contract!Next, Contract!Checked,
       Contract!Move, Contract!unit
  <2> QED
    BY <1>2, <2>1, <2>2 DEF Preflight
<1>3. CASE Writing
  <2>1. CASE WriteExpires
    BY <2>1 DEF WriteExpires, FirstWrite, Finish, ReadFrame, NoNews,
       Contract!Next, Contract!Expire, Contract!Report, Contract!unit
  <2>2. CASE WriteOutput
    BY <2>2 DEF WriteOutput, MayWrite, SendOutput, Go, NoNews, Contract!Next,
       Contract!MuteOutput, Contract!OpenOutput, Contract!unit
  <2>3. CASE WriteFails
    BY <2>3 DEF WriteFails, ReadFrame, NoNews, Raise, Handler, Finish,
       StartRollback, Go, Contract!Next, Contract!Fail, Contract!Move,
       Contract!unit
  <2>4. CASE Readback
    BY <2>4 DEF Readback, Answered, Limit, Live, Reads, ReadFrame, NoNews,
       Reject, StartPass, Raise, Handler, Finish, StartRollback, Go,
       Contract!Next, Contract!Fail, Contract!Move, Contract!Opened,
       Contract!MuteDone, Contract!Report, Contract!unit
  <2> QED
    BY <1>3, <2>1, <2>2, <2>3, <2>4 DEF Writing
<1>4. CASE Reading
  <2>1. CASE ReadOutput
    BY <2>1 DEF ReadOutput, ReadFrame, NoNews
  <2>2. CASE PassVerdict
    BY <2>2 DEF PassVerdict, ReadFrame, NoNews, Raise, Handler, Finish,
       StartRollback, Go, Contract!Next, Contract!Refuse, Contract!Report,
       Contract!Fail, Contract!Move, Contract!Opened, Contract!Muted,
       Contract!MuteDone, Contract!Confirm, Contract!LeaveMuted, Contract!unit
  <2>3. CASE ReadFails
    BY <2>3 DEF ReadFails, CallFails, ReadFrame, NoNews, Raise, Handler,
       Finish, StartRollback, Go, Contract!Next, Contract!Refuse,
       Contract!Report, Contract!Fail, Contract!Move, Contract!unit
  <2> QED
    BY <1>4, <2>1, <2>2, <2>3 DEF Reading
<1>5. CASE Recalling
  <2>1. CASE Recheck
    BY <2>1 DEF Recheck, Answered, Limit, Live, Reads, ReadFrame, NoNews,
       StartPass, Go, Contract!Next, Contract!NoRecall, Contract!Move,
       Contract!unit
  <2>2. CASE Recall
    BY <2>2 DEF Recall, SendRecall, Go, NoNews, Contract!Next,
       Contract!Recall, Contract!NoRecall, Contract!Move, Contract!unit
  <2>3. CASE RecallFails
    BY <2>3 DEF RecallFails, ReadFrame, NoNews, Raise, Handler, Finish,
       StartRollback, Go, Contract!Next, Contract!Fail, Contract!Move,
       Contract!unit
  <2>4. CASE Poll
    BY <2>4 DEF Poll, Answered, Limit, Live, Reads, ReadFrame, NoNews,
       StartPass
  <2>5. CASE PollFails
    BY <2>5 DEF PollFails, Go, ReadFrame, NoNews
  <2>6. CASE PollReopens
    BY <2>6 DEF PollReopens, Reopen, Reconnected, ReconnectFails,
       PeerRejected, Fault, Finish, Go, Contract!Next, Contract!Abandon,
       Contract!Report, Contract!UnitMoves, Contract!unit
  <2>7. CASE ReopenTooLate
    BY <2>7 DEF ReopenTooLate, ReadFrame, NoNews, Raise, Handler, Finish,
       StartRollback, Go, Contract!Next, Contract!Fail, Contract!Move,
       Contract!unit
  <2> QED
    BY <1>5, <2>1, <2>2, <2>3, <2>4, <2>5, <2>6, <2>7 DEF Recalling
<1>6. CASE Verifying
  <2>1. CASE FinalDirect
    BY <2>1 DEF FinalDirect, Answered, Limit, Live, Reads, ReadFrame, NoNews,
       Raise, Handler, Finish, StartRollback, Go, Contract!Next,
       Contract!Fail, Contract!Move, Contract!Confirm, Contract!unit
  <2>2. CASE FinalCatalog
    BY <2>2 DEF FinalCatalog, Answered, Limit, Live, Reads, ReadFrame, NoNews,
       Reject, StartPass, Raise, Handler, Finish, StartRollback, Go,
       Contract!Next, Contract!Fail, Contract!Move, Contract!unit
  <2>3. CASE VerifyDirect
    BY <2>3 DEF VerifyDirect, Answered, Limit, Live, Reads, ReadFrame, NoNews,
       Go
  <2>4. CASE VerifyBefore
    BY <2>4 DEF VerifyBefore, Answered, Limit, Live, Reads, ReadFrame, NoNews,
       Agrees, StartWrites, Raise, Handler, Finish, StartRollback, Go,
       Contract!Next, Contract!Fail, Contract!Move, Contract!Checked,
       Contract!StartOpening, Contract!Refuse, Contract!Report, Contract!unit
  <2>5. CASE VerifyAfter
    BY <2>5 DEF VerifyAfter, Answered, Limit, Live, Reads, ReadFrame, NoNews,
       Agrees, Raise, Handler, Finish, StartRollback, Go, Contract!Next,
       Contract!Fail, Contract!Move, Contract!OpenDone, Contract!Report,
       Contract!unit
  <2>6. CASE VerifyEnd
    BY <2>6 DEF VerifyEnd, Answered, Limit, Live, Reads, ReadFrame, NoNews,
       Agrees, EndsOnTarget, Raise, Handler, Finish, StartRollback, Go,
       Contract!Next, Contract!Fail, Contract!Move, Contract!OpenDone,
       Contract!Report, Contract!unit
  <2> QED
    BY <1>6, <2>1, <2>2, <2>3, <2>4, <2>5, <2>6 DEF Verifying
<1>7. CASE RollingBack
  <2>1. CASE RbTooLate
    BY <2>1 DEF RbTooLate, RbFrame, Finish, Contract!Next, Contract!Closed,
       Contract!Report, Contract!unit
  <2>2. CASE RbReconnect
    BY <2>2 DEF RbReconnect, Reopen, Reconnected, ReconnectFails,
       PeerRejected, Fault, Finish, Go, Contract!Next, Contract!Abandon,
       Contract!Report, Contract!UnitMoves, Contract!unit
  <2>3. CASE RbWrite
    BY <2>3 DEF RbWrite, SendOutput, RbFrame, Go, Contract!Next,
       Contract!MuteOutput, Contract!unit
  <2>4. CASE RbFails
    BY <2>4 DEF RbFails, RbFrame, Go
  <2>5. CASE RbRead
    BY <2>5 DEF RbRead, NextChannel, RbFrame, NextRound, RoundsLeft,
       EndRollback, StartRollback, Finish, Go, Contract!Next, Contract!Closed,
       Contract!Report, Contract!unit
  <2>6. CASE RbRecover
    BY <2>6 DEF RbRecover, NextRound, RoundsLeft, EndRollback, StartRollback,
       Reopen, Reconnected, ReconnectFails, PeerRejected, Fault, Finish, Go,
       Contract!Next, Contract!Closed, Contract!Abandon, Contract!Report,
       Contract!UnitMoves, Contract!unit
  <2>7. CASE RbFinal
    BY <2>7 DEF RbFinal, RbFrame
  <2>8. CASE RbVerdict
    BY <2>8 DEF RbVerdict, RbFrame, NextRound, RoundsLeft, EndRollback,
       StartRollback, Finish, Go, Contract!Next, Contract!Closed,
       Contract!Report, Contract!unit
  <2>9. CASE RbRecoverFinal
    BY <2>9 DEF RbRecoverFinal, NextRound, RoundsLeft, EndRollback,
       StartRollback, Reopen, Reconnected, ReconnectFails, PeerRejected,
       Fault, Finish, Go, Contract!Next, Contract!Closed, Contract!Abandon,
       Contract!Report, Contract!UnitMoves, Contract!unit
  <2> QED
    BY <1>7, <2>1, <2>2, <2>3, <2>4, <2>5, <2>6, <2>7, <2>8, <2>9 DEF
       RollingBack
<1>8. CASE Return
  BY <1>8 DEF Return, Go, Contract!Next, Contract!Return, Contract!unit
<1>9. CASE Connect
  BY <1>9 DEF Connect
<1>10. CASE Tick
  BY <1>10 DEF Tick
<1>11. CASE Elsewhere
  <2>1. UNCHANGED <<Stage, result>>
    BY <1>11 DEF Elsewhere
  <2>2. (loading # 0 /\ loading' = 0) \/ faults' # faults
    <3>1. faults \in Int
      BY FaultsAssumption DEF LinkDataOK
    <3> QED
      BY <1>11, <3>1 DEF Elsewhere, Surroundings, PresetLoads, OtherWriter,
         ConsoleDrops, AddressMoves, Fault
  <2> QED
    BY <2>1, <2>2 DEF Contract!Next, Contract!UnitMoves
<1>12. CASE UNCHANGED vars
  BY <1>12 DEF vars
<1> QED
  BY <1>1, <1>2, <1>3, <1>4, <1>5, <1>6, <1>7, <1>8, <1>9, <1>10, <1>11, <1>12
     DEF Next, Controller

\* The controller keeps the README's safety contract: what it writes and what
\* it reports is what the contract's stage allows (controller.py, all three
\* operations and the rollback).
THEOREM ContractIsKept == Spec => KeepsContract
<1>1. Spec => [](TypeOK /\ Course)
  BY OwnInvariant, PTL DEF OwnInv
<1>2. TypeOK /\ Course /\ (TypeOK /\ Course)' /\ Targeted /\ [Next]_vars
        => [Contract!Next]_(Contract!vars)
  BY ContractStep
<1> QED
  BY <1>1, <1>2, TargetedInvariant, ContractInit, PTL
     DEF Spec, KeepsContract, Contract!Spec
=============================================================================
