--------------------------- MODULE MqttBridgeProofs ---------------------------
(***************************************************************************)
(* The safety properties of MqttBridge for any presets, any commands, any  *)
(* disturbances and any number of them.                                    *)
(***************************************************************************)
EXTENDS MqttBridge, SequenceTheorems, TLAPS

-----------------------------------------------------------------------------
(* Where the main thread is *)

Places == {"dial", "boot", "loop", "armed", "cmd", "exec", "identify", "tx",
           "after", "verdict", "poll", "announce", "ack", "read", "publish",
           "detail", "told", "hangup", "giveup", "closing", "lastAck", "join",
           "exited"}

\* What is being done at each place, and what comes after the publications.
Course ==
  /\ pc \in Places
  /\ job \in {"none", "poll", "pollFail", "exec", "execFail", "shut"}
  /\ exit \in {"none", "clean", "error"}
  /\ pc \in {"dial", "boot", "loop", "armed", "cmd", "exec", "poll", "closing",
            "join", "exited"} => job = "none"
  /\ pc \in {"identify", "tx", "after", "verdict"} => job = "exec"
  /\ pc \in {"detail", "told"} => job \in {"poll", "exec"}
  /\ pc = "read" => job = "poll"
  /\ pc \in {"hangup", "giveup"} => job = "pollFail"
  /\ pc = "lastAck" => job = "shut"
  /\ pc \in {"announce", "ack"} =>
       \/ then = "read" /\ job = "poll"
       \/ then = "told" /\ job \in {"poll", "exec"}
  /\ pc = "publish" =>
       \/ then = "loop" /\ job \in {"none", "poll", "exec", "execFail"}
       \/ then \in {"identify", "verdict"} /\ job = "exec"
       \/ then \in {"hangup", "giveup"} /\ job = "pollFail"
       \/ then \in {"detail", "told"} /\ job \in {"poll", "exec"}

\* The network thread and the surroundings leave the main thread where it is.
LEMMA MainStaysPut ==
  Network \/ Environment => UNCHANGED <<pc, job, todo, then, obs, exit>>
<1> USE DEF main, NetFrame
<1>1. Environment => UNCHANGED <<pc, job, todo, then, obs, exit>>
  BY DEF Environment, Drop, SlotMoves, CommandAges, Sigterm
<1>2. Network => UNCHANGED <<pc, job, todo, then, obs, exit>>
  BY DEF Network, Establish, OnConnect, OnRefused, SubackArrives, OnSubscribe,
    CommandArrives, OnMessage, NoticeDrop, OnDisconnect, DrainQueue,
    ReleasePa2, Deliver
<1> QED
  BY <1>1, <1>2

\* Every step goes on along the course.
LEMMA CourseStep ==
  ASSUME Course, [Next]_vars
  PROVE  Course'
<1> USE DEF Publishing, vars, broker, network, session, lifecycle, inbox,
      main, unit, shown, NetFrame, Callback, MainFrame, Quiet, At, Goto,
      ToLoop, Leave, Running, Spend, Places
<1>1. CASE Environment
  BY <1>1, MainStaysPut DEF Course
<1>2. CASE Network
  BY <1>2, MainStaysPut DEF Course
<1>3. CASE Dial
  BY <1>3 DEF Course, Dial
<1>4. CASE Boot
  BY <1>4 DEF Course, Boot, ApplySigterm, BothOffline, DetailsOffline,
    Message, StatusOffline
<1>5. CASE LoopTop
  BY <1>5 DEF Course, LoopTop, ApplySigterm
<1>6. CASE Dispatch
  BY <1>6 DEF Course, Dispatch, Message, NextWork, Note
<1>7. CASE Publish
  BY <1>7 DEF Course, Publish, Fatal, Fenced
<1>8. CASE PollOpen
  BY <1>8 DEF Course, PollOpen, BothOffline, DetailsOffline, Identified,
    Message, PollFails, StatusOffline
<1>9. CASE Announce
  BY <1>9 DEF Course, Announce, Fatal, Fenced, Message
<1>10. CASE AwaitAck
  BY <1>10 DEF Course, AwaitAck, Fatal, HoldsPa2Lock, HoldsStateLock, Message,
    NetworkWaits, TimeRunsOut, Valid
<1>11. CASE PollRead
  BY <1>11 DEF Course, PollRead, BothOffline, DetailsOffline, Message,
    PollFails, StatusOffline
<1>12. CASE Detail
  BY <1>12 DEF Course, Detail, AfterDetails, DetailsOffline, Message
<1>13. CASE Told
  BY <1>13 DEF Course, Told
<1>14. CASE HangUp
  BY <1>14 DEF Course, HangUp
<1>15. CASE Admit
  BY <1>15 DEF Course, Admit, Fenced, Message, Note, Stale
<1>16. CASE Authorize
  BY <1>16 DEF Course, Authorize, ApplySigterm, DetailsOffline, Fenced,
    Message, Note, Stale, StaleWhenLocked
<1>17. CASE Identify
  BY <1>17 DEF Course, Identify, ApplySigterm, BothOffline, CommandFails,
    DetailsOffline, Identified, Message, Note, StatusOffline, Unanswered
<1>18. CASE Transact
  BY <1>18 DEF Course, Transact, ApplySigterm, BothOffline, CommandFails,
    DetailsOffline, Message, Note, StatusOffline, Unanswered
<1>19. CASE Report
  BY <1>19 DEF Course, Report, ApplySigterm, BothOffline, CommandFails,
    DetailsOffline, Identified, Message, Note, StatusOffline
<1>20. CASE Verdict
  BY <1>20 DEF Course, Verdict, Message, Note
<1>21. CASE Shut
  BY <1>21 DEF Course, Shut, BothOffline, DetailsOffline, LocksAtJoin,
    Message, StatusOffline
<1>22. CASE LastAck
  BY <1>22 DEF Course, LastAck, HoldsPa2Lock, HoldsStateLock, LocksAtJoin,
    NetworkWaits, SaysGoodbye, TimeRunsOut, Valid
<1>23. CASE Join
  BY <1>23 DEF Course, Join
<1>24. CASE Exited \/ UNCHANGED vars
  BY <1>24 DEF Course, Exited
<1> QED
  BY <1>1, <1>2, <1>3, <1>4, <1>5, <1>6, <1>7, <1>8, <1>9, <1>10, <1>11,
    <1>12, <1>13, <1>14, <1>15, <1>16, <1>17, <1>18, <1>19, <1>20, <1>21,
    <1>22, <1>23, <1>24 DEF Next, Main, Starting, Polling, Executing,
    Stopping, Exited

-----------------------------------------------------------------------------
(* Types *)

Flags ==
  /\ subDue \in BOOLEAN /\ conn \in BOOLEAN /\ transport \in BOOLEAN
  /\ ready \in BOOLEAN /\ stop \in BOOLEAN /\ sigterm \in BOOLEAN
  /\ stopping \in BOOLEAN /\ diagnosed \in BOOLEAN /\ known \in BOOLEAN
  /\ discovered \in BOOLEAN /\ refresh \in BOOLEAN /\ detailsOK \in BOOLEAN

\* A failed publication leaves the flags Boolean.
LEMMA FatalFlags ==
  ASSUME Flags, NEW f, Fatal(f)
  PROVE  /\ conn' \in BOOLEAN /\ stop' \in BOOLEAN /\ detailsOK' \in BOOLEAN
         /\ UNCHANGED <<transport, ready, sigterm, stopping, known, discovered,
                        refresh>>
BY Zenon DEF Flags, Fatal

\* So does a SIGTERM that is applied.
LEMMA LifecycleFlags ==
  ASSUME Flags, ApplySigterm \/ UNCHANGED lifecycle
  PROVE  /\ ready' \in BOOLEAN /\ stop' \in BOOLEAN
         /\ sigterm' \in BOOLEAN /\ stopping' \in BOOLEAN
BY DEF Flags, ApplySigterm, lifecycle

\* The flags are Boolean.
LEMMA FlagsStep ==
  ASSUME Flags, [Next]_vars
  PROVE  Flags'
<1> USE DEF broker, session, lifecycle, inbox, unit, shown, MainFrame, Quiet
<1>1. CASE Drop
  BY <1>1 DEF Flags, Drop
<1>2. CASE SlotMoves
  BY <1>2 DEF Flags, SlotMoves
<1>3. CASE CommandAges
  BY <1>3 DEF Flags, CommandAges
<1>4. CASE Sigterm
  BY <1>4 DEF Flags, Sigterm
<1>5. CASE Establish
  BY <1>5 DEF Flags, Establish
<1>6. CASE OnConnect
  BY <1>6 DEF Flags, OnConnect, HoldsStateLock
<1>7. CASE OnRefused
  BY <1>7 DEF Flags, OnRefused, HoldsStateLock, Rejected
<1>8. CASE SubackArrives
  BY <1>8 DEF Flags, SubackArrives
<1>9. CASE OnSubscribe
  BY <1>9 DEF Flags, OnSubscribe, HoldsStateLock, Rejected, Subscribed
<1>10. CASE CommandArrives
  BY <1>10 DEF Flags, CommandArrives
<1>11. CASE OnMessage
  BY <1>11 DEF Flags, OnMessage, HoldsStateLock, Valid
<1>12. CASE NoticeDrop
  BY <1>12 DEF Flags, NoticeDrop
<1>13. CASE OnDisconnect
  BY <1>13 DEF Flags, OnDisconnect, HoldsStateLock
<1>14. CASE DrainQueue
  BY <1>14 DEF Flags, DrainQueue
<1>15. CASE ReleasePa2
  BY <1>15 DEF Flags, ReleasePa2, HoldsPa2Lock
<1>16. CASE Deliver
  BY <1>16 DEF Flags, Deliver
<1>17. CASE Dial
  BY <1>17 DEF Flags, Dial
<1>18. CASE Boot
  BY <1>18 DEF Flags, Boot, ApplySigterm
<1>19. CASE LoopTop
  BY <1>19 DEF Flags, LoopTop, ApplySigterm
<1>20. CASE Dispatch
  BY <1>20 DEF Flags, Dispatch, NextWork
<1>21. CASE Publish
  BY <1>21, FatalFlags DEF Flags, Publish, Fenced
<1>22. CASE PollOpen
  BY <1>22 DEF Flags, PollOpen, Identified, PollFails
<1>23. CASE Announce
  BY <1>23, FatalFlags DEF Flags, Announce, Fenced
<1>24. CASE AwaitAck
  BY <1>24, FatalFlags DEF Flags, AwaitAck, HoldsPa2Lock, HoldsStateLock,
    NetworkWaits, TimeRunsOut, Valid
<1>25. CASE PollRead
  BY <1>25 DEF Flags, PollRead, PollFails
<1>26. CASE Detail
  BY <1>26 DEF Flags, Detail, AfterDetails
<1>27. CASE Told
  BY <1>27 DEF Flags, Told
<1>28. CASE HangUp
  BY <1>28 DEF Flags, HangUp
<1>29. CASE Admit
  BY <1>29 DEF Flags, Admit, Fenced, Stale
<1>30. CASE Authorize
  <2>1. ApplySigterm \/ UNCHANGED lifecycle
    BY <1>30 DEF Authorize
  <2>2. /\ ready' \in BOOLEAN /\ stop' \in BOOLEAN
        /\ sigterm' \in BOOLEAN /\ stopping' \in BOOLEAN
    BY <2>1, LifecycleFlags
  <2> QED
    BY <1>30, <2>2 DEF Flags, Authorize
<1>31. CASE Identify
  BY <1>31 DEF Flags, Identify, ApplySigterm, CommandFails, Identified,
    Unanswered
<1>32. CASE Transact
  <2>1. ApplySigterm \/ UNCHANGED lifecycle
    BY <1>32 DEF Transact, CommandFails, Unanswered
  <2>2. /\ ready' \in BOOLEAN /\ stop' \in BOOLEAN
        /\ sigterm' \in BOOLEAN /\ stopping' \in BOOLEAN
    BY <2>1, LifecycleFlags
  <2> QED
    BY <1>32, <2>2 DEF Flags, Transact, CommandFails, Unanswered
<1>33. CASE Report
  <2>1. ApplySigterm \/ UNCHANGED lifecycle
    BY <1>33 DEF Report, CommandFails, Identified
  <2>2. /\ ready' \in BOOLEAN /\ stop' \in BOOLEAN
        /\ sigterm' \in BOOLEAN /\ stopping' \in BOOLEAN
    BY <2>1, LifecycleFlags
  <2> QED
    BY <1>33, <2>2 DEF Flags, Report, CommandFails, Identified
<1>34. CASE Verdict
  BY <1>34 DEF Flags, Verdict
<1>35. CASE Shut
  BY <1>35 DEF Flags, Shut, LocksAtJoin
<1>36. CASE LastAck
  BY <1>36 DEF Flags, LastAck, HoldsPa2Lock, HoldsStateLock, LocksAtJoin,
    NetworkWaits, SaysGoodbye, TimeRunsOut, Valid
<1>37. CASE Join
  BY <1>37 DEF Flags, Join
<1>38. CASE Exited \/ UNCHANGED vars
  BY <1>38 DEF Flags, Exited, vars
<1> QED
  BY <1>1, <1>2, <1>3, <1>4, <1>5, <1>6, <1>7, <1>8, <1>9, <1>10, <1>11,
    <1>12, <1>13, <1>14, <1>15, <1>16, <1>17, <1>18, <1>19, <1>20, <1>21,
    <1>22, <1>23, <1>24, <1>25, <1>26, <1>27, <1>28, <1>29, <1>30, <1>31,
    <1>32, <1>33, <1>34, <1>35, <1>36, <1>37, <1>38 DEF Next, Main, Starting,
    Polling, Executing, Stopping, Network, Environment, Exited

States ==
  /\ link \in {"down", "up", "broken", "closed"}
  /\ net \in {"idle", "connect", "refuse", "suback", "subfail", "message",
             "disconnect", "drain", "release"}
  /\ failure \in {"none", "refused", "send", "noack"}
  /\ pa2 \in {"closed", "open"}
  /\ epoch \in Nat /\ gen \in Nat

\* The broker, its client and the unit are in states they have.
LEMMA StatesStep ==
  ASSUME States, [Next]_vars
  PROVE  States'
<1> USE DEF Publishing, vars, broker, network, session, lifecycle, inbox,
      main, unit, shown, NetFrame, Callback, MainFrame, Quiet, At, Goto,
      ToLoop, Leave, Running, Spend
<1>1. CASE Drop
  BY <1>1 DEF States, Drop
<1>2. CASE SlotMoves
  BY <1>2 DEF States, SlotMoves
<1>3. CASE CommandAges
  BY <1>3 DEF States, CommandAges
<1>4. CASE Sigterm
  BY <1>4 DEF States, Sigterm
<1>5. CASE Establish
  BY <1>5 DEF States, Establish
<1>6. CASE OnConnect
  BY <1>6 DEF States, OnConnect, HoldsStateLock
<1>7. CASE OnRefused
  BY <1>7 DEF States, OnRefused, HoldsStateLock, Rejected
<1>8. CASE SubackArrives
  BY <1>8 DEF States, SubackArrives
<1>9. CASE OnSubscribe
  BY <1>9 DEF States, OnSubscribe, HoldsStateLock, Rejected, Subscribed
<1>10. CASE CommandArrives
  BY <1>10 DEF States, CommandArrives
<1>11. CASE OnMessage
  BY <1>11 DEF States, OnMessage, HoldsStateLock, Valid
<1>12. CASE NoticeDrop
  BY <1>12 DEF States, NoticeDrop
<1>13. CASE OnDisconnect
  BY <1>13 DEF States, OnDisconnect, HoldsStateLock
<1>14. CASE DrainQueue
  BY <1>14 DEF States, DrainQueue
<1>15. CASE ReleasePa2
  BY <1>15 DEF States, ReleasePa2, HoldsPa2Lock
<1>16. CASE Deliver
  BY <1>16 DEF States, Deliver
<1>17. CASE Dial
  BY <1>17 DEF States, Dial
<1>18. CASE Boot
  BY <1>18 DEF States, Boot, ApplySigterm, BothOffline, DetailsOffline,
    Message, StatusOffline
<1>19. CASE LoopTop
  BY <1>19 DEF States, LoopTop, ApplySigterm
<1>20. CASE Dispatch
  BY <1>20 DEF States, Dispatch, Message, NextWork, Note
<1>21. CASE Publish
  BY <1>21 DEF States, Publish, Fatal, Fenced
<1>22. CASE PollOpen
  BY <1>22 DEF States, PollOpen, BothOffline, DetailsOffline, Identified,
    Message, PollFails, StatusOffline
<1>23. CASE Announce
  BY <1>23 DEF States, Announce, Fatal, Fenced, Message
<1>24. CASE AwaitAck
  BY <1>24 DEF States, AwaitAck, Fatal, HoldsPa2Lock, HoldsStateLock, Message,
    NetworkWaits, TimeRunsOut, Valid
<1>25. CASE PollRead
  BY <1>25 DEF States, PollRead, BothOffline, DetailsOffline, Message,
    PollFails, StatusOffline
<1>26. CASE Detail
  BY <1>26 DEF States, Detail, AfterDetails, DetailsOffline, Message
<1>27. CASE Told
  BY <1>27 DEF States, Told
<1>28. CASE HangUp
  BY <1>28 DEF States, HangUp
<1>29. CASE Admit
  BY <1>29 DEF States, Admit, Fenced, Message, Note, Stale
<1>30. CASE Authorize
  BY <1>30 DEF States, Authorize, ApplySigterm, DetailsOffline, Fenced,
    Message, Note, Stale, StaleWhenLocked
<1>31. CASE Identify
  BY <1>31 DEF States, Identify, ApplySigterm, BothOffline, CommandFails,
    DetailsOffline, Identified, Message, Note, StatusOffline, Unanswered
<1>32. CASE Transact
  BY <1>32 DEF States, Transact, ApplySigterm, BothOffline, CommandFails,
    DetailsOffline, Message, Note, StatusOffline, Unanswered
<1>33. CASE Report
  BY <1>33 DEF States, Report, ApplySigterm, BothOffline, CommandFails,
    DetailsOffline, Identified, Message, Note, StatusOffline
<1>34. CASE Verdict
  BY <1>34 DEF States, Verdict, Message, Note
<1>35. CASE Shut
  BY <1>35 DEF States, Shut, BothOffline, DetailsOffline, LocksAtJoin,
    Message, StatusOffline
<1>36. CASE LastAck
  BY <1>36 DEF States, LastAck, HoldsPa2Lock, HoldsStateLock, LocksAtJoin,
    NetworkWaits, SaysGoodbye, TimeRunsOut, Valid
<1>37. CASE Join
  BY <1>37 DEF States, Join
<1>38. CASE Exited \/ UNCHANGED vars
  BY <1>38 DEF States, Exited
<1> QED
  BY <1>1, <1>2, <1>3, <1>4, <1>5, <1>6, <1>7, <1>8, <1>9, <1>10, <1>11,
    <1>12, <1>13, <1>14, <1>15, <1>16, <1>17, <1>18, <1>19, <1>20, <1>21,
    <1>22, <1>23, <1>24, <1>25, <1>26, <1>27, <1>28, <1>29, <1>30, <1>31,
    <1>32, <1>33, <1>34, <1>35, <1>36, <1>37, <1>38 DEF Next, Main, Starting,
    Polling, Executing, Stopping, Network, Environment, Exited

Cmds == [kind : Kinds \cup {"none"}, target : Slots \cup {NoSlot}, gen : Nat,
         epoch : Nat, old : BOOLEAN]

Commanding ==
  /\ incoming \in Cmds /\ CommandOK(incoming, Kinds)
  /\ queue \in Cmds /\ CommandOK(queue, Accepted)
  /\ cmd \in Cmds /\ CommandOK(cmd, Accepted)

\* The empty command is a command of every kind.
LEMMA NoCommandType ==
  NoCommand \in Cmds /\ CommandOK(NoCommand, Accepted) /\
      CommandOK(NoCommand, Kinds)
BY DEF NoCommand, Cmds, CommandOK, Kinds, Accepted

\* A command that ages stays the command it is.
LEMMA AgedType ==
  ASSUME NEW c \in Cmds, NEW kinds, CommandOK(c, kinds)
  PROVE  /\ [c EXCEPT !.old = TRUE] \in Cmds
         /\ CommandOK([c EXCEPT !.old = TRUE], kinds)
BY DEF Cmds, CommandOK

\* A valid command is queued under a generation.
LEMMA QueuedType ==
  ASSUME NEW c \in Cmds, Valid(c), CommandOK(c, Kinds), NEW g \in Nat
  PROVE  /\ [c EXCEPT !.gen = g] \in Cmds
         /\ CommandOK([c EXCEPT !.gen = g], Accepted)
BY DEF Cmds, CommandOK, Valid

\* Commands are as the topics of the bridge make them.
LEMMA CommandingStep ==
  ASSUME Commanding, States, [Next]_vars
  PROVE  Commanding'
<1> USE DEF Publishing, vars, broker, network, session, lifecycle, inbox,
      main, unit, shown, NetFrame, Callback, MainFrame, Quiet, At, Goto,
      ToLoop, Leave, Running, Spend
<1>1. CASE Drop
  BY <1>1 DEF Commanding, Drop
<1>2. CASE SlotMoves
  BY <1>2 DEF Commanding, SlotMoves
<1>3. CASE CommandAges
  BY <1>3, AgedType DEF Commanding, CommandAges
<1>4. CASE Sigterm
  BY <1>4 DEF Commanding, Sigterm
<1>5. CASE Establish
  BY <1>5 DEF Commanding, Establish
<1>6. CASE OnConnect
  BY <1>6 DEF Commanding, OnConnect, HoldsStateLock
<1>7. CASE OnRefused
  BY <1>7 DEF Commanding, OnRefused, HoldsStateLock, Rejected
<1>8. CASE SubackArrives
  BY <1>8 DEF Commanding, SubackArrives
<1>9. CASE OnSubscribe
  BY <1>9 DEF Commanding, OnSubscribe, HoldsStateLock, Rejected, Subscribed
<1>10. CASE CommandArrives
  <2>1. PICK k \in Commands, s \in Slots :
           incoming' = [kind |-> k,
               target |-> IF k = "preset" THEN s ELSE NoSlot,
                        gen |-> 0, epoch |-> epoch, old |-> FALSE]
    BY <1>10 DEF CommandArrives
  <2>2. k \in Kinds
    BY CommandsAssumption
  <2>3. epoch \in Nat
    BY DEF States
  <2>4. incoming' \in Cmds
    BY <2>1, <2>2, <2>3 DEF Cmds
  <2>5. CommandOK(incoming', Kinds)
    BY <2>1, <2>2, <2>3 DEF CommandOK
  <2> QED
    BY <1>10, <2>4, <2>5 DEF Commanding, CommandArrives
<1>11. CASE OnMessage
  <2>1. gen \in Nat
    BY DEF States
  <2> QED
    BY <1>11, <2>1, NoCommandType, QueuedType DEF Commanding, OnMessage
<1>12. CASE NoticeDrop
  BY <1>12 DEF Commanding, NoticeDrop
<1>13. CASE OnDisconnect
  BY <1>13 DEF Commanding, OnDisconnect, HoldsStateLock
<1>14. CASE DrainQueue
  BY <1>14, NoCommandType DEF Commanding, DrainQueue
<1>15. CASE ReleasePa2
  BY <1>15 DEF Commanding, ReleasePa2, HoldsPa2Lock
<1>16. CASE Deliver
  BY <1>16 DEF Commanding, Deliver
<1>17. CASE Dial
  BY <1>17, NoCommandType DEF Commanding, Dial
<1>18. CASE Boot
  BY <1>18, NoCommandType DEF Commanding, Boot, ApplySigterm, BothOffline,
    DetailsOffline, Message, StatusOffline
<1>19. CASE LoopTop
  BY <1>19, NoCommandType DEF Commanding, LoopTop, ApplySigterm
<1>20. CASE Dispatch
  BY <1>20, NoCommandType DEF Commanding, Dispatch, Message, NextWork, Note
<1>21. CASE Publish
  BY <1>21, NoCommandType DEF Commanding, Publish, Fatal, Fenced
<1>22. CASE PollOpen
  BY <1>22, NoCommandType DEF Commanding, PollOpen, BothOffline,
    DetailsOffline, Identified, Message, PollFails, StatusOffline
<1>23. CASE Announce
  BY <1>23, NoCommandType DEF Commanding, Announce, Fatal, Fenced, Message
<1>24. CASE AwaitAck
  BY <1>24, NoCommandType DEF Commanding, AwaitAck, Fatal, HoldsPa2Lock,
    HoldsStateLock, Message, NetworkWaits, TimeRunsOut, Valid
<1>25. CASE PollRead
  BY <1>25, NoCommandType DEF Commanding, PollRead, BothOffline,
    DetailsOffline, Message, PollFails, StatusOffline
<1>26. CASE Detail
  BY <1>26, NoCommandType DEF Commanding, Detail, AfterDetails,
    DetailsOffline, Message
<1>27. CASE Told
  BY <1>27, NoCommandType DEF Commanding, Told
<1>28. CASE HangUp
  BY <1>28, NoCommandType DEF Commanding, HangUp
<1>29. CASE Admit
  BY <1>29, NoCommandType DEF Commanding, Admit, Fenced, Message, Note, Stale
<1>30. CASE Authorize
  BY <1>30, NoCommandType DEF Commanding, Authorize, ApplySigterm,
    DetailsOffline, Fenced, Message, Note, Stale, StaleWhenLocked
<1>31. CASE Identify
  BY <1>31, NoCommandType DEF Commanding, Identify, ApplySigterm, BothOffline,
    CommandFails, DetailsOffline, Identified, Message, Note, StatusOffline,
    Unanswered
<1>32. CASE Transact
  BY <1>32, NoCommandType DEF Commanding, Transact, ApplySigterm, BothOffline,
    CommandFails, DetailsOffline, Message, Note, StatusOffline, Unanswered
<1>33. CASE Report
  BY <1>33, NoCommandType DEF Commanding, Report, ApplySigterm, BothOffline,
    CommandFails, DetailsOffline, Identified, Message, Note, StatusOffline
<1>34. CASE Verdict
  BY <1>34, NoCommandType DEF Commanding, Verdict, Message, Note
<1>35. CASE Shut
  BY <1>35, NoCommandType DEF Commanding, Shut, BothOffline, DetailsOffline,
    LocksAtJoin, Message, StatusOffline
<1>36. CASE LastAck
  BY <1>36, NoCommandType DEF Commanding, LastAck, HoldsPa2Lock,
    HoldsStateLock, LocksAtJoin, NetworkWaits, SaysGoodbye, TimeRunsOut, Valid
<1>37. CASE Join
  BY <1>37, NoCommandType DEF Commanding, Join
<1>38. CASE Exited \/ UNCHANGED vars
  BY <1>38 DEF Commanding, Exited
<1> QED
  BY <1>1, <1>2, <1>3, <1>4, <1>5, <1>6, <1>7, <1>8, <1>9, <1>10, <1>11,
    <1>12, <1>13, <1>14, <1>15, <1>16, <1>17, <1>18, <1>19, <1>20, <1>21,
    <1>22, <1>23, <1>24, <1>25, <1>26, <1>27, <1>28, <1>29, <1>30, <1>31,
    <1>32, <1>33, <1>34, <1>35, <1>36, <1>37, <1>38 DEF Next, Main, Starting,
    Polling, Executing, Stopping, Network, Environment, Exited

Readings ==
  /\ slot \in Slots
  /\ {obs, lastSlot, crossover} \subseteq Slots \cup {NoSlot}

\* What is read of the unit is one of its slots.
LEMMA ReadingsStep ==
  ASSUME Readings, Commanding, [Next]_vars
  PROVE  Readings'
<1> USE DEF Publishing, vars, broker, network, session, lifecycle, inbox,
      main, unit, shown, NetFrame, Callback, MainFrame, Quiet, At, Goto,
      ToLoop, Leave, Running, Spend, Commanding, CommandOK
<1>1. CASE Drop
  BY <1>1 DEF Readings, Drop
<1>2. CASE SlotMoves
  BY <1>2 DEF Readings, SlotMoves
<1>3. CASE CommandAges
  BY <1>3 DEF Readings, CommandAges
<1>4. CASE Sigterm
  BY <1>4 DEF Readings, Sigterm
<1>5. CASE Establish
  BY <1>5 DEF Readings, Establish
<1>6. CASE OnConnect
  BY <1>6 DEF Readings, OnConnect, HoldsStateLock
<1>7. CASE OnRefused
  BY <1>7 DEF Readings, OnRefused, HoldsStateLock, Rejected
<1>8. CASE SubackArrives
  BY <1>8 DEF Readings, SubackArrives
<1>9. CASE OnSubscribe
  BY <1>9 DEF Readings, OnSubscribe, HoldsStateLock, Rejected, Subscribed
<1>10. CASE CommandArrives
  BY <1>10 DEF Readings, CommandArrives
<1>11. CASE OnMessage
  BY <1>11 DEF Readings, OnMessage, HoldsStateLock, Valid
<1>12. CASE NoticeDrop
  BY <1>12 DEF Readings, NoticeDrop
<1>13. CASE OnDisconnect
  BY <1>13 DEF Readings, OnDisconnect, HoldsStateLock
<1>14. CASE DrainQueue
  BY <1>14 DEF Readings, DrainQueue
<1>15. CASE ReleasePa2
  BY <1>15 DEF Readings, ReleasePa2, HoldsPa2Lock
<1>16. CASE Deliver
  BY <1>16 DEF Readings, Deliver
<1>17. CASE Dial
  BY <1>17 DEF Readings, Dial
<1>18. CASE Boot
  BY <1>18 DEF Readings, Boot, ApplySigterm, BothOffline, DetailsOffline,
    Message, StatusOffline
<1>19. CASE LoopTop
  BY <1>19 DEF Readings, LoopTop, ApplySigterm
<1>20. CASE Dispatch
  BY <1>20 DEF Readings, Dispatch, Message, NextWork, Note
<1>21. CASE Publish
  BY <1>21 DEF Readings, Publish, Fatal, Fenced
<1>22. CASE PollOpen
  BY <1>22 DEF Readings, PollOpen, BothOffline, DetailsOffline, Identified,
    Message, PollFails, StatusOffline
<1>23. CASE Announce
  BY <1>23 DEF Readings, Announce, Fatal, Fenced, Message
<1>24. CASE AwaitAck
  BY <1>24 DEF Readings, AwaitAck, Fatal, HoldsPa2Lock, HoldsStateLock,
    Message, NetworkWaits, TimeRunsOut, Valid
<1>25. CASE PollRead
  BY <1>25 DEF Readings, PollRead, BothOffline, DetailsOffline, Message,
    PollFails, StatusOffline
<1>26. CASE Detail
  BY <1>26 DEF Readings, Detail, AfterDetails, DetailsOffline, Message
<1>27. CASE Told
  BY <1>27 DEF Readings, Told
<1>28. CASE HangUp
  BY <1>28 DEF Readings, HangUp
<1>29. CASE Admit
  BY <1>29 DEF Readings, Admit, Fenced, Message, Note, Stale
<1>30. CASE Authorize
  BY <1>30 DEF Readings, Authorize, ApplySigterm, DetailsOffline, Fenced,
    Message, Note, Stale, StaleWhenLocked
<1>31. CASE Identify
  BY <1>31 DEF Readings, Identify, ApplySigterm, BothOffline, CommandFails,
    DetailsOffline, Identified, Message, Note, StatusOffline, Unanswered
<1>32. CASE Transact
  BY <1>32 DEF Readings, Transact, ApplySigterm, BothOffline, CommandFails,
    DetailsOffline, Message, Note, StatusOffline, Unanswered
<1>33. CASE Report
  BY <1>33 DEF Readings, Report, ApplySigterm, BothOffline, CommandFails,
    DetailsOffline, Identified, Message, Note, StatusOffline
<1>34. CASE Verdict
  BY <1>34 DEF Readings, Verdict, Message, Note
<1>35. CASE Shut
  BY <1>35 DEF Readings, Shut, BothOffline, DetailsOffline, LocksAtJoin,
    Message, StatusOffline
<1>36. CASE LastAck
  BY <1>36 DEF Readings, LastAck, HoldsPa2Lock, HoldsStateLock, LocksAtJoin,
    NetworkWaits, SaysGoodbye, TimeRunsOut, Valid
<1>37. CASE Join
  BY <1>37 DEF Readings, Join
<1>38. CASE Exited \/ UNCHANGED vars
  BY <1>38 DEF Readings, Exited
<1> QED
  BY <1>1, <1>2, <1>3, <1>4, <1>5, <1>6, <1>7, <1>8, <1>9, <1>10, <1>11,
    <1>12, <1>13, <1>14, <1>15, <1>16, <1>17, <1>18, <1>19, <1>20, <1>21,
    <1>22, <1>23, <1>24, <1>25, <1>26, <1>27, <1>28, <1>29, <1>30, <1>31,
    <1>32, <1>33, <1>34, <1>35, <1>36, <1>37, <1>38 DEF Next, Main, Starting,
    Polling, Executing, Stopping, Network, Environment, Exited

-----------------------------------------------------------------------------
(* Publications *)

\* What the bridge publishes.
LEMMA MessageType ==
  /\ \A t \in Topics \cup {"config", "note"}, v \in Values :
       Message(t, v) \in Messages
  /\ "details" \in Topics /\ "core" \in Topics /\ "status" \in Topics
  /\ Message("config", NoSlot) \in Messages
  /\ DetailsOffline \in Messages /\ StatusOffline \in Messages
  /\ Note \in Messages
  /\ Slots \subseteq Values /\ NoSlot \in Values /\ Online \in Values
  /\ Offline \in Values
BY DEF Message, Messages, Values, Topics, DetailsOffline, StatusOffline, Note

Batch(ms) == ms \in Seq(Messages) /\ Len(ms) \in 1 .. 3

\* The sequences of publications the bridge makes at once.
LEMMA BatchType ==
  /\ \A m \in Messages : Batch(<<m>>)
  /\ \A m1 \in Messages, m2 \in Messages : Batch(<<m1, m2>>)
  /\ \A m1 \in Messages, m2 \in Messages, m3 \in Messages :
       Batch(<<m1>> \o <<m2, m3>>)
  /\ Batch(BothOffline)
  /\ Batch(BothOffline \o <<Note>>) /\ Batch(<<>> \o <<Note>>)
BY MessageType DEF BothOffline, Batch

\* A batch has a first message.
LEMMA HeadType ==
  ASSUME NEW ms, Batch(ms)
  PROVE  Head(ms) \in Messages /\ Len(ms) \in Nat /\ ms # <<>>
BY DEF Batch

\* A batch has one to three messages.
LEMMA BatchLength ==
  ASSUME NEW ms, Batch(ms)
  PROVE  Len(ms) \in Nat /\ Len(ms) >= 1 /\ Len(ms) <= 3
<1>1. Len(ms) \in 1 .. 3
  BY Zenon DEF Batch
<1>2. \A n \in 1 .. 3 : n \in Nat /\ n >= 1 /\ n <= 3
  OBVIOUS
<1> QED
  BY <1>1, <1>2

\* What is left of a longer batch is a batch.
LEMMA TailType ==
  ASSUME NEW ms, Batch(ms), Len(ms) > 1
  PROVE  Batch(Tail(ms)) /\ Len(Tail(ms)) = Len(ms) - 1
<1>1. ms \in Seq(Messages) /\ ms # <<>>
  BY HeadType DEF Batch
<1>a. Len(ms) \in 1 .. 3
  BY Zenon DEF Batch
<1>b. Len(ms) \in 2 .. 3
  BY <1>a
<1>c. Tail(ms) \in Seq(Messages) /\ Len(Tail(ms)) = Len(ms) - 1
  BY <1>1
<1> QED
  BY <1>c, <1>b DEF Batch

Handover ==
  /\ pc = "publish" => Batch(todo)
  /\ todo = <<>> \/ Batch(todo)

\* Messages are well formed, and there are at most three at a time.
LEMMA HandoverStep ==
  ASSUME Handover, Commanding, Readings, Course, [Next]_vars
  PROVE  Handover'
<1> USE DEF Publishing, vars, broker, network, session, lifecycle, inbox,
      main, unit, shown, NetFrame, Callback, MainFrame, Quiet, At, Goto,
      ToLoop, Leave, Running, Spend, Readings
<1>1. CASE Environment
  BY <1>1, MainStaysPut DEF Handover
<1>2. CASE Network
  BY <1>2, MainStaysPut DEF Handover
<1>3. CASE Dial
  BY <1>3, MessageType, BatchType DEF Handover, Dial
<1>4. CASE Boot
  BY <1>4, MessageType, BatchType DEF Handover, Boot, ApplySigterm
<1>5. CASE LoopTop
  BY <1>5, MessageType, BatchType DEF Handover, LoopTop, ApplySigterm
<1>6. CASE Dispatch
  BY <1>6, MessageType, BatchType DEF Handover, Dispatch, NextWork
<1>7. CASE Publish
  <2>1. CASE todo' = Tail(todo) /\ Len(todo) > 1 /\ UNCHANGED pc
    BY <1>7, <2>1, TailType DEF Handover, Publish
  <2>2. CASE todo' = <<>> /\ pc' # "publish"
    BY <2>2 DEF Handover
  <2> QED
    BY <1>7, <2>1, <2>2 DEF Publish, Fatal, Fenced, Course
<1>8. CASE PollOpen
  BY <1>8, MessageType, BatchType DEF Handover, PollOpen, Identified,
    PollFails
<1>9. CASE Announce
  BY <1>9, MessageType, BatchType DEF Handover, Announce, Fatal, Fenced
<1>10. CASE AwaitAck
  BY <1>10, MessageType, BatchType DEF Handover, AwaitAck, Fatal,
    HoldsPa2Lock, HoldsStateLock, NetworkWaits, TimeRunsOut, Valid
<1>11. CASE PollRead
  BY <1>11, MessageType, BatchType DEF Handover, PollRead, PollFails
<1>12. CASE Detail
  BY <1>12, MessageType, BatchType DEF Handover, Detail, AfterDetails
<1>13. CASE Told
  BY <1>13, MessageType, BatchType DEF Handover, Told
<1>14. CASE HangUp
  BY <1>14, MessageType, BatchType DEF Handover, HangUp
<1>15. CASE Admit
  BY <1>15, MessageType, BatchType DEF Handover, Admit, Fenced, Stale
<1>16. CASE Authorize
  BY <1>16, MessageType, BatchType DEF Handover, Authorize, ApplySigterm,
    Fenced, Stale, StaleWhenLocked
<1>17. CASE Identify
  BY <1>17, MessageType, BatchType DEF Handover, Identify, ApplySigterm,
    CommandFails, Identified, Unanswered
<1>18. CASE Transact
  BY <1>18, MessageType, BatchType DEF Handover, Transact, ApplySigterm,
    CommandFails, Unanswered
<1>19. CASE Report
  <2>1. obs' \in Slots \cup {NoSlot}
    BY <1>19 DEF Report, Identified, CommandFails, Commanding, CommandOK,
      Readings
  <2> QED
    BY <1>19, <2>1, MessageType, BatchType DEF Handover, Report, Identified,
      CommandFails, ApplySigterm
<1>20. CASE Verdict
  BY <1>20, MessageType, BatchType DEF Handover, Verdict
<1>21. CASE Shut
  BY <1>21, MessageType, BatchType DEF Handover, Shut, LocksAtJoin
<1>22. CASE LastAck
  BY <1>22, MessageType, BatchType DEF Handover, LastAck, HoldsPa2Lock,
    HoldsStateLock, LocksAtJoin, NetworkWaits, SaysGoodbye, TimeRunsOut, Valid
<1>23. CASE Join
  BY <1>23, MessageType, BatchType DEF Handover, Join
<1>24. CASE Exited \/ UNCHANGED vars
  BY <1>24 DEF Handover, Exited
<1> QED
  BY <1>1, <1>2, <1>3, <1>4, <1>5, <1>6, <1>7, <1>8, <1>9, <1>10, <1>11,
    <1>12, <1>13, <1>14, <1>15, <1>16, <1>17, <1>18, <1>19, <1>20, <1>21,
    <1>22, <1>23, <1>24 DEF Next, Main, Starting, Polling, Executing,
    Stopping, Exited

Outgoing == outbox \in Seq(Messages) /\ kept \in [Topics -> Values]

\* So are those in the outbox, and what the broker retains.
LEMMA OutgoingStep ==
  ASSUME Outgoing, Handover, [Next]_vars
  PROVE  Outgoing'
<1> USE DEF Publishing, vars, broker, network, session, lifecycle, inbox,
      main, unit, shown, NetFrame, Callback, MainFrame, Quiet, At, Goto,
      ToLoop, Leave, Running, Spend, Handover
<1>1. CASE Drop
  BY <1>1, MessageType, HeadType DEF Outgoing, Drop
<1>2. CASE SlotMoves
  BY <1>2 DEF Outgoing, SlotMoves
<1>3. CASE CommandAges
  BY <1>3 DEF Outgoing, CommandAges
<1>4. CASE Sigterm
  BY <1>4 DEF Outgoing, Sigterm
<1>5. CASE Establish
  BY <1>5 DEF Outgoing, Establish
<1>6. CASE OnConnect
  BY <1>6 DEF Outgoing, OnConnect, HoldsStateLock
<1>7. CASE OnRefused
  BY <1>7 DEF Outgoing, OnRefused, HoldsStateLock, Rejected
<1>8. CASE SubackArrives
  BY <1>8 DEF Outgoing, SubackArrives
<1>9. CASE OnSubscribe
  BY <1>9 DEF Outgoing, OnSubscribe, HoldsStateLock, Rejected, Subscribed
<1>10. CASE CommandArrives
  BY <1>10 DEF Outgoing, CommandArrives
<1>11. CASE OnMessage
  BY <1>11 DEF Outgoing, OnMessage, HoldsStateLock, Valid
<1>12. CASE NoticeDrop
  BY <1>12 DEF Outgoing, NoticeDrop
<1>13. CASE OnDisconnect
  BY <1>13 DEF Outgoing, OnDisconnect, HoldsStateLock
<1>14. CASE DrainQueue
  BY <1>14 DEF Outgoing, DrainQueue
<1>15. CASE ReleasePa2
  BY <1>15 DEF Outgoing, ReleasePa2, HoldsPa2Lock
<1>16. CASE Deliver
  <2>1. Head(outbox) \in Messages /\ Tail(outbox) \in Seq(Messages)
    BY <1>16 DEF Deliver, Outgoing
  <2>2. Head(outbox).value \in Values
    BY <2>1 DEF Messages
  <2> QED
    BY <1>16, <2>1, <2>2, Zenon DEF Deliver, Outgoing
<1>17. CASE Dial
  BY <1>17 DEF Outgoing, Dial
<1>18. CASE Boot
  BY <1>18 DEF Outgoing, Boot, ApplySigterm
<1>19. CASE LoopTop
  BY <1>19 DEF Outgoing, LoopTop, ApplySigterm
<1>20. CASE Dispatch
  BY <1>20 DEF Outgoing, Dispatch, NextWork
<1>21. CASE Publish
  <2>1. Batch(todo) /\ Head(todo) \in Messages
    BY <1>21, HeadType DEF Publish
  <2>2. UNCHANGED kept /\ outbox' \in {outbox, Append(outbox, Head(todo))}
    BY <1>21 DEF Publish
  <2> QED
    BY <2>1, <2>2 DEF Outgoing
<1>22. CASE PollOpen
  BY <1>22 DEF Outgoing, PollOpen, Identified, PollFails
<1>23. CASE Announce
  <2>1. /\ UNCHANGED kept
        /\ \/ UNCHANGED outbox
           \/ outbox' = Append(outbox, Message("config", NoSlot))
    BY <1>23 DEF Announce
  <2> QED
    BY <2>1, MessageType DEF Outgoing
<1>24. CASE AwaitAck
  BY <1>24, MessageType, HeadType DEF Outgoing, AwaitAck, Fatal, HoldsPa2Lock,
    HoldsStateLock, NetworkWaits, TimeRunsOut, Valid
<1>25. CASE PollRead
  BY <1>25 DEF Outgoing, PollRead, PollFails
<1>26. CASE Detail
  BY <1>26 DEF Outgoing, Detail, AfterDetails
<1>27. CASE Told
  BY <1>27 DEF Outgoing, Told
<1>28. CASE HangUp
  BY <1>28 DEF Outgoing, HangUp
<1>29. CASE Admit
  BY <1>29 DEF Outgoing, Admit, Fenced, Stale
<1>30. CASE Authorize
  BY <1>30 DEF Outgoing, Authorize, ApplySigterm, Fenced, Stale,
    StaleWhenLocked
<1>31. CASE Identify
  BY <1>31 DEF Outgoing, Identify, ApplySigterm, CommandFails, Identified,
    Unanswered
<1>32. CASE Transact
  BY <1>32 DEF Outgoing, Transact, ApplySigterm, CommandFails, Unanswered
<1>33. CASE Report
  BY <1>33 DEF Outgoing, Report, ApplySigterm, CommandFails, Identified
<1>34. CASE Verdict
  BY <1>34 DEF Outgoing, Verdict
<1>35. CASE Shut
  <2>1. BothOffline \in Seq(Messages)
    BY BatchType DEF Batch
  <2>2. outbox \o BothOffline \in Seq(Messages)
    BY <2>1 DEF Outgoing
  <2> QED
    BY <1>35, <2>2 DEF Shut, Outgoing
<1>36. CASE LastAck
  BY <1>36, MessageType, HeadType DEF Outgoing, LastAck, HoldsPa2Lock,
    HoldsStateLock, LocksAtJoin, NetworkWaits, SaysGoodbye, TimeRunsOut, Valid
<1>37. CASE Join
  BY <1>37, MessageType, HeadType DEF Outgoing, Join
<1>38. CASE Exited \/ UNCHANGED vars
  BY <1>38 DEF Outgoing, Exited
<1> QED
  BY <1>1, <1>2, <1>3, <1>4, <1>5, <1>6, <1>7, <1>8, <1>9, <1>10, <1>11,
    <1>12, <1>13, <1>14, <1>15, <1>16, <1>17, <1>18, <1>19, <1>20, <1>21,
    <1>22, <1>23, <1>24, <1>25, <1>26, <1>27, <1>28, <1>29, <1>30, <1>31,
    <1>32, <1>33, <1>34, <1>35, <1>36, <1>37, <1>38 DEF Next, Main, Starting,
    Polling, Executing, Stopping, Network, Environment, Exited

\* The publications that are still to come before the loop goes round.
DueAt(p) ==
  IF p \in {"cmd", "exec", "poll", "read"} THEN 6
  ELSE IF p \in {"identify", "tx", "after"} THEN 5
  ELSE IF p \in {"announce", "detail"} THEN 3
  ELSE IF p \in {"dial", "boot", "ack"} THEN 2
  ELSE IF p \in {"told", "verdict"} THEN 1
  ELSE 0

Due == IF pc = "publish" THEN Len(todo) + DueAt(then) ELSE DueAt(pc)

Ended == pc \in {"lastAck", "join", "exited"}

\* The loop takes up work over an outbox shorter than Backlog, makes at most
\* six publications of it and waits for a seventh; shutdown adds two.
Room ==
  /\ Len(outbox) \in Nat
  /\ Len(outbox) + Due <= Backlog + 7 + (IF Ended THEN 2 ELSE 0)

\* The lengths of what is published at once.
LEMMA Lengths ==
  /\ \A m : Len(<<m>>) = 1
  /\ \A m1, m2 : Len(<<m1, m2>>) = 2
  /\ \A m1 \in Messages, m2 \in Messages, m3 \in Messages :
       Len(<<m1>> \o <<m2, m3>>) = 3
  /\ Len(BothOffline) = 2 /\ Len(BothOffline \o <<Note>>) = 3
  /\ Len(<<>> \o <<Note>>) = 1 /\ Len(<<>>) = 0
BY DEF BothOffline

\* What is due, place by place.
LEMMA DueFacts ==
  /\ \A p \in Places : DueAt(p) \in 0 .. 6
  /\ DueAt("cmd") = 6 /\ DueAt("exec") = 6 /\ DueAt("poll") = 6
  /\ DueAt("read") = 6 /\ DueAt("identify") = 5 /\ DueAt("tx") = 5
  /\ DueAt("after") = 5 /\ DueAt("announce") = 3 /\ DueAt("detail") = 3
  /\ DueAt("dial") = 2 /\ DueAt("boot") = 2 /\ DueAt("ack") = 2
  /\ DueAt("told") = 1 /\ DueAt("verdict") = 1
  /\ DueAt("loop") = 0 /\ DueAt("armed") = 0 /\ DueAt("hangup") = 0
  /\ DueAt("giveup") = 0 /\ DueAt("closing") = 0 /\ DueAt("lastAck") = 0
  /\ DueAt("join") = 0 /\ DueAt("exited") = 0
BY DEF DueAt, Places

\* What is due after a step.
LEMMA DueNext ==
  /\ pc' = "publish" => Due' = Len(todo') + DueAt(then')
  /\ pc' # "publish" => Due' = DueAt(pc')
BY DEF Due

\* The surroundings do not touch the outbox.
LEMMA EnvironmentWrites == Environment => UNCHANGED outbox
BY DEF Environment, Drop, SlotMoves, CommandAges, Sigterm, broker

\* The network thread only delivers from it.
LEMMA NetworkDelivers ==
  ASSUME Network
  PROVE  \/ UNCHANGED outbox
         \/ outbox # <<>> /\ outbox' = Tail(outbox)
<1> USE DEF broker
<1>1. CASE Deliver
  BY <1>1 DEF Deliver
<1>2. CASE \/ Establish \/ OnConnect \/ OnRefused \/ SubackArrives \/
                  OnSubscribe
           \/ CommandArrives \/ OnMessage
           \/ NoticeDrop \/ OnDisconnect \/ DrainQueue \/ ReleasePa2
  BY <1>2 DEF Establish, OnConnect, OnRefused, SubackArrives, OnSubscribe,
    CommandArrives, OnMessage, NoticeDrop, OnDisconnect, DrainQueue, ReleasePa2
<1> QED
  BY <1>1, <1>2 DEF Network

\* The outbox grows and shrinks by the messages added and delivered.
LEMMA OutboxLengths ==
  ASSUME Outgoing
  PROVE  /\ Len(outbox) \in Nat
         /\ \A m \in Messages : Len(Append(outbox, m)) = Len(outbox) + 1
         /\ Len(outbox \o BothOffline) = Len(outbox) + 2
         /\ outbox # <<>> => Len(Tail(outbox)) = Len(outbox) - 1 /\
                Len(outbox) > 0
BY BatchType DEF Outgoing, Batch, BothOffline

\* What is due is a number that covers what is being published.
LEMMA DueType ==
  ASSUME Course, Handover
  PROVE  Due \in 0 .. 9 /\ (pc = "publish" => Due >= Len(todo))
<1>1. pc = "publish" => Len(todo) \in Nat /\ Len(todo) >= 1 /\ Len(todo) <= 3
  BY BatchLength DEF Handover
<1>2. pc = "publish" => DueAt(then) \in 0 .. 6
  BY DueFacts DEF Course, Places
<1>3. DueAt(pc) \in 0 .. 6
  BY DueFacts DEF Course
<1>4. CASE pc = "publish"
  <2>1. Due = Len(todo) + DueAt(then)
    BY <1>4 DEF Due
  <2> QED
    BY <1>1, <1>2, <1>4, <2>1
<1>5. CASE pc # "publish"
  BY <1>3, <1>5 DEF Due
<1> QED
  BY <1>4, <1>5

\* There is room after a step that publishes nothing and has no more to come.
LEMMA RoomStays ==
  ASSUME Room, Course, Handover, Due' \in 0 .. Due,
         Len(outbox') \in Nat, Len(outbox') <= Len(outbox), Ended => Ended'
  PROVE  Room'
<1>1. Due \in Nat /\ Due' \in Nat /\ Due' <= Due
  BY DueType
<1> QED
  BY <1>1, BacklogAssumption DEF Room

\* The outbox stays as short as that.
LEMMA RoomStep ==
  ASSUME Room, Course, Outgoing, Handover, Commanding, Readings, [Next]_vars
  PROVE  Room'
<1> USE DEF Publishing, vars, broker, network, session, lifecycle, inbox,
      main, unit, shown, NetFrame, Callback, MainFrame, Quiet, At, Goto,
      ToLoop, Leave, Running, Spend, Course
<1>1. CASE Environment
  <2>1. Due' = Due /\ (Ended => Ended')
    BY <1>1, MainStaysPut DEF Due, Ended
  <2>2. Len(outbox') \in Nat /\ Len(outbox') <= Len(outbox)
    BY <1>1, EnvironmentWrites, NetworkDelivers, OutboxLengths
  <2> QED
    BY <2>1, <2>2, DueType, RoomStays
<1>2. CASE Network
  <2>1. Due' = Due /\ (Ended => Ended')
    BY <1>2, MainStaysPut DEF Due, Ended
  <2>2. Len(outbox') \in Nat /\ Len(outbox') <= Len(outbox)
    BY <1>2, EnvironmentWrites, NetworkDelivers, OutboxLengths
  <2> QED
    BY <2>1, <2>2, DueType, RoomStays
<1>3. CASE Dial
  BY <1>3, Lengths, DueFacts, OutboxLengths, MessageType, BacklogAssumption DEF
    Room, Due, Ended, Dial
<1>4. CASE Boot
  BY <1>4, Lengths, DueFacts, OutboxLengths, MessageType, BacklogAssumption DEF
    Room, Due, Ended, Boot, ApplySigterm
<1>5. CASE LoopTop
  BY <1>5, Lengths, DueFacts, OutboxLengths, MessageType, BacklogAssumption DEF
    Room, Due, Ended, LoopTop, ApplySigterm
<1>6. CASE Dispatch
  <2>1. UNCHANGED outbox /\ Due = 0
    BY <1>6, DueFacts DEF Dispatch, Due
  <2>2. \/ pc' \in {"closing", "loop"}
        \/ Len(outbox) < Backlog /\ pc' \in {"cmd", "poll"}
        \/ Len(outbox) < Backlog /\ pc' = "publish" /\ then' = "loop" /\
               todo' = <<Note>>
    BY <1>6 DEF Dispatch, NextWork
  <2>3. Due' = 0 \/ (Len(outbox) < Backlog /\ Due' \in 0 .. 6)
    <3>1. CASE pc' \in {"closing", "loop"}
      BY <3>1, DueFacts, DueNext
    <3>2. CASE Len(outbox) < Backlog /\ pc' \in {"cmd", "poll"}
      BY <3>2, DueFacts, DueNext
    <3>3. CASE Len(outbox) < Backlog /\ pc' = "publish" /\
                   then' = "loop" /\ todo' = <<Note>>
      <4>1. Due' = 1
        BY <3>3, DueFacts, DueNext, Lengths
      <4> QED
        BY <3>3, <4>1
    <3> QED
      BY <2>2, <3>1, <3>2, <3>3
  <2>4. ~Ended /\ ~Ended'
    BY <1>6, <2>2 DEF Dispatch, Ended
  <2> QED
    BY <2>1, <2>3, <2>4, OutboxLengths, BacklogAssumption DEF Room
<1>7. CASE Publish
  <2>1. ~Ended /\ ~Ended'
    BY <1>7 DEF Publish, Fatal, Ended, Course
  <2>2. CASE UNCHANGED outbox /\ pc' \in {"loop", "closing"}
    BY <2>1, <2>2, DueFacts, DueType, RoomStays, OutboxLengths DEF Due
  <2>3. CASE /\ outbox' = outbox \/ outbox' = Append(outbox, Head(todo))
             /\ \/ pc' = pc /\ then' = then /\ todo' = Tail(todo) /\
                       Len(todo) > 1
                \/ pc' = then /\ pc' # "publish" /\ ~(Len(todo) > 1)
    <3>1. Len(outbox') \in Nat /\ Len(outbox') <= Len(outbox) + 1
      BY <1>7, <2>3, OutboxLengths, HeadType DEF Publish, Handover
    <3>2. Due' \in 0 .. Due - 1
      <4>1. /\ Len(todo) \in Nat /\ Len(todo) >= 1
            /\ Due = Len(todo) + DueAt(then) /\ DueAt(then) \in 0 .. 6
        BY <1>7, DueFacts, HeadType DEF Publish, Due, Course, Places,
          Handover, Batch
      <4>2. CASE pc' = pc /\ then' = then /\ todo' = Tail(todo) /\
                     Len(todo) > 1
        <5>1. Due' = Len(Tail(todo)) + DueAt(then) /\
                  Len(Tail(todo)) = Len(todo) - 1
          BY <1>7, <4>2, TailType DEF Publish, Handover, Due
        <5> QED
          BY <4>1, <4>2, <5>1
      <4>3. CASE pc' = then /\ pc' # "publish" /\ ~(Len(todo) > 1)
        <5>1. Due' = DueAt(then)
          BY <4>3, DueNext
        <5> QED
          BY <4>1, <5>1
      <4> QED
        BY <2>3, <4>2, <4>3
    <3>3. Due \in 0 .. 9
      BY DueType
    <3> QED
      BY <2>1, <3>1, <3>2, <3>3, OutboxLengths, BacklogAssumption DEF Room
  <2> QED
    BY <1>7, <2>2, <2>3 DEF Publish, Fatal, Course
<1>8. CASE PollOpen
  BY <1>8, Lengths, DueFacts, OutboxLengths, MessageType, BacklogAssumption DEF
    Room, Due, Ended, PollOpen, Identified, PollFails
<1>9. CASE Announce
  BY <1>9, Lengths, DueFacts, OutboxLengths, MessageType, BacklogAssumption DEF
    Room, Due, Ended, Announce, Fatal, Fenced
<1>10. CASE AwaitAck
  <2>1. UNCHANGED outbox /\ ~Ended /\ ~Ended' /\ Due = 2
    BY <1>10, DueFacts DEF AwaitAck, Fatal, Ended, Due
  <2>2. CASE outbox = <<>>
    <3>1. \/ pc' = "read" \/ pc' \in {"loop", "closing"}
          \/ pc' = "publish" /\ then' = "told" /\ \E m : todo' = <<m>>
      BY <1>10, <2>2 DEF AwaitAck, Fatal
    <3>2. CASE pc' = "publish" /\ then' = "told" /\ \E m : todo' = <<m>>
      <4>1. Due' = Len(todo') + DueAt(then') /\ Len(todo') = 1
        BY <3>2, DueNext
      <4> QED
        BY <2>1, <2>2, <3>2, <4>1, DueFacts, BacklogAssumption DEF Room
    <3>4. CASE pc' \in {"read", "loop", "closing"}
      <4>1. Due' \in 0 .. 6
        BY <3>4, DueNext, DueFacts
      <4>2. Len(outbox') \in Nat /\ Len(outbox') <= 0 /\ ~Ended'
        BY <2>1, <2>2
      <4> QED
        BY <4>1, <4>2, BacklogAssumption DEF Room
    <3> QED
      BY <3>1, <3>2, <3>4
  <2>3. CASE outbox # <<>>
    <3>1. pc' \in {"loop", "closing"}
      BY <1>10, <2>3 DEF AwaitAck, Fatal
    <3>2. Due' = 0
      BY <3>1, DueFacts DEF Due
    <3> QED
      BY <2>1, <3>2, RoomStays, OutboxLengths
  <2> QED
    BY <2>2, <2>3
<1>11. CASE PollRead
  <2>1. UNCHANGED outbox /\ ~Ended
    BY <1>11 DEF Ended, PollRead
  <2>2. Due = 6
    BY <1>11, DueFacts DEF Due, PollRead
  <2>3. \/ pc' = "publish" /\ then' \in {"hangup", "giveup"}
             /\ todo' = BothOffline
        \/ pc' = "publish" /\ then' \in {"detail", "loop"}
             /\ todo' = <<DetailsOffline>> \o <<Message("core", slot),
                    Message("status", Online)>>
        \/ pc' = "publish" /\ then' \in {"detail", "loop"}
             /\ todo' = <<Message("core", slot), Message("status", Online)>>
    BY <1>11 DEF PollRead, PollFails
  <2>4. Due' \in 0 .. Due
    <3>1. CASE pc' = "publish" /\ then' \in {"hangup", "giveup"}
               /\ todo' = BothOffline
      <4>1. Due' = Len(todo') + DueAt(then')
        BY <3>1, DueNext
      <4> QED
        BY <2>2, <3>1, <4>1, Lengths, DueFacts
    <3>2. CASE pc' = "publish" /\ then' \in {"detail", "loop"}
               /\ todo' = <<DetailsOffline>> \o <<Message("core", slot),
                      Message("status", Online)>>
      <4>1. Due' = Len(todo') + DueAt(then')
        BY <3>2, DueNext
      <4> QED
        BY <2>2, <3>2, <4>1, Lengths, DueFacts, MessageType DEF Readings
    <3>3. CASE pc' = "publish" /\ then' \in {"detail", "loop"}
               /\ todo' = <<Message("core", slot), Message("status", Online)>>
      <4>1. Due' = Len(todo') + DueAt(then')
        BY <3>3, DueNext
      <4> QED
        BY <2>2, <3>3, <4>1, Lengths, DueFacts, MessageType DEF Readings
    <3> QED
      BY <2>3, <3>1, <3>2, <3>3
  <2> QED
    BY <2>1, <2>4, RoomStays, OutboxLengths
<1>12. CASE Detail
  <2>1. UNCHANGED outbox /\ ~Ended
    BY <1>12 DEF Ended, Detail
  <2>2. Due = 3
    BY <1>12, DueFacts DEF Due, Detail
  <2>3. \/ pc' \in {"loop", "verdict", "announce"}
        \/ pc' = "publish" /\ then' \in {"loop", "verdict", "told"}
             /\ \E m : todo' = <<m>>
    BY <1>12 DEF Detail, AfterDetails
  <2>4. Due' \in 0 .. Due
    <3>1. CASE pc' \in {"loop", "verdict", "announce"}
      BY <2>2, <3>1, DueNext, DueFacts
    <3>2. CASE pc' = "publish" /\ then' \in {"loop", "verdict", "told"}
               /\ \E m : todo' = <<m>>
      <4>1. Due' = Len(todo') + DueAt(then')
        BY <3>2, DueNext
      <4> QED
        BY <2>2, <3>2, <4>1, Lengths, DueFacts
    <3> QED
      BY <2>3, <3>1, <3>2
  <2> QED
    BY <2>1, <2>4, RoomStays, OutboxLengths
<1>13. CASE Told
  BY <1>13, Lengths, DueFacts, OutboxLengths, MessageType,
    BacklogAssumption DEF
    Room, Due, Ended, Told
<1>14. CASE HangUp
  BY <1>14, Lengths, DueFacts, OutboxLengths, MessageType,
    BacklogAssumption DEF
    Room, Due, Ended, HangUp
<1>15. CASE Admit
  <2>1. UNCHANGED outbox /\ ~Ended
    BY <1>15 DEF Ended, Admit
  <2>2. Due = 6
    BY <1>15, DueFacts DEF Due, Admit
  <2>3. \/ pc' \in {"loop", "exec"}
        \/ pc' = "publish" /\ then' = "loop" /\ todo' = <<Note>>
    BY <1>15 DEF Admit, Fenced, Stale
  <2>4. Due' \in 0 .. Due
    <3>1. CASE pc' \in {"loop", "exec"}
      BY <2>2, <3>1, DueNext, DueFacts
    <3>2. CASE pc' = "publish" /\ then' = "loop" /\ todo' = <<Note>>
      <4>1. Due' = Len(todo') + DueAt(then')
        BY <3>2, DueNext
      <4> QED
        BY <2>2, <3>2, <4>1, Lengths, DueFacts
    <3> QED
      BY <2>3, <3>1, <3>2
  <2> QED
    BY <2>1, <2>4, RoomStays, OutboxLengths
<1>16. CASE Authorize
  <2>1. UNCHANGED outbox /\ ~Ended
    BY <1>16 DEF Ended, Authorize
  <2>2. Due = 6
    BY <1>16, DueFacts DEF Due, Authorize
  <2>3. \/ pc' \in {"loop", "tx"}
        \/ pc' = "publish" /\ then' = "loop" /\ todo' = <<Note>>
        \/ pc' = "publish" /\ then' = "identify" /\ todo' = <<DetailsOffline>>
    BY <1>16 DEF Authorize, ApplySigterm, Fenced, Stale, StaleWhenLocked
  <2>4. Due' \in 0 .. Due
    <3>1. CASE pc' \in {"loop", "tx"}
      BY <2>2, <3>1, DueNext, DueFacts
    <3>2. CASE pc' = "publish" /\ then' = "loop" /\ todo' = <<Note>>
      <4>1. Due' = Len(todo') + DueAt(then')
        BY <3>2, DueNext
      <4> QED
        BY <2>2, <3>2, <4>1, Lengths, DueFacts
    <3>3. CASE pc' = "publish" /\ then' = "identify" /\
                   todo' = <<DetailsOffline>>
      <4>1. Due' = Len(todo') + DueAt(then')
        BY <3>3, DueNext
      <4> QED
        BY <2>2, <3>3, <4>1, Lengths, DueFacts
    <3> QED
      BY <2>3, <3>1, <3>2, <3>3
  <2> QED
    BY <2>1, <2>4, RoomStays, OutboxLengths
<1>17. CASE Identify
  <2>1. UNCHANGED outbox /\ ~Ended
    BY <1>17 DEF Ended, Identify
  <2>2. Due = 5
    BY <1>17, DueFacts DEF Due, Identify
  <2>3. \/ pc' \in {"loop", "tx"}
        \/ pc' = "publish" /\ then' = "loop" /\ todo' = BothOffline \o <<Note>>
        \/ pc' = "publish" /\ then' = "loop" /\ todo' = <<>> \o <<Note>>
    BY <1>17 DEF Identify, ApplySigterm, CommandFails, Identified, Unanswered
  <2>4. Due' \in 0 .. Due
    <3>1. CASE pc' \in {"loop", "tx"}
      BY <2>2, <3>1, DueNext, DueFacts
    <3>2. CASE pc' = "publish" /\ then' = "loop" /\
                   todo' = BothOffline \o <<Note>>
      <4>1. Due' = Len(todo') + DueAt(then')
        BY <3>2, DueNext
      <4> QED
        BY <2>2, <3>2, <4>1, Lengths, DueFacts
    <3>3. CASE pc' = "publish" /\ then' = "loop" /\ todo' = <<>> \o <<Note>>
      <4>1. Due' = Len(todo') + DueAt(then')
        BY <3>3, DueNext
      <4> QED
        BY <2>2, <3>3, <4>1, Lengths, DueFacts
    <3> QED
      BY <2>3, <3>1, <3>2, <3>3
  <2> QED
    BY <2>1, <2>4, RoomStays, OutboxLengths
<1>18. CASE Transact
  <2>1. UNCHANGED outbox /\ ~Ended
    BY <1>18 DEF Ended, Transact
  <2>2. Due = 5
    BY <1>18, DueFacts DEF Due, Transact
  <2>3. \/ pc' \in {"loop", "after"}
        \/ pc' = "publish" /\ then' = "loop" /\ todo' = BothOffline \o <<Note>>
        \/ pc' = "publish" /\ then' = "loop" /\ todo' = <<>> \o <<Note>>
    BY <1>18 DEF Transact, ApplySigterm, CommandFails, Unanswered
  <2>4. Due' \in 0 .. Due
    <3>1. CASE pc' \in {"loop", "after"}
      BY <2>2, <3>1, DueNext, DueFacts
    <3>2. CASE pc' = "publish" /\ then' = "loop" /\
                   todo' = BothOffline \o <<Note>>
      <4>1. Due' = Len(todo') + DueAt(then')
        BY <3>2, DueNext
      <4> QED
        BY <2>2, <3>2, <4>1, Lengths, DueFacts
    <3>3. CASE pc' = "publish" /\ then' = "loop" /\ todo' = <<>> \o <<Note>>
      <4>1. Due' = Len(todo') + DueAt(then')
        BY <3>3, DueNext
      <4> QED
        BY <2>2, <3>3, <4>1, Lengths, DueFacts
    <3> QED
      BY <2>3, <3>1, <3>2, <3>3
  <2> QED
    BY <2>1, <2>4, RoomStays, OutboxLengths
<1>19. CASE Report
  BY <1>19, Lengths, DueFacts, OutboxLengths, MessageType,
    BacklogAssumption DEF
    Room, Due, Ended, Report, ApplySigterm, CommandFails, Identified
<1>20. CASE Verdict
  BY <1>20, Lengths, DueFacts, OutboxLengths, MessageType,
    BacklogAssumption DEF
    Room, Due, Ended, Verdict
<1>21. CASE Shut
  BY <1>21, Lengths, DueFacts, OutboxLengths, MessageType,
    BacklogAssumption DEF
    Room, Due, Ended, Shut, LocksAtJoin
<1>22. CASE LastAck
  BY <1>22, Lengths, DueFacts, OutboxLengths, MessageType,
    BacklogAssumption DEF
    Room, Due, Ended, LastAck, HoldsPa2Lock, HoldsStateLock, LocksAtJoin,
    NetworkWaits, SaysGoodbye, TimeRunsOut, Valid
<1>23. CASE Join
  BY <1>23, Lengths, DueFacts, OutboxLengths, MessageType,
    BacklogAssumption DEF
    Room, Due, Ended, Join
<1>24. CASE Exited \/ UNCHANGED vars
  BY <1>24 DEF Room, Exited, Due, Ended
<1> QED
  BY <1>1, <1>2, <1>3, <1>4, <1>5, <1>6, <1>7, <1>8, <1>9, <1>10, <1>11,
    <1>12, <1>13, <1>14, <1>15, <1>16, <1>17, <1>18, <1>19, <1>20, <1>21,
    <1>22, <1>23, <1>24 DEF Next, Main, Starting, Polling, Executing,
    Stopping, Exited

-----------------------------------------------------------------------------
(* The broker session *)

\* What the callback in progress says of the connection and of conn.
Wiring ==
  /\ net \in {"connect", "suback", "subfail", "message"} => link # "down"
  /\ net = "disconnect" => link = "down"
  /\ conn => link # "down" \/ net = "disconnect"
  /\ net \in {"connect", "refuse", "drain", "release"} => ~conn
  /\ net \in {"suback", "subfail"} => subDue
  /\ subDue => ~conn

\* A session begins with a subscription and ends with its connection.
LEMMA WiringStep ==
  ASSUME Wiring, Flags, [Next]_vars
  PROVE  Wiring'
<1> USE DEF Publishing, vars, broker, network, session, lifecycle, inbox,
      main, unit, shown, NetFrame, Callback, MainFrame, Quiet, At, Goto,
      ToLoop, Leave, Running, Spend, Flags
<1>1. CASE Drop
  BY <1>1 DEF Wiring, Drop
<1>2. CASE SlotMoves
  BY <1>2 DEF Wiring, SlotMoves
<1>3. CASE CommandAges
  BY <1>3 DEF Wiring, CommandAges
<1>4. CASE Sigterm
  BY <1>4 DEF Wiring, Sigterm
<1>5. CASE Establish
  BY <1>5 DEF Wiring, Establish
<1>6. CASE OnConnect
  BY <1>6 DEF Wiring, OnConnect, HoldsStateLock
<1>7. CASE OnRefused
  BY <1>7 DEF Wiring, OnRefused, HoldsStateLock, Rejected
<1>8. CASE SubackArrives
  BY <1>8 DEF Wiring, SubackArrives
<1>9. CASE OnSubscribe
  BY <1>9 DEF Wiring, OnSubscribe, HoldsStateLock, Rejected, Subscribed
<1>10. CASE CommandArrives
  BY <1>10 DEF Wiring, CommandArrives
<1>11. CASE OnMessage
  BY <1>11 DEF Wiring, OnMessage, HoldsStateLock, Valid
<1>12. CASE NoticeDrop
  BY <1>12 DEF Wiring, NoticeDrop
<1>13. CASE OnDisconnect
  BY <1>13 DEF Wiring, OnDisconnect, HoldsStateLock
<1>14. CASE DrainQueue
  BY <1>14 DEF Wiring, DrainQueue
<1>15. CASE ReleasePa2
  BY <1>15 DEF Wiring, ReleasePa2, HoldsPa2Lock
<1>16. CASE Deliver
  BY <1>16 DEF Wiring, Deliver
<1>17. CASE Dial
  BY <1>17 DEF Wiring, Dial
<1>18. CASE Boot
  BY <1>18 DEF Wiring, Boot, ApplySigterm
<1>19. CASE LoopTop
  BY <1>19 DEF Wiring, LoopTop, ApplySigterm
<1>20. CASE Dispatch
  BY <1>20 DEF Wiring, Dispatch, NextWork
<1>21. CASE Publish
  BY <1>21 DEF Wiring, Publish, Fatal, Fenced
<1>22. CASE PollOpen
  BY <1>22 DEF Wiring, PollOpen, Identified, PollFails
<1>23. CASE Announce
  BY <1>23 DEF Wiring, Announce, Fatal, Fenced
<1>24. CASE AwaitAck
  BY <1>24 DEF Wiring, AwaitAck, Fatal, HoldsPa2Lock, HoldsStateLock,
    NetworkWaits, TimeRunsOut, Valid
<1>25. CASE PollRead
  BY <1>25 DEF Wiring, PollRead, PollFails
<1>26. CASE Detail
  BY <1>26 DEF Wiring, Detail, AfterDetails
<1>27. CASE Told
  BY <1>27 DEF Wiring, Told
<1>28. CASE HangUp
  BY <1>28 DEF Wiring, HangUp
<1>29. CASE Admit
  BY <1>29 DEF Wiring, Admit, Fenced, Stale
<1>30. CASE Authorize
  BY <1>30 DEF Wiring, Authorize, ApplySigterm, Fenced, Stale, StaleWhenLocked
<1>31. CASE Identify
  BY <1>31 DEF Wiring, Identify, ApplySigterm, CommandFails, Identified,
    Unanswered
<1>32. CASE Transact
  BY <1>32 DEF Wiring, Transact, ApplySigterm, CommandFails, Unanswered
<1>33. CASE Report
  BY <1>33 DEF Wiring, Report, ApplySigterm, CommandFails, Identified
<1>34. CASE Verdict
  BY <1>34 DEF Wiring, Verdict
<1>35. CASE Shut
  BY <1>35 DEF Wiring, Shut, LocksAtJoin
<1>36. CASE LastAck
  BY <1>36 DEF Wiring, LastAck, HoldsPa2Lock, HoldsStateLock, LocksAtJoin,
    NetworkWaits, SaysGoodbye, TimeRunsOut, Valid
<1>37. CASE Join
  BY <1>37 DEF Wiring, Join
<1>38. CASE Exited \/ UNCHANGED vars
  BY <1>38 DEF Wiring, Exited
<1> QED
  BY <1>1, <1>2, <1>3, <1>4, <1>5, <1>6, <1>7, <1>8, <1>9, <1>10, <1>11,
    <1>12, <1>13, <1>14, <1>15, <1>16, <1>17, <1>18, <1>19, <1>20, <1>21,
    <1>22, <1>23, <1>24, <1>25, <1>26, <1>27, <1>28, <1>29, <1>30, <1>31,
    <1>32, <1>33, <1>34, <1>35, <1>36, <1>37, <1>38 DEF Next, Main, Starting,
    Polling, Executing, Stopping, Network, Environment, Exited

\* A command of the current generation belongs to the current connection.
Current(c) ==
  c.kind # "none" =>
    /\ c.gen <= gen
    /\ c.gen = gen => c.epoch = epoch /\ (link # "down" \/ net = "disconnect")

Origins ==
  /\ net = "message" => incoming.epoch = epoch
  /\ Current(queue) /\ Current(cmd)

\* The empty command has no session.
LEMMA NoCommandIsNone == NoCommand.kind = "none"
BY DEF NoCommand

\* A command is of an earlier generation than the next.
LEMMA Outdated ==
  ASSUME NEW c \in Cmds, Current(c), gen \in Nat
  PROVE  c.kind # "none" => c.gen <= gen + 1 /\ c.gen # gen + 1
BY DEF Current, Cmds

\* Commands keep the session they came in.
LEMMA OriginsStep ==
  ASSUME Origins, States, Commanding, Wiring, [Next]_vars
  PROVE  Origins'
<1> USE DEF Publishing, vars, broker, network, session, lifecycle, inbox,
      main, unit, shown, NetFrame, Callback, MainFrame, Quiet, At, Goto,
      ToLoop, Leave, Running, Spend, Current, States, Wiring
<1>1. CASE Drop
  BY <1>1 DEF Origins, Drop
<1>2. CASE SlotMoves
  BY <1>2 DEF Origins, SlotMoves
<1>3. CASE CommandAges
  <2>1. \A c \in Cmds : /\ [c EXCEPT !.old = TRUE].kind = c.kind
                       /\ [c EXCEPT !.old = TRUE].gen = c.gen
                       /\ [c EXCEPT !.old = TRUE].epoch = c.epoch
    BY DEF Cmds
  <2>2. UNCHANGED <<gen, epoch, link, net, incoming>>
    BY <1>3 DEF CommandAges
  <2>3. /\ queue'.kind = queue.kind /\ queue'.gen = queue.gen /\
               queue'.epoch = queue.epoch
        /\ cmd'.kind = cmd.kind /\ cmd'.gen = cmd.gen /\ cmd'.epoch = cmd.epoch
    BY <1>3, <2>1 DEF CommandAges, Commanding
  <2> QED
    BY <2>2, <2>3 DEF Origins, Current
<1>4. CASE Sigterm
  BY <1>4 DEF Origins, Sigterm
<1>5. CASE Establish
  BY <1>5 DEF Origins, Establish
<1>6. CASE OnConnect
  BY <1>6 DEF Origins, OnConnect, HoldsStateLock
<1>7. CASE OnRefused
  BY <1>7 DEF Origins, OnRefused, HoldsStateLock, Rejected
<1>8. CASE SubackArrives
  BY <1>8 DEF Origins, SubackArrives
<1>9. CASE OnSubscribe
  BY <1>9 DEF Origins, OnSubscribe, HoldsStateLock, Rejected, Subscribed
<1>10. CASE CommandArrives
  BY <1>10 DEF Origins, CommandArrives
<1>11. CASE OnMessage
  <2>1. \A c \in Cmds : [c EXCEPT !.gen = gen].epoch = c.epoch /\
            [c EXCEPT !.gen = gen].gen = gen
    BY DEF Cmds
  <2>2. UNCHANGED <<gen, epoch, link, cmd>> /\ net = "message" /\ net' = "idle"
    BY <1>11 DEF OnMessage
  <2>3. link # "down" /\ gen \in Nat
    BY <2>2 DEF Wiring, States
  <2>4. queue' = queue \/ queue' = [incoming EXCEPT !.gen = gen]
    BY <1>11 DEF OnMessage
  <2>5. incoming.epoch = epoch
    BY <2>2 DEF Origins
  <2>6. Current(queue)'
    <3>1. CASE queue' = queue
      BY <2>2, <2>3, <3>1 DEF Origins
    <3>2. CASE queue' = [incoming EXCEPT !.gen = gen]
      <4>1. queue'.gen = gen /\ queue'.epoch = epoch
        BY <2>1, <2>5, <3>2 DEF Commanding
      <4> QED
        BY <2>2, <2>3, <4>1
    <3> QED
      BY <2>4, <3>1, <3>2
  <2>7. Current(cmd)'
    BY <2>2, <2>3 DEF Current, Origins
  <2> QED
    BY <2>2, <2>6, <2>7 DEF Origins
<1>12. CASE NoticeDrop
  BY <1>12 DEF Origins, NoticeDrop
<1>13. CASE OnDisconnect
  <2>1. gen' = gen + 1 /\ UNCHANGED <<queue, cmd, epoch>> /\ net' # "message"
    BY <1>13 DEF OnDisconnect
  <2> QED
    BY <2>1, Outdated DEF Origins, Commanding
<1>14. CASE DrainQueue
  BY <1>14, NoCommandIsNone DEF Origins, DrainQueue
<1>15. CASE ReleasePa2
  BY <1>15 DEF Origins, ReleasePa2, HoldsPa2Lock
<1>16. CASE Deliver
  BY <1>16 DEF Origins, Deliver
<1>17. CASE Dial
  BY <1>17, NoCommandIsNone DEF Origins, Dial
<1>18. CASE Boot
  BY <1>18, NoCommandIsNone DEF Origins, Boot, ApplySigterm
<1>19. CASE LoopTop
  BY <1>19, NoCommandIsNone DEF Origins, LoopTop, ApplySigterm
<1>20. CASE Dispatch
  BY <1>20, NoCommandIsNone DEF Origins, Dispatch, NextWork
<1>21. CASE Publish
  <2>1. UNCHANGED <<net, incoming, epoch, link, queue>> /\
            (UNCHANGED cmd \/ cmd' = NoCommand)
    BY <1>21 DEF Publish, Fatal, Fenced
  <2>2. gen' = gen \/ gen' = gen + 1
    BY <1>21 DEF Publish, Fatal, Fenced
  <2> QED
    BY <2>1, <2>2, Outdated, NoCommandIsNone DEF Origins, Commanding
<1>22. CASE PollOpen
  BY <1>22, NoCommandIsNone DEF Origins, PollOpen, Identified, PollFails
<1>23. CASE Announce
  <2>1. UNCHANGED <<net, incoming, epoch, link, queue>> /\
            (UNCHANGED cmd \/ cmd' = NoCommand)
    BY <1>23 DEF Announce, Fatal, Fenced
  <2>2. gen' = gen \/ gen' = gen + 1
    BY <1>23 DEF Announce, Fatal, Fenced
  <2> QED
    BY <2>1, <2>2, Outdated, NoCommandIsNone DEF Origins, Commanding
<1>24. CASE AwaitAck
  BY <1>24, NoCommandIsNone DEF Origins, AwaitAck, Fatal, HoldsPa2Lock,
    HoldsStateLock, NetworkWaits, TimeRunsOut, Valid
<1>25. CASE PollRead
  BY <1>25, NoCommandIsNone DEF Origins, PollRead, PollFails
<1>26. CASE Detail
  BY <1>26, NoCommandIsNone DEF Origins, Detail, AfterDetails
<1>27. CASE Told
  BY <1>27, NoCommandIsNone DEF Origins, Told
<1>28. CASE HangUp
  BY <1>28, NoCommandIsNone DEF Origins, HangUp
<1>29. CASE Admit
  BY <1>29, NoCommandIsNone DEF Origins, Admit, Fenced, Stale
<1>30. CASE Authorize
  BY <1>30, NoCommandIsNone DEF Origins, Authorize, ApplySigterm, Fenced,
    Stale, StaleWhenLocked
<1>31. CASE Identify
  BY <1>31, NoCommandIsNone DEF Origins, Identify, ApplySigterm, CommandFails,
    Identified, Unanswered
<1>32. CASE Transact
  BY <1>32, NoCommandIsNone DEF Origins, Transact, ApplySigterm, CommandFails,
    Unanswered
<1>33. CASE Report
  BY <1>33, NoCommandIsNone DEF Origins, Report, ApplySigterm, CommandFails,
    Identified
<1>34. CASE Verdict
  BY <1>34, NoCommandIsNone DEF Origins, Verdict
<1>35. CASE Shut
  BY <1>35, NoCommandIsNone DEF Origins, Shut, LocksAtJoin
<1>36. CASE LastAck
  BY <1>36, NoCommandIsNone DEF Origins, LastAck, HoldsPa2Lock,
    HoldsStateLock, LocksAtJoin, NetworkWaits, SaysGoodbye, TimeRunsOut, Valid
<1>37. CASE Join
  BY <1>37, NoCommandIsNone DEF Origins, Join
<1>38. CASE Exited \/ UNCHANGED vars
  BY <1>38 DEF Origins, Exited
<1> QED
  BY <1>1, <1>2, <1>3, <1>4, <1>5, <1>6, <1>7, <1>8, <1>9, <1>10, <1>11,
    <1>12, <1>13, <1>14, <1>15, <1>16, <1>17, <1>18, <1>19, <1>20, <1>21,
    <1>22, <1>23, <1>24, <1>25, <1>26, <1>27, <1>28, <1>29, <1>30, <1>31,
    <1>32, <1>33, <1>34, <1>35, <1>36, <1>37, <1>38 DEF Next, Main, Starting,
    Polling, Executing, Stopping, Network, Environment, Exited

\* While a command is executed nothing happens to its session: the callbacks
\* that could change it wait for the broker-state lock.
InSession ==
  /\ job = "exec" =>
       conn /\ failure = "none" /\ cmd.gen = gen /\ cmd.kind # "none"
  /\ pc \in {"cmd", "exec"} => cmd.kind # "none"

\* So a command in execution is of the session there is.
LEMMA InSessionStep ==
  ASSUME InSession, Course, Commanding, [Next]_vars
  PROVE  InSession'
<1> USE DEF Publishing, vars, broker, network, session, lifecycle, inbox,
      main, unit, shown, NetFrame, Callback, MainFrame, Quiet, At, Goto,
      ToLoop, Leave, Running, Spend, Course
<1>1. CASE Drop
  BY <1>1 DEF InSession, Drop
<1>2. CASE SlotMoves
  BY <1>2 DEF InSession, SlotMoves
<1>3. CASE CommandAges
  <2>1. \A c \in Cmds : /\ [c EXCEPT !.old = TRUE].kind = c.kind
                       /\ [c EXCEPT !.old = TRUE].gen = c.gen
    BY DEF Cmds
  <2> QED
    BY <1>3, <2>1 DEF InSession, CommandAges, Commanding
<1>4. CASE Sigterm
  BY <1>4 DEF InSession, Sigterm
<1>5. CASE Establish
  BY <1>5 DEF InSession, Establish
<1>6. CASE OnConnect
  BY <1>6 DEF InSession, OnConnect, HoldsStateLock
<1>7. CASE OnRefused
  BY <1>7 DEF InSession, OnRefused, HoldsStateLock, Rejected
<1>8. CASE SubackArrives
  BY <1>8 DEF InSession, SubackArrives
<1>9. CASE OnSubscribe
  BY <1>9 DEF InSession, OnSubscribe, HoldsStateLock, Rejected, Subscribed
<1>10. CASE CommandArrives
  BY <1>10 DEF InSession, CommandArrives
<1>11. CASE OnMessage
  BY <1>11 DEF InSession, OnMessage, HoldsStateLock, Valid
<1>12. CASE NoticeDrop
  BY <1>12 DEF InSession, NoticeDrop
<1>13. CASE OnDisconnect
  BY <1>13 DEF InSession, OnDisconnect, HoldsStateLock
<1>14. CASE DrainQueue
  BY <1>14 DEF InSession, DrainQueue
<1>15. CASE ReleasePa2
  BY <1>15 DEF InSession, ReleasePa2, HoldsPa2Lock
<1>16. CASE Deliver
  BY <1>16 DEF InSession, Deliver
<1>17. CASE Dial
  BY <1>17 DEF InSession, Dial
<1>18. CASE Boot
  BY <1>18 DEF InSession, Boot, ApplySigterm
<1>19. CASE LoopTop
  BY <1>19 DEF InSession, LoopTop, ApplySigterm
<1>20. CASE Dispatch
  BY <1>20 DEF InSession, Dispatch, NextWork
<1>21. CASE Publish
  BY <1>21 DEF InSession, Publish, Fatal, Fenced
<1>22. CASE PollOpen
  BY <1>22 DEF InSession, PollOpen, Identified, PollFails
<1>23. CASE Announce
  BY <1>23 DEF InSession, Announce, Fatal, Fenced
<1>24. CASE AwaitAck
  BY <1>24 DEF InSession, AwaitAck, Fatal, HoldsPa2Lock, HoldsStateLock,
    NetworkWaits, TimeRunsOut, Valid
<1>25. CASE PollRead
  BY <1>25 DEF InSession, PollRead, PollFails
<1>26. CASE Detail
  BY <1>26 DEF InSession, Detail, AfterDetails
<1>27. CASE Told
  BY <1>27 DEF InSession, Told
<1>28. CASE HangUp
  BY <1>28 DEF InSession, HangUp
<1>29. CASE Admit
  BY <1>29, NoCommandIsNone DEF InSession, Admit, Fenced, Stale
<1>30. CASE Authorize
  BY <1>30, NoCommandIsNone DEF InSession, Authorize, ApplySigterm, Fenced,
    Stale, StaleWhenLocked
<1>31. CASE Identify
  BY <1>31 DEF InSession, Identify, ApplySigterm, CommandFails, Identified,
    Unanswered
<1>32. CASE Transact
  BY <1>32 DEF InSession, Transact, ApplySigterm, CommandFails, Unanswered
<1>33. CASE Report
  BY <1>33 DEF InSession, Report, ApplySigterm, CommandFails, Identified
<1>34. CASE Verdict
  BY <1>34 DEF InSession, Verdict
<1>35. CASE Shut
  BY <1>35 DEF InSession, Shut, LocksAtJoin
<1>36. CASE LastAck
  BY <1>36 DEF InSession, LastAck, HoldsPa2Lock, HoldsStateLock, LocksAtJoin,
    NetworkWaits, SaysGoodbye, TimeRunsOut, Valid
<1>37. CASE Join
  BY <1>37 DEF InSession, Join
<1>38. CASE Exited \/ UNCHANGED vars
  BY <1>38 DEF InSession, Exited
<1> QED
  BY <1>1, <1>2, <1>3, <1>4, <1>5, <1>6, <1>7, <1>8, <1>9, <1>10, <1>11,
    <1>12, <1>13, <1>14, <1>15, <1>16, <1>17, <1>18, <1>19, <1>20, <1>21,
    <1>22, <1>23, <1>24, <1>25, <1>26, <1>27, <1>28, <1>29, <1>30, <1>31,
    <1>32, <1>33, <1>34, <1>35, <1>36, <1>37, <1>38 DEF Next, Main, Starting,
    Polling, Executing, Stopping, Network, Environment, Exited

\* A connection ends, and a publication fails, as often as there is trouble.
Counts ==
  /\ left \in 0 .. MaxTroubles /\ arrivals \in 0 .. MaxArrivals
  /\ gen + left + (IF link = "broken" \/ net = "disconnect" THEN 1 ELSE 0)
         + (IF failure = "none" THEN 1 ELSE 0) <= MaxTroubles + 1

\* So the generation is bounded by the disturbances.
LEMMA CountsStep ==
  ASSUME Counts, States, Wiring, [Next]_vars
  PROVE  Counts'
<1> USE DEF Publishing, vars, broker, network, session, lifecycle, inbox,
      main, unit, shown, NetFrame, Callback, MainFrame, Quiet, At, Goto,
      ToLoop, Leave, Running, Spend, States
<1>1. CASE Drop
  BY <1>1, BoundsAssumption DEF Counts, Drop
<1>2. CASE SlotMoves
  BY <1>2, BoundsAssumption DEF Counts, SlotMoves
<1>3. CASE CommandAges
  BY <1>3, BoundsAssumption DEF Counts, CommandAges
<1>4. CASE Sigterm
  BY <1>4, BoundsAssumption DEF Counts, Sigterm
<1>5. CASE Establish
  BY <1>5, BoundsAssumption DEF Counts, Establish
<1>6. CASE OnConnect
  BY <1>6, BoundsAssumption DEF Counts, OnConnect, HoldsStateLock
<1>7. CASE OnRefused
  BY <1>7, BoundsAssumption DEF Counts, OnRefused, HoldsStateLock, Rejected
<1>8. CASE SubackArrives
  BY <1>8, BoundsAssumption DEF Counts, SubackArrives
<1>9. CASE OnSubscribe
  BY <1>9, BoundsAssumption DEF Counts, OnSubscribe, HoldsStateLock, Rejected,
    Subscribed
<1>10. CASE CommandArrives
  BY <1>10, BoundsAssumption DEF Counts, CommandArrives
<1>11. CASE OnMessage
  BY <1>11, BoundsAssumption DEF Counts, OnMessage, HoldsStateLock, Valid
<1>12. CASE NoticeDrop
  BY <1>12, BoundsAssumption DEF Counts, NoticeDrop
<1>13. CASE OnDisconnect
  <2>1. gen' = gen + 1 /\ net = "disconnect" /\ net' = "drain" /\
            UNCHANGED link
    BY <1>13 DEF OnDisconnect
  <2>2. UNCHANGED <<left, arrivals, failure>>
    BY <1>13 DEF OnDisconnect
  <2>3. link # "broken"
    BY <2>1 DEF Wiring
  <2> QED
    BY <2>1, <2>2, <2>3, BoundsAssumption DEF Counts, States
<1>14. CASE DrainQueue
  BY <1>14, BoundsAssumption DEF Counts, DrainQueue
<1>15. CASE ReleasePa2
  BY <1>15, BoundsAssumption DEF Counts, ReleasePa2, HoldsPa2Lock
<1>16. CASE Deliver
  BY <1>16, BoundsAssumption DEF Counts, Deliver
<1>17. CASE Dial
  BY <1>17, BoundsAssumption DEF Counts, Dial
<1>18. CASE Boot
  BY <1>18, BoundsAssumption DEF Counts, Boot, ApplySigterm
<1>19. CASE LoopTop
  BY <1>19, BoundsAssumption DEF Counts, LoopTop, ApplySigterm
<1>20. CASE Dispatch
  BY <1>20, BoundsAssumption DEF Counts, Dispatch, NextWork
<1>21. CASE Publish
  BY <1>21, BoundsAssumption DEF Counts, Publish, Fatal, Fenced
<1>22. CASE PollOpen
  BY <1>22, BoundsAssumption DEF Counts, PollOpen, Identified, PollFails
<1>23. CASE Announce
  BY <1>23, BoundsAssumption DEF Counts, Announce, Fatal, Fenced
<1>24. CASE AwaitAck
  BY <1>24, BoundsAssumption DEF Counts, AwaitAck, Fatal, HoldsPa2Lock,
    HoldsStateLock, NetworkWaits, TimeRunsOut, Valid
<1>25. CASE PollRead
  BY <1>25, BoundsAssumption DEF Counts, PollRead, PollFails
<1>26. CASE Detail
  BY <1>26, BoundsAssumption DEF Counts, Detail, AfterDetails
<1>27. CASE Told
  BY <1>27, BoundsAssumption DEF Counts, Told
<1>28. CASE HangUp
  BY <1>28, BoundsAssumption DEF Counts, HangUp
<1>29. CASE Admit
  BY <1>29, BoundsAssumption DEF Counts, Admit, Fenced, Stale
<1>30. CASE Authorize
  BY <1>30, BoundsAssumption DEF Counts, Authorize, ApplySigterm, Fenced,
    Stale, StaleWhenLocked
<1>31. CASE Identify
  BY <1>31, BoundsAssumption DEF Counts, Identify, ApplySigterm, CommandFails,
    Identified, Unanswered
<1>32. CASE Transact
  <2>1. UNCHANGED <<gen, link, net, failure, arrivals>> /\ (left' = left \/
            (left > 0 /\ left' = left - 1))
    BY <1>32 DEF Transact, Unanswered
  <2> QED
    BY <2>1, BoundsAssumption DEF Counts, States
<1>33. CASE Report
  BY <1>33, BoundsAssumption DEF Counts, Report, ApplySigterm, CommandFails,
    Identified
<1>34. CASE Verdict
  BY <1>34, BoundsAssumption DEF Counts, Verdict
<1>35. CASE Shut
  BY <1>35, BoundsAssumption DEF Counts, Shut, LocksAtJoin
<1>36. CASE LastAck
  BY <1>36, BoundsAssumption DEF Counts, LastAck, HoldsPa2Lock,
    HoldsStateLock, LocksAtJoin, NetworkWaits, SaysGoodbye, TimeRunsOut, Valid
<1>37. CASE Join
  BY <1>37, BoundsAssumption DEF Counts, Join
<1>38. CASE Exited \/ UNCHANGED vars
  BY <1>38 DEF Counts, Exited
<1> QED
  BY <1>1, <1>2, <1>3, <1>4, <1>5, <1>6, <1>7, <1>8, <1>9, <1>10, <1>11,
    <1>12, <1>13, <1>14, <1>15, <1>16, <1>17, <1>18, <1>19, <1>20, <1>21,
    <1>22, <1>23, <1>24, <1>25, <1>26, <1>27, <1>28, <1>29, <1>30, <1>31,
    <1>32, <1>33, <1>34, <1>35, <1>36, <1>37, <1>38 DEF Next, Main, Starting,
    Polling, Executing, Stopping, Network, Environment, Exited

-----------------------------------------------------------------------------
(* The end *)

\* The broker shows the bridge offline unless it has a connection, and the last
\* thing it is told before the bridge disconnects is that the bridge is offline.
Farewell ==
  /\ link # "up" => kept["status"] = Offline
  /\ pc = "lastAck" /\ outbox = <<>> => kept["status"] = Offline
  /\ pc = "lastAck" /\ outbox # <<>> => outbox[Len(outbox)] = StatusOffline
  /\ pc = "exited" => link # "up"

\* Delivery keeps the last message last.
LEMMA LastOfTail ==
  ASSUME NEW ms \in Seq(Messages), ms # <<>>
  PROVE  /\ Tail(ms) # <<>> => Tail(ms)[Len(Tail(ms))] = ms[Len(ms)]
         /\ Tail(ms) = <<>> => Head(ms) = ms[Len(ms)]
<1>1. Len(ms) \in Nat /\ Len(ms) > 0 /\ Len(Tail(ms)) = Len(ms) - 1
  OBVIOUS
<1>2. \A i \in 1 .. Len(Tail(ms)) : Tail(ms)[i] = ms[i + 1]
  OBVIOUS
<1>3. Tail(ms) = <<>> => Len(ms) = 1
  BY <1>1
<1>4. ASSUME Tail(ms) # <<>> PROVE Tail(ms)[Len(Tail(ms))] = ms[Len(ms)]
  <2>1. Tail(ms) \in Seq(Messages)
    OBVIOUS
  <2>2. Len(Tail(ms)) \in 1 .. Len(Tail(ms))
    BY <2>1, <1>4
  <2>3. Tail(ms)[Len(Tail(ms))] = ms[Len(Tail(ms)) + 1]
    BY <1>2, <2>2
  <2>4. Len(Tail(ms)) + 1 = Len(ms)
    BY <1>1
  <2> QED
    BY <2>3, <2>4
<1> QED
  BY <1>3, <1>4

\* The last publication of a shutdown says that the bridge is offline.
LEMMA LastOfBoth ==
  ASSUME NEW ms \in Seq(Messages)
  PROVE  LET all == ms \o BothOffline
         IN  all # <<>> /\ all[Len(all)] = StatusOffline
BY MessageType DEF BothOffline

\* So the bridge takes its leave as offline.
LEMMA FarewellStep ==
  ASSUME Farewell, Course, States, Outgoing, [Next]_vars
  PROVE  Farewell'
<1> USE DEF Publishing, vars, broker, network, session, lifecycle, inbox,
      main, unit, shown, NetFrame, Callback, MainFrame, Quiet, At, Goto,
      ToLoop, Leave, Running, Spend, Course, States, Outgoing
<1>1. CASE Drop
  BY <1>1, MessageType DEF Farewell, Drop
<1>2. CASE SlotMoves
  BY <1>2 DEF Farewell, SlotMoves
<1>3. CASE CommandAges
  BY <1>3 DEF Farewell, CommandAges
<1>4. CASE Sigterm
  BY <1>4 DEF Farewell, Sigterm
<1>5. CASE Establish
  BY <1>5 DEF Farewell, Establish
<1>6. CASE OnConnect
  BY <1>6 DEF Farewell, OnConnect, HoldsStateLock
<1>7. CASE OnRefused
  BY <1>7 DEF Farewell, OnRefused, HoldsStateLock, Rejected
<1>8. CASE SubackArrives
  BY <1>8 DEF Farewell, SubackArrives
<1>9. CASE OnSubscribe
  BY <1>9 DEF Farewell, OnSubscribe, HoldsStateLock, Rejected, Subscribed
<1>10. CASE CommandArrives
  BY <1>10 DEF Farewell, CommandArrives
<1>11. CASE OnMessage
  BY <1>11 DEF Farewell, OnMessage, HoldsStateLock, Valid
<1>12. CASE NoticeDrop
  BY <1>12 DEF Farewell, NoticeDrop
<1>13. CASE OnDisconnect
  BY <1>13 DEF Farewell, OnDisconnect, HoldsStateLock
<1>14. CASE DrainQueue
  BY <1>14 DEF Farewell, DrainQueue
<1>15. CASE ReleasePa2
  BY <1>15 DEF Farewell, ReleasePa2, HoldsPa2Lock
<1>16. CASE Deliver
  <2>1. Running /\ link = "up" /\ UNCHANGED <<link, pc>> /\ outbox # <<>>
    BY <1>16, MainStaysPut DEF Deliver, Network
  <2>2. outbox \in Seq(Messages) /\ outbox' = Tail(outbox)
    BY <1>16 DEF Deliver, Outgoing
  <2>3. CASE pc = "lastAck"
    <3>1. CASE Tail(outbox) # <<>>
      BY <2>1, <2>2, <2>3, <3>1, LastOfTail DEF Farewell
    <3>2. CASE Tail(outbox) = <<>>
      <4>1. Head(outbox) = StatusOffline
        BY <2>1, <2>2, <2>3, <3>2, LastOfTail DEF Farewell
      <4>2. kept' = [kept EXCEPT !["status"] = Offline]
        <5>1. StatusOffline.topic = "status" /\ StatusOffline.value = Offline
          BY DEF StatusOffline, Message
        <5> QED
          BY <1>16, <4>1, <5>1, MessageType DEF Deliver
      <4>3. kept'["status"] = Offline
        BY <4>2, MessageType DEF Outgoing
      <4> QED
        BY <2>1, <2>2, <2>3, <3>2, <4>3 DEF Farewell
    <3> QED
      BY <3>1, <3>2
  <2>4. CASE pc # "lastAck"
    BY <2>1, <2>4 DEF Farewell
  <2> QED
    BY <2>3, <2>4
<1>17. CASE Dial
  BY <1>17 DEF Farewell, Dial
<1>18. CASE Boot
  BY <1>18 DEF Farewell, Boot, ApplySigterm
<1>19. CASE LoopTop
  BY <1>19 DEF Farewell, LoopTop, ApplySigterm
<1>20. CASE Dispatch
  BY <1>20 DEF Farewell, Dispatch, NextWork
<1>21. CASE Publish
  BY <1>21 DEF Farewell, Publish, Fatal, Fenced
<1>22. CASE PollOpen
  BY <1>22 DEF Farewell, PollOpen, Identified, PollFails
<1>23. CASE Announce
  BY <1>23 DEF Farewell, Announce, Fatal, Fenced
<1>24. CASE AwaitAck
  BY <1>24 DEF Farewell, AwaitAck, Fatal, HoldsPa2Lock, HoldsStateLock,
    NetworkWaits, TimeRunsOut, Valid
<1>25. CASE PollRead
  BY <1>25 DEF Farewell, PollRead, PollFails
<1>26. CASE Detail
  BY <1>26 DEF Farewell, Detail, AfterDetails
<1>27. CASE Told
  BY <1>27 DEF Farewell, Told
<1>28. CASE HangUp
  BY <1>28 DEF Farewell, HangUp
<1>29. CASE Admit
  BY <1>29 DEF Farewell, Admit, Fenced, Stale
<1>30. CASE Authorize
  BY <1>30 DEF Farewell, Authorize, ApplySigterm, Fenced, Stale,
    StaleWhenLocked
<1>31. CASE Identify
  BY <1>31 DEF Farewell, Identify, ApplySigterm, CommandFails, Identified,
    Unanswered
<1>32. CASE Transact
  BY <1>32 DEF Farewell, Transact, ApplySigterm, CommandFails, Unanswered
<1>33. CASE Report
  BY <1>33 DEF Farewell, Report, ApplySigterm, CommandFails, Identified
<1>34. CASE Verdict
  BY <1>34 DEF Farewell, Verdict
<1>35. CASE Shut
  BY <1>35, LastOfBoth DEF Farewell, Shut, LocksAtJoin
<1>36. CASE LastAck
  BY <1>36 DEF Farewell, LastAck, HoldsPa2Lock, HoldsStateLock, LocksAtJoin,
    NetworkWaits, SaysGoodbye, TimeRunsOut, Valid
<1>37. CASE Join
  BY <1>37, MessageType DEF Farewell, Join
<1>38. CASE Exited \/ UNCHANGED vars
  BY <1>38 DEF Farewell, Exited
<1> QED
  BY <1>1, <1>2, <1>3, <1>4, <1>5, <1>6, <1>7, <1>8, <1>9, <1>10, <1>11,
    <1>12, <1>13, <1>14, <1>15, <1>16, <1>17, <1>18, <1>19, <1>20, <1>21,
    <1>22, <1>23, <1>24, <1>25, <1>26, <1>27, <1>28, <1>29, <1>30, <1>31,
    <1>32, <1>33, <1>34, <1>35, <1>36, <1>37, <1>38 DEF Next, Main, Starting,
    Polling, Executing, Stopping, Network, Environment, Exited

-----------------------------------------------------------------------------
(* The details on display *)

\* v is what is retained about t once ms is delivered over k.
LastIs(ms, k, t, v) ==
  \/ \E i \in 1 .. Len(ms) :
       /\ ms[i].topic = t /\ ms[i].value = v
       /\ \A j \in 1 .. Len(ms) : j > i => ms[j].topic # t
  \/ k = v /\ \A j \in 1 .. Len(ms) : ms[j].topic # t

\* A publication about t is the last word on t, another one is not.
LEMMA LastAppended ==
  ASSUME NEW ms \in Seq(Messages), NEW m \in Messages, NEW k, NEW t, NEW v
  PROVE  /\ m.topic = t => LastIs(Append(ms, m), k, t, m.value)
         /\ m.topic # t /\ LastIs(ms, k, t, v) => LastIs(Append(ms, m), k, t,
                v)
<1> DEFINE all == Append(ms, m)
<1>1. /\ Len(ms) \in Nat /\ Len(all) = Len(ms) + 1 /\ all[Len(ms) + 1] = m
      /\ \A i \in 1 .. Len(ms) : all[i] = ms[i]
  OBVIOUS
<1>2. \A i \in 1 .. Len(all) : i \in 1 .. Len(ms) \/ i = Len(ms) + 1
  BY <1>1
<1>3. \A i \in 1 .. Len(ms) + 1 : i \in 1 .. Len(all)
  BY <1>1
<1> HIDE DEF all
<1>4. ASSUME m.topic = t PROVE LastIs(all, k, t, m.value)
  <2>1. Len(ms) + 1 \in 1 .. Len(all)
    BY <1>1, <1>3
  <2>2. \A j \in 1 .. Len(all) : ~(j > Len(ms) + 1)
    BY <1>1, <1>2
  <2> QED
    BY <1>1, <1>4, <2>1, <2>2 DEF LastIs
<1>5. ASSUME m.topic # t, LastIs(ms, k, t, v) PROVE LastIs(all, k, t, v)
  <2>1. CASE \E i \in 1 .. Len(ms) :
               /\ ms[i].topic = t /\ ms[i].value = v
               /\ \A j \in 1 .. Len(ms) : j > i => ms[j].topic # t
    <3>1. PICK i \in 1 .. Len(ms) :
                 /\ ms[i].topic = t /\ ms[i].value = v
                 /\ \A j \in 1 .. Len(ms) : j > i => ms[j].topic # t
      BY <2>1
    <3>2. i \in 1 .. Len(all)
      BY <1>1, <1>3
    <3>3. all[i].topic = t /\ all[i].value = v
      BY <1>1, <3>1
    <3>4. \A j \in 1 .. Len(all) : j > i => all[j].topic # t
      BY <1>1, <1>2, <1>5, <3>1
    <3> QED
      BY <3>2, <3>3, <3>4 DEF LastIs
  <2>2. CASE k = v /\ \A j \in 1 .. Len(ms) : ms[j].topic # t
    <3>1. \A j \in 1 .. Len(all) : all[j].topic # t
      BY <1>1, <1>2, <1>5, <2>2
    <3> QED
      BY <2>2, <3>1 DEF LastIs
  <2> QED
    BY <1>5, <2>1, <2>2 DEF LastIs
<1> QED
  BY <1>4, <1>5 DEF all

\* Delivery changes nothing about the last word.
LEMMA LastDelivered ==
  ASSUME NEW ms \in Seq(Messages), ms # <<>>, NEW k, NEW t, NEW v,
         LastIs(ms, k, t, v), NEW kk,
         kk = IF Head(ms).topic = t THEN Head(ms).value ELSE k
  PROVE  LastIs(Tail(ms), kk, t, v)
<1> DEFINE rest == Tail(ms)
<1>1. /\ Len(ms) \in Nat /\ Len(ms) > 0 /\ Len(rest) \in Nat
      /\ Len(ms) = Len(rest) + 1 /\ Head(ms) = ms[1]
      /\ \A i \in 1 .. Len(rest) : rest[i] = ms[i + 1]
  OBVIOUS
<1> HIDE DEF rest
<1>2. \A i \in 1 .. Len(rest) : i + 1 \in 1 .. Len(ms) /\ i + 1 > 1
  BY <1>1
<1>3. 1 \in 1 .. Len(ms)
  BY <1>1
<1>4. CASE k = v /\ \A j \in 1 .. Len(ms) : ms[j].topic # t
  <2>1. kk = v
    BY <1>1, <1>3, <1>4
  <2>2. \A j \in 1 .. Len(rest) : rest[j].topic # t
    BY <1>1, <1>2, <1>4
  <2> QED
    BY <2>1, <2>2 DEF LastIs, rest
<1>5. ASSUME NEW i \in 1 .. Len(ms), ms[i].topic = t, ms[i].value = v,
             \A j \in 1 .. Len(ms) : j > i => ms[j].topic # t
      PROVE  LastIs(rest, kk, t, v)
  <2>1. CASE i = 1
    <3>1. kk = v
      BY <1>1, <1>5, <2>1
    <3>2. \A j \in 1 .. Len(rest) : rest[j].topic # t
      BY <1>1, <1>2, <1>5, <2>1
    <3> QED
      BY <3>1, <3>2 DEF LastIs
  <2>2. CASE i # 1
    <3>1. i - 1 \in 1 .. Len(rest) /\ (i - 1) + 1 = i
      BY <1>1, <2>2
    <3>2. rest[i - 1].topic = t /\ rest[i - 1].value = v
      BY <1>1, <1>5, <3>1
    <3>3. \A j \in 1 .. Len(rest) : j > i - 1 => rest[j].topic # t
      <4> TAKE j \in 1 .. Len(rest)
      <4> HAVE j > i - 1
      <4>1. j + 1 \in 1 .. Len(ms) /\ j + 1 > i
        BY <1>2
      <4> QED
        BY <1>1, <1>5, <4>1
    <3> QED
      BY <3>1, <3>2, <3>3 DEF LastIs
  <2> QED
    BY <2>1, <2>2
<1> QED
  BY <1>4, <1>5 DEF LastIs, rest

\* The last word is what Said returns.
LEMMA LastSaid ==
  ASSUME Outgoing, NEW t, NEW v, LastIs(outbox, kept[t], t, v)
  PROVE  Said(t) = v
<1> DEFINE about == {i \in 1 .. Len(outbox) : outbox[i].topic = t}
           last == CHOOSE i \in about : \A j \in about : j <= i
<1>1. CASE \A j \in 1 .. Len(outbox) : outbox[j].topic # t
  <2>1. about = {}
    BY <1>1
  <2>2. kept[t] = v
    BY <1>1 DEF LastIs
  <2> QED
    BY <2>1, <2>2 DEF Said
<1>2. ASSUME NEW i \in 1 .. Len(outbox),
             outbox[i].topic = t, outbox[i].value = v,
             \A j \in 1 .. Len(outbox) : j > i => outbox[j].topic # t
      PROVE  Said(t) = v
  <2>1. i \in about /\ \A j \in about : j <= i
    BY <1>2
  <2>2. last \in about /\ \A j \in about : j <= last
    BY <2>1
  <2>3. last = i
    BY <2>1, <2>2
  <2>4. about # {} /\ outbox[last].value = v
    BY <1>2, <2>1, <2>3
  <2> QED
    BY <2>4 DEF Said
<1> QED
  BY <1>1, <1>2 DEF LastIs

\* Without a session nothing is taken to be on display, except until the
\* disconnect callback gets the PA2 lock; who holds that lock until then still
\* works in the session it began in.
Releasing == net \in {"drain", "release"}
Working ==
  \/ pc \in {"ack", "read", "detail", "told"}
  \/ pc = "publish" /\ then \in {"detail", "told"}

Detached ==
  /\ stopping => Ended
  /\ ~conn /\ failure = "none" /\ ~Ended /\ ~Releasing => ~detailsOK /\
         ~discovered
  /\ failure = "none" /\ Working => conn \/ Releasing
  /\ pc \in {"dial", "boot"} => ~detailsOK

\* So a session begins with nothing on display.
LEMMA DetachedStep ==
  ASSUME Detached, Course, Flags, Wiring, InSession, [Next]_vars
  PROVE  Detached'
<1> USE DEF Publishing, vars, broker, network, session, lifecycle, inbox,
      main, unit, shown, NetFrame, Callback, MainFrame, Quiet, At, Goto,
      ToLoop, Leave, Running, Spend, Course, Flags, Wiring, InSession,
      Releasing, Working, Ended
<1>1. CASE Drop
  BY <1>1 DEF Detached, Drop
<1>2. CASE SlotMoves
  BY <1>2 DEF Detached, SlotMoves
<1>3. CASE CommandAges
  BY <1>3 DEF Detached, CommandAges
<1>4. CASE Sigterm
  BY <1>4 DEF Detached, Sigterm
<1>5. CASE Establish
  BY <1>5 DEF Detached, Establish
<1>6. CASE OnConnect
  BY <1>6 DEF Detached, OnConnect, HoldsStateLock
<1>7. CASE OnRefused
  BY <1>7 DEF Detached, OnRefused, HoldsStateLock, Rejected
<1>8. CASE SubackArrives
  BY <1>8 DEF Detached, SubackArrives
<1>9. CASE OnSubscribe
  BY <1>9 DEF Detached, OnSubscribe, HoldsStateLock, Rejected, Subscribed
<1>10. CASE CommandArrives
  BY <1>10 DEF Detached, CommandArrives
<1>11. CASE OnMessage
  BY <1>11 DEF Detached, OnMessage, HoldsStateLock, Valid
<1>12. CASE NoticeDrop
  BY <1>12 DEF Detached, NoticeDrop
<1>13. CASE OnDisconnect
  BY <1>13 DEF Detached, OnDisconnect, HoldsStateLock
<1>14. CASE DrainQueue
  BY <1>14 DEF Detached, DrainQueue
<1>15. CASE ReleasePa2
  BY <1>15 DEF Detached, ReleasePa2, HoldsPa2Lock
<1>16. CASE Deliver
  BY <1>16 DEF Detached, Deliver
<1>17. CASE Dial
  BY <1>17 DEF Detached, Dial
<1>18. CASE Boot
  BY <1>18 DEF Detached, Boot, ApplySigterm
<1>19. CASE LoopTop
  BY <1>19 DEF Detached, LoopTop, ApplySigterm
<1>20. CASE Dispatch
  BY <1>20 DEF Detached, Dispatch, NextWork
<1>21. CASE Publish
  BY <1>21 DEF Detached, Publish, Fatal, Fenced
<1>22. CASE PollOpen
  BY <1>22 DEF Detached, PollOpen, Identified, PollFails
<1>23. CASE Announce
  BY <1>23 DEF Detached, Announce, Fatal, Fenced
<1>24. CASE AwaitAck
  BY <1>24 DEF Detached, AwaitAck, Fatal, HoldsPa2Lock, HoldsStateLock,
    NetworkWaits, TimeRunsOut, Valid
<1>25. CASE PollRead
  BY <1>25 DEF Detached, PollRead, PollFails
<1>26. CASE Detail
  BY <1>26 DEF Detached, Detail, AfterDetails
<1>27. CASE Told
  BY <1>27 DEF Detached, Told
<1>28. CASE HangUp
  BY <1>28 DEF Detached, HangUp
<1>29. CASE Admit
  BY <1>29 DEF Detached, Admit, Fenced, Stale
<1>30. CASE Authorize
  BY <1>30 DEF Detached, Authorize, ApplySigterm, Fenced, Stale,
    StaleWhenLocked
<1>31. CASE Identify
  BY <1>31 DEF Detached, Identify, ApplySigterm, CommandFails, Identified,
    Unanswered
<1>32. CASE Transact
  BY <1>32 DEF Detached, Transact, ApplySigterm, CommandFails, Unanswered
<1>33. CASE Report
  BY <1>33 DEF Detached, Report, ApplySigterm, CommandFails, Identified
<1>34. CASE Verdict
  BY <1>34 DEF Detached, Verdict
<1>35. CASE Shut
  BY <1>35 DEF Detached, Shut, LocksAtJoin
<1>36. CASE LastAck
  BY <1>36 DEF Detached, LastAck, HoldsPa2Lock, HoldsStateLock, LocksAtJoin,
    NetworkWaits, SaysGoodbye, TimeRunsOut, Valid
<1>37. CASE Join
  BY <1>37 DEF Detached, Join
<1>38. CASE Exited \/ UNCHANGED vars
  BY <1>38 DEF Detached, Exited
<1> QED
  BY <1>1, <1>2, <1>3, <1>4, <1>5, <1>6, <1>7, <1>8, <1>9, <1>10, <1>11,
    <1>12, <1>13, <1>14, <1>15, <1>16, <1>17, <1>18, <1>19, <1>20, <1>21,
    <1>22, <1>23, <1>24, <1>25, <1>26, <1>27, <1>28, <1>29, <1>30, <1>31,
    <1>32, <1>33, <1>34, <1>35, <1>36, <1>37, <1>38 DEF Next, Main, Starting,
    Polling, Executing, Stopping, Network, Environment, Exited

Silent(ms) == \A i \in 1 .. Len(ms) : ms[i].topic # "details"
Shows(v) == LastIs(outbox, kept["details"], "details", v)

\* A crossover was read that the broker has not been told yet.
Refreshing ==
  pc = "told" \/ (pc \in {"publish", "announce", "ack"} /\ then = "told")

\* Valid details are the crossover last read, which is the one last published,
\* and no publication about to be made changes that, but for the one that says
\* what is then taken as valid.
Display ==
  /\ conn /\ failure = "none" /\ pc = "told" => Shows(crossover)
  /\ pc = "publish" /\ then = "told" =>
       todo = <<Message("details", crossover)>>
  /\ conn /\ failure = "none" /\ detailsOK /\ pa2 = "open"
       => /\ pc = "publish" /\ then # "told" => Silent(todo)
          /\ ~Refreshing /\ ~Ended => Shows(crossover)

\* Batches that say nothing about the details.
LEMMA SilentBatches ==
  /\ Silent(<<Note>>) /\ Silent(<<>> \o <<Note>>)
  /\ \A v, w : Silent(<<Message("core", v), Message("status", w)>>)
  /\ \A ms : Batch(ms) /\ Len(ms) > 1 /\ Silent(ms) => Silent(Tail(ms))
  /\ \A ms : Batch(ms) /\ Silent(ms) => Head(ms).topic # "details"
<1>1. Silent(<<Note>>) /\ Silent(<<>> \o <<Note>>)
  BY DEF Silent, Note, Message
<1>2. \A v, w : Silent(<<Message("core", v), Message("status", w)>>)
  BY DEF Silent, Message
<1>3. ASSUME NEW ms, Batch(ms), Len(ms) > 1, Silent(ms)
      PROVE  Silent(Tail(ms))
  <2>1. /\ ms \in Seq(Messages) /\ Len(ms) \in Nat /\ ms # <<>>
        /\ Len(Tail(ms)) = Len(ms) - 1
    BY <1>3, BatchLength, HeadType, TailType DEF Batch
  <2>2. \A i \in 1 .. Len(Tail(ms)) : Tail(ms)[i] = ms[i + 1] /\
            i + 1 \in 1 .. Len(ms)
    BY <2>1
  <2> QED
    BY <1>3, <2>2 DEF Silent
<1>4. ASSUME NEW ms, Batch(ms), Silent(ms) PROVE Head(ms).topic # "details"
  <2>1. Head(ms) = ms[1] /\ 1 \in 1 .. Len(ms)
    BY <1>4, BatchLength DEF Batch
  <2> QED
    BY <1>4, <2>1 DEF Silent
<1> QED
  BY <1>1, <1>2, <1>3, <1>4

\* Delivery changes nothing about the details.
LEMMA DetailsDelivered ==
  ASSUME Outgoing, Deliver, NEW v,
         LastIs(outbox, kept["details"], "details", v)
  PROVE  LastIs(outbox', kept'["details"], "details", v)
<1>1. outbox \in Seq(Messages) /\ outbox # <<>> /\ outbox' = Tail(outbox)
  BY DEF Deliver, Outgoing
<1>2. Head(outbox) \in Messages
  BY <1>1
<1>3. kept'["details"] = IF Head(outbox).topic =
          "details" THEN Head(outbox).value
                         ELSE kept["details"]
  BY <1>2, MessageType DEF Deliver, Outgoing
<1> QED
  BY <1>1, <1>3, LastDelivered

\* So the details on display are those the bridge believes in.
LEMMA DisplayStep ==
  ASSUME Display, Course, Flags, States, Wiring, InSession, Detached,
    Outgoing, Handover, [Next]_vars
  PROVE  Display'
<1> USE DEF Publishing, vars, broker, network, session, lifecycle, inbox,
      main, unit, shown, NetFrame, Callback, MainFrame, Quiet, At, Goto,
      ToLoop, Leave, Running, Spend, Shows, Course, Flags, Wiring, Releasing,
      Working, Ended, Refreshing
<1>1. CASE Drop
  <2>1. kept'["details"] = kept["details"]
    BY <1>1, MessageType DEF Drop, Outgoing
  <2> QED
    BY <1>1, <2>1 DEF Display, Drop
<1>2. CASE SlotMoves
  BY <1>2 DEF Display, SlotMoves
<1>3. CASE CommandAges
  BY <1>3 DEF Display, CommandAges
<1>4. CASE Sigterm
  BY <1>4 DEF Display, Sigterm
<1>5. CASE Establish
  BY <1>5 DEF Display, Establish
<1>6. CASE OnConnect
  BY <1>6 DEF Display, OnConnect, HoldsStateLock
<1>7. CASE OnRefused
  BY <1>7 DEF Display, OnRefused, HoldsStateLock, Rejected
<1>8. CASE SubackArrives
  BY <1>8 DEF Display, SubackArrives
<1>9. CASE OnSubscribe
  <2>1. net \in {"suback", "subfail"} /\ UNCHANGED <<outbox, kept,
            crossover, pc, then, todo, detailsOK, pa2>>
    BY <1>9 DEF OnSubscribe
  <2>2. ~conn /\ ~Releasing
    BY <2>1
  <2>3. failure' = "none" => failure = "none"
    BY <1>9 DEF OnSubscribe, Rejected
  <2>4. failure = "none" => pc # "told"
    BY <2>2 DEF Detached
  <2>5. failure = "none" /\ ~Ended => ~detailsOK
    BY <2>2 DEF Detached
  <2> QED
    BY <2>1, <2>3, <2>4, <2>5 DEF Display
<1>10. CASE CommandArrives
  BY <1>10 DEF Display, CommandArrives
<1>11. CASE OnMessage
  BY <1>11 DEF Display, OnMessage, HoldsStateLock, Valid
<1>12. CASE NoticeDrop
  BY <1>12 DEF Display, NoticeDrop
<1>13. CASE OnDisconnect
  BY <1>13 DEF Display, OnDisconnect, HoldsStateLock
<1>14. CASE DrainQueue
  BY <1>14 DEF Display, DrainQueue
<1>15. CASE ReleasePa2
  BY <1>15 DEF Display, ReleasePa2, HoldsPa2Lock
<1>16. CASE Deliver
  <2>1. UNCHANGED <<conn, failure, detailsOK, pa2, pc, then, todo,
            crossover>>
    BY <1>16 DEF Deliver
  <2>2. Shows(crossover) => Shows(crossover)'
    BY <1>16, <2>1, DetailsDelivered
  <2> QED
    BY <2>1, <2>2 DEF Display
<1>17. CASE Dial
  BY <1>17, SilentBatches DEF Display, Dial
<1>18. CASE Boot
  <2>1. ~detailsOK /\ UNCHANGED <<detailsOK, conn, failure, outbox, kept>>
    BY <1>18 DEF Boot, Detached
  <2>2. pc' # "told" /\ ~(pc' = "publish" /\ then' = "told")
    BY <1>18 DEF Boot
  <2> QED
    BY <2>1, <2>2 DEF Display
<1>19. CASE LoopTop
  BY <1>19, SilentBatches DEF Display, LoopTop, ApplySigterm
<1>20. CASE Dispatch
  BY <1>20, SilentBatches DEF Display, Dispatch, NextWork
<1>21. CASE Publish
  <2>1. Batch(todo) /\ Head(todo) \in Messages /\ outbox \in Seq(Messages)
    BY <1>21, HeadType DEF Publish, Handover, Outgoing
  <2>2. CASE Fatal("send") /\ UNCHANGED outbox
    <3>1. failure' # "none" /\ pc' \in {"loop", "closing"}
      BY <2>2 DEF Fatal
    <3> QED
      BY <3>1 DEF Display
  <2>3. CASE Fenced
    <3>1. UNCHANGED <<conn, failure, outbox, kept>>
      BY <1>21, <2>3 DEF Publish, Fenced
    <3>2. pc' = "publish" /\ then' = "told" => todo' = <<Message("details",
              crossover')>>
      <4>1. ~(then = "told" /\ Len(todo) > 1)
        <5>1. then = "told" => todo = <<Message("details", crossover)>>
          BY <1>21 DEF Publish, Display
        <5>2. \A m : ~(Len(<<m>>) > 1)
          OBVIOUS
        <5> QED
          BY <5>1, <5>2
      <4> QED
        BY <1>21, <2>3, <4>1 DEF Publish, Fenced
    <3> QED
      BY <2>3, <3>1, <3>2 DEF Display, Fenced
  <2>4. CASE ~Fenced /\ link # "down"
    <3>1. /\ outbox' = Append(outbox, Head(todo)) /\ UNCHANGED <<conn,
                 failure, kept, detailsOK, pa2, crossover>>
      BY <1>21, <2>4 DEF Publish
    <3>2. CASE then = "told"
      <4>1. todo = <<Message("details", crossover)>>
        BY <1>21, <3>2 DEF Display, Publish
      <4>2. Len(todo) = 1 /\ Head(todo) = Message("details", crossover)
        BY <4>1
      <4>3. pc' = "told" /\ crossover' = crossover
        BY <1>21, <2>4, <3>2, <4>1, <4>2 DEF Publish
      <4>4. Head(todo).topic = "details" /\ Head(todo).value = crossover
        BY <4>2 DEF Message
      <4>5. Shows(crossover)'
        BY <2>1, <3>1, <4>3, <4>4, LastAppended
      <4> QED
        BY <4>3, <4>5 DEF Display
    <3>3. CASE then # "told"
      <4>1. pc' # "told" /\ ~(pc' = "publish" /\ then' = "told")
        BY <1>21, <2>4, <3>3 DEF Publish
      <4>2. ASSUME conn, failure = "none", detailsOK, pa2 = "open"
            PROVE  Shows(crossover)' /\ (pc' = "publish" => Silent(todo'))
        <5>1. Silent(todo) /\ Shows(crossover)
          BY <1>21, <3>3, <4>2 DEF Display, Publish
        <5>2. Shows(crossover)'
          BY <2>1, <3>1, <5>1, SilentBatches, LastAppended
        <5>3. pc' = "publish" => Len(todo) > 1 /\ todo' = Tail(todo)
          BY <1>21, <2>4 DEF Publish
        <5> QED
          BY <2>1, <5>1, <5>2, <5>3, SilentBatches
      <4>3. (conn /\ failure = "none" /\ detailsOK /\ pa2 = "open")'
               => Shows(crossover)' /\ (pc' = "publish" => Silent(todo'))
        <5>1. (conn /\ failure = "none" /\ detailsOK /\ pa2 = "open")'
                <=> (conn /\ failure = "none" /\ detailsOK /\ pa2 = "open")
          BY <3>1
        <5> QED
          BY <4>2, <5>1, Zenon
      <4> QED
        BY <4>1, <4>3 DEF Display
    <3> QED
      BY <3>2, <3>3
  <2> QED
    BY <1>21, <2>2, <2>3, <2>4 DEF Publish
<1>22. CASE PollOpen
  BY <1>22, SilentBatches DEF Display, PollOpen, Identified, PollFails
<1>23. CASE Announce
  <2>1. Shows(crossover) => LastIs(Append(outbox, Message("config", NoSlot)),
            kept["details"], "details", crossover)
    <3>1. outbox \in Seq(Messages) /\ Message("config", NoSlot) \in Messages
      BY MessageType DEF Outgoing
    <3>2. Message("config", NoSlot).topic # "details"
      BY DEF Message
    <3> QED
      BY <3>1, <3>2, LastAppended
  <2>2. pc' # "told" /\ pc' # "publish"
    BY <1>23 DEF Announce, Fatal
  <2>3. \/ failure' # "none"
        \/ /\ outbox' = Append(outbox, Message("config", NoSlot))
           /\ pc = "announce" /\ pc' = "ack"
           /\ UNCHANGED <<kept, conn, failure, detailsOK, pa2, crossover,
                         then>>
    BY <1>23 DEF Announce, Fatal
  <2>4. ASSUME conn', failure' = "none", detailsOK', pa2' = "open",
               ~Refreshing'
        PROVE  Shows(crossover)'
    <3>1. then # "told" /\ conn /\ failure = "none" /\ detailsOK /\ pa2 = "open"
      BY <2>3, <2>4
    <3>2. Shows(crossover)
      BY <2>3, <2>4, <3>1 DEF Display
    <3> QED
      BY <2>1, <2>3, <2>4, <3>2
  <2> QED
    BY <2>2, <2>4 DEF Display
<1>24. CASE AwaitAck
  BY <1>24, SilentBatches DEF Display, AwaitAck, Fatal, HoldsPa2Lock,
    HoldsStateLock, NetworkWaits, TimeRunsOut, Valid
<1>25. CASE PollRead
  BY <1>25, SilentBatches DEF Display, PollRead, PollFails
<1>26. CASE Detail
  BY <1>26, SilentBatches DEF Display, Detail, AfterDetails
<1>27. CASE Told
  BY <1>27, SilentBatches DEF Display, Told
<1>28. CASE HangUp
  BY <1>28, SilentBatches DEF Display, HangUp
<1>29. CASE Admit
  BY <1>29, SilentBatches DEF Display, Admit, Fenced, Stale
<1>30. CASE Authorize
  BY <1>30, SilentBatches DEF Display, Authorize, ApplySigterm, Fenced, Stale,
    StaleWhenLocked
<1>31. CASE Identify
  BY <1>31, SilentBatches DEF Display, Identify, ApplySigterm, CommandFails,
    Identified, Unanswered
<1>32. CASE Transact
  BY <1>32, SilentBatches DEF Display, Transact, ApplySigterm, CommandFails,
    Unanswered
<1>33. CASE Report
  BY <1>33, SilentBatches DEF Display, Report, ApplySigterm, CommandFails,
    Identified
<1>34. CASE Verdict
  BY <1>34, SilentBatches DEF Display, Verdict
<1>35. CASE Shut
  BY <1>35, SilentBatches DEF Display, Shut, LocksAtJoin
<1>36. CASE LastAck
  BY <1>36, SilentBatches DEF Display, LastAck, HoldsPa2Lock, HoldsStateLock,
    LocksAtJoin, NetworkWaits, SaysGoodbye, TimeRunsOut, Valid
<1>37. CASE Join
  BY <1>37, SilentBatches DEF Display, Join
<1>38. CASE Exited \/ UNCHANGED vars
  BY <1>38 DEF Display, Exited
<1> QED
  BY <1>1, <1>2, <1>3, <1>4, <1>5, <1>6, <1>7, <1>8, <1>9, <1>10, <1>11,
    <1>12, <1>13, <1>14, <1>15, <1>16, <1>17, <1>18, <1>19, <1>20, <1>21,
    <1>22, <1>23, <1>24, <1>25, <1>26, <1>27, <1>28, <1>29, <1>30, <1>31,
    <1>32, <1>33, <1>34, <1>35, <1>36, <1>37, <1>38 DEF Next, Main, Starting,
    Polling, Executing, Stopping, Network, Environment, Exited

-----------------------------------------------------------------------------
(* The invariant *)

IInv ==
  /\ Course /\ Flags /\ States /\ Commanding /\ Readings
  /\ Handover /\ Outgoing /\ Room /\ Wiring /\ Origins
  /\ InSession /\ Counts /\ Farewell /\ Detached /\ Display

\* The invariant holds of a bridge about to start.
LEMMA InitIInv == Init => IInv
<1> SUFFICES ASSUME Init PROVE IInv
  OBVIOUS
<1>1. Course /\ Flags /\ States
  BY DEF Init, Course, Places, Flags, States
<1>2. Commanding /\ Readings
  BY NoCommandType DEF Init, Commanding, Readings
<1>3. Handover /\ Outgoing
  BY MessageType DEF Init, Handover, Outgoing
<1>4. Room
  <2>1. Due = 2 /\ ~Ended
    BY DueFacts DEF Init, Due, Ended
  <2>2. Len(outbox) \in Nat /\ Len(outbox) <= 0
    BY DEF Init
  <2> QED
    BY <2>1, <2>2, BacklogAssumption DEF Room
<1>5. Wiring /\ Origins /\ InSession
  BY NoCommandIsNone DEF Init, Wiring, Origins, Current, InSession
<1>6. Counts
  BY BoundsAssumption DEF Init, Counts
<1>7. Farewell
  BY MessageType DEF Init, Farewell
<1>8. Detached /\ Display
  BY DEF Init, Detached, Display, Working, Ended
<1> QED
  BY <1>1, <1>2, <1>3, <1>4, <1>5, <1>6, <1>7, <1>8 DEF IInv

\* Every step preserves it.
LEMMA StepIInv == IInv /\ [Next]_vars => IInv'
<1> SUFFICES ASSUME IInv, [Next]_vars PROVE IInv'
  OBVIOUS
<1> USE DEF IInv
<1>1. Course'
  BY CourseStep
<1>2. Flags'
  BY FlagsStep
<1>3. States'
  BY StatesStep
<1>4. Commanding'
  BY CommandingStep
<1>5. Readings'
  BY ReadingsStep
<1>6. Handover'
  BY HandoverStep
<1>7. Outgoing'
  BY OutgoingStep
<1>8. Room'
  BY RoomStep
<1>9. Wiring'
  BY WiringStep
<1>10. Origins'
  BY OriginsStep
<1>11. InSession'
  BY InSessionStep
<1>12. Counts'
  BY CountsStep
<1>13. Farewell'
  BY FarewellStep
<1>14. Detached'
  BY DetachedStep
<1>15. Display'
  BY DisplayStep
<1> QED
  BY <1>1, <1>2, <1>3, <1>4, <1>5, <1>6, <1>7, <1>8, <1>9, <1>10, <1>11,
    <1>12, <1>13, <1>14, <1>15

\* The invariant holds throughout.
THEOREM Invariance == Spec => []IInv
<1>1. Init => IInv
  BY InitIInv
<1>2. IInv /\ [Next]_vars => IInv'
  BY StepIInv
<1> QED
  BY <1>1, <1>2, PTL DEF Spec

\* Types and bounds of every reachable state: at most one generation for every
\* disturbance and one more, at most nine publications over the backlog.
THEOREM TypeCorrect == Spec => []TypeOK
<1>1. IInv => TypeOK
  <2> SUFFICES ASSUME IInv PROVE TypeOK
    OBVIOUS
  <2>1. gen \in 0 .. MaxTroubles + 1 /\ left \in 0 .. MaxTroubles /\
            arrivals \in 0 .. MaxArrivals
    BY BoundsAssumption DEF IInv, Counts, States
  <2>2. outbox \in Seq(Messages) /\ Len(outbox) <= Backlog + 9
    <3>1. Due \in 0 .. 9 /\ Len(outbox) \in Nat
      BY DueType DEF IInv, Room
    <3>2. Len(outbox) + Due <= Backlog + 9
      BY <3>1, BacklogAssumption DEF IInv, Room
    <3> QED
      BY <3>1, <3>2, BacklogAssumption DEF IInv, Outgoing
  <2>3. todo \in Seq(Messages) /\ Len(todo) <= 3
    <3>1. CASE todo = <<>>
      BY <3>1
    <3>2. CASE Batch(todo)
      BY <3>2, BatchLength DEF Batch
    <3> QED
      BY <3>1, <3>2 DEF IInv, Handover
  <2>4. /\ pc \in Places /\ exit \in {"none", "clean", "error"}
        /\ job \in {"none", "poll", "pollFail", "exec", "execFail", "shut"}
    BY DEF IInv, Course
  <2>5. /\ link \in {"down", "up", "broken", "closed"} /\ epoch \in Nat
        /\ net \in {"idle", "connect", "refuse", "suback", "subfail",
               "message",
                   "disconnect", "drain", "release"}
        /\ failure \in {"none", "refused", "send", "noack"}
        /\ pa2 \in {"closed", "open"}
    BY DEF IInv, States
  <2>6. /\ subDue \in BOOLEAN
        /\ {conn, transport, ready, stop, sigterm, stopping, diagnosed, known,
            discovered, refresh, detailsOK} \subseteq BOOLEAN
    BY DEF IInv, Flags
  <2>7. /\ CommandOK(incoming, Kinds)
        /\ CommandOK(queue, Accepted) /\ CommandOK(cmd, Accepted)
    BY DEF IInv, Commanding
  <2>8. /\ {obs, lastSlot, crossover} \subseteq Slots \cup {NoSlot}
        /\ slot \in Slots /\ kept \in [Topics -> Values]
    BY DEF IInv, Readings, Outgoing
  <2> QED
    BY <2>1, <2>2, <2>3, <2>4, <2>5, <2>6, <2>7, <2>8, Zenon DEF TypeOK, Places
<1> QED
  BY Invariance, <1>1, PTL

\* A command holds the unit only in the broker session it arrived in, however
\* often connections end and begin: the callbacks that end a session wait for
\* the lock a command takes before it compares generations.
THEOREM CommandsStayInSession == Spec => []CommandInItsSession
<1>1. IInv => CommandInItsSession
  BY DEF IInv, CommandInItsSession, Course, InSession, Origins, Current
<1> QED
  BY Invariance, <1>1, PTL

\* Between two steps of the loop, when the bridge takes the details as valid, the
\* broker has or is about to get the crossover that publish_details read last,
\* whatever dropped, failed or was refused since.  That it is the crossover of the
\* preset on display is not claimed.
THEOREM DetailsAreHonest == Spec => []DetailsAreShown
<1>1. IInv => DetailsAreShown
  <2> SUFFICES ASSUME IInv, pc = "loop", conn, failure = "none", pa2 = "open",
                      detailsOK
               PROVE  Said("details") = crossover
    BY DEF DetailsAreShown
  <2>1. Shows(crossover)
    BY DEF IInv, Display, Ended, Refreshing
  <2> QED
    BY <2>1, LastSaid DEF IInv, Shows
<1> QED
  BY Invariance, <1>1, PTL

\* A bridge that has ended has left the device offline.
THEOREM EndsOffline == Spec => []ExitLeavesOffline
<1>1. IInv => ExitLeavesOffline
  BY DEF IInv, Farewell, ExitLeavesOffline
<1> QED
  BY Invariance, <1>1, PTL

-----------------------------------------------------------------------------
(* What a poll leaves behind *)

\* v is what will be retained about t once the batch in hand is handed over.
WillSay(t, v) == LastIs(outbox \o todo, kept[t], t, v)

\* The details are being, or are about to be, told.
Telling ==
  \/ pc \in {"detail", "told"}
  \/ pc \in {"publish", "announce", "ack"} /\ then \in {"detail", "told"}

\* Slots read are slots, a poll reads over an open session, and between two
\* batches there is nothing in hand.
Observed ==
  /\ detailsOK => lastSlot \in Slots
  /\ Telling => obs \in Slots
  /\ Refreshing => crossover \in Slots
  /\ pc = "read" \/ (pc \in {"announce", "ack"} /\ then # "told") =>
       pa2 = "open"
  /\ pc # "publish" => todo = <<>>

\* A poll that has read its slot keeps its session, or loses it for good, and
\* says of the preset what it has read; if it ends with that batch, the details
\* are offline or the crossover last read, for that same preset.
Reconciling ==
  /\ job = "poll" /\ failure = "none" /\ (pc = "publish" \/ Telling) =>
       conn \/ Releasing
  /\ job = "poll" /\ failure = "none" /\ conn =>
       /\ pc = "publish" \/ Telling => WillSay("core", obs)
       /\ pc = "publish" /\ then = "loop" =>
            \/ WillSay("details", Offline)
            \/ WillSay("details", crossover) /\ lastSlot = obs

\* Sequences of messages, end to end.
LEMMA HandedOver ==
  ASSUME NEW out \in Seq(Messages), NEW ms \in Seq(Messages), ms # <<>>
  PROVE  Append(out, Head(ms)) \o Tail(ms) = out \o ms
<1>1. /\ Head(ms) \in Messages /\ Tail(ms) \in Seq(Messages)
      /\ <<Head(ms)>> \in Seq(Messages)
  BY HeadTailProperties
<1>2. Append(out, Head(ms)) \o Tail(ms) = out \o (<<Head(ms)>> \o Tail(ms))
  BY <1>1, AppendIsConcat, ConcatAssociative
<1>3. <<Head(ms)>> \o Tail(ms) = ms
  <2> DEFINE all == <<Head(ms)>> \o Tail(ms)
  <2>1. all \in Seq(Messages) /\ Len(all) = 1 + Len(Tail(ms))
    BY <1>1, ConcatProperties
  <2>2. Len(ms) \in Nat /\ Len(Tail(ms)) = Len(ms) - 1 /\ Head(ms) = ms[1]
    BY HeadTailProperties
  <2>3. \A i \in 1 .. Len(all) : all[i] = ms[i]
    <3> TAKE i \in 1 .. Len(all)
    <3>1. all[i] = IF i <= 1 THEN Head(ms) ELSE Tail(ms)[i - 1]
      BY <1>1
    <3>2. CASE i = 1
      BY <2>2, <3>1, <3>2
    <3>3. CASE i # 1
      <4>1. i - 1 \in 1 .. Len(Tail(ms)) /\ (i - 1) + 1 = i /\ ~(i <= 1)
        BY <2>1, <2>2, <3>3
      <4>2. Tail(ms)[i - 1] = ms[i]
        BY <4>1, HeadTailProperties
      <4> QED
        BY <3>1, <4>1, <4>2
    <3> QED
      BY <3>2, <3>3
  <2>4. Len(all) = Len(ms)
    BY <2>1, <2>2
  <2> HIDE DEF all
  <2>5. all = ms
    BY <2>1, <2>3, <2>4, SeqEqual
  <2> QED
    BY <2>5 DEF all
<1> QED
  BY <1>2, <1>3

\* Delivering the first message of two queues delivers that of the first.
LEMMA DeliveredFirst ==
  ASSUME NEW out \in Seq(Messages), NEW ms \in Seq(Messages), out # <<>>
  PROVE  /\ out \o ms \in Seq(Messages) /\ out \o ms # <<>>
         /\ Head(out \o ms) = Head(out)
         /\ Tail(out \o ms) = Tail(out) \o ms
<1>1. /\ Len(out) \in Nat /\ Len(ms) \in Nat /\ Len(out) > 0
      /\ Head(out) = out[1]
  OBVIOUS
<1>2. /\ out \o ms \in Seq(Messages) /\ Len(out \o ms) = Len(out) + Len(ms)
      /\ (out \o ms)[1] = out[1]
  BY <1>1
<1>3. out \o ms # <<>> /\ Head(out \o ms) = Head(out)
  BY <1>1, <1>2
<1>4. Tail(out) \in Seq(Messages) /\ Len(Tail(out)) = Len(out) - 1
  BY <1>1, HeadTailProperties
<1>5. Tail(out) \o ms \in Seq(Messages)
  BY <1>4
<1>6. Tail(out \o ms) \in Seq(Messages)
  BY <1>2, <1>3, HeadTailProperties
<1>7. Len(Tail(out \o ms)) = Len(Tail(out) \o ms)
  BY <1>1, <1>2, <1>3, <1>4, HeadTailProperties, ConcatProperties
<1>8. ASSUME NEW i \in 1 .. Len(Tail(out \o ms))
      PROVE  Tail(out \o ms)[i] = (Tail(out) \o ms)[i]
  <2>1. /\ i \in 1 .. Len(out) + Len(ms) - 1
        /\ i + 1 \in 1 .. Len(out) + Len(ms)
    BY <1>1, <1>2, <1>3, HeadTailProperties
  <2>2. Tail(out \o ms)[i] = (out \o ms)[i + 1]
    BY <1>2, <1>3, HeadTailProperties
  <2>3. (out \o ms)[i + 1] = IF i + 1 <= Len(out) THEN out[i + 1]
                             ELSE ms[i + 1 - Len(out)]
    BY <2>1, ConcatProperties
  <2>4. (Tail(out) \o ms)[i] = IF i <= Len(Tail(out)) THEN Tail(out)[i]
                               ELSE ms[i - Len(Tail(out))]
    BY <1>1, <1>4, <2>1, ConcatProperties
  <2>5. CASE i + 1 <= Len(out)
    <3>1. i \in 1 .. Len(Tail(out))
      BY <1>1, <1>4, <2>1, <2>5
    <3>2. Tail(out)[i] = out[i + 1]
      BY <3>1, <1>1, HeadTailProperties
    <3> QED
      BY <2>2, <2>3, <2>4, <2>5, <3>1, <3>2
  <2>6. CASE ~(i + 1 <= Len(out))
    <3>1. ~(i <= Len(Tail(out))) /\ i + 1 - Len(out) = i - Len(Tail(out))
      BY <1>1, <1>4, <2>1, <2>6
    <3> QED
      BY <2>2, <2>3, <2>4, <2>6, <3>1
  <2> QED
    BY <2>5, <2>6
<1>9. Tail(out \o ms) = Tail(out) \o ms
  BY <1>5, <1>6, <1>7, <1>8, SeqEqual
<1> QED
  BY <1>2, <1>3, <1>9

\* What the batches of a poll will have said.
LEMMA BatchSays ==
  ASSUME NEW out \in Seq(Messages), NEW k, NEW v \in Values, NEW w \in Values
  PROVE  LET core == <<Message("core", v), Message("status", w)>>
         IN  /\ LastIs(out \o core, k, "core", v)
             /\ LastIs(out \o (<<DetailsOffline>> \o core), k, "core", v)
             /\ \A x : LastIs(out, k, "details", x) =>
                         LastIs(out \o core, k, "details", x)
<1> DEFINE c == Message("core", v)
           s == Message("status", w)
<1>1. /\ c \in Messages /\ s \in Messages /\ DetailsOffline \in Messages
      /\ c.topic = "core" /\ c.value = v /\ s.topic = "status"
  BY DEF Message, Messages, Topics, DetailsOffline, Values
<1>2. ASSUME NEW o \in Seq(Messages)
      PROVE  o \o <<c, s>> = Append(Append(o, c), s)
  <2>1. <<c, s>> # <<>> /\ Head(<<c, s>>) = c /\ Tail(<<c, s>>) = <<s>>
    OBVIOUS
  <2>2. Append(o, c) \in Seq(Messages) /\ <<c, s>> \in Seq(Messages)
    BY <1>1
  <2>3. o \o <<c, s>> = Append(o, c) \o <<s>>
    BY <2>1, <2>2, HandedOver
  <2> QED
    BY <1>1, <2>2, <2>3, AppendIsConcat
<1>3. out \o (<<DetailsOffline>> \o <<c, s>>)
        = Append(Append(Append(out, DetailsOffline), c), s)
  <2>1. <<DetailsOffline>> \in Seq(Messages) /\ <<c, s>> \in Seq(Messages)
    BY <1>1
  <2>2. out \o (<<DetailsOffline>> \o <<c, s>>)
          = Append(out, DetailsOffline) \o <<c, s>>
    BY <1>1, <2>1, AppendIsConcat, ConcatAssociative
  <2>3. Append(out, DetailsOffline) \in Seq(Messages)
    BY <1>1
  <2> QED
    BY <1>2, <2>2, <2>3
<1> HIDE DEF c, s
<1>4. ASSUME NEW o \in Seq(Messages)
      PROVE  LastIs(Append(Append(o, c), s), k, "core", v)
  <2>1. LastIs(Append(o, c), k, "core", v) /\ Append(o, c) \in Seq(Messages)
    BY <1>1, LastAppended
  <2> QED
    BY <1>1, <2>1, LastAppended
<1>5. ASSUME NEW x, LastIs(out, k, "details", x)
      PROVE  LastIs(Append(Append(out, c), s), k, "details", x)
  <2>1. /\ LastIs(Append(out, c), k, "details", x)
        /\ Append(out, c) \in Seq(Messages)
    BY <1>1, <1>5, LastAppended
  <2> QED
    BY <1>1, <2>1, LastAppended
<1>6. Append(out, DetailsOffline) \in Seq(Messages)
  BY <1>1
<1> QED
  BY <1>2, <1>3, <1>4, <1>5, <1>6 DEF c, s

\* One more publication.
LEMMA OneSays ==
  ASSUME NEW out \in Seq(Messages), NEW k, NEW m \in Messages, NEW t, NEW v
  PROVE  /\ m.topic = t => LastIs(out \o <<m>>, k, t, m.value)
         /\ m.topic # t /\ LastIs(out, k, t, v) =>
              LastIs(out \o <<m>>, k, t, v)
<1>1. out \o <<m>> = Append(out, m)
  BY AppendIsConcat
<1> QED
  BY <1>1, LastAppended

\* What is in hand is a sequence of messages, and the last one is all of it.
LEMMA InHand ==
  ASSUME Handover
  PROVE  todo \in Seq(Messages)
<1>1. CASE todo = <<>>
  BY <1>1, EmptySeq
<1>2. CASE Batch(todo)
  BY <1>2 DEF Batch
<1> QED
  BY <1>1, <1>2 DEF Handover

LEMMA LastInHand ==
  ASSUME NEW ms, Batch(ms), ~(Len(ms) > 1)
  PROVE  /\ ms \in Seq(Messages) /\ ms # <<>>
         /\ Head(ms) \in Messages /\ Tail(ms) = <<>>
<1>1. ms \in Seq(Messages) /\ ms # <<>> /\ Head(ms) \in Messages
  BY HeadType, Zenon DEF Batch
<1>2. Len(ms) = 1
  <2>1. Len(ms) \in Nat /\ Len(ms) >= 1
    BY BatchLength, Zenon
  <2>2. \A n \in Nat : n >= 1 /\ ~(n > 1) => n = 1
    OBVIOUS
  <2> QED
    BY <2>1, <2>2, Zenon
<1>3. Tail(ms) \in Seq(Messages) /\ Len(Tail(ms)) = 0
  BY <1>1, <1>2, HeadTailProperties
<1> QED
  BY <1>1, <1>3, EmptySeq

\* What is read, and in hand, is what it is said to be.
LEMMA ObservedStep ==
  ASSUME Observed, Course, Flags, Readings, Commanding, [Next]_vars
  PROVE  Observed'
<1> USE DEF Publishing, vars, broker, network, session, lifecycle, inbox,
      main, unit, shown, NetFrame, Callback, MainFrame, Quiet, At, Goto,
      ToLoop, Leave, Running, Spend, Course, Flags, Readings, Telling,
      Refreshing
<1>1. CASE Drop
  BY <1>1 DEF Observed, Drop
<1>2. CASE SlotMoves
  BY <1>2 DEF Observed, SlotMoves
<1>3. CASE CommandAges
  BY <1>3 DEF Observed, CommandAges
<1>4. CASE Sigterm
  BY <1>4 DEF Observed, Sigterm
<1>5. CASE Establish
  BY <1>5 DEF Observed, Establish
<1>6. CASE OnConnect
  BY <1>6 DEF Observed, OnConnect, HoldsStateLock
<1>7. CASE OnRefused
  BY <1>7 DEF Observed, OnRefused, HoldsStateLock, Rejected
<1>8. CASE SubackArrives
  BY <1>8 DEF Observed, SubackArrives
<1>9. CASE OnSubscribe
  BY <1>9 DEF Observed, OnSubscribe, HoldsStateLock, Rejected, Subscribed
<1>10. CASE CommandArrives
  BY <1>10 DEF Observed, CommandArrives
<1>11. CASE OnMessage
  BY <1>11 DEF Observed, OnMessage, HoldsStateLock, Valid
<1>12. CASE NoticeDrop
  BY <1>12 DEF Observed, NoticeDrop
<1>13. CASE OnDisconnect
  BY <1>13 DEF Observed, OnDisconnect, HoldsStateLock
<1>14. CASE DrainQueue
  BY <1>14 DEF Observed, DrainQueue
<1>15. CASE ReleasePa2
  BY <1>15 DEF Observed, ReleasePa2, HoldsPa2Lock
<1>16. CASE Deliver
  BY <1>16 DEF Observed, Deliver
<1>17. CASE Dial
  BY <1>17 DEF Observed, Dial
<1>18. CASE Boot
  BY <1>18 DEF Observed, Boot, ApplySigterm
<1>19. CASE LoopTop
  BY <1>19 DEF Observed, LoopTop, ApplySigterm
<1>20. CASE Dispatch
  BY <1>20 DEF Observed, Dispatch, NextWork
<1>21. CASE Publish
  BY <1>21 DEF Observed, Publish, Fatal, Fenced
<1>22. CASE PollOpen
  BY <1>22 DEF Observed, PollOpen, Identified, PollFails
<1>23. CASE Announce
  BY <1>23 DEF Observed, Announce, Fatal, Fenced
<1>24. CASE AwaitAck
  BY <1>24 DEF Observed, AwaitAck, Fatal, TimeRunsOut
<1>25. CASE PollRead
  BY <1>25 DEF Observed, PollRead, PollFails, DetailsOutdated
<1>26. CASE Detail
  BY <1>26 DEF Observed, Detail, AfterDetails
<1>27. CASE Told
  BY <1>27 DEF Observed, Told
<1>28. CASE HangUp
  BY <1>28 DEF Observed, HangUp
<1>29. CASE Admit
  BY <1>29 DEF Observed, Admit, Fenced, Stale
<1>30. CASE Authorize
  BY <1>30 DEF Observed, Authorize, ApplySigterm, Fenced, Stale,
    StaleWhenLocked
<1>31. CASE Identify
  BY <1>31 DEF Observed, Identify, ApplySigterm, CommandFails, Identified,
    Unanswered
<1>32. CASE Transact
  BY <1>32 DEF Observed, Transact, ApplySigterm, CommandFails, Unanswered
<1>33. CASE Report
  <2>1. cmd.kind = "preset" => cmd.target \in Slots
    BY DEF Commanding, CommandOK
  <2> QED
    BY <1>33, <2>1 DEF Observed, Report, ApplySigterm, CommandFails,
      Identified
<1>34. CASE Verdict
  BY <1>34 DEF Observed, Verdict
<1>35. CASE Shut
  BY <1>35 DEF Observed, Shut, LocksAtJoin
<1>36. CASE LastAck
  BY <1>36 DEF Observed, LastAck, LocksAtJoin, SaysGoodbye, TimeRunsOut
<1>37. CASE Join
  BY <1>37 DEF Observed, Join
<1>38. CASE Exited \/ UNCHANGED vars
  BY <1>38 DEF Observed, Exited
<1> QED
  BY <1>1, <1>2, <1>3, <1>4, <1>5, <1>6, <1>7, <1>8, <1>9, <1>10, <1>11,
    <1>12, <1>13, <1>14, <1>15, <1>16, <1>17, <1>18, <1>19, <1>20, <1>21,
    <1>22, <1>23, <1>24, <1>25, <1>26, <1>27, <1>28, <1>29, <1>30, <1>31,
    <1>32, <1>33, <1>34, <1>35, <1>36, <1>37, <1>38 DEF Next, Main, Starting,
    Polling, Executing, Stopping, Network, Environment, Exited

\* Delivery changes nothing about what will be said.
LEMMA WillSayDelivered ==
  ASSUME Outgoing, Handover, Deliver, UNCHANGED todo,
         NEW t \in Topics, NEW v, WillSay(t, v)
  PROVE  LastIs(outbox' \o todo', kept'[t], t, v)
<1>1. /\ outbox \in Seq(Messages) /\ outbox # <<>> /\ outbox' = Tail(outbox)
      /\ todo \in Seq(Messages)
  BY InHand DEF Deliver, Outgoing
<1>2. Head(outbox) \in Messages
  BY <1>1
<1>3. kept'[t] = IF Head(outbox).topic = t THEN Head(outbox).value ELSE kept[t]
  BY <1>2 DEF Deliver, Outgoing
<1>4. LastIs(Tail(outbox \o todo), kept'[t], t, v)
  BY <1>1, <1>3, DeliveredFirst, LastDelivered DEF WillSay
<1> QED
  BY <1>1, <1>4, DeliveredFirst

\* So does handing over the next publication of the batch.
LEMMA WillSayHanded ==
  ASSUME Outgoing, Batch(todo), outbox' = Append(outbox, Head(todo)),
         todo' = Tail(todo), UNCHANGED kept, NEW t, NEW v, WillSay(t, v)
  PROVE  LastIs(outbox' \o todo', kept'[t], t, v)
<1>1. outbox \in Seq(Messages) /\ todo \in Seq(Messages) /\ todo # <<>>
  BY HeadType DEF Outgoing, Batch
<1> QED
  BY <1>1, HandedOver DEF WillSay

\* The network thread can end a poll's session but not give it a new one.
LEMMA NetworkReconciles ==
  ASSUME Reconciling, Course, Flags, Wiring, Detached, Outgoing, Handover,
         Network \/ Environment
  PROVE  Reconciling'
<1> USE DEF Releasing, Telling, NetFrame, Callback, main, broker, network,
   session, Wiring
<1>1. UNCHANGED <<pc, job, todo, then, obs, lastSlot, crossover>>
  <2>1. UNCHANGED <<pc, job, todo, then, obs>>
    BY MainStaysPut
  <2>2. UNCHANGED <<lastSlot, crossover>>
    BY DEF Network, Environment, Drop, SlotMoves, CommandAges, Sigterm,
       Establish, OnConnect, OnRefused, SubackArrives, OnSubscribe,
       CommandArrives, OnMessage, NoticeDrop, OnDisconnect, DrainQueue,
       ReleasePa2, Deliver, shown
  <2> QED
    BY <2>1, <2>2
<1>2. CASE Deliver
  <2>1. \A t \in Topics : \A v : WillSay(t, v) =>
          LastIs(outbox' \o todo', kept'[t], t, v)
    BY <1>1, <1>2, WillSayDelivered
  <2>2. /\ \A v : WillSay("core", v) =>
                    LastIs(outbox' \o todo', kept'["core"], "core", v)
        /\ \A v : WillSay("details", v) =>
                    LastIs(outbox' \o todo', kept'["details"], "details", v)
    BY <2>1 DEF Topics
  <2>3. /\ WillSay("core", obs) => WillSay("core", obs)'
        /\ WillSay("details", crossover) => WillSay("details", crossover)'
        /\ WillSay("details", Offline) => WillSay("details", Offline)'
    BY <1>1, <2>2 DEF WillSay
  <2>4. UNCHANGED <<conn, failure, net>>
    BY <1>2 DEF Deliver
  <2> QED
    BY <1>1, <2>3, <2>4 DEF Reconciling
<1>3. ASSUME UNCHANGED outbox, kept'["core"] = kept["core"],
             kept'["details"] = kept["details"],
             failure' = "none" => failure = "none",
             conn' => conn,
             job = "poll" /\ (pc = "publish" \/ Telling) /\ failure' = "none"
               => (conn \/ Releasing => conn' \/ Releasing')
      PROVE  Reconciling'
  BY <1>1, <1>3 DEF Reconciling, WillSay
<1>4. CASE Drop
  <2>1. kept'["core"] = kept["core"] /\ kept'["details"] = kept["details"]
    BY <1>4 DEF Drop, Outgoing, Topics
  <2> QED
    BY <1>3, <1>4, <2>1 DEF Drop
<1>5. CASE SlotMoves \/ CommandAges \/ Sigterm
  BY <1>3, <1>5 DEF SlotMoves, CommandAges, Sigterm
<1>6. CASE Establish \/ OnConnect \/ OnRefused \/ SubackArrives
  BY <1>3, <1>6 DEF Establish, OnConnect, OnRefused, Rejected, SubackArrives,
     Reconciling
<1>7. CASE OnSubscribe
  <2>1. ~conn /\ ~Releasing /\ (failure' = "none" => failure = "none")
    BY <1>7 DEF OnSubscribe, Rejected
  <2>2. UNCHANGED <<outbox, kept>>
    BY <1>7 DEF OnSubscribe
  <2> QED
    BY <1>1, <2>1, <2>2 DEF Reconciling
<1>8. CASE CommandArrives \/ OnMessage \/ NoticeDrop \/ OnDisconnect
  BY <1>3, <1>8 DEF CommandArrives, OnMessage, NoticeDrop, OnDisconnect, Flags
<1>9. CASE DrainQueue
  BY <1>3, <1>9 DEF DrainQueue, Detached, Ended
<1>10. CASE ReleasePa2
  BY <1>3, <1>10 DEF ReleasePa2, HoldsPa2Lock
<1> QED
  BY <1>2, <1>4, <1>5, <1>6, <1>7, <1>8, <1>9, <1>10 DEF Network, Environment

\* The main thread says of the preset and of the details what it has read.
LEMMA ReconcilingStep ==
  ASSUME Reconciling, Observed, Course, Flags, Readings, Wiring, Detached,
         Display, Outgoing, Handover, [Next]_vars
  PROVE  Reconciling'
<1> USE DEF Publishing, broker, network, session, lifecycle, inbox,
   main, unit, shown, MainFrame, Quiet, At, Goto, ToLoop, Leave, Course,
   Telling, Releasing
<1>1. CASE Network \/ Environment
  BY <1>1, NetworkReconciles
<1>2. outbox \in Seq(Messages) /\ outbox \o <<>> = outbox
  BY ConcatEmptySeq DEF Outgoing
<1>3. ASSUME NEW m \in Messages, NEW t, NEW v
      PROVE  /\ m.topic = t => LastIs(outbox \o <<m>>, kept[t], t, m.value)
             /\ m.topic # t /\ LastIs(outbox, kept[t], t, v) =>
                  LastIs(outbox \o <<m>>, kept[t], t, v)
  BY <1>2, OneSays
<1>4. CASE Publish
  <2>1. CASE Fatal("send") \/ Fenced
    BY <1>4, <2>1 DEF Publish, Fatal, Fenced, Reconciling
  <2>2. CASE ~Fenced /\ link # "down" /\ ~Fatal("send")
    <3>1. Batch(todo) /\ outbox' = Append(outbox, Head(todo))
      BY <1>4, <2>2 DEF Publish, Handover
    <3>2. UNCHANGED <<conn, failure, kept, net>>
      BY <1>4, <2>2 DEF Publish
    <3>3. CASE pc' = "loop" /\ job' = "none"
      BY <3>3 DEF Reconciling
    <3>4. CASE ~(pc' = "loop" /\ job' = "none")
      <4>1. UNCHANGED <<job, obs, lastSlot, crossover>>
        BY <1>4, <2>2, <3>4 DEF Publish
      <4>2. todo' = Tail(todo)
        <5>1. CASE Len(todo) > 1
          BY <1>4, <2>2, <5>1 DEF Publish
        <5>2. CASE ~(Len(todo) > 1)
          <6>1. todo' = <<>>
            BY <1>4, <2>2, <3>4, <5>2 DEF Publish
          <6> QED
            BY <3>1, <5>2, <6>1, LastInHand
        <5> QED
          BY <5>1, <5>2
      <4>3. /\ WillSay("core", obs) => WillSay("core", obs)'
            /\ WillSay("details", crossover) =>
                 WillSay("details", crossover)'
            /\ WillSay("details", Offline) => WillSay("details", Offline)'
        <5>1. \A t, v : WillSay(t, v) =>
                LastIs(outbox' \o todo', kept'[t], t, v)
          BY <3>1, <3>2, <4>2, WillSayHanded
        <5> QED
          BY <4>1, <5>1 DEF WillSay
      <4>4. pc' = "publish" => then' = then
        BY <1>4, <2>2, <3>4 DEF Publish
      <4> QED
        BY <1>4, <3>2, <4>1, <4>3, <4>4 DEF Reconciling, Publish
    <3> QED
      BY <3>3, <3>4
  <2> QED
    BY <1>4, <2>1, <2>2 DEF Publish
<1>5. CASE PollOpen
  BY <1>5 DEF PollOpen, PollFails, Identified, Reconciling
<1>6. CASE Announce
  <2>1. CASE failure' # "none" \/ job' # "poll" \/ ~Telling'
    BY <1>6, <2>1 DEF Announce, Fatal, Reconciling
  <2>2. CASE failure' = "none" /\ job' = "poll" /\ Telling'
    <3>1. /\ outbox' = Append(outbox, Message("config", NoSlot))
          /\ pc' = "ack" /\ then = "told"
          /\ UNCHANGED <<conn, failure, kept, net, obs, job, then, todo>>
      BY <1>6, <2>2 DEF Announce, Fatal
    <3>2. todo = <<>> /\ Telling
      BY <1>6, <3>1 DEF Announce, Observed
    <3>3. outbox' \in Seq(Messages) /\ outbox' \o <<>> = outbox'
      BY <3>1, MessageType, ConcatEmptySeq DEF Outgoing
    <3>4. LastIs(outbox, kept["core"], "core", obs) =>
            LastIs(outbox', kept["core"], "core", obs)
      BY <1>2, <3>1, MessageType, LastAppended DEF Message
    <3> QED
      BY <1>2, <3>1, <3>2, <3>3, <3>4 DEF Reconciling, WillSay
  <2> QED
    BY <2>1, <2>2
<1>7. CASE AwaitAck
  <2>1. CASE Fatal("noack")
    BY <2>1 DEF Fatal, Reconciling
  <2>2. CASE then = "read" /\ ~Fatal("noack")
    BY <1>7, <2>2 DEF AwaitAck, Reconciling
  <2>3. CASE then = "told" /\ ~Fatal("noack")
    <3>1. /\ todo' = <<Message("details", crossover)>> /\ then' = "told"
          /\ pc = "ack" /\ pc' = "publish"
          /\ UNCHANGED <<conn, failure, kept, net, obs, job, outbox>>
      BY <1>7, <2>3 DEF AwaitAck
    <3>2. todo = <<>> /\ Telling /\ crossover \in Slots
      BY <2>3, <3>1 DEF Observed, Refreshing
    <3>3. /\ Message("details", crossover) \in Messages
          /\ Message("details", crossover).topic = "details"
      BY <3>2 DEF Message, Messages, Topics, Values
    <3>4. LastIs(outbox, kept["core"], "core", obs) =>
            LastIs(outbox' \o todo', kept["core"], "core", obs)
      BY <1>3, <3>1, <3>3
    <3> QED
      BY <1>2, <3>1, <3>2, <3>4 DEF Reconciling, WillSay
  <2> QED
    BY <1>7, <2>1, <2>2, <2>3 DEF AwaitAck
<1>8. CASE PollRead
  <2>1. CASE job' # "poll"
    BY <2>1 DEF Reconciling
  <2>2. CASE job' = "poll"
    <3> DEFINE core == <<Message("core", slot), Message("status", Online)>>
    <3>1. /\ obs' = slot /\ pc' = "publish" /\ pc = "read"
          /\ UNCHANGED <<conn, failure, kept, net, outbox, lastSlot, crossover>>
          /\ todo' = IF DetailsOutdated THEN <<DetailsOffline>> \o core
                     ELSE core
          /\ then' = "loop" => ~DetailsOutdated
      BY <1>8, <2>2 DEF PollRead, PollFails
    <3>2. failure = "none" => conn \/ Releasing
      BY <3>1 DEF Detached, Working
    <3>3. slot \in Values /\ Online \in Values
      BY DEF Readings, Values
    <3>4. /\ LastIs(outbox \o todo', kept["core"], "core", slot)
          /\ \A x : /\ ~DetailsOutdated
                    /\ LastIs(outbox, kept["details"], "details", x)
                    => LastIs(outbox \o todo', kept["details"], "details", x)
      BY <1>2, <3>1, <3>3, BatchSays
    <3>5. ASSUME failure = "none", conn, ~DetailsOutdated
          PROVE  /\ LastIs(outbox, kept["details"], "details", crossover)
                 /\ lastSlot = slot
      <4>1. detailsOK /\ lastSlot \in Slots /\ pa2 = "open"
        BY <3>1, <3>5 DEF DetailsOutdated, Observed
      <4>2. lastSlot = slot
        BY <3>5, <4>1, SlotsAssumption DEF DetailsOutdated
      <4>3. Shows(crossover)
        BY <3>1, <3>5, <4>1 DEF Display, Ended, Refreshing
      <4> QED
        BY <4>2, <4>3 DEF Shows
    <3> QED
      BY <3>1, <3>2, <3>4, <3>5 DEF Reconciling, WillSay
  <2> QED
    BY <2>1, <2>2
<1>9. CASE Detail
  <2>1. pc = "detail" /\ todo = <<>> /\ slot \in Slots
    BY <1>9 DEF Detail, Observed, Readings
  <2>2. /\ Message("details", slot) \in Messages
        /\ Message("details", slot).topic = "details"
        /\ DetailsOffline \in Messages
        /\ DetailsOffline.topic = "details" /\ DetailsOffline.value = Offline
    BY <2>1 DEF DetailsOffline, Message, Messages, Topics, Values
  <2>3. /\ LastIs(outbox, kept["core"], "core", obs) =>
             /\ LastIs(outbox \o <<DetailsOffline>>, kept["core"], "core", obs)
             /\ LastIs(outbox \o <<Message("details", slot)>>, kept["core"],
                       "core", obs)
        /\ LastIs(outbox \o <<DetailsOffline>>, kept["details"], "details",
                  Offline)
    BY <1>3, <2>2
  <2>4. CASE ~conn
    BY <1>9, <2>4 DEF Detail, Reconciling
  <2>5. CASE conn
    <3>1. /\ UNCHANGED <<conn, failure, kept, net, outbox, job, obs>>
          /\ \/ todo' = <<DetailsOffline>> /\ pc' = "publish"
             \/ pc' = "announce" /\ then' = "told" /\ UNCHANGED todo
             \/ /\ todo' = <<Message("details", slot)>>
                /\ pc' = "publish" /\ then' = "told"
      BY <1>9, <2>5 DEF Detail
    <3> QED
      BY <1>2, <2>1, <2>3, <3>1 DEF Reconciling, WillSay
  <2> QED
    BY <2>4, <2>5 DEF Flags
<1>10. CASE Told \/ HangUp \/ Dial \/ Boot \/ LoopTop
  BY <1>10 DEF Told, HangUp, Dial, Boot, LoopTop, Reconciling
<1>11. CASE Dispatch
  BY <1>11 DEF Dispatch, NextWork, Reconciling
<1>12. CASE Executing
  BY <1>12 DEF Executing, Admit, Authorize, Identify, Transact, Report,
     Verdict, CommandFails, Reconciling
<1>13. CASE Stopping
  BY <1>13 DEF Stopping, Shut, LastAck, Join, LocksAtJoin, Reconciling
<1>14. CASE Exited \/ UNCHANGED vars
  BY <1>14 DEF Exited, vars, Reconciling, WillSay
<1> QED
  BY <1>1, <1>4, <1>5, <1>6, <1>7, <1>8, <1>9, <1>10, <1>11, <1>12, <1>13,
     <1>14 DEF Next, Main, Starting, Polling

\* Reads and words of a poll, whoever disturbs it.
LEMMA PollInvariance == Spec => [](Observed /\ Reconciling)
<1>1. Init => Observed /\ Reconciling
  BY DEF Init, Observed, Reconciling, Telling, Refreshing
<1>2. IInv /\ Observed /\ Reconciling /\ [Next]_vars
        => (Observed /\ Reconciling)'
  BY ObservedStep, ReconcilingStep DEF IInv
<1> QED
  BY <1>1, <1>2, Invariance, PTL DEF Spec

\* What is said, heard in any state.
Heard == \A t, v : LastIs(outbox, kept[t], t, v) => Said(t) = v

LEMMA HeardNext == Outgoing' => Heard'
<1>1. Outgoing => Heard
  BY LastSaid DEF Heard
<1> QED
  BY <1>1, PTL

\* The last step of a poll.
LEMMA PollEnds ==
  ASSUME IInv, IInv', Observed, Observed', Reconciling, [Next]_vars,
         job = "poll", pc' = "loop", conn', failure' = "none"
  PROVE  \/ Said("details")' = Offline
         \/ Said("details")' = crossover' /\ Said("core")' = lastSlot'
<1> USE DEF IInv, Publishing, main, MainFrame, At, Goto, ToLoop, Leave, Course,
   Telling
<1>1. Publish \/ Told
  <2>1. ~(Network \/ Environment)
    BY MainStaysPut
  <2>2. ~(Starting \/ LoopTop \/ Dispatch \/ Executing \/ Stopping)
    BY DEF Starting, Dial, Boot, LoopTop, Dispatch, Executing, Admit,
       Authorize, Identify, Transact, Report, Verdict, Stopping, Shut, LastAck,
       Join
  <2>3. ~(PollOpen \/ Announce \/ AwaitAck \/ PollRead \/ Detail \/ HangUp)
    BY DEF PollOpen, PollFails, Announce, AwaitAck, Fatal, PollRead, Detail,
       HangUp, session
  <2>4. ~(Exited \/ UNCHANGED vars)
    BY DEF Exited, vars
  <2> QED
    BY <2>1, <2>2, <2>3, <2>4 DEF Next, Main, Polling
<1>2. /\ \A v : LastIs(outbox', kept'["core"], "core", v) => Said("core")' = v
      /\ \A v : LastIs(outbox', kept'["details"], "details", v) =>
                  Said("details")' = v
  BY HeardNext DEF Heard
<1>3. outbox \in Seq(Messages) /\ outbox \o <<>> = outbox
  BY ConcatEmptySeq DEF Outgoing
<1>4. CASE Told
  <2>1. /\ pc = "told" /\ todo = <<>> /\ UNCHANGED <<outbox, kept, conn, failure>>
        /\ lastSlot' = obs /\ crossover' = crossover
    BY <1>4 DEF Told, Observed, Quiet, session
  <2>2. Shows(crossover) /\ WillSay("core", obs)
    BY <2>1 DEF Display, Reconciling
  <2> QED
    BY <1>2, <1>3, <2>1, <2>2 DEF Shows, WillSay
<1>5. CASE Publish
  <2>1. /\ pc = "publish" /\ ~Fenced /\ then = "loop" /\ ~(Len(todo) > 1)
        /\ outbox' = Append(outbox, Head(todo))
        /\ UNCHANGED <<kept, conn, failure, lastSlot, crossover>>
    BY <1>5 DEF Publish, Fatal, Fenced, session, shown
  <2>2. /\ WillSay("core", obs)
        /\ \/ WillSay("details", Offline)
           \/ WillSay("details", crossover) /\ lastSlot = obs
    BY <2>1 DEF Reconciling, Fenced
  <2>3. outbox' = outbox \o todo
    <3>1. Batch(todo)
      BY <2>1 DEF Handover
    <3>2. /\ todo \in Seq(Messages) /\ todo # <<>>
          /\ Head(todo) \in Messages /\ Tail(todo) = <<>>
      BY <2>1, <3>1, LastInHand
    <3>3. outbox' \in Seq(Messages) /\ outbox' \o <<>> = outbox'
      BY <1>3, <2>1, <3>2, ConcatEmptySeq
    <3> QED
      BY <1>3, <2>1, <3>2, <3>3, HandedOver
  <2> QED
    BY <1>2, <2>1, <2>2, <2>3 DEF WillSay
<1> QED
  BY <1>1, <1>4, <1>5

\* A poll that ends in a session leaves the details offline, or on display the
\* preset and the crossover of one refresh, whatever changed the preset since
\* the last poll and whatever the broker did in this one: crossover is the last
\* reading of publish_details, lastSlot the preset its refresh had read before
\* (_poll_once, _refresh_details).  Whether the two readings agree is up to the
\* unit, see StaleIsNeverShown.
THEOREM PollsReconcile == Spec => PollReconciles
<1>1. IInv /\ IInv' /\ Observed /\ Observed' /\ Reconciling /\ [Next]_vars
        => [job = "poll" /\ pc' = "loop" /\ conn' /\ failure' = "none"
            => \/ Said("details")' = Offline
               \/ Said("details")' = crossover' /\ Said("core")' = lastSlot']_vars
  BY PollEnds
<1> QED
  BY <1>1, Invariance, PollInvariance, PTL DEF Spec, PollReconciles
=============================================================================
