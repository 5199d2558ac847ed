----------------------------- MODULE MqttBridge -----------------------------
(***************************************************************************)
(* MqttBridge (mqtt_bridge.py): the main thread that polls the PA2 and     *)
(* runs commands, the network thread of the MQTT client that runs the      *)
(* callbacks, the two locks they share, and a broker that may drop the     *)
(* connection at any time.  pc is the main thread's next step, net the     *)
(* callback the network thread is in.  A callback waits at its lock until  *)
(* the main thread lets go of it; which locks the main thread holds        *)
(* follows from job.                                                       *)
(***************************************************************************)
EXTENDS Integers, Sequences

CONSTANTS
  Slots,      \* presets of the unit
  Commands,   \* the command kinds that reach the bridge
  Backlog,    \* the loop takes up work only over a shorter outbox (bound)
  Troubles,   \* the disturbances that happen
  MaxTroubles, MaxArrivals   \* how many of them, and of commands (bounds)

CONSTANTS NoSlot, Offline, Online

Accepted == {"preset", "output"}
Kinds == Accepted \cup {"unsupported"}

\* The broker drops the connection, refuses one or acknowledges late; the unit
\* fails to answer, or is changed by others; the service is told to stop.
Disturbances == {"drop", "refuse", "slow", "pa2", "change", "term"}

ASSUME SlotsAssumption == Slots # {} /\ NoSlot \notin Slots
ASSUME CommandsAssumption == Commands \subseteq Kinds
ASSUME TroublesAssumption == Troubles \subseteq Disturbances
ASSUME BoundsAssumption == MaxTroubles \in Nat /\ MaxArrivals \in Nat
ASSUME BacklogAssumption == Backlog \in Nat \ {0}

VARIABLES
  link,      \* the connection to the broker; "broken" until paho sees it
  epoch,     \* history: which connection this is
  subDue,    \* a SUBACK is outstanding (_pending_subscribe_mid)
  kept,      \* the retained messages, by topic
  outbox,    \* publications not yet acknowledged, oldest first
  net,       \* the callback of the network thread
  incoming,  \* the command on_message is handling
  conn,      \* _mqtt_connected
  transport, \* _mqtt_transport_connected
  gen,       \* _mqtt_generation
  failure,   \* _mqtt_failure
  ready,     \* _mqtt_ready
  stop,      \* _stop_event
  sigterm,   \* _sigterm_requested
  stopping,  \* _stopping
  queue,     \* _commands, at most one
  diagnosed, \* _diagnostics holds a message
  pc,        \* next step of the main thread
  job,       \* what it is doing, which says what locks it holds
  todo,      \* publications it is about to hand to the client
  then,      \* where it goes after them
  cmd,       \* the command it took from the queue
  obs,       \* the slot it last read
  exit,      \* how run_forever ended
  pa2,       \* the PA2 session
  known,     \* _pa2_identity belongs to this session
  slot,      \* CurrentPreset of the unit
  discovered, refresh,   \* _discovery_published, _discovery_needs_refresh
  detailsOK, lastSlot,   \* _details_valid, _last_detail_slot
  crossover, \* the preset whose crossover publish_details read last
  left, arrivals   \* disturbances and commands still to come

broker == <<link, epoch, subDue, kept, outbox>>
network == <<net, incoming>>
session == <<conn, transport, gen, failure>>
lifecycle == <<ready, stop, sigterm, stopping>>
inbox == <<queue, diagnosed, arrivals>>
main == <<pc, job, todo, then, cmd, obs, exit>>
unit == <<pa2, known, slot>>
shown == <<discovered, refresh, detailsOK, lastSlot, crossover>>
vars == <<broker, network, session, lifecycle, inbox, main, unit, shown,
          left>>

Topics == {"status", "details", "core"}
Values == Slots \cup {NoSlot, Offline, Online}
Messages == [topic : Topics \cup {"config", "note"}, value : Values]
NoCommand == [kind |-> "none", target |-> NoSlot, gen |-> 0, epoch |-> 0,
              old |-> FALSE]
CommandOK(c, kinds) ==
  /\ c.kind \in kinds \cup {"none"}
  /\ c.target \in IF c.kind = "preset" THEN Slots ELSE {NoSlot}
  /\ c.gen \in Nat /\ c.epoch \in Nat /\ c.old \in BOOLEAN

TypeOK ==
  /\ link \in {"down", "up", "broken", "closed"}
  /\ epoch \in Nat /\ gen \in 0 .. MaxTroubles + 1
  /\ subDue \in BOOLEAN
  /\ kept \in [Topics -> Values]
  /\ outbox \in Seq(Messages) /\ Len(outbox) <= Backlog + 9
  /\ net \in {"idle", "connect", "refuse", "suback", "subfail", "message",
              "disconnect", "drain", "release"}
  /\ CommandOK(incoming, Kinds)
  /\ CommandOK(queue, Accepted) /\ CommandOK(cmd, Accepted)
  /\ {conn, transport, ready, stop, sigterm, stopping, diagnosed, known,
      discovered, refresh, detailsOK} \subseteq BOOLEAN
  /\ failure \in {"none", "refused", "send", "noack"}
  /\ pc \in {"dial", "boot", "loop", "armed", "cmd", "exec", "identify", "tx",
             "after", "verdict", "poll", "announce", "ack", "read",
             "publish", "detail", "told", "hangup", "giveup", "closing",
             "lastAck", "join", "exited"}
  /\ job \in {"none", "poll", "pollFail", "exec", "execFail", "shut"}
  /\ todo \in Seq(Messages) /\ Len(todo) <= 3
  /\ {obs, lastSlot, crossover} \subseteq Slots \cup {NoSlot}
  /\ exit \in {"none", "clean", "error"}
  /\ pa2 \in {"closed", "open"} /\ slot \in Slots
  /\ left \in 0 .. MaxTroubles /\ arrivals \in 0 .. MaxArrivals

Init ==
  /\ link = "down" /\ epoch = 0 /\ subDue = FALSE /\ outbox = <<>>
  /\ kept = [t \in Topics |-> IF t = "core" THEN NoSlot ELSE Offline]
  /\ net = "idle" /\ incoming = NoCommand
  /\ conn = FALSE /\ transport = FALSE /\ gen = 0 /\ failure = "none"
  /\ ready = FALSE /\ stop = FALSE /\ sigterm = FALSE /\ stopping = FALSE
  /\ queue = NoCommand /\ diagnosed = FALSE
  /\ pc = "dial" /\ job = "none" /\ todo = <<>> /\ then = "loop"
  /\ cmd = NoCommand /\ obs = NoSlot /\ exit = "none"
  /\ pa2 = "closed" /\ known = FALSE /\ slot \in Slots
  /\ discovered = FALSE /\ refresh = FALSE
  /\ detailsOK = FALSE /\ lastSlot = NoSlot /\ crossover = NoSlot
  /\ left = MaxTroubles /\ arrivals = MaxArrivals

Spend(d) == d \in Troubles /\ left > 0 /\ left' = left - 1

\* The command path holds the broker-state lock throughout; it, the polls and
\* the shutdown publications hold the PA2 lock.
HoldsStateLock == job \in {"exec", "execFail"}
HoldsPa2Lock == job # "none"

Running == pc \notin {"dial", "exited"}

-----------------------------------------------------------------------------
(* The broker, the unit, and the operator of the service *)

\* The broker sees the connection end and publishes the bridge's will.
Drop ==
  /\ link = "up" /\ Running
  /\ Spend("drop")
  /\ link' = "broken"
  /\ kept' = [kept EXCEPT !["status"] = Offline]
  /\ UNCHANGED <<epoch, subDue, outbox, network, session, lifecycle, inbox,
                 main, unit, shown>>

SlotMoves ==
  /\ Running
  /\ Spend("change")
  /\ slot' \in Slots \ {slot}
  /\ UNCHANGED <<broker, network, session, lifecycle, inbox, main, pa2, known,
                 shown>>

\* COMMAND_TTL_SECONDS pass for a command that has not begun.
CommandAges ==
  /\ \/ /\ queue.kind # "none" /\ ~queue.old
        /\ queue' = [queue EXCEPT !.old = TRUE]
        /\ UNCHANGED main
     \/ /\ pc \in {"cmd", "exec"} /\ ~cmd.old
        /\ cmd' = [cmd EXCEPT !.old = TRUE]
        /\ UNCHANGED <<queue, pc, job, todo, then, obs, exit>>
  /\ Running
  /\ UNCHANGED <<broker, network, session, lifecycle, diagnosed, arrivals, unit,
                 shown, left>>

\* _handle_sigterm, run by the main thread between any two of its steps.
Sigterm ==
  /\ Running /\ ~sigterm
  /\ Spend("term")
  /\ sigterm' = TRUE
  /\ UNCHANGED <<broker, network, session, ready, stop, stopping, inbox, main,
                 unit, shown>>

Environment == Drop \/ SlotMoves \/ CommandAges \/ Sigterm

-----------------------------------------------------------------------------
(* The network thread *)

NetFrame == UNCHANGED <<main, left>>
Callback(n) == net' = n /\ UNCHANGED incoming

\* paho connects, again and again; the broker answers or refuses.
Establish ==
  /\ Running /\ net = "idle" /\ link = "down"
  /\ \/ /\ link' = "up" /\ epoch' = epoch + 1
        /\ Callback("connect")
        /\ UNCHANGED left
     \/ /\ Spend("refuse")
        /\ Callback("refuse")
        /\ UNCHANGED <<link, epoch>>
  /\ UNCHANGED <<subDue, kept, outbox, session, lifecycle, inbox, main, unit,
                 shown>>

\* _on_connect, CONNACK accepted: subscribe, unless something fatal happened.
OnConnect ==
  /\ net = "connect" /\ ~HoldsStateLock
  /\ transport' = TRUE
  /\ conn' = FALSE
  /\ IF failure # "none"
     THEN ready' = TRUE /\ UNCHANGED <<subDue, discovered>>
     ELSE subDue' = TRUE /\ discovered' = FALSE /\ UNCHANGED ready
  /\ Callback("idle")
  /\ NetFrame
  /\ UNCHANGED <<link, epoch, kept, outbox, gen, failure, stop, sigterm,
                 stopping, inbox, unit, refresh, detailsOK, lastSlot,
                 crossover>>

Rejected ==
  /\ failure' = "refused"
  /\ stop' = TRUE
  /\ ready' = TRUE
  /\ UNCHANGED <<gen, sigterm, stopping>>

OnRefused ==
  /\ net = "refuse" /\ ~HoldsStateLock
  /\ conn' = FALSE /\ transport' = FALSE
  /\ Rejected
  /\ Callback("idle")
  /\ NetFrame
  /\ UNCHANGED <<broker, inbox, unit, shown>>

SubackArrives ==
  /\ Running /\ net = "idle" /\ link = "up" /\ subDue
  /\ \/ Callback("suback") /\ UNCHANGED left
     \/ Callback("subfail") /\ Spend("refuse")
  /\ UNCHANGED <<broker, session, lifecycle, inbox, main, unit, shown>>

SubscribedOnce == conn' = (conn \/ ~ready)
Subscribed == conn' = TRUE

OnSubscribe ==
  /\ net \in {"suback", "subfail"} /\ ~HoldsStateLock
  /\ subDue' = FALSE
  /\ IF net = "suback"
     THEN /\ Subscribed /\ ready' = TRUE
          /\ UNCHANGED <<transport, gen, failure, stop, sigterm, stopping>>
     ELSE /\ conn' = FALSE
          /\ Rejected
          /\ UNCHANGED transport
  /\ Callback("idle")
  /\ NetFrame
  /\ UNCHANGED <<link, epoch, kept, outbox, inbox, unit, shown>>

CommandArrives ==
  /\ Running /\ net = "idle" /\ link = "up" /\ transport /\ ~subDue
  /\ arrivals > 0 /\ arrivals' = arrivals - 1
  /\ net' = "message"
  /\ \E k \in Commands, s \in Slots :
       incoming' = [kind |-> k, target |-> IF k = "preset" THEN s ELSE NoSlot,
                    gen |-> 0, epoch |-> epoch, old |-> FALSE]
  /\ NetFrame
  /\ UNCHANGED <<broker, session, lifecycle, queue, diagnosed, unit, shown>>

ValidAlways(c) == TRUE
Valid(c) == c.kind \in Accepted

\* _on_message: a valid command is queued under the generation of its session
\* if the queue is empty, else answered with a diagnostic.
OnMessage ==
  /\ net = "message"
  /\ Valid(incoming) => ~HoldsStateLock
  /\ IF /\ Valid(incoming)
        /\ failure = "none" /\ conn
        /\ queue.kind = "none"
     THEN queue' = [incoming EXCEPT !.gen = gen] /\ UNCHANGED diagnosed
     ELSE diagnosed' = TRUE /\ UNCHANGED queue
  /\ net' = "idle" /\ incoming' = NoCommand
  /\ NetFrame
  /\ UNCHANGED <<broker, session, lifecycle, arrivals, unit, shown>>

NoticeDrop ==
  /\ Running /\ net = "idle" /\ link = "broken"
  /\ link' = "down"
  /\ Callback("disconnect")
  /\ NetFrame
  /\ UNCHANGED <<epoch, subDue, kept, outbox, session, lifecycle, inbox, unit,
                 shown>>

\* _on_disconnect: under the state lock, then the queue, then the PA2 lock.
OnDisconnect ==
  /\ net = "disconnect" /\ ~HoldsStateLock
  /\ conn' = FALSE /\ transport' = FALSE
  /\ gen' = gen + 1
  /\ subDue' = FALSE
  /\ Callback("drain")
  /\ NetFrame
  /\ UNCHANGED <<link, epoch, kept, outbox, failure, lifecycle, inbox, unit,
                 shown>>

DrainQueue ==
  /\ net = "drain"
  /\ IF stopping
     THEN Callback("idle") /\ ready' = TRUE /\ UNCHANGED queue
     ELSE Callback("release") /\ queue' = NoCommand /\ UNCHANGED ready
  /\ NetFrame
  /\ UNCHANGED <<broker, session, stop, sigterm, stopping, diagnosed, arrivals,
                 unit, shown>>

ReleasePa2 ==
  /\ net = "release" /\ ~HoldsPa2Lock
  /\ detailsOK' = FALSE /\ discovered' = FALSE
  /\ pa2' = "closed"
  /\ Callback("idle")
  /\ NetFrame
  /\ UNCHANGED <<broker, session, lifecycle, inbox, known, slot, refresh,
                 lastSlot, crossover>>

\* A publication reaches the broker and its PUBACK comes back; unacknowledged
\* ones survive a reconnect in the client, in order.
Deliver ==
  /\ Running /\ net = "idle" /\ link = "up" /\ transport /\ outbox # <<>>
  /\ outbox' = Tail(outbox)
  /\ LET m == Head(outbox)
     IN  kept' = IF m.topic \in Topics
                 THEN [kept EXCEPT ![m.topic] = m.value] ELSE kept
  /\ NetFrame
  /\ UNCHANGED <<link, epoch, subDue, network, session, lifecycle, inbox, unit,
                 shown>>

Network ==
  \/ Establish \/ OnConnect \/ OnRefused \/ SubackArrives \/ OnSubscribe
  \/ CommandArrives \/ OnMessage
  \/ NoticeDrop \/ OnDisconnect \/ DrainQueue \/ ReleasePa2
  \/ Deliver

\* The network thread is in a callback that waits for a lock of the main one.
NetworkWaits ==
  \/ HoldsStateLock
     /\ \/ net \in {"connect", "refuse", "suback", "subfail", "disconnect"}
        \/ net = "message" /\ Valid(incoming)
  \/ HoldsPa2Lock /\ net = "release"

-----------------------------------------------------------------------------
(* The main thread: control transfers and publication *)

MainFrame == UNCHANGED <<link, epoch, subDue, kept, network, transport, stopping,
                         arrivals>>
Quiet == UNCHANGED <<outbox, session, lifecycle, inbox, left>>

At(p) == pc = p
Goto(p) == pc' = p /\ UNCHANGED <<job, todo, then, cmd, obs, exit>>

\* Back to the top of the loop; the locks are free.
ToLoop ==
  /\ pc' = "loop" /\ job' = "none" /\ todo' = <<>> /\ then' = "loop"
  /\ cmd' = NoCommand /\ obs' = NoSlot
  /\ UNCHANGED exit

Leave(how) ==
  /\ pc' = "closing" /\ job' = "none" /\ todo' = <<>> /\ then' = "loop"
  /\ cmd' = NoCommand /\ obs' = NoSlot
  /\ exit' = how

\* Hand these publications to the client, then go on at p.
Publishing(j, ms, p) ==
  /\ pc' = "publish" /\ job' = j /\ todo' = ms /\ then' = p
  /\ UNCHANGED exit

Message(t, v) == [topic |-> t, value |-> v]
DetailsOffline == Message("details", Offline)
StatusOffline == Message("status", Offline)
Note == Message("note", NoSlot)
BothOffline == <<DetailsOffline, StatusOffline>>

\* _apply_pending_sigterm.
ApplySigterm ==
  /\ sigterm
  /\ stop' = TRUE /\ ready' = TRUE
  /\ UNCHANGED <<sigterm, stopping>>

\* A publication that fails is fatal.  Raised while a command runs, it is
\* caught with that command's other failures; anywhere else it ends the loop.
Fatal(f) ==
  /\ conn' = FALSE /\ failure' = f /\ stop' = TRUE
  /\ gen' = IF f = "send" THEN gen + 1 ELSE gen
  /\ detailsOK' = (detailsOK /\ job # "poll" /\ then # "told")
  /\ IF job = "exec" THEN ToLoop ELSE Leave("error")
  /\ pa2' = IF job = "exec" /\ (then = "identify" \/ sigterm) THEN pa2
            ELSE IF job \in {"exec", "poll"} THEN "closed" ELSE pa2
  /\ UNCHANGED <<transport, ready, sigterm, stopping, known, slot, discovered,
                 refresh, lastSlot, crossover>>

Fenced == failure # "none" \/ ~conn

\* _publish: silently nothing outside a session, an error without a socket.
Publish ==
  /\ At("publish")
  /\ \/ /\ ~Fenced /\ link = "down"
        /\ Fatal("send")
        /\ UNCHANGED <<outbox, inbox, left>>
     \/ /\ Fenced \/ link # "down"
        /\ outbox' = IF Fenced THEN outbox ELSE Append(outbox, Head(todo))
        /\ IF Len(todo) > 1
           THEN todo' = Tail(todo) /\ UNCHANGED <<pc, job, then, cmd, obs, exit>>
           ELSE IF then = "loop" THEN ToLoop
           ELSE /\ pc' = then /\ todo' = <<>> /\ then' = "loop"
                /\ UNCHANGED <<job, cmd, obs, exit>>
        /\ UNCHANGED <<session, lifecycle, inbox, left, unit, shown>>
  /\ MainFrame

-----------------------------------------------------------------------------
(* The main thread: startup and the loop *)

Dial ==
  /\ At("dial")
  /\ \/ Goto("boot") /\ UNCHANGED left
     \/ Leave("error") /\ Spend("refuse")
  /\ UNCHANGED <<outbox, session, lifecycle, inbox, unit, shown>>
  /\ MainFrame

\* _mqtt_ready.wait: SIGTERM, a failed or acknowledged subscription, or none.
Boot ==
  /\ At("boot")
  /\ \/ ApplySigterm /\ Leave("clean") /\ UNCHANGED left
     \/ /\ ~sigterm /\ ready /\ failure # "none"
        /\ Leave("error")
        /\ UNCHANGED <<lifecycle, left>>
     \/ /\ ~sigterm /\ ready /\ failure = "none"
        /\ Publishing("none", BothOffline, "loop")
        /\ UNCHANGED <<lifecycle, left, cmd, obs>>
     \/ /\ ~sigterm /\ ~ready
        /\ Spend("slow")
        /\ Leave("error")
        /\ UNCHANGED lifecycle
  /\ UNCHANGED <<outbox, session, inbox, unit, shown>>
  /\ MainFrame

\* The loop looks at the stop event first.
LoopTop ==
  /\ At("loop")
  /\ IF sigterm
     THEN ApplySigterm /\ Leave("clean")
     ELSE /\ IF stop THEN Leave("clean") ELSE Goto("armed")
          /\ UNCHANGED lifecycle
  /\ UNCHANGED <<outbox, session, inbox, left, unit, shown>>
  /\ MainFrame

\* A diagnostic first, then a command, then the poll that is due.
NextWork ==
  \/ /\ diagnosed
     /\ diagnosed' = FALSE
     /\ Publishing("none", <<Note>>, "loop")
     /\ UNCHANGED <<cmd, obs, queue, arrivals>>
  \/ /\ ~diagnosed /\ queue.kind # "none"
     /\ cmd' = queue /\ queue' = NoCommand
     /\ pc' = "cmd"
     /\ UNCHANGED <<job, todo, then, obs, exit, diagnosed, arrivals>>
  \/ /\ ~diagnosed /\ queue.kind = "none"
     /\ Goto("poll")
     /\ UNCHANGED inbox

\* Then at the failure and at the session.
Dispatch ==
  /\ At("armed")
  /\ IF failure # "none" THEN Leave("error") /\ UNCHANGED inbox
     ELSE IF ~conn THEN ToLoop /\ UNCHANGED inbox
     ELSE /\ Len(outbox) < Backlog
          /\ NextWork
  /\ MainFrame
  /\ UNCHANGED <<outbox, conn, gen, failure, ready, stop, sigterm, left, unit,
                 shown>>

-----------------------------------------------------------------------------
(* The main thread: one poll *)

IdentifiedKeepsDetails ==
  /\ known' = TRUE
  /\ discovered' = FALSE
  /\ refresh' = (pa2 = "open")
  /\ UNCHANGED detailsOK

\* A session opened, or its identity read anew after a reconnect inside it.
Identified ==
  /\ known' = TRUE
  /\ discovered' = FALSE
  /\ refresh' = (pa2 = "open")
  /\ detailsOK' = FALSE

\* _poll_once's handler: both domains offline, the session closed, and the
\* loop goes on, or ends if the identity conflicts with the saved one.
PollFails ==
  /\ Spend("pa2")
  /\ detailsOK' = FALSE
  /\ \E p \in {"hangup", "giveup"} : Publishing("pollFail", BothOffline, p)
  /\ UNCHANGED <<unit, discovered, refresh, lastSlot, crossover, cmd, obs>>

\* _connect_pa2 and _identity_for_connection, under the PA2 lock.
PollOpen ==
  /\ At("poll")
  /\ \/ PollFails
     \/ /\ pa2' = "open"
        /\ IF pa2 = "open" /\ known
           THEN UNCHANGED <<known, discovered, refresh, detailsOK>>
           ELSE Identified
        /\ job' = "poll" /\ then' = "read"
        /\ pc' = IF discovered' THEN "read" ELSE "announce"
        /\ UNCHANGED <<slot, lastSlot, crossover, todo, cmd, obs, exit, left>>
  /\ UNCHANGED <<outbox, session, lifecycle, inbox>>
  /\ MainFrame

\* _publish_discovery: hand over the entities, then wait for every PUBACK.
Announce ==
  /\ At("announce")
  /\ \/ Fenced /\ Fatal("noack") /\ UNCHANGED outbox
     \/ ~Fenced /\ link = "down" /\ Fatal("send") /\ UNCHANGED outbox
     \/ /\ ~Fenced /\ link # "down"
        /\ outbox' = Append(outbox, Message("config", NoSlot))
        /\ Goto("ack")
        /\ UNCHANGED <<session, lifecycle, unit, shown>>
  /\ UNCHANGED <<inbox, left>>
  /\ MainFrame

\* The time for acknowledgements runs out: only without a connection, with
\* the network thread waiting for a lock, or with a slow broker.
TimeRunsOut ==
  /\ outbox # <<>>
  /\ IF link # "up" \/ NetworkWaits THEN UNCHANGED left ELSE Spend("slow")

AwaitAck ==
  /\ At("ack")
  /\ \/ /\ outbox = <<>>
        /\ discovered' = TRUE
        /\ refresh' = (refresh /\ then = "read")
        /\ pc' = IF then = "read" THEN "read" ELSE "publish"
        /\ IF then = "read" THEN then' = "loop" /\ UNCHANGED todo
           ELSE then' = "told" /\ todo' = <<Message("details", crossover)>>
        /\ UNCHANGED <<job, cmd, obs, exit, session, lifecycle, unit,
                       detailsOK, lastSlot, crossover, left>>
     \/ /\ TimeRunsOut
        /\ Fatal("noack")
  /\ UNCHANGED <<outbox, inbox>>
  /\ MainFrame

\* Are the details on display no longer those of the preset just read?
OutdatedIfInvalid == ~detailsOK
DetailsOutdated == ~detailsOK \/ (lastSlot # NoSlot /\ lastSlot # slot)

\* Controller.state, then what has to be said about it, details first.
PollRead ==
  /\ At("read")
  /\ \/ PollFails
     \/ /\ obs' = slot
        /\ detailsOK' = (detailsOK /\ ~DetailsOutdated)
        /\ LET core == <<Message("core", slot), Message("status", Online)>>
           IN  \E overdue \in BOOLEAN :
                 Publishing("poll",
                   IF DetailsOutdated THEN <<DetailsOffline>> \o core ELSE core,
                   IF DetailsOutdated \/ overdue THEN "detail" ELSE "loop")
        /\ UNCHANGED <<unit, discovered, refresh, lastSlot, crossover, cmd,
                       left>>
  /\ UNCHANGED <<outbox, session, lifecycle, inbox>>
  /\ MainFrame

AfterDetails == IF job = "poll" THEN "loop" ELSE "verdict"

\* _refresh_details and publish_details.  The crossover is read now, whatever
\* the preset was when the state was read.  A failed read leaves the session of
\* the PA2 open or closed; presets renamed since need a new announcement.
Detail ==
  /\ At("detail")
  /\ \/ /\ ~conn
        /\ detailsOK' = TRUE /\ lastSlot' = obs
        /\ IF job = "poll" THEN ToLoop ELSE Goto("verdict")
        /\ UNCHANGED <<unit, crossover, left>>
     \/ /\ conn /\ Spend("pa2")
        /\ detailsOK' = FALSE
        /\ pa2' \in {pa2, "closed"}
        /\ Publishing(job, <<DetailsOffline>>, AfterDetails)
        /\ UNCHANGED <<known, slot, lastSlot, crossover, cmd, obs>>
     \/ /\ conn
        /\ \/ refresh /\ UNCHANGED left
           \/ ~refresh /\ Spend("change")
        /\ crossover' = slot
        /\ pc' = "announce" /\ then' = "told"
        /\ UNCHANGED <<unit, detailsOK, lastSlot, job, todo, cmd, obs, exit>>
     \/ /\ conn /\ ~refresh
        /\ crossover' = slot
        /\ Publishing(job, <<Message("details", slot)>>, "told")
        /\ UNCHANGED <<unit, detailsOK, lastSlot, cmd, obs, left>>
  /\ UNCHANGED <<outbox, session, lifecycle, inbox, discovered, refresh>>
  /\ MainFrame

\* _last_detail_slot is the preset the state was read of.
Told ==
  /\ At("told")
  /\ detailsOK' = TRUE /\ lastSlot' = obs
  /\ IF job = "poll" THEN ToLoop ELSE Goto("verdict")
  /\ Quiet
  /\ UNCHANGED <<unit, discovered, refresh, crossover>>
  /\ MainFrame

HangUp ==
  /\ pc \in {"hangup", "giveup"}
  /\ pa2' = "closed"
  /\ IF At("hangup") THEN ToLoop ELSE Leave("error")
  /\ Quiet
  /\ UNCHANGED <<known, slot, shown>>
  /\ MainFrame

-----------------------------------------------------------------------------
(* The main thread: one command *)

\* The command's session is over: it is dropped and the PA2 session closed.
Stale == Fenced \/ cmd.gen # gen

\* _process_queued_command checks before it asks for the locks.
Admit ==
  /\ At("cmd")
  /\ IF Stale
     THEN /\ detailsOK' = FALSE /\ pa2' = "closed"
          /\ ToLoop
     ELSE /\ IF cmd.old
             THEN Publishing("none", <<Note>>, "loop") /\ UNCHANGED <<cmd, obs>>
             ELSE Goto("exec")
          /\ UNCHANGED <<detailsOK, pa2>>
  /\ Quiet
  /\ UNCHANGED <<known, slot, discovered, refresh, lastSlot, crossover>>
  /\ MainFrame

StaleUnchecked == FALSE
StaleWhenLocked == Stale

\* _execute_command checks again once it has both locks, and keeps them.
Authorize ==
  /\ At("exec")
  /\ \/ /\ StaleWhenLocked
        /\ detailsOK' = FALSE /\ pa2' = "closed"
        /\ ToLoop
        /\ UNCHANGED lifecycle
     \/ /\ ~StaleWhenLocked /\ cmd.old
        /\ Publishing("execFail", <<Note>>, "loop")
        /\ UNCHANGED <<cmd, obs, detailsOK, pa2, lifecycle>>
     \/ /\ ~StaleWhenLocked /\ ~cmd.old
        /\ ApplySigterm /\ ToLoop
        /\ UNCHANGED <<detailsOK, pa2>>
     \/ /\ ~StaleWhenLocked /\ ~cmd.old /\ ~sigterm
        /\ IF cmd.kind = "preset"
           THEN /\ detailsOK' = FALSE
                /\ Publishing("exec", <<DetailsOffline>>, "identify")
                /\ UNCHANGED <<cmd, obs>>
           ELSE /\ pc' = "tx" /\ job' = "exec"
                /\ UNCHANGED <<detailsOK, todo, then, cmd, obs, exit>>
        /\ UNCHANGED <<pa2, lifecycle>>
  /\ UNCHANGED <<outbox, session, inbox, left>>
  /\ UNCHANGED <<known, slot, discovered, refresh, lastSlot, crossover>>
  /\ MainFrame

\* The handler of a failed command: silent once SIGTERM came; a device that
\* was touched is left offline and its session closed.
CommandFails(touched) ==
  \/ /\ ApplySigterm /\ ToLoop
     /\ pa2' \in {pa2, "closed"}
  \/ /\ ~sigterm
     /\ Publishing("execFail", (IF touched THEN BothOffline ELSE <<>>) \o <<Note>>,
                   "loop")
     /\ pa2' \in IF touched THEN {"closed"} ELSE {pa2, "closed"}
     /\ UNCHANGED <<lifecycle, cmd, obs>>

\* A read of the unit in a command fails: for want of a session, or spent.
Unanswered == IF pa2 = "closed" THEN UNCHANGED left ELSE Spend("pa2")

\* _identity_for_connection, before the unit is touched.
Identify ==
  /\ At("identify")
  /\ \/ /\ ~known /\ Unanswered
        /\ CommandFails(FALSE)
        /\ UNCHANGED <<known, shown>>
     \/ /\ known \/ pa2 = "open"
        /\ IF known THEN UNCHANGED <<known, discovered, refresh, detailsOK>>
           ELSE Identified
        /\ \/ ApplySigterm /\ ToLoop
           \/ ~sigterm /\ Goto("tx") /\ UNCHANGED lifecycle
        /\ UNCHANGED <<pa2, lastSlot, crossover, left>>
  /\ UNCHANGED <<outbox, session, inbox, slot>>
  /\ MainFrame

\* The controller's operation: it succeeds only over an open session, may
\* reconnect inside it, and may fail after the preset was recalled.
Transact ==
  /\ At("tx")
  /\ \/ /\ pa2 = "open"
        /\ slot' = IF cmd.kind = "preset" THEN cmd.target ELSE slot
        /\ \/ UNCHANGED <<known, left>>
           \/ known' = FALSE /\ Spend("pa2")
        /\ \/ ApplySigterm /\ ToLoop
           \/ ~sigterm /\ Goto("after") /\ UNCHANGED lifecycle
        /\ UNCHANGED pa2
     \/ /\ Unanswered
        /\ slot' \in IF cmd.kind = "preset" /\ pa2 = "open"
                    THEN {slot, cmd.target} ELSE {slot}
        /\ known' \in {known, FALSE}
        /\ CommandFails(TRUE)
  /\ UNCHANGED <<outbox, session, inbox, shown>>
  /\ MainFrame

\* What the command left: publish_state, and for a preset its details.
Report ==
  /\ At("after")
  /\ \/ ApplySigterm /\ ToLoop /\ UNCHANGED <<unit, shown, left>>
     \/ /\ Spend("pa2")
        /\ CommandFails(TRUE)
        /\ UNCHANGED <<known, slot, shown>>
     \/ /\ ~sigterm
        /\ IF known THEN UNCHANGED <<known, discovered, refresh, detailsOK>>
           ELSE Identified
        /\ obs' = IF cmd.kind = "preset" THEN cmd.target ELSE slot
        /\ Publishing("exec",
                      <<Message("core", obs'), Message("status", Online)>>,
                      IF cmd.kind = "preset" THEN "detail" ELSE "verdict")
        /\ UNCHANGED <<pa2, slot, lastSlot, crossover, cmd, left, lifecycle>>
  /\ UNCHANGED <<outbox, session, inbox>>
  /\ MainFrame

Verdict ==
  /\ At("verdict")
  /\ Publishing("exec", <<Note>>, "loop")
  /\ Quiet
  /\ UNCHANGED <<cmd, obs, unit, shown>>
  /\ MainFrame

-----------------------------------------------------------------------------
(* The main thread: shutdown *)

\* The network thread is joined with both locks free: it may need them.
LocksAtJoinKept == "shut"
LocksAtJoin == "none"

\* Both domains offline, past the fence, while the PA2 lock is held.
Shut ==
  /\ At("closing")
  /\ stopping' = TRUE
  /\ IF transport /\ link # "down"
     THEN /\ outbox' = outbox \o BothOffline
          /\ pc' = "lastAck" /\ job' = "shut"
          /\ UNCHANGED <<conn, transport>>
     ELSE /\ conn' = FALSE /\ transport' = FALSE
          /\ pc' = "join" /\ job' = LocksAtJoin
          /\ UNCHANGED outbox
  /\ UNCHANGED <<link, epoch, subDue, kept, network, gen, failure, ready, stop,
                 sigterm, inbox, todo, then, cmd, obs, exit, unit, shown, left>>

\* DISCONNECT, which keeps the broker from publishing the will, is sent only
\* after both publications were acknowledged.
SaysGoodbyeAlways(acked) == link = "up"
SaysGoodbye(acked) == acked /\ link = "up"

LastAck ==
  /\ At("lastAck")
  /\ \/ /\ outbox = <<>>
        /\ link' = IF SaysGoodbye(TRUE) THEN "closed" ELSE link
        /\ UNCHANGED <<failure, stop, left>>
     \/ /\ TimeRunsOut
        /\ link' = IF SaysGoodbye(FALSE) THEN "closed" ELSE link
        /\ failure' = "noack" /\ stop' = TRUE
  /\ conn' = FALSE /\ transport' = FALSE
  /\ pc' = "join" /\ job' = LocksAtJoin
  /\ UNCHANGED <<epoch, subDue, kept, outbox, network, gen, ready, sigterm,
                 stopping, inbox, todo, then, cmd, obs, exit, unit, shown>>

\* loop_stop waits for the network thread; the process ends, and a connection
\* it leaves behind ends with it.
Join ==
  /\ At("join") /\ net = "idle"
  /\ Goto("exited")
  /\ pa2' = "closed"
  /\ kept' = IF link = "up" THEN [kept EXCEPT !["status"] = Offline] ELSE kept
  /\ link' = "closed"
  /\ Quiet
  /\ UNCHANGED <<epoch, subDue, network, transport, stopping, diagnosed, known,
                 slot, shown>>

Starting == Dial \/ Boot
Polling ==
  PollOpen \/ Announce \/ AwaitAck \/ PollRead \/ Detail \/ Told \/ HangUp
Executing ==
  Admit \/ Authorize \/ Identify \/ Transact \/ Report \/ Verdict
Stopping == Shut \/ LastAck \/ Join
Main ==
  Starting \/ LoopTop \/ Dispatch \/ Publish \/ Polling \/ Executing
  \/ Stopping

Exited == At("exited") /\ UNCHANGED vars

Next == Main \/ Network \/ Environment \/ Exited

Spec == Init /\ [][Next]_vars

\* Both threads are scheduled; paho keeps trying to connect.  Nothing makes
\* the broker refuse, drop, or delay, and nothing makes it stop.
FairSpec == Spec /\ WF_vars(Main) /\ WF_vars(Network)

-----------------------------------------------------------------------------
(* Properties *)

\* What the broker will have retained once it has all the bridge said.
Said(t) ==
  LET about == {i \in 1 .. Len(outbox) : outbox[i].topic = t}
      last == CHOOSE i \in about : \A j \in about : j <= i
  IN  IF about = {} THEN kept[t] ELSE outbox[last].value

\* A command runs only in the broker session it arrived in: while it holds the
\* unit the bridge knows of no failure or disconnect, and no other connection
\* has been made since (the linearization comment of _execute_command).
CommandInItsSession ==
  pc = "tx" => /\ conn /\ failure = "none"
               /\ cmd.epoch = epoch

\* Between two steps of the loop, valid details are details on display: a
\* bridge that thinks it need not refresh has told the broker so, and what the
\* broker was told last is what the last refresh read (_details_valid).  Of
\* which preset that was is another matter, see PollReconciles.
DetailsAreShown ==
  pc = "loop" /\ conn /\ failure = "none" /\ pa2 = "open" /\ detailsOK =>
    Said("details") = crossover

\* However the bridge ends, Home Assistant is left with an offline device: by
\* acknowledged publications or by the will (_run_forever's finally block).
ExitLeavesOffline == pc = "exited" => kept["status"] = Offline

\* SIGTERM and every fatal failure end the process: shutdown takes the PA2 lock
\* and joins the network thread, which may be waiting for that lock itself.
StopEnds == (sigterm \/ failure # "none") ~> pc = "exited"

\* After its last disturbance the bridge is online again, or it has ended.
ComesBack == []<>(kept["status"] = Online \/ pc = "exited")

\* A lost connection is never taken for a broker that fails to acknowledge,
\* which is fatal: "Recover from transient MQTT disconnects" (CHANGELOG 0.1.5).
DropsAreTransient == failure # "noack"

\* A subscription refused in the loop is raised to run_forever's caller, which
\* is what makes the process exit with an error and systemd start it again.
FatalIsReported ==
  [][pc' = "closing" /\ pc # "closing" /\ failure # "none" => exit' = "error"]_vars

\* A poll that ends in a session leaves the details offline, or the preset and
\* the details of one refresh: those the broker will have are the last that were
\* read, and they were read for the preset the poll has just published, whatever
\* changed it since the last one (the comparison with _last_detail_slot in
\* _poll_once, and the failure path of _refresh_details).  So the details are of
\* another preset only if it changed within that refresh.
PollReconciles ==
  [][job = "poll" /\ pc' = "loop" /\ conn' /\ failure' = "none" =>
       \/ Said("details")' = Offline
       \/ Said("details")' = crossover' /\ Said("core")' = lastSlot']_vars

\* Where no refresh is to follow, a preset is exposed beside its own details, or
\* with the details offline ("details are offline before exposing the new core
\* preset so stale crossover data is never advertised as belonging to it",
\* _poll_once).
StaleIsNeverShown ==
  [][/\ pc # "publish" /\ then' # "detail"
     /\ todo' = <<Message("core", obs'), Message("status", Online)>>
     => Said("details") \in {Offline, obs'}]_vars

\* The main thread never waits for an acknowledgement while the thread that
\* must receive it waits for a lock the main thread holds ("would deadlock the
\* same thread that must receive that acknowledgement", _on_connect).
AcksCanArrive == pc = "ack" => ~NetworkWaits

=============================================================================
