# PA2Bridge in TLA+

PA2Bridge connects a dbx DriveRack PA2 loudspeaker processor to Home
Assistant: it speaks the PA2's line protocol over TCP, offers presets and
output mutes over MQTT, and puts a safety contract around them (outputs are
muted before a preset is recalled, and opened only after everything was
verified).  The modules in this directory are translated from the Python
sources; where documentation and code differ, the model follows the code and
the difference is a run of its own.

Contents: [the system](#the-system), [modules](#modules),
[runs](#runs), [bounds](#bounds), [fairness](#fairness),
[proofs](#proofs), [disagreements](#disagreements-found),
[what is not modelled](#what-is-not-modelled), [plan](#plan).

## The system

| component | source | state it keeps | operations |
|---|---|---|---|
| Controller | `controller.py` | operation lock; per operation: deadline, admission deadline, expected preset, readbacks, rollback round | `activate_preset`, `set_all_outputs_muted`, `set_output_muted`, state and detail reads |
| Console client | `protocol.py` | socket, buffer, credentials, connection generation, pending set echoes | connect, reconnect, close, get, set, ls, each under a deadline |
| MQTT bridge | `mqtt_bridge.py` 1034-1300, 1327-1530, 1690-2187 | broker session (`_mqtt_connected`, `_mqtt_generation`, `_pending_subscribe_mid`, `_mqtt_failure`), command queue of one, diagnostics, PA2 session and identity, what was published | `run_forever`, the four callbacks, poll, command execution, discovery, shutdown |
| Discovery manifest | `mqtt_bridge.py` 474-504, 571-748, 2065-2126 | a state file: the retained discovery topics the bridge owns | load, save before publishing, clean up stale topics, save again |
| Device identity | `mqtt_bridge.py` 760-1030, 1530-1730 | configured, discovered and saved MAC address | admit on first use, compare on every new session |
| Home Assistant App | `ha_app.py` | none after start | options and Supervisor data to configuration |
| Configuration | `config.py` | none after start | validate a TOML file |
| Command line | `cli.py` | one controller per process | one operation, then exit |
| Read-only tool | `tools/pa2_read_only_validation.py` | none | a diagnostic report |
| Release scripts | `scripts/` | none | tree hash, registry query |

How they interact.  The bridge process has two threads.  The *main thread*
(`run_forever`) waits for the first SUBACK, then loops: a queued diagnostic, a
queued command, or the poll that is due.  The *network thread* belongs to paho
and runs `_on_connect`, `_on_subscribe`, `_on_message` and `_on_disconnect`.
They share the queue, an event (`_stop_event`), and two locks: the broker-state
lock, which a command holds from its authorization to its last publication, and
the PA2 lock, which every poll and command, and the end of `_on_disconnect`,
holds; a command takes the PA2 lock first.  The controller runs in the main thread and calls the console
client one exchange at a time; the client gives up at the deadline it is
passed.  A SIGTERM handler only sets a flag the main thread reads between
steps.

What is hard about it:

* a Recall is fire-and-forget; the preset loads some time later, may drop the
  console session, and sets output mutes as it was stored;
* a set is not acknowledged, a session may die between any two exchanges, and
  the address may by then belong to another unit;
* two deadlines (admission and operation) run while all of this goes on, and a
  rollback must finish within what is left;
* the broker may drop the connection at any moment, publishes the bridge's
  will when it does, and receives unacknowledged publications again after the
  reconnect;
* the main thread waits for acknowledgements that only the network thread can
  receive, and the network thread waits for locks the main thread holds;
* failure, stop and SIGTERM are separate flags, set and read in different
  orders by both threads.

What makes each part correct:

* *Controller*: it writes Recall only over verified mutes, opens outputs only
  under a verified slot, reports success or rollback only if true, writes
  nothing when it refuses, and always ends.
* *Console client*: a get never takes another exchange's line for its answer;
  after a failure the session is closed, never reused; a set reported as
  expired before it started was not sent; a unit that keeps to the protocol
  does not lose its session.
* *Bridge*: a command runs only in the broker session it came in; what is on
  display is what was last read; the device is shown offline when the bridge
  has gone; stop always ends the process; a lost connection does not.
* *Discovery manifest*: every retained discovery topic the bridge ever
  published is in the file until it was cleared, across crashes.
* *Identity*: a unit other than the admitted one is never written to; a session
  is admitted without a MAC once at most; a saved MAC is replaced only when the
  operator asks; missing data does not lock the bridge out for good.

The full list of hazards, with source lines and the properties that cover
each, is `hazards` in `PROJECT.json`.

## Modules

    Pa2Link  <-- Pa2Controller  <-- Pa2ControllerProofs
                      |                <-- Pa2ControllerSafety
                      |
                      +-- INSTANCE SafetyContract WITH stage <- Stage
    HiQnetSession  <-- MCHiQnetSession
       |      ^------- HiQnetSessionProofs <-- HiQnetSessionContract
       |                                   <-- HiQnetSessionOrder
       +-- INSTANCE ConsoleReads WITH ask <- Ask
    DeviceIdentity  <-- DeviceIdentityProofs
    MqttBridge  <-- MqttBridgeProofs
    StateDirectory  <-- DiscoveryManifest  <-- DiscoveryManifestProofs
                          |
                          +-- INSTANCE DurableFile WITH call <- Progress, ...

The components meet in four places.  `Pa2Link` is the console client as the
controller sees it; what it takes for granted of a read (an answer belongs to it and is current, and
what fails leaves nothing behind) is proved of `HiQnetSession`.  Its constant
`Validates` stands for the bridge's `reconnect_validator`; what that lets
through is `DeviceIdentity`.  A step `Transact` of `MqttBridge` is a run of
`Pa2Controller`; its identity check is `DeviceIdentity`, its `Announce` is
`DiscoveryManifest`.  They are not one module because each has its own clock,
faults and threads, and the product is far beyond what TLC can search.

**Pa2Link** is the unit behind its network address and the session
`HiQnetClient` has with it.  `mute`, `slot`, `loading` are the unit; `host`
says who answers at the address (our unit, another one, nobody); `sess` is the
client's end of the session, `"dead"` when the unit has dropped it and the
client has not noticed.  A read is answered only on a live session
(`Live`, `Reads`); a write on a dead session may fail or be swallowed
(`SendOutput`, `SendRecall`); `Reconnected`, `ReconnectFails`, `PeerRejected`
are the three outcomes of `_reconnect` with and without the bridge's
`reconnect_validator`.  `Surroundings` is what nobody in the program does: a
load finishing, another writer, a dropped console, an address that moves.  The
unit is external code and is modelled from how the program treats it.

**Pa2Controller** is `controller.py`.  `pc` names the client call about to be
made, so one action is one exchange and everything else can happen between two
of them.  The correspondence is:

| model | code |
|---|---|
| `pc = "resolve"`, `"current"`, `"already"` | `_resolve_preset`, the identity and current reads, the already-active readback of `activate_preset` |
| `"write"`, `"readback"`, `"confirm"` | `_write_all_outputs`: write one, read it back, then read all six |
| `"recheck"`, `"recall"`, `"poll"`, `"reopen"` | `_activate_resolved_preset` up to the confirmed target |
| `"immediate"`, `"finalDirect"`, `"finalCatalog"`, `"final"`, `"endDirect"`, `"endCatalog"` | its readbacks and preset checks after the Recall |
| `"preDirect"`, `"preCatalog"`, `"postDirect"`, `"postCatalog"` | `_verify_current_preset_before_unmute`, before and after the Off writes |
| `"rbReconnect"` ... `"rbRecoverFinal"` | `_rollback_outputs_to_muted`: write, read, recover, next channel, next round |
| `level` | which `except` clause is running: `"inner"` in `_set_all_outputs_muted` or `set_output_muted`, `"outer"` in `activate_preset` |
| `left`, `adm` | time to the operation deadline and to `first_write_before` |
| `base`, `cur` | `expected_preset` and the last direct `CurrentPreset` |
| `result` | how the operation returned or what it raised: `ok`, `kept` (already active), `refused`, `expired`, `failed` (rolled back), `unsafe` (rollback not finished), `untrusted` (reconnect validation failed) |

`wrote`, `sessSince`, `muteSince`, `slotSince`, `strayed` are history
variables: no guard reads them.

**SafetyContract** is what the README's numbered safety contract promises of
one operation, as a machine of ten stages over the same unit: mutes only while
muting or closing, one Recall and only when muted, Off only after a
confirmation, and failure leads to closing and never back.  `KeepsContract`
states that `Pa2Controller` implements it under the map `Stage`.

**MqttBridge** is the bridge process.

| model | code |
|---|---|
| `pc`, `job`, `todo`, `then` | where the main thread is, what it is doing (and so which locks it has), the publications it is about to make, and where it goes after them |
| `HoldsStateLock`, `HoldsPa2Lock` | `_mqtt_state_lock`, `_pa2_lock`, as a function of `job` |
| `net`, `incoming` | the callback the network thread is in; each waits at its first lock, `_on_disconnect` at its second one too (`OnDisconnect`, `DrainQueue`, `ReleasePa2`) |
| `conn`, `transport`, `gen`, `failure`, `ready`, `stop`, `sigterm`, `stopping` | the attributes of the same meaning |
| `link`, `epoch`, `subDue`, `kept`, `outbox` | the broker: the connection, which one it is, an outstanding SUBACK, the retained messages, and publications not yet acknowledged |
| `queue`, `cmd` | `_commands`, and the command taken from it, with the generation it was queued under |
| `pa2`, `known`, `slot`, `obs` | the PA2 session, `_pa2_identity`, the unit's preset, the slot last read |
| `discovered`, `refresh`, `detailsOK`, `lastSlot` | `_discovery_published`, `_discovery_needs_refresh`, `_details_valid`, `_last_detail_slot` |
| `crossover` | the preset whose crossover `publish_details` read last; what a details message carries |

Every publication is a step (`Publish`), because the connection can be lost
between two of them; outside a session it is silently dropped (`Fenced`), with
a lost socket it is fatal (`Fatal`), as in `_publish`.  `Announce` and
`AwaitAck` are `_publish_discovery` and its wait for acknowledgements.
`Deliver` hands the oldest publication to the broker and brings the PUBACK
back; the outbox survives a reconnect, as paho's queue does.  The controller's
transaction is the one step `Transact`, whose insides are Pa2Controller, and
the identity check has three outcomes: agreed, unavailable, in conflict.  A
poll reads the unit twice, the preset in `PollRead` and the crossover in
`Detail`, and the unit may change its preset between the two; the preset that is
noted as refreshed (`Told`) is that of the first reading.  The two `ls` requests
of the crossover itself are one step.

**HiQnetSession** is `HiQnetClient` itself: several threads, one session.

| model | code |
|---|---|
| `sock`, `creds`, `pending` | `_socket`, `_credentials`, `_pending_set_echoes` |
| `saved` | the credentials `_reconnect` puts back when the login fails for another reason than authentication |
| `lock`, `at[c]`, `call[c]` | `_lock`, and where caller `c` is in which call: waiting for the lock, holding it, reading for a first line or for more |
| `hour[c]` | which of the two deadlines (`start_before`, `deadline`) of the call have passed |
| `lines` | lines on their way and in `_buffer`; the client reads them in order |
| `toUnit`, `owed`, `value`, `up` | the unit: requests it has not read, acknowledgements of sets it still owes, its parameters, whether the connection lives; external |

One action is what the client does between two waits: `Send` is `_send` up to
`sendall`, `ReadEcho` and `ReadAnswer` one round of `_read_response_line` and
its caller, `ReadNonsense` every line the caller rejects, `Refuse` a deadline or
a missing session before anything was sent.  Everything that fails goes through
`Break`, which closes.  The unit answers reads in order, but acknowledges sets
late, out of turn with the answers, or never.  The protocol has no request
numbers; `of` numbers the calls as history, so that a property can say whose
answer a call took.

**ConsoleReads** is what the callers rely on: a get that returns gives a value
the unit had at one instant between call and return.  `ReadsAreCurrent` states
that `HiQnetSession` implements it under `Ask`, which finds the answer of a
call among the lines on their way.

**DeviceIdentity** is what decides which physical unit the bridge talks to.

| model | code |
|---|---|
| `Evidence`: `local`, `names` | what the neighbour table and Home Assistant's trackers say of the peer; any lookup may fail |
| `Conflict`, `Unavailable`, `Admit` | the conditions of `_device_info` in which it raises `DiscoveryStateError`, raises `IdentityRevalidationUnavailable`, or returns |
| `conf`, `replace`, `durable` | `pa2.mac_address`, `pa2.replace_saved_identity`, a configured `identity_state_path` |
| `stable`, `saved`, `pending`, `address` | `_stable_mac_address`, `_persisted_identity`, `_pending_identity_state`, `_address_only_connection_generation` |
| `known`, `published` | `_pa2_identity` is of the current connection generation; `_discovery_published` |
| `PollConnects` ... `PollFails` | `_connect_pa2` and the rest of a poll |
| `CommandReconnects`, `ReconnectAdmitted`, `ReconnectRefused` | the controller's reconnect and `_validate_reconnected_peer` |
| `CommandWorks`, `IdentityRenewed`, `CommandPublishes` | the state published after a command, which reads the identity again when the generation moved |

Its environment moves units to and from the address, lets trackers follow late,
be forgotten or be forged by another integration, and puts a proxying router in
the neighbour table.  The process may be killed anywhere; the operator may start
it with another MAC.  `as`, `basis`, `owing`, `reached`, `unnamed` are history
variables; `basis` says which lookup named the unit of the session when it was
admitted, and whether its word was compared with the MAC: `_device_info`
compares the trackers always, the neighbour table only with the trackers or to
confirm a replacement.

**StateDirectory** is `_save_state_payload` and the creation of the directories
above the file, on a file system that forgets what was not synced.  `now` and
`file` are what a process sees, `may` and `files` what a power loss may leave;
`_fsync_directory` makes the two agree for the entries of one directory.  One
action is one system call (`step`), any of which may fail (`CallFails`); a read
may find the file `Missing`, and would find it `Torn` if it was replaced before
its contents were synced.  A
directory made but not yet durable is known by a marker beside it (`"outer"`)
or in it (`"inner"`); the marker's payload check against tampering by others is
left out.  The file system is taken to journal a rename as one change, and to
be free to lose any other entry.

**DiscoveryManifest** is `_publish_discovery`, over StateDirectory: `mem` is
`_persisted_discovery_topics`, `cur` the topics the present configuration and
device want, `shown` what the broker retains, `outbox` what is on its way.  Each
start may find another configuration, and each new PA2 session another device.
A process may be killed, and the machine lose power, between any two steps.

**DurableFile** is what a caller of `_save_state_payload` may rely on: one
register (`seen`) with the contents a power loss may set it to (`found`).  The
contents being saved are added to these all at once (`Take`); a save that
returns has ruled out all others (`Return`); one that fails, or is killed, is
wherever it was.  In `DiscoveryManifest`, `KeepsFile` says that the state file
with its directories, markers and system calls is that register: `Surviving` is
what a power loss may leave, `Progress` the state of the call.

## Runs

| run | specification and instance | question |
|---|---|---|
| `transactions` | `Pa2Controller`, all five operations with two faults; four slots, of which one is outside the catalog and one outside the allowlist | what is written is covered by a check, and what is reported is true |
| `contract` | all five operations with one fault, fair | the safety contract as a refinement, and every operation ends |
| `session` | `HiQnetSession`, two threads, four calls, one fault, fair | no get takes another line for its answer, an expired set was not sent, a good unit keeps its session, the lock comes back; the refinement of `ConsoleReads` |
| `identity` | `DeviceIdentity`, two units, two starts, three moves, two commands, one trouble, fair | commands run over validated sessions and, where the lookups are compared with the MAC, reach one unit across reconnects and restarts; the bridge finds it again |
| `identity_entered` | *violation*, the same instance | see [below](#disagreements-found) |
| `manifest` | `DiscoveryManifest`, three topics, two missing directories, three troubles, fair | no retained record is forgotten, a returned save survives, obsolete records are cleared; the refinement of `DurableFile` |
| `late_start` | *violation* | an unmute that loses the console after its slot checks writes after its command expired |
| `bridge` | both threads, two commands, two disturbances of any kind, fair | commands stay in their session, the details flag is honest, a poll leaves one refresh on display, exit leaves the device offline; stop ends the process, and the bridge comes back |
| `bridge_drops`, `bridge_acks`, `bridge_fatal`, `bridge_details` | *violation* | see [below](#disagreements-found) |

Properties of the controller: `SuccessIsTrue` (a success is true of the
outputs, unless the device moved one after the confirming readback began),
`SuccessUnderCheckedSlot`, `RollbackIsTrue`, `EvidenceOfOneSession` (no verdict
rests on readbacks of two console sessions), `MutedAcrossRecall`,
`OffUnderVerifiedSlot`, `NothingWritten`, `NeverStrays` (no write reaches
another unit), `KeepsContract`, `EveryOperationEnds`.  Two are about its steps:
`LateWritesOnlyMute` (a first write after the admission has ended is a rollback's
mute, so that what `late_start` finds starts with no other write) and `CallsRunOut` (whatever fails and is tried again,
each call leaves fewer before it, but those of the polling loop, which only the
deadline ends).  The conditions
`muteSince = "still"` and `slotSince = "still"` are what the code cannot do
better: the unit may change the moment after it was read.

Properties of the client: `SessionOK` (types; a closed session keeps nothing),
`AnswerIsOwn`, `QuietBetweenCalls` (between calls nothing is on its way that a
later get could take for its answer), `ExpiredMeansUnsent` (the controller rolls
nothing back on that word), `OrderlyUnitKept`, `LockIsReleased`,
`ReadsAreCurrent`.

Properties of the identity: `CommandIsVouched` (a command runs only over
sessions validated after their own login, the reconnects of a rollback
included), `OpenMeansKnown` (so the cached identity may be used between steps),
`NoStranger` (a session is not commanded as another unit than its own, if a
lookup that named its unit was compared with the MAC), `OneUnit` (the commands of
those sessions reach one physical unit across restarts), `AddressOnlyOnce`,
`SavedIdentityKept`, `Recovers`.  The sessions the two leave out are those no
lookup names, of which the code can know nothing, and those of an operator's MAC
that replaces no other while the trackers are silent, which are the subject of
`identity_entered`.

Properties of the bridge: `CommandInItsSession`, `DetailsAreShown` (details taken
as valid are those that were read last, and the broker has or is about to get
them), `PollReconciles` (a poll that ends within its session leaves the broker
with the details offline or with the preset and the crossover of one refresh, so
that the two disagree only if the preset changed between the two readings of that
refresh, which is what `bridge_details` shows),
`ExitLeavesOffline` (which an old "online" delivered after the will would break,
too), `StopEnds`, `ComesBack`.

Properties of the manifest: `KeepsFile` (the state file is one durable register:
a save that returned survives every power loss, and what such a loss brings back
was saved last or was being saved), `OwnershipSurvives` (the manifest a later
process finds names every record the broker has or is about to get),
`OnlyCurrentShown`, `CleanupEnds`.  `SavedSurvives` says the first half of
`KeepsFile` as an invariant, which is what the other proofs build on.

Each property has a mutant in `PROJECT.json`: a definition with a plausible
slip in it (an operator of the same module, named for the slip, such as
`StillMutedLastOnly` or `LocksAtJoinKept`) under which the run finds the
property violated.

## Bounds

* `N = 2` outputs instead of six.  All loops over outputs treat every channel
  alike and compare the first, the last and the ones in between in the same
  way; two channels tell "all" from "the last".  The theorems hold for every
  `N`.  The rollback makes `N + 2` rounds, as `len(OUTPUT_MUTES) + 2`.
* `Slots = 1 .. 4` with `Catalog = {1, 2, 4}` and `Allowed = {2, 3, 4}`: two
  slots that may be recalled, one that is listed but not allowed, one that is
  allowed but not listed.  The run `contract` uses three slots.
* `RecallTimeout = 2` ticks: `Tick` may come between any two calls, so expiry
  before, at and after each call is reached.
* `MaxFaults` is how many times the outside interferes (drops, moved
  addresses, other writers, rejected logins): one or two.  Loads are not
  faults and are not counted.
* `Troubles`, `MaxTroubles`: which disturbances of the bridge happen, and how
  many in one behaviour: a drop, a refusal, a late acknowledgement, a failing
  unit, a preset changed elsewhere, a SIGTERM.  Two suffice for a drop and a
  second event in the recovery.  The safety properties of the run are proved for
  any number of them.
* `MaxArrivals`: two commands, so that one waits while another runs; the queue
  holds one.
* `Backlog = 1`: the loop takes up new work only when the outbox is shorter
  than this.  It stands for a loop that is slower than the broker when the
  broker answers; one iteration still publishes up to nine messages over a
  broken connection.  paho's own limit of 100 is not reached.
* `Depth = 2` directories that may be missing, so that one can be made inside
  another that was itself just made; three discovery topics of which a manifest
  holds two (`MaxOwned`), so that it can fill up; a topic stands for all
  entities of one configuration (twelve or twenty-two of them, against a limit
  of 100).
* `session`: a login, then a set or a get, then a set, an ls, a reconnect or a
  close, then a get (`MCScript`), by either of two threads, on one parameter
  with two values.  Four calls are the shortest course in which a late
  acknowledgement of one session meets a get of the next; two threads are enough
  for one to wait while the other's deadline passes.  The theorems hold for any
  script, threads and parameters.
* `identity`: two units, so that one can be taken for the other; two starts, so
  that one finds what the other saved; three moves of units and trackers, so
  that a unit can go and come back between a login and its validation; two
  commands; one failure or kill.
* Bridge slots are two model values; only equality is used.

## Fairness

`Pa2Controller!FairSpec` has weak fairness of `Controller` (the thread of the
operation is scheduled and each client call returns: `protocol.py` bounds all of
them by the deadline) and of `Tick` (the monotonic clock advances).  Nothing is
assumed of the unit, the network or the callers.

`MqttBridge!FairSpec` has weak fairness of `Main` and of `Network`: both
threads are scheduled, and paho, created with `reconnect_on_failure=True`,
tries to connect until it succeeds.  `TimeRunsOut` is part of `Main` and can
end a wait only when the acknowledgement cannot come or a disturbance is spent.
`DiscoveryManifest!FairSpec` has weak fairness of the process, which is started
again when it has ended, and of the broker.
`HiQnetSession!FairSpec` has weak fairness of `Client` and `Tick` of every
caller: threads run and clocks go on.  Nothing is assumed of the unit, which may
stay silent: the deadline ends the wait.
`DeviceIdentity!FairSpec` has weak fairness of the steps of a poll and of the
validations, and strong fairness of the end of a command
(`CommandWorks \/ CommandPublishes \/ CommandFails`): a command may reconnect
again and again, but its deadline and its bounded rounds end it.  Nothing in the
code starts a process that has ended, so nothing is assumed of `Start`, and the
run does not look for deadlocks: a process that ended may stay ended.

Disturbances are never fair: `ComesBack` says that after the last one the
bridge is online or has ended, and does not assume that any happens; `Recovers`
asks the bridge to come back only if the network goes on naming the unit.

## Proofs

Theorems are about five components, and hold for all values of the constants
under the named assumptions of the modules.

`Pa2ControllerProofs` and `Pa2ControllerSafety`, for every number of
outputs, every set of slots, catalog and allowlist, every timeout and every
number of faults:

| theorem | statement |
|---|---|
| `TypeCorrect` | `Spec => []TypeOK`, which bounds the rollback rounds |
| `OwnInvariant` | `Spec => []OwnInv` |
| `UnitInvariant` | `Validates => (Spec => []UnitInv)` |
| `VerifiedInOneSession`, `RefusalsWriteNothing`, `WritesStayHome` | `EvidenceOfOneSession`, `NothingWritten`, `NeverStrays` |
| `SuccessIsReal`, `RollbackIsReal`, `RecallUnderMutes` | `SuccessIsTrue`, `RollbackIsTrue`, `MutedAcrossRecall`, given a validator |
| `OffUnderCheckedSlot`, `UnmuteUnderCheckedSlot` | `OffUnderVerifiedSlot`, `SuccessUnderCheckedSlot`, given a validator |
| `LateOnesAreMutes` | `Spec => LateWritesOnlyMute` |
| `CallsAreCounted` | `Spec => CallsRunOut`, and `Ahead` is always five natural numbers |
| `ContractIsKept` | `Spec => KeepsContract` |

They rest on the named assumptions of the modules: at least one output, slots
that are positive numbers, the catalog and the allowlist sets of slots, a
positive timeout, a natural number of faults.

None of the properties is inductive by itself.  That a success is true needs to
know, at each call, what the reads so far in this pass have established: the
channels below `idx` have the value wanted, if `seen = "good"` and nothing moved
since the pass began.  `OwnInv` is the part about the controller alone: the
course of calls (which `want`, `level`, `op` and `result` go with which `pc`),
the session the evidence comes from, and what precedes the first write; it
holds whatever the peer answers.  `UnitInv` adds what the reads say of the unit
and needs the session to be with our unit, hence `Validates`, and `Trusted`:
with a validator the only session with another unit is one whose operation has
already been given up (`untrusted`), and nothing more is written there.  Each `...Step` lemma
carries one conjunct through all actions, using the other conjuncts of the
unprimed state; the theorems put them together.

Without a validator (the command line installs none) the theorems that mention
it say nothing, and `NeverStrays` holds trivially.

`LateOnesAreMutes` rests on `Written`: at the calls of an activation past its
mutes, at every readback and check after a write, something has been written,
so that a first write can only be the write `first_write_before` bounds or a
rollback's.  `CallsAreCounted` is a termination
measure: `Ahead` is the phase of the operation, the rollback rounds left, the
part of a round, the outputs left in it and the calls left for one output, and
`Fewer` orders such tuples lexicographically.  `CallStep` goes through the calls
and cites, for each loop, a lemma on how a failure leaves it (`RaiseGoesForward`,
`EndRollbackGoesForward`, `NextRoundGoesForward`).  With `CallsRunOut` the only
thing `EveryOperationEnds` owes to the clock is the end of the polling loop.

The refinement is `ContractIsKept`, with a validator or without one.  Initial
states map to initial states, and every call maps to one step of the contract (a
write to `MuteOutput` or `OpenOutput`, a verdict to `Muted`, `Opened` or `Fail`)
or to none.  `Course` says at which stage a call can be made, and `Targeted`,
that an activation has a slot to recall.

`HiQnetSessionProofs`, for any callers, script of calls, parameters and number
of faults (the model values for "none" are no callers, paths or values; the
script consists of kinds of calls):

| theorem | statement |
|---|---|
| `SessionsAreSound` | `Spec => []SessionOK` |
| `AnswersBelong` | `Spec => []AnswerIsOwn` |
| `QuietWhenUnlocked` | `Spec => []QuietBetweenCalls` |
| `ExpiredIsUnsent` | `Spec => []ExpiredMeansUnsent` |

That an answer belongs to its request needs to be known of the whole stream:
`Exchange` says that the request of the exchange under way is the last the unit
has to read, that there are no answers on their way while it is unread, that
those there are belong to it, and that the one ending it is the last of them.
It holds because each way to fail closes the session, and it rests on `Turns`
(who has the lock is in an exchange, and calls have numbers of their own).
`Unsent` says that a call that is still waiting, or expired, is nowhere on its
way (`InTransit`).

`HiQnetSessionContract` proves the refinement, `GetsAreCurrent`:
`Spec => ReadsAreCurrent`.  `Unique` says that only the caller that reads has an
answer among the lines, and only one; so at each step at most one caller's get
moves, and it moves as `ConsoleReads` does: when the unit reads the request
(`Look`), when the answer is taken (`Return`), or when one of them fails.

`HiQnetSessionOrder` proves the action property on the loss of sessions,
`OrderlyUnitsStay`: `Spec => OrderlyUnitKept`.  The client forgets the
acknowledgements it still expects at the first other line, so the property
needs to know where the owed ones are.  `Orderly` says of a unit that has kept
to the order so far that the sets in `pending` are, in this order, those whose
acknowledgements are among the lines, those the unit still owes, and those it
has not read (`Awaited`), up to the answer under way if there is one; `Readers`
says who may be reading meanwhile.

`DeviceIdentityProofs`, for any units and any bounds:

| theorem | statement |
|---|---|
| `TypeCorrect` | `Spec => []TypeOK` |
| `EveryCommandIsVouched`, `OpenSessionsAreKnown` | `CommandIsVouched`, `OpenMeansKnown` |
| `NamelessOnce` | `Spec => []AddressOnlyOnce` |
| `SavedIdentityStays` | `Spec => SavedIdentityKept` |
| `StrangersAreNotCommanded` | `Spec => []NoStranger` |
| `OneUnitReached` | `Spec => []OneUnit` |

They assume that the router and the marks for "no MAC", "no state", "no unit"
and "not validated" are not units (`UnitsAssumption`).  `Sessions` says which
session is open at each place of the main thread; `Naming`, what forbids a
second admission without a MAC (the mark in the file or the process's memory);
`Filed`, that the process knows the MAC in the file, is bound to it, or has just
replaced another with it and cannot tell whether that was saved; `Named`, that a
session is with the unit it was admitted as, where the lookup that named it was
compared with the MAC; `Bound`, that what was written to in such sessions is what
the bridge is bound to now.

`DiscoveryManifestProofs`, about `StateDirectory` and `DiscoveryManifest`, for
any depth of missing directories, any finite set of topics, any limit and any
number of troubles:

| theorem | statement |
|---|---|
| `SavesSurvive` | `Spec => []SavedSurvives` |
| `TypeCorrect` | `Spec => []TypeOK` |
| `OwnershipIsKept` | `Spec => []OwnershipSurvives` |
| `CurrentIsShown` | `Spec => []OnlyCurrentShown` |
| `FileIsDurable` | `Spec => KeepsFile` |

The argument has two layers.  `Tree` is about directories: what may vanish in a
power loss is the deepest directory only, and carries a marker outside
(`Rooted`, `Marked`), and `Creating` says how far the creation has come.
`Contents` says what a later process may find in the file (`kept`) at each step
of a save.  Over these, `Covering` says that each of those contents names every
topic that is live at the broker or on its way there, and `Course` how the
publication proceeds from one save to the other.

`FileIsDurable` is a refinement, step by step.  The start of a save is `Begin`,
the rename `Take`, and the last fsync `Return`, because by then no directory
above the file can vanish any more.  Every other system call can only rule out
what is not in the file (`Settle`) or fail, and a power loss picks one of the
contents and leaves no other (`PowerLossSettles`).

`MqttBridgeProofs`, for any slots, any sets of commands and disturbances, any
number of both and any backlog that is not zero:

| theorem | statement |
|---|---|
| `Invariance` | `Spec => []IInv`, the inductive invariant |
| `TypeCorrect` | `Spec => []TypeOK`, among it that the generation is at most `MaxTroubles + 1` and the outbox at most `Backlog + 9` |
| `CommandsStayInSession` | `Spec => []CommandInItsSession` |
| `DetailsAreHonest` | `Spec => []DetailsAreShown` |
| `EndsOffline` | `Spec => []ExitLeavesOffline` |
| `PollsReconcile` | `Spec => PollReconciles` |

`IInv` is a conjunction of named parts, each with a lemma of its own.  `Course`
says which job, and so which locks, go with each place of the main thread;
`Room` counts the publications still to come before the loop looks at the
outbox again (`Due`), which is what bounds the outbox.  For the commands:
`Wiring` ties the callback the network thread is in to the connection it is
about, `Origins` ties a command of the current generation to the current
connection, and `InSession` says that while a command runs the session is the
one it came in.  It is kept by the state lock: every callback that would end the
session waits for it.  For the end: `Farewell` says that without a connection
the broker retains "offline" (the will), and that the last message of an orderly
end is the offline status.  For the details: `Detached` says that outside a
session nothing is taken to be on display, unless `_on_disconnect` is just
releasing it, and `Display` that valid details are the crossover read last, and
were the last word about details the broker has or is about to get, unless a
newer reading is on its way to it (`Refreshing`).

For the end of a poll two more parts are carried over `IInv`: `Observed` (what
has been read, and what is in hand, at each place of a poll) and `Reconciling`:
from the moment the slot is read, what the broker will retain of the preset once
the batch in hand is handed over (`WillSay`) is that slot, and if the poll ends
with that batch, it will retain of the details "offline", or the crossover read
last with that slot as `lastSlot`.  A delivery
moves a message from the outbox to the broker and a publication one from the
batch to the outbox, and neither changes what will be said (`WillSayDelivered`,
`WillSayHanded`); that nothing else intervenes is the main thread's, and that
the network thread can end a poll's session but never give it a new one is
`NetworkReconciles`.

Only model-checked: liveness (`EveryOperationEnds`, `StopEnds`, `ComesBack`,
`CleanupEnds`, `LockIsReleased`, `Recovers`), which is out of the prover's
reach.  The properties of the *violation* runs are false of the code, and
nothing is proved of them but that they are the exception: `LateWritesOnlyMute`,
`PollReconciles` and `NoStranger` say what holds instead.

## Disagreements found

1. `late_start`: an unmute reads the slot twice before it writes. If the
   console goes away between the last answer and the first `Off` (a console
   that was gone before is found out by those reads, and the command is
   refused), that send fails and starts a rollback, which reconnects and writes
   `On` to all outputs, possibly after the command's five seconds are over. The
   changelog (0.1.8) says commands that expire before any write trigger no
   rollback writes. The code cannot know whether a failed send was a write.
2. `bridge_drops`: a connection lost while `_publish_discovery` waits for its
   acknowledgements ends the bridge.  `_on_disconnect` waits for the PA2 lock
   that the poll holds, so the reconnect that could bring the acknowledgements
   cannot happen before the wait is given up, and that is a fatal failure.
3. `bridge_acks`: a command keeps the broker-state lock while it republishes
   discovery; a second command arriving then blocks the network thread in
   `_on_message`, and the acknowledgement is never read.
4. `bridge_fatal`: every fatal MQTT failure also sets `_stop_event`, which the
   loop tests first; after startup a refused connection or subscription makes
   `run_forever` return as if it had been stopped, the process exits with 0 and
   `Restart=on-failure` does not start it again.
5. `bridge_details`: `publish_details` reads the crossover after the poll has
   read the preset, and `_refresh_details` notes the preset read first.  If the
   preset changes between the two readings and changes back before the next
   poll, that poll finds nothing to refresh, and shows the preset beside the
   crossover of the other, which stays online until `DETAIL_REFRESH_INTERVAL` has
   passed.  The comment in `_poll_once` says that stale crossover data is never
   advertised as belonging to the new preset.  `StaleIsNeverShown` fails in one
   more way, which TLC reports with `MaxTroubles = 1`: an unmute or output command
   publishes the preset it reads without comparing it with the one the details
   belong to, and until the next poll the details of the previous preset stay
   online beside the new one.
6. `identity_entered`: an operator's MAC that replaces no other in the identity
   file is compared with the trackers only.  While these are silent, which is
   what a MAC is entered for, a neighbour entry that names another unit is
   ignored, and that unit is commanded as the operator's.  `README.md:223` and
   `DOCS.md:43` say a live MAC that conflicts with the entered one is refused;
   `README.md:215` says why a neighbour entry alone is not trusted, a router may
   be behind it.  When the MAC does replace another, the neighbour table or the
   trackers have to confirm it, and the session is refused.

## What is not modelled

* `config.py`, `ha_app.py`: pure validation and translation at start, without
  state after it.
* The command line: one controller operation per process.  What it calls is
  Pa2Controller with `Validates = FALSE`.
* The read-only tool and the release scripts: no state, no writes to the unit.
* Values that are read for display only (meters, crossover data, wording of
  payloads and diagnostics).
* Real time: a deadline is a number of ticks; the relations between
  the five-second waits, the poll interval and the keep-alive are not in the
  model, only that each wait may end by time when it may.
* Text: the bytes, quoting and value formats of the console protocol, the
  layout of lookups, state files and payloads.  A line is what it is for the
  client, a lookup is the MAC it yields.
* A composition of all components in one specification (see [modules](#modules)).
  In `MqttBridge` a poll that ends the bridge (`"giveup"`) stands for a
  conflicting identity and for a save that failed.
* Power loss in `DeviceIdentity`: what a process reads in the identity file is
  taken to be durable.  The code does not make sure of it: a save that failed at
  its last fsync is read by the next process, which relies on it without saving
  it again (`mqtt_bridge.py:1060`), as `_publish_discovery` never does with the
  manifest.
* paho's queue of 100 publications: the theorem on the outbox says that one
  iteration adds at most nine, not what paho does with the hundredth.
* A transport failure in the refresh of the details closes the PA2 session, but
  only the details are reported offline until the next poll reconnects
  (`mqtt_bridge.py:1411`).  `Detail` has the step; no property is about it,
  because no document says which reads the device status stands for.

## Plan

Done, in the order of importance: `Pa2Link`, `Pa2Controller` and
`SafetyContract`; `MqttBridge`; `StateDirectory` and `DiscoveryManifest`;
`HiQnetSession` with `ConsoleReads`; `DeviceIdentity`; and the proofs above.

Left:

1. `PresetCatalog`: catalog pagination and the reconciliation of the two
   allowlists as operators, against a definition by sets.
2. The telemetry reads of the controller (state and details), as reads over
   `ConsoleReads`.
3. Power loss in `DeviceIdentity`, with the identity file as a `DurableFile`.
