--------------------------- MODULE DeviceIdentity ---------------------------
(***************************************************************************)
(* Which physical PA2 the bridge talks to (mqtt_bridge.py).  A unit is its *)
(* MAC address.  Console sessions carry no identity, so after every login  *)
(* _device_info compares what the neighbour table and Home Assistant's     *)
(* trackers say of the peer with the operator's MAC, the MAC of this       *)
(* process and the MAC in the identity file, and admits the session or     *)
(* refuses it.  Polls connect through _connect_pa2; commands of the        *)
(* controller reconnect by themselves and come back through                *)
(* _validate_reconnected_peer.  A generation number matters only as far as *)
(* it is the current one, and is reduced to that.                          *)
(***************************************************************************)
EXTENDS Integers, FiniteSets

CONSTANTS
  Units,        \* the PA2 units that may stand at the configured address
  Router,       \* MAC of a router that answers for them (proxy ARP)
  NoMac,        \* None; in the file, the mark of an address-only admission
  Absent,       \* there is no identity state
  NoUnit,       \* no session
  Unknown,      \* the session was not validated
  MaxStarts,    \* bounds: starts of the process,
  MaxMoves,     \* changes of units and trackers,
  MaxCommands,  \* commands,
  MaxTroubles   \* and failures, in one behaviour

ASSUME UnitsAssumption ==
  /\ Router \notin Units \cup {NoMac}
  /\ {NoMac, Absent, NoUnit, Unknown} \cap Units = {}
  /\ NoMac \notin {Absent, Unknown}
ASSUME BoundsAssumption ==
  {MaxStarts, MaxMoves, MaxCommands, MaxTroubles} \subseteq Nat

VARIABLES
  unit,       \* the unit at the address
  neighbour,  \* what the neighbour table can show: "unit", "router", "none"
  trackers,   \* Home Assistant's fresh, authorised trackers of the address
  durable,    \* identity_state_path is set
  file,       \* the MAC in the identity file
  conf,       \* pa2.mac_address
  replace,    \* pa2.replace_saved_identity

  up,         \* the process runs
  stable,     \* _stable_mac_address
  saved,      \* _persisted_identity
  pending,    \* _pending_identity_state
  address,    \* _address_only_connection_generation: "none", "this", "earlier"
  known,      \* _pa2_identity is of the current generation
  published,  \* _discovery_published
  link,       \* the unit the console session is with
  live,       \* its connection works
  creds,      \* the client has credentials to reconnect with
  at,         \* what the main thread is doing

  as,         \* history: what the session was admitted as
  basis,      \* history: what the lookups had named its unit by then
  owing,      \* history: a replacement was admitted and is not saved yet
  reached,    \* history: units written to as the unit of a MAC
  unnamed,    \* history: address-only admissions
  starts, moves, commands, troubles   \* what is left of the bounds

network == <<unit, neighbour, trackers>>
setup == <<durable, conf, replace>>
memory == <<stable, saved, pending, address>>
session == <<link, live, creds>>
history == <<owing, reached, unnamed>>
bounds == <<starts, moves, commands, troubles>>
vars == <<network, setup, file, up, memory, known, published, session, at,
          as, basis, history, bounds>>

Macs == Units \cup {NoMac}
Places == {"idle", "polling", "publishing", "command", "reconnected", "after",
           "announcing"}
Trackers == [mac : Units, trusted : BOOLEAN]
Bases == {"none", "neighbour", "confirmation", "trackers"}

TypeOK ==
  /\ unit \in Units /\ neighbour \in {"unit", "router", "none"}
  /\ trackers \subseteq Trackers
  /\ durable \in BOOLEAN /\ conf \in Macs /\ replace \in BOOLEAN
  /\ file \in Macs \cup {Absent}
  /\ up \in BOOLEAN /\ known \in BOOLEAN /\ published \in BOOLEAN
  /\ stable \in Macs /\ saved \in Macs \cup {Absent} /\ pending \in Macs
  /\ address \in {"none", "this", "earlier"}
  /\ link \in Units \cup {NoUnit} /\ live \in BOOLEAN /\ creds \in BOOLEAN
  /\ at \in Places
  /\ as \in Macs \cup {Unknown}
  /\ basis \in Bases /\ owing \in BOOLEAN
  /\ reached \subseteq Units
  /\ unnamed \in 0 .. 2
  /\ starts \in 0 .. MaxStarts /\ moves \in 0 .. MaxMoves
  /\ commands \in 0 .. MaxCommands /\ troubles \in 0 .. MaxTroubles

Init ==
  /\ unit \in Units /\ neighbour \in {"unit", "router", "none"}
  /\ trackers = {}
  /\ durable \in BOOLEAN /\ conf = NoMac /\ replace = FALSE
  /\ file = Absent
  /\ up = FALSE /\ known = FALSE /\ published = FALSE
  /\ stable = NoMac /\ saved = Absent /\ pending = NoMac
  /\ address = "none"
  /\ link = NoUnit /\ live = FALSE /\ creds = FALSE
  /\ at = "idle"
  /\ as = Unknown /\ basis = "none" /\ owing = FALSE
  /\ reached = {} /\ unnamed = 0
  /\ starts = MaxStarts /\ moves = MaxMoves
  /\ commands = MaxCommands /\ troubles = MaxTroubles

-----------------------------------------------------------------------------
(* Lookups *)

Trouble == troubles > 0 /\ troubles' = troubles - 1
Smooth == UNCHANGED troubles

\* A tracker counts when a UniFi integration's entry owns it.
Trusted(ts) == {t \in ts : t.trusted}

Names == {t.mac : t \in Trusted(trackers)}

\* The neighbour table's MAC for the peer.  The entry follows the address: it
\* may already be a successor's when the session's unit is gone.
Local ==
  CASE neighbour = "unit" -> {link, unit}
    [] neighbour = "router" -> {Router}
    [] OTHER -> {NoMac}

\* The evidence of a validation, and what it costs of the troubles: Home
\* Assistant gives no MAC when any of the requests to it fails, comes too late
\* or is too large.
Evidence ==
  [local : Local, names : {Names}, cost : {0}]
    \cup [local : Local, names : {{}}, cost : {n \in {1} : troubles > 0}]

TrustedMac(e) == IF e.names = {} THEN NoMac ELSE CHOOSE m \in e.names : TRUE

Took(e) == troubles' = troubles - e.cost

-----------------------------------------------------------------------------
(* _device_info *)

HasMac(m) == m \notin {NoMac, Absent}

\* The file holds another MAC.  (Variant: compared only once the process has
\* discovered a MAC itself.)
AgainstFileLater(m) == stable # NoMac /\ HasMac(saved) /\ saved # m
AgainstFile(m) == HasMac(saved) /\ saved # m

\* The lookups do not agree on one MAC.  (Variant: only the trackers count.)
TrackersClash(e) == \E m, n \in e.names : m # n
LookupsClash(e) ==
  \/ \E m, n \in e.names : m # n
  \/ NoMac \notin {e.local, TrustedMac(e)} /\ e.local # TrustedMac(e)

\* What it raises DiscoveryStateError for.
Conflict(e) ==
  LET trusted == TrustedMac(e)
  IN  \/ LookupsClash(e)
      \/ /\ conf # NoMac
         /\ \/ trusted \notin {NoMac, conf}
            \/ AgainstFile(conf) /\ ~replace
      \/ /\ conf = NoMac /\ trusted # NoMac
         /\ stable \notin {NoMac, trusted} \/ AgainstFile(trusted)

\* What it raises IdentityRevalidationUnavailable for: an unconfirmed
\* replacement, and no MAC where there was one or a session without.
\* (Variants: the mark in the file is not heeded; it is heeded for ever.)
Unconfirmed(e) ==
  conf # NoMac /\ AgainstFile(conf) /\ conf \notin {e.local, TrustedMac(e)}
UnavailableUnmarked(e) ==
  \/ Unconfirmed(e)
  \/ /\ conf = NoMac /\ TrustedMac(e) = NoMac
     /\ stable # NoMac \/ HasMac(saved) \/ address = "earlier"
UnavailableForEver(e) ==
  \/ Unconfirmed(e)
  \/ /\ conf = NoMac
     /\ TrustedMac(e) = NoMac => stable # NoMac \/ saved # Absent
     /\ TrustedMac(e) # NoMac => saved = NoMac
Unavailable(e) ==
  \/ Unconfirmed(e)
  \/ /\ conf = NoMac /\ TrustedMac(e) = NoMac
     /\ stable # NoMac \/ saved # Absent \/ address = "earlier"

Acceptable(e) == ~Conflict(e) /\ ~Unavailable(e)

\* (Variant: without live data the saved identity is taken.)
IdentityOfFile(e) == IF conf # NoMac THEN conf ELSE saved
Identity(e) == IF conf # NoMac THEN conf ELSE TrustedMac(e)

\* The address-only admission is saved at once, a MAC too unless it replaces
\* another: that one waits until discovery was published under it.  (Variant:
\* it does not wait.)
Replaces(m) == HasMac(m) /\ AgainstFile(m) /\ replace
SavesAtOnce(m) == durable /\ saved # m
Saves(m) == durable /\ saved # m /\ ~Replaces(m)

Remember(m) ==
  /\ stable' = IF conf = NoMac /\ m # NoMac THEN m ELSE stable
  /\ address' = IF m = NoMac THEN "this" ELSE "none"

\* What named the unit the session is with when it was admitted as m: nothing;
\* the trackers, with the neighbour table or without it; the neighbour table
\* alone, asked to confirm a replacement, or not asked anything.
Basis(e, m) ==
  IF link \notin e.names \cup {e.local} THEN "none"
  ELSE IF e.names # {} THEN "trackers"
  ELSE IF Replaces(m) THEN "confirmation"
  ELSE "neighbour"

\* The session is admitted as a unit, or without a MAC.
Admit(e) ==
  LET m == Identity(e)
  IN  /\ Acceptable(e)
      /\ Took(e)
      /\ Remember(m)
      /\ file' = IF Saves(m) THEN m ELSE file
      /\ saved' = IF Saves(m) THEN m ELSE saved
      /\ pending' = IF durable /\ Replaces(m) THEN m ELSE pending
      /\ as' = m
      /\ basis' = Basis(e, m)
      /\ owing' = (owing \/ (durable /\ Replaces(m)))
      /\ reached' = IF durable /\ Replaces(m) THEN {} ELSE reached
      /\ unnamed' = IF m = NoMac /\ unnamed < 2 THEN unnamed + 1 ELSE unnamed

\* The file could not be replaced, or its replacement not be made durable: it
\* holds the old state or the new one, and _device_info raises.
FailsToSave(e) ==
  /\ Acceptable(e)
  /\ Saves(Identity(e))
  /\ e.cost = 0 /\ Trouble
  /\ file' \in {file, Identity(e)}
  /\ UNCHANGED history

\* The data disagree, or the deadline passes between the lookups.
Disagrees(e) ==
  /\ \/ Conflict(e) /\ Took(e)
     \/ e.cost = 0 /\ Trouble
  /\ UNCHANGED <<file, history>>

NotNow(e) ==
  /\ ~Conflict(e) /\ Unavailable(e)
  /\ Took(e)
  /\ UNCHANGED <<file, history>>

\* A refusal outside a poll: it is not fatal.
Refused(e) ==
  \/ Disagrees(e) /\ UNCHANGED memory
  \/ NotNow(e) /\ UNCHANGED memory
  \/ FailsToSave(e) /\ Remember(Identity(e)) /\ UNCHANGED <<saved, pending>>

Close ==
  /\ link' = NoUnit /\ live' = FALSE
  /\ as' = Unknown /\ basis' = "none"

\* The client logs in to whatever unit answers: a new generation.
LogIn ==
  /\ link' = unit /\ live' = TRUE /\ creds' = TRUE
  /\ as' = Unknown /\ basis' = "none"
  /\ known' = FALSE
  /\ address' = IF address = "this" THEN "earlier" ELSE address

-----------------------------------------------------------------------------
(* The process *)

\* The operator may enter another MAC for a start, but leaves a replacement
\* in place until it was saved.
Start ==
  /\ ~up /\ starts > 0 /\ starts' = starts - 1
  /\ \E c \in Macs, r \in BOOLEAN :
       /\ r => c # NoMac
       /\ owing => c = conf /\ r = replace
       /\ conf' = c /\ replace' = r /\ stable' = c
  /\ up' = TRUE
  /\ saved' = file /\ pending' = NoMac /\ address' = "none"
  /\ known' = FALSE /\ published' = FALSE
  /\ unnamed' = IF durable THEN unnamed ELSE 0
  /\ reached' = IF durable THEN reached ELSE {}
  /\ UNCHANGED <<network, durable, file, session, at, as, basis, owing,
                 moves, commands, troubles>>

\* The process is gone: what it kept in memory means nothing any more.
Gone ==
  /\ up' = FALSE /\ at' = "idle"
  /\ Close /\ creds' = FALSE
  /\ stable' = NoMac /\ saved' = Absent /\ pending' = NoMac
  /\ address' = "none" /\ known' = FALSE /\ published' = FALSE

Crash ==
  /\ up /\ Trouble
  /\ Gone
  /\ UNCHANGED <<network, setup, file, history, starts, moves, commands>>

-----------------------------------------------------------------------------
(* A poll *)

\* _connect_pa2 logs in, or the session of the last poll is still open.
PollConnects ==
  /\ up /\ at = "idle" /\ link = NoUnit
  /\ LogIn
  /\ at' = "polling"
  /\ UNCHANGED <<network, setup, file, up, stable, saved, pending, published,
                 history, bounds>>

PollCannotConnect ==
  /\ up /\ at = "idle" /\ link = NoUnit
  /\ Trouble
  /\ creds' = FALSE /\ known' = FALSE
  /\ UNCHANGED <<network, setup, file, up, memory, published, link, live, at,
                 as, basis, history, starts, moves, commands>>

PollReuses ==
  /\ up /\ at = "idle" /\ link # NoUnit
  /\ at' = IF known THEN "publishing" ELSE "polling"
  /\ UNCHANGED <<network, setup, file, up, memory, known, published, session,
                 as, basis, history, bounds>>

PollAdmits ==
  /\ up /\ at = "polling"
  /\ \E e \in Evidence : Admit(e)
  /\ known' = TRUE /\ published' = FALSE
  /\ at' = "publishing"
  /\ UNCHANGED <<network, setup, up, session, starts, moves, commands>>

\* Missing data is waited for.
PollWaits ==
  /\ up /\ at = "polling"
  /\ \E e \in Evidence : NotNow(e)
  /\ Close
  /\ at' = "idle"
  /\ UNCHANGED <<network, setup, up, memory, known, published, creds, starts,
                 moves, commands>>

\* A DiscoveryStateError is not among what run retries.
PollStops ==
  /\ up /\ at = "polling"
  /\ \E e \in Evidence : Disagrees(e) \/ FailsToSave(e)
  /\ Gone
  /\ UNCHANGED <<network, setup, starts, moves, commands>>

\* Discovery was acknowledged: a replacement is saved now.
SavePending ==
  /\ IF pending # NoMac
       THEN file' = pending /\ saved' = pending /\ owing' = FALSE
       ELSE UNCHANGED <<file, saved, owing>>
  /\ pending' = NoMac

\* The rest of the poll: discovery when it is due, then the state.
PollEnds ==
  /\ up /\ at = "publishing" /\ live
  /\ IF published THEN UNCHANGED <<file, saved, pending, owing>>
                  ELSE SavePending
  /\ published' = TRUE
  /\ at' = "idle"
  /\ UNCHANGED <<network, setup, up, stable, address, known, session, as,
                 basis, reached, unnamed, bounds>>

\* The replacement cannot be saved: the process ends.
PollCannotSave ==
  /\ up /\ at = "publishing" /\ ~published /\ pending # NoMac
  /\ file' \in {file, pending}
  /\ owing' = (file' # pending)
  /\ Trouble
  /\ Gone
  /\ UNCHANGED <<network, setup, reached, unnamed, starts, moves, commands>>

\* A read fails, before the discovery or after it; the identity, read first,
\* may not have been cached.
PollFails ==
  /\ up /\ at = "publishing"
  /\ \/ ~live /\ Smooth
     \/ Trouble
  /\ Close
  /\ known' \in {known, known /\ published}
  /\ at' = "idle"
  /\ UNCHANGED <<network, setup, file, up, memory, published, creds, history,
                 starts, moves, commands>>

-----------------------------------------------------------------------------
(* A command *)

\* It is carried out on whatever session is open, or none.
CommandStarts ==
  /\ up /\ at = "idle"
  /\ commands > 0 /\ commands' = commands - 1
  /\ at' = "command"
  /\ UNCHANGED <<network, setup, file, up, memory, known, published, session,
                 as, basis, history, starts, moves, troubles>>

\* A lookup that named the session's unit was compared with the MAC it goes by.
Compared == basis \in {"trackers", "confirmation"}

CommandWrites ==
  /\ up /\ at = "command" /\ link # NoUnit /\ live
  /\ reached' = IF as \in Units /\ Compared THEN reached \cup {link}
                ELSE reached
  /\ UNCHANGED <<network, setup, file, up, memory, known, published, session,
                 at, as, basis, owing, unnamed, bounds>>

\* The controller reconnects with the credentials of the last login.  (Variant:
\* and goes on without asking the validator.)
CommandReconnectsUnasked ==
  /\ up /\ at = "command" /\ creds
  /\ LogIn
  /\ UNCHANGED <<network, setup, file, up, stable, saved, pending, published,
                 at, history, bounds>>
CommandReconnects ==
  /\ up /\ at = "command" /\ creds
  /\ LogIn
  /\ at' = "reconnected"
  /\ UNCHANGED <<network, setup, file, up, stable, saved, pending, published,
                 history, bounds>>

\* Only an authentication error takes the credentials away.
CommandCannotReconnect ==
  /\ up /\ at = "command" /\ creds
  /\ Trouble
  /\ Close
  /\ creds' \in BOOLEAN
  /\ UNCHANGED <<network, setup, file, up, memory, known, published, at,
                 history, starts, moves, commands>>

\* _validate_reconnected_peer wants a MAC.
ReconnectAdmitted ==
  /\ up /\ at = "reconnected"
  /\ \E e \in Evidence : Admit(e)
  /\ as' # NoMac
  /\ at' = "command"
  /\ UNCHANGED <<network, setup, up, known, published, session, starts, moves,
                 commands>>

\* Everything else it raises, and the command ends by closing the session.
ReconnectRefused ==
  /\ up /\ at = "reconnected"
  /\ \E e \in Evidence : Refused(e)
  /\ Close
  /\ at' = "idle"
  /\ UNCHANGED <<network, setup, up, known, published, creds, starts, moves,
                 commands>>

\* The command had its effect: the state it publishes needs the identity of
\* the session it ended on.  (Variant: the cached one is published.)
CommandWorksUnread ==
  /\ up /\ at = "command" /\ link # NoUnit /\ live
  /\ at' = "idle"
  /\ UNCHANGED <<network, setup, file, up, memory, known, published, session,
                 as, basis, history, bounds>>
CommandWorks ==
  /\ up /\ at = "command" /\ link # NoUnit /\ live
  /\ at' = IF known THEN "idle" ELSE "after"
  /\ known' = TRUE
  /\ UNCHANGED <<network, setup, file, up, memory, published, session, as,
                 basis, history, bounds>>

\* After a recall the details are refreshed, and discovery with them.
IdentityRenewed ==
  /\ up /\ at = "after"
  /\ \E e \in Evidence : Admit(e)
  /\ published' = FALSE
  /\ at' \in {"idle", "announcing"}
  /\ UNCHANGED <<network, setup, up, known, session, starts, moves, commands>>

IdentityNotRenewed ==
  /\ up /\ at = "after"
  /\ \E e \in Evidence : Refused(e)
  /\ Close
  /\ at' = "idle"
  /\ UNCHANGED <<network, setup, up, known, published, creds, starts, moves,
                 commands>>

CommandPublishes ==
  /\ up /\ at = "announcing" /\ live
  /\ SavePending
  /\ published' = TRUE
  /\ at' = "idle"
  /\ UNCHANGED <<network, setup, up, stable, address, known, session, as,
                 basis, reached, unnamed, bounds>>

\* A refresh of the details that fails is only reported.
CommandCannotSave ==
  /\ up /\ at = "announcing" /\ pending # NoMac
  /\ Trouble
  /\ file' \in {file, pending}
  /\ at' = "idle"
  /\ UNCHANGED <<network, setup, up, memory, known, published, session, as,
                 basis, history, starts, moves, commands>>

\* Any other failure of a command closes the session too.
CommandFails ==
  /\ up /\ at \in {"command", "after", "announcing"}
  /\ Close
  /\ at' = "idle"
  /\ UNCHANGED <<network, setup, file, up, memory, known, published, creds,
                 history, bounds>>

-----------------------------------------------------------------------------
(* The network *)

\* Another unit takes the address, or the connection is lost.
Swap ==
  /\ moves > 0 /\ moves' = moves - 1
  /\ unit' \in Units \ {unit}
  /\ live' = FALSE
  /\ UNCHANGED <<neighbour, trackers, setup, file, up, memory, known,
                 published, link, creds, at, as, basis, history, starts,
                 commands, troubles>>

LoseConnection ==
  /\ link # NoUnit /\ live
  /\ Trouble
  /\ live' = FALSE
  /\ UNCHANGED <<network, setup, file, up, memory, known, published, link,
                 creds, at, as, basis, history, starts, moves, commands>>

\* Trackers follow the address late, forget it, or are not the network's own.
TrackersChange ==
  /\ moves > 0 /\ moves' = moves - 1
  /\ trackers' \in {{}, {[mac |-> unit, trusted |-> TRUE]},
                    trackers \cup {[mac |-> unit, trusted |-> TRUE]}}
                   \cup {trackers \cup {[mac |-> m, trusted |-> FALSE]} : m \in Units}
  /\ trackers' # trackers
  /\ UNCHANGED <<unit, neighbour, setup, file, up, memory, known, published,
                 session, at, as, basis, history, starts, commands,
                 troubles>>

Next ==
  \/ Start \/ Crash
  \/ PollConnects \/ PollCannotConnect \/ PollReuses
  \/ PollAdmits \/ PollWaits \/ PollStops
  \/ PollEnds \/ PollCannotSave \/ PollFails
  \/ CommandStarts \/ CommandWrites \/ CommandReconnects
  \/ CommandCannotReconnect \/ ReconnectAdmitted \/ ReconnectRefused
  \/ CommandWorks \/ IdentityRenewed \/ IdentityNotRenewed
  \/ CommandPublishes \/ CommandCannotSave \/ CommandFails
  \/ Swap \/ LoseConnection \/ TrackersChange

Spec == Init /\ [][Next]_vars

\* The main loop polls and carries a command through: its deadlines and rounds
\* end a command however often it reconnects.  Nothing in the code restarts a
\* process that ended.
Fairness ==
  /\ WF_vars(PollConnects) /\ WF_vars(PollReuses)
  /\ WF_vars(PollAdmits \/ PollWaits \/ PollStops)
  /\ WF_vars(PollEnds \/ PollFails)
  /\ SF_vars(CommandWorks \/ CommandPublishes \/ CommandFails)
  /\ WF_vars(ReconnectAdmitted \/ ReconnectRefused)
  /\ WF_vars(IdentityRenewed \/ IdentityNotRenewed)

FairSpec == Spec /\ Fairness

-----------------------------------------------------------------------------
(* Properties *)

\* A command goes on only over a session whose peer was validated in its own
\* generation, whatever reconnects came before: the writes of a rollback after
\* a reconnect included.
CommandIsVouched ==
  at = "command" /\ link # NoUnit => as # Unknown

\* Between two steps of the main loop an open session is one whose identity
\* was validated, so that the cached identity may be used for it unread.
OpenMeansKnown ==
  up /\ at = "idle" /\ link # NoUnit => known /\ as # Unknown

\* While a tracker counts for the address, a session whose unit the trackers or
\* the neighbour table name is not commanded as another unit's; nor is it when
\* the neighbour table alone names it and the operator's MAC replaces a saved
\* one.  In the case that is left, the operator's MAC without a tracker and
\* without another MAC in the file, see EnteredMacIsChecked.
NoStranger ==
  at = "command" /\ live /\ as \in Units /\ Compared => link = as

\* That case: the neighbour table names another unit than the operator ("It
\* still refuses a live MAC that conflicts with the entered value", DOCS.md).
EnteredMacIsChecked ==
  at = "command" /\ live /\ as \in Units /\ basis = "neighbour" => link = as

\* Across restarts and reconnects the commands of the sessions that NoStranger
\* speaks of reach one physical unit, unless the operator replaced it: the
\* identity file binds what the comparisons of single sessions cannot.
OneUnit == Cardinality(reached) <= 1

\* With an identity file one session at most is ever admitted without a MAC,
\* without a file one in the life of the process.
AddressOnlyOnce == unnamed <= 1

\* A MAC in the identity file is changed only for the one the operator asked
\* to replace it with, after the session was admitted as that one, and is never
\* lost.
SavedIdentityKept ==
  [][HasMac(file) /\ file' # file =>
       replace /\ file' = conf /\ as = conf]_vars

\* The network names the unit at the address, and that is the unit the bridge
\* is bound to.
Recognisable ==
  /\ up
  /\ Trusted(trackers) = {[mac |-> unit, trusted |-> TRUE]}
  /\ neighbour # "router"
  /\ stable \in {NoMac, unit}
  /\ conf = NoMac => saved \in {NoMac, Absent, unit}

\* Missing data and failures do not keep the bridge offline: if from some time
\* on the unit is recognisable, it ends in a session admitted as that unit, or
\* stays in the one that was admitted by its address before.
Recovers ==
  <>[]Recognisable => <>[](link = unit /\ as \in {unit, NoMac})
=============================================================================
