------------------------------ MODULE Pa2Link ------------------------------
(***************************************************************************)
(* One DriveRack PA2 behind one network address, and the console session   *)
(* HiQnetClient (protocol.py) keeps with it, as the controller sees them:  *)
(* every client call is one atomic exchange that answers or fails.  The    *)
(* device is external code; it does here what the console protocol notes   *)
(* and the controller's own comments say of it: a write on a live session  *)
(* applies, a Recall loads asynchronously, and a load may drop the console *)
(* and set every output mute as the stored preset says.                    *)
(***************************************************************************)
EXTENDS Integers

CONSTANTS
  N,          \* output channels; OUTPUT_MUTES has six, in a fixed order
  Slots,      \* preset slots CurrentPreset may name
  Validates,  \* is a reconnect_validator installed (bridge: yes, CLI: no)
  MaxFaults   \* bound on the faults and outside writers of one behaviour

ASSUME OutputsAssumption == N \in Nat \ {0}
ASSUME SlotsAssumption == Slots \subseteq Nat \ {0}
ASSUME ValidatesAssumption == Validates \in BOOLEAN
ASSUME FaultsAssumption == MaxFaults \in Nat

VARIABLES
  mute,      \* mute[c]: output c's mute on our unit, "On" or "Off"
  slot,      \* CurrentPreset of our unit
  loading,   \* slot of a recalled preset still loading, or NoSlot
  host,      \* the unit our address reaches: "ours", "other", or "down"
  faults,    \* faults left
  sess,      \* the client's session: "closed", "dead" (open here, gone
             \* there), or the unit at its other end
  creds,     \* HiQnetClient._credentials is set
  strayed,   \* history: a write reached another unit
  muteSince, \* history: did a mute move by itself since the last pass began
  slotSince  \* history: did the slot move since the last direct read

device == <<mute, slot, loading>>
network == <<host, faults>>
client == <<sess, creds>>
history == <<muteSince, slotSince>>
linkVars == <<device, network, client, strayed, history>>

Channels == 1 .. N
OnOff == {"On", "Off"}
Mutes == [Channels -> OnOff]
NoSlot == 0
Units == {"ours", "other"}
Since == {"still", "moved"}

LinkDataOK ==
  /\ mute \in Mutes
  /\ slot \in Slots
  /\ loading \in Slots \cup {NoSlot}
  /\ host \in Units \cup {"down"}
  /\ faults \in 0 .. MaxFaults
  /\ sess \in Units \cup {"closed", "dead"}
  /\ muteSince \in Since
  /\ slotSince \in Since

LinkFlagsOK ==
  /\ creds \in BOOLEAN
  /\ strayed \in BOOLEAN

LinkInit ==
  /\ mute \in Mutes
  /\ slot \in Slots
  /\ loading = NoSlot
  /\ host = "ours"
  /\ faults = MaxFaults
  /\ sess = "ours"
  /\ creds = TRUE
  /\ strayed = FALSE
  /\ muteSince = "moved"
  /\ slotSince = "moved"

-----------------------------------------------------------------------------
(* Exchanges of the client *)

\* A get or ls is answered: the session is open at both ends.
Live == sess \in Units

\* The values a read of v can return: another unit answers anything.
Reads(v, range) == IF sess = "ours" THEN {v} ELSE range

\* A write is fire-and-forget: on a dead session the kernel may still take it.
SendFails == sess \in {"closed", "dead"}

SendOutput(c, v) ==
  \/ /\ sess = "ours"
     /\ mute' = [mute EXCEPT ![c] = v]
     /\ UNCHANGED <<slot, loading, strayed>>
  \/ /\ sess = "other"
     /\ strayed' = TRUE
     /\ UNCHANGED device
  \/ sess = "dead" /\ UNCHANGED <<device, strayed>>

SendRecall(s) ==
  \/ /\ sess = "ours"
     /\ loading' = s
     /\ UNCHANGED <<mute, slot, strayed>>
  \/ /\ sess = "other"
     /\ strayed' = TRUE
     /\ UNCHANGED device
  \/ sess = "dead" /\ UNCHANGED <<device, strayed>>

Fault == faults > 0 /\ faults' = faults - 1

ReconnectedUnseen ==
  /\ creds
  /\ host \in Units
  /\ sess' = host
  /\ UNCHANGED <<creds, faults>>

\* reconnect_before succeeds and the validator, if any, accepts the peer.
Reconnected ==
  /\ creds
  /\ host \in Units
  /\ Validates => host = "ours"
  /\ sess' = host
  /\ UNCHANGED <<creds, faults>>

\* reconnect_before raises: a lost connection keeps the credentials for a
\* later retry, a rejected login forgets them, and then nothing connects.
ReconnectFails ==
  /\ sess' = "closed"
  /\ \/ ~creds /\ UNCHANGED <<creds, faults>>
     \/ creds /\ host = "down" /\ UNCHANGED <<creds, faults>>
     \/ creds /\ host \in Units /\ Fault /\ creds' \in BOOLEAN

\* The new session is up, but the validator cannot vouch for its peer.
PeerRejected ==
  /\ Validates
  /\ creds
  /\ host \in Units
  /\ \/ host = "other" /\ UNCHANGED faults
     \/ Fault
  /\ sess' = host
  /\ UNCHANGED creds

-----------------------------------------------------------------------------
(* What happens to the device and the network without the bridge *)

\* A recalled preset finishes loading and sets the outputs as it was stored.
PresetLoads ==
  /\ loading # NoSlot
  /\ slot' = loading
  /\ loading' = NoSlot
  /\ mute' \in Mutes
  /\ sess' \in IF sess = "ours" THEN {"ours", "dead"} ELSE {sess}
  /\ muteSince' = IF mute' = mute THEN muteSince ELSE "moved"
  /\ slotSince' = IF slot' = slot THEN slotSince ELSE "moved"
  /\ UNCHANGED <<network, creds, strayed>>

\* Somebody at the front panel, or another console, changes the unit.
OtherWriter ==
  /\ Fault
  /\ slot' \in Slots
  /\ mute' \in Mutes
  /\ muteSince' = IF mute' = mute THEN muteSince ELSE "moved"
  /\ slotSince' = IF slot' = slot THEN slotSince ELSE "moved"
  /\ UNCHANGED <<loading, host, client, strayed>>

ConsoleDrops ==
  /\ Fault
  /\ Live
  /\ sess' = "dead"
  /\ UNCHANGED <<device, host, creds, strayed, history>>

\* The address goes down, comes back, or is taken by another unit.
AddressMoves ==
  /\ Fault
  /\ host' \in (Units \cup {"down"}) \ {host}
  /\ sess' = IF Live THEN "dead" ELSE sess
  /\ UNCHANGED <<device, creds, strayed, history>>

Surroundings == PresetLoads \/ OtherWriter \/ ConsoleDrops \/ AddressMoves
=============================================================================
