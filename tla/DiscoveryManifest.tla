-------------------------- MODULE DiscoveryManifest --------------------------
(***************************************************************************)
(* The discovery records the bridge owns at the broker, and the manifest   *)
(* it keeps of them in a state file (_publish_discovery): saved before     *)
(* anything is published, so that records no longer wanted are cleared by  *)
(* whatever process comes after a crash.                                   *)
(***************************************************************************)
EXTENDS StateDirectory, Sequences

CONSTANTS
  Topics,   \* the discovery topics of all configurations and devices
  MaxOwned  \* _MAX_DISCOVERY_TOPICS

ASSUME TopicsAssumption ==
  /\ IsFiniteSet(Topics)
  /\ \A topics \in SUBSET Topics : Missing # topics /\ Torn # topics
ASSUME OwnedAssumption == MaxOwned \in Nat \ {0}

VARIABLES
  pc,      \* next step of _publish_discovery; "off" without a process
  mem,     \* _persisted_discovery_topics
  cur,     \* current_topics: what this configuration and device want shown
  todo,    \* topics still to be handed to the client
  lost,    \* a publication found no session and got no result
  shown,   \* records retained by the broker
  outbox   \* publications not yet acknowledged, oldest first

process == <<pc, mem, cur, todo, lost>>
broker == <<shown, outbox>>
vars == <<dirVars, process, broker>>

Manifests == (SUBSET Topics) \cup {Missing, Torn}
Messages == [topic : Topics, on : BOOLEAN]

FitsAlways(topics) == TRUE
\* _save_discovery_topics refuses more.
Fits(topics) == Cardinality(topics) <= MaxOwned
\* What a configuration and a device may want; alone it always fits.
Wanted == {topics \in SUBSET Topics : topics # {} /\ Cardinality(topics) <= MaxOwned}

TypeOK ==
  /\ DirTypeOK(Manifests)
  /\ pc \in {"off", "due", "saving", "clean", "show", "finish", "dropping",
             "idle", "dying"}
  /\ mem \subseteq Topics /\ cur \subseteq Topics /\ todo \subseteq Topics
  /\ Cardinality(mem) <= MaxOwned
  /\ lost \in BOOLEAN
  /\ shown \subseteq Topics
  /\ outbox \in Seq(Messages) /\ Len(outbox) <= Cardinality(Topics)

Init ==
  /\ DirInit
  /\ pc = "off" /\ mem = {} /\ cur = {} /\ todo = {} /\ lost = FALSE
  /\ shown = {} /\ outbox = <<>>

-----------------------------------------------------------------------------
(* The process *)

Owns(contents) == IF contents = Missing THEN {} ELSE contents
LoadedNothing(contents) == {}
\* _load_discovery_topics.
Loaded(contents) == Owns(contents)

\* __init__ loads the manifest, or refuses to start over a malformed one.
\* The configuration and the device may be others than they were before.
Start ==
  /\ pc = "off" /\ file # Torn
  /\ mem' = Loaded(file)
  /\ cur' \in Wanted
  /\ pc' = "due"
  /\ UNCHANGED <<dirVars, todo, lost, broker>>

\* The device is identified anew, or its presets were renamed.
Again ==
  /\ pc = "idle"
  /\ cur' \in Wanted
  /\ pc' = "due"
  /\ UNCHANGED <<dirVars, mem, todo, lost, broker>>

OwnedForgets == cur
\* What the manifest has to name before anything is published.
Owned == mem \cup cur

Announce ==
  /\ pc = "due" /\ Fits(Owned)
  /\ StartSave(Owned)
  /\ pc' = "saving"
  /\ UNCHANGED <<mem, cur, todo, lost, broker>>

StaleForgets(topics) == {}
Stale(topics) == topics \ cur

\* The manifest is on disk: clear what is owned but no longer wanted.
Saved ==
  /\ pc = "saving" /\ step = "saved"
  /\ mem' = new
  /\ todo' = Stale(new)
  /\ pc' = "clean"
  /\ SaveGone
  /\ UNCHANGED <<disk, left, cur, lost, broker>>

\* _publish: out of session it does nothing and there is no result to await.
Publish ==
  /\ pc \in {"clean", "show"}
  /\ \E t \in todo :
       /\ todo' = todo \ {t}
       /\ \/ /\ outbox' = Append(outbox, [topic |-> t,
                                          on |-> pc = "show" /\ t \in cur])
             /\ UNCHANGED <<lost, left>>
          \/ Trouble /\ lost' = TRUE /\ UNCHANGED outbox
  /\ UNCHANGED <<disk, save, kept, pc, mem, cur, shown>>

\* _wait_for_discovery_publications returned: all were acknowledged.
Acknowledged == todo = {} /\ outbox = <<>> /\ ~lost

\* Empty payloads for the meters go with the records if those are not wanted.
Cleaned ==
  /\ pc = "clean" /\ Acknowledged
  /\ \E meters \in SUBSET (Topics \ cur) : todo' = cur \cup meters
  /\ pc' = "show"
  /\ UNCHANGED <<dirVars, mem, cur, lost, broker>>

\* The manifest shrinks only now that nothing else is retained.
Shown ==
  /\ pc = "show" /\ Acknowledged
  /\ IF cur = mem
     THEN pc' = "idle" /\ UNCHANGED dirVars
     ELSE pc' = "dropping" /\ StartSave(cur)
  /\ UNCHANGED <<mem, cur, todo, lost, broker>>

Dropped ==
  /\ pc = "dropping" /\ step = "saved"
  /\ mem' = cur
  /\ pc' = "idle"
  /\ SaveGone
  /\ UNCHANGED <<disk, left, cur, todo, lost, broker>>

\* A failed save ends the process in a poll, and is retried with the next
\* detail refresh in another.
SaveFailed ==
  /\ pc \in {"saving", "dropping"} /\ step = "failed"
  /\ pc' \in {"due", "dying"}
  /\ SaveGone
  /\ UNCHANGED <<disk, left, mem, cur, todo, lost, broker>>

\* The manifest would name too many topics.
TooMany ==
  /\ pc = "due" /\ ~Fits(Owned)
  /\ pc' = "dying"
  /\ UNCHANGED <<dirVars, mem, cur, todo, lost, broker>>

\* No acknowledgement in time, or none to wait for: the bridge ends, while
\* the client may still deliver what it has.
TimesOut ==
  /\ pc \in {"clean", "show"} /\ todo = {}
  /\ \/ lost /\ UNCHANGED left
     \/ ~lost /\ outbox # <<>> /\ Trouble
  /\ pc' = "dying"
  /\ UNCHANGED <<disk, save, kept, mem, cur, todo, lost, broker>>

Gone ==
  /\ pc' = "off"
  /\ mem' = {} /\ todo' = {} /\ lost' = FALSE /\ cur' = {}
  /\ outbox' = <<>>
  /\ UNCHANGED shown
  /\ SaveGone

Exit == pc = "dying" /\ Gone /\ UNCHANGED <<disk, left>>

SaveCall == (Saving \/ CallFails) /\ UNCHANGED <<process, broker>>

Bridge ==
  \/ Start \/ Announce \/ Saved \/ Publish \/ Cleaned \/ Shown \/ Dropped
  \/ SaveFailed \/ TooMany \/ TimesOut \/ Exit \/ SaveCall

-----------------------------------------------------------------------------
(* The broker, and crashes *)

\* A publication reaches the broker, which acknowledges it.
Deliver ==
  /\ outbox # <<>>
  /\ outbox' = Tail(outbox)
  /\ shown' = IF Head(outbox).on THEN shown \cup {Head(outbox).topic}
              ELSE shown \ {Head(outbox).topic}
  /\ UNCHANGED <<dirVars, process>>

Kill ==
  /\ pc # "off"
  /\ Trouble
  /\ Gone
  /\ UNCHANGED disk

PowerLoss ==
  /\ Trouble
  /\ LosePower
  /\ Gone

Next == Bridge \/ Again \/ Deliver \/ Kill \/ PowerLoss

Spec == Init /\ [][Next]_vars

\* The process is started again when it ended, and scheduled; the broker acts
\* on what reaches it.
FairSpec == Spec /\ WF_vars(Bridge) /\ WF_vars(Deliver)

-----------------------------------------------------------------------------
(* Properties *)

\* Whatever crashes, the manifest a later process finds names every record the
\* broker has, or will have from what is on its way ("interrupted cleanup
\* remains recoverable"), and is never torn, which would stop the start.
OwnershipSurvives ==
  \A contents \in Surviving :
    /\ contents # Torn
    /\ shown \cup {outbox[i].topic : i \in {j \in 1 .. Len(outbox) : outbox[j].on}}
         \subseteq Owns(contents)

\* To the bridge its state file is one register, whatever system calls a save
\* is made of and whichever of them fail or are never made: a crash finds what
\* was saved last or what was being saved, and never again what a later save or
\* crash has ruled out (_save_state_payload, _ensure_state_directory).
File == INSTANCE DurableFile WITH
  Values <- SUBSET Topics, seen <- file, found <- Surviving, call <- Progress
KeepsFile == File!Spec

\* Once discovery is published the broker shows what is wanted and nothing of
\* any earlier configuration or device, over any history of crashes.
OnlyCurrentShown == pc = "idle" => shown = cur

\* After the last trouble the obsolete records are cleared, unless unfinished
\* changes have filled the manifest (_MAX_DISCOVERY_TOPICS).
CleanupEnds == []<>((pc = "idle" /\ shown = cur) \/ ~Fits(Owned))
=============================================================================
