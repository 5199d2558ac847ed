--------------------------- MODULE StateDirectory ---------------------------
(***************************************************************************)
(* How the bridge saves a state file (_save_state_payload) and creates the *)
(* directories above it (_ensure_state_directory), on a file system that   *)
(* forgets at a power loss what was not fsynced.  A marker beside and then *)
(* inside a new directory says that its creation is not known to be        *)
(* durable.  step is the next system call of the save that is running;     *)
(* the process may be killed before any of them.                           *)
(***************************************************************************)
EXTENDS Integers, FiniteSets

CONSTANTS
  Depth,       \* directories that may be missing above the file
  MaxTroubles  \* failing calls, kills and power losses of one behaviour (bound)

CONSTANTS Missing, Torn   \* what a read of the file may find instead

ASSUME DepthAssumption == Depth \in Nat
ASSUME TroublesAssumption == MaxTroubles \in Nat
ASSUME ReadsAssumption == Missing # Torn

VARIABLES
  now,      \* now[e]: does a process see directory entry e
  may,      \* may[e]: the values of it a power loss may leave
  file,     \* the contents a process sees, or Missing
  files,    \* the contents a power loss may leave in place of the file
  step,     \* next call of the save, "none", or how it ended
  dir,      \* the directory being created
  new,      \* the contents being saved
  kept,     \* history: contents a reader may rightly find after a power loss
  left      \* troubles left

disk == <<now, may, file, files>>
save == <<step, dir, new>>
dirVars == <<disk, save, kept, left>>

Dirs == 1 .. Depth
Entries == {"dir", "outer", "inner"} \X Dirs
Steps == {"ensure", "mark", "markSync", "make", "madeSync", "move", "moveSync",
          "innerSync", "unmark", "write", "replace", "fileSync"}

\* Directory 0 is there for good; one below it is there with all above it.
There(p, d) == \A k \in 1 .. d : p[<<"dir", k>>]
\* The directory an entry is in.
Holder(e) == IF e[1] = "inner" THEN e[2] ELSE e[2] - 1

DirTypeOK(contents) ==
  /\ now \in [Entries -> BOOLEAN]
  /\ may \in [Entries -> SUBSET BOOLEAN]
  /\ file \in contents /\ files \subseteq contents
  /\ step \in Steps \cup {"none", "saved", "failed"}
  /\ dir \in 0 .. Depth
  /\ new \in contents
  /\ kept \subseteq contents
  /\ left \in 0 .. MaxTroubles

\* Any number of the directories is there from before.
DirInit ==
  /\ \E n \in 0 .. Depth :
       now = [e \in Entries |-> e[1] = "dir" /\ e[2] <= n]
  /\ may = [e \in Entries |-> {now[e]}]
  /\ file = Missing /\ files = {Missing}
  /\ step = "none" /\ dir = 0 /\ new = Missing
  /\ kept = {Missing}
  /\ left = MaxTroubles

Trouble == left > 0 /\ left' = left - 1

-----------------------------------------------------------------------------
(* Directory entries *)

Put(e, v) ==
  /\ now' = [now EXCEPT ![e] = v]
  /\ may' = [may EXCEPT ![e] = @ \cup {v}]

\* os.replace moves the marker; the file system journals a rename whole, but
\* either directory's half of it may be lost with the rest of that directory.
MoveMarker(d) ==
  /\ now' = [now EXCEPT ![<<"outer", d>>] = FALSE, ![<<"inner", d>>] = TRUE]
  /\ may' = [may EXCEPT ![<<"outer", d>>] = @ \cup {FALSE},
                        ![<<"inner", d>>] = @ \cup {TRUE}]

\* _fsync_directory.
Fsync(d) ==
  /\ may' = [e \in Entries |-> IF Holder(e) = d THEN {now[e]} ELSE may[e]]
  /\ files' = IF d = Depth THEN {file} ELSE files
  /\ UNCHANGED <<now, file>>

\* What a reader may find after a power loss at this moment.
Surviving ==
  files \cup IF \E d \in Dirs : FALSE \in may[<<"dir", d>>]
             THEN {Missing} ELSE {}

\* The power fails: each entry that was not synced is or is not there, and
\* with a directory goes what was in it.  A marker is never in both places.
Remains(p) ==
  [e \in Entries |-> p[e] /\ There(p, Holder(e))]

LosePower ==
  /\ \E p \in [Entries -> BOOLEAN] :
       /\ \A e \in Entries : p[e] \in may[e]
       /\ \A d \in Dirs : ~(p[<<"outer", d>>] /\ p[<<"inner", d>>])
       /\ now' = Remains(p)
       /\ file' \in IF There(p, Depth) THEN files ELSE {Missing}
  /\ may' = [e \in Entries |-> {now'[e]}]
  /\ files' = {file'}

-----------------------------------------------------------------------------
(* The save *)

Call(from, to) ==
  /\ step = from /\ step' = to
  /\ UNCHANGED <<new, kept, left>>

StartSave(contents) ==
  /\ step' = "ensure"
  /\ new' = contents
  /\ kept' = kept \cup {contents}
  /\ UNCHANGED <<disk, dir, left>>

PendingIgnored(d) == FALSE
\* _state_directory_pending.
Pending(d) == now[<<"outer", d>>] \/ now[<<"inner", d>>]

\* _ensure_state_directory: from the deepest directory there is, if its
\* creation was left unfinished, else from the first one missing.
Ensure ==
  \E deepest \in 0 .. Depth :
    /\ There(now, deepest)
    /\ deepest < Depth => ~There(now, deepest + 1)
    /\ LET first == IF deepest > 0 /\ Pending(deepest) THEN deepest
                                                       ELSE deepest + 1
       IN  /\ Call("ensure", IF first > Depth THEN "write" ELSE "mark")
           /\ dir' = IF first > Depth THEN dir ELSE first
           /\ UNCHANGED disk

\* _create_state_directory: a marker inside says how far an earlier one came.
Mark ==
  /\ step = "mark"
  /\ LET outer == now[<<"outer", dir>>]
         inner == now[<<"inner", dir>>]
     IN  IF inner
         THEN /\ Call("mark", IF outer THEN "failed" ELSE "moveSync")
              /\ UNCHANGED disk
         ELSE /\ Call("mark", "markSync")
              /\ Put(<<"outer", dir>>, TRUE)
              /\ UNCHANGED <<file, files>>
  /\ UNCHANGED dir

SyncParent ==
  /\ \/ Call("markSync", "make")
     \/ Call("madeSync", "move")
     \/ Call("moveSync", "innerSync")
  /\ Fsync(dir - 1)
  /\ UNCHANGED dir

Make ==
  /\ Call("make", "madeSync")
  /\ Put(<<"dir", dir>>, TRUE)
  /\ UNCHANGED <<file, files, dir>>

Move ==
  /\ step = "move"
  /\ IF now[<<"inner", dir>>]
     THEN Call("move", "failed") /\ UNCHANGED <<now, may>>
     ELSE Call("move", "moveSync") /\ MoveMarker(dir)
  /\ UNCHANGED <<file, files, dir>>

SyncInner ==
  /\ Call("innerSync", "unmark")
  /\ Fsync(dir)
  /\ UNCHANGED dir

Unmark ==
  /\ Call("unmark", IF dir = Depth THEN "write" ELSE "mark")
  /\ Put(<<"inner", dir>>, FALSE)
  /\ dir' = IF dir = Depth THEN dir ELSE dir + 1
  /\ UNCHANGED <<file, files>>

\* A temporary file is written and fsynced, and takes the file's place.
WrittenUnsynced == {new, Torn}
Written == {new}

Write == Call("write", "replace") /\ UNCHANGED <<disk, dir>>

Replace ==
  /\ Call("replace", "fileSync")
  /\ file' = new
  /\ files' = files \cup Written
  /\ UNCHANGED <<now, may, dir>>

SyncFile ==
  /\ step = "fileSync" /\ step' = "saved"
  /\ Fsync(Depth)
  /\ kept' = {new}
  /\ UNCHANGED <<dir, new, left>>

\* A system call fails: the save is over, and what it did so far stays.
CallFails ==
  /\ step \in Steps
  /\ Trouble
  /\ step' = "failed"
  /\ UNCHANGED <<disk, dir, new, kept>>

Saving ==
  \/ Ensure \/ Mark \/ SyncParent \/ Make \/ Move \/ SyncInner \/ Unmark
  \/ Write \/ Replace \/ SyncFile

\* The process that was saving is gone.
SaveGone == step' = "none" /\ UNCHANGED <<dir, new, kept>>

\* The save, as its caller sees it.
Progress == IF step \in Steps THEN "saving" ELSE step

-----------------------------------------------------------------------------
(* Properties *)

\* A save that returned survives every power loss, whatever became of earlier
\* ones: a reader finds its contents or those of a save begun since, and never
\* a missing or a torn file (_save_state_payload, _create_state_directory).
SavedSurvives == Surviving \subseteq kept
=============================================================================
