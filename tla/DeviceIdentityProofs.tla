------------------------ MODULE DeviceIdentityProofs ------------------------
(***************************************************************************)
(* The identity rules of DeviceIdentity, for any set of units and any      *)
(* number of starts, moves, commands and failures.                         *)
(***************************************************************************)
EXTENDS DeviceIdentity, TLAPS, FiniteSetTheorems

-----------------------------------------------------------------------------
(* Validations *)

\* What a validation is told of are units, and it costs troubles there are.
LEMMA EvidenceType ==
  ASSUME TypeOK, NEW e \in Evidence
  PROVE  /\ e.names \subseteq Units
         /\ e.cost \in {0, 1}
         /\ e.cost = 1 => troubles > 0
         /\ e.names \in {Names, {}}
<1>1. Names \subseteq Units
  BY SMT DEF TypeOK, Names, Trusted, Trackers
<1>2. \/ e \in [local : Local, names : {Names}, cost : {0}]
      \/ e \in [local : Local, names : {{}}, cost : {n \in {1} : troubles > 0}]
  BY DEF Evidence
<1> QED
  BY <1>1, <1>2, SMT

\* A session is admitted as a unit or without a MAC.
LEMMA IdentityType ==
  ASSUME TypeOK, NEW e \in Evidence
  PROVE  /\ TrustedMac(e) \in Macs
         /\ Identity(e) \in Macs
         /\ TrustedMac(e) # NoMac => TrustedMac(e) \in e.names
<1>1. e.names # {} => TrustedMac(e) \in e.names
  BY DEF TrustedMac
<1>2. e.names = {} => TrustedMac(e) = NoMac
  BY DEF TrustedMac
<1> QED
  BY <1>1, <1>2, EvidenceType DEF Identity, Macs, TypeOK

-----------------------------------------------------------------------------
(* Types *)

LEMMA TypeInit == Init => TypeOK
<1> SUFFICES ASSUME Init PROVE TypeOK
  OBVIOUS
<1>1. /\ starts \in 0 .. MaxStarts /\ moves \in 0 .. MaxMoves
      /\ commands \in 0 .. MaxCommands /\ troubles \in 0 .. MaxTroubles
      /\ unnamed \in 0 .. 2
  BY BoundsAssumption, SMT DEF Init
<1> QED
  BY <1>1, Zenon DEF Init, TypeOK, Macs, Places, Bases

LEMMA TookType ==
  ASSUME TypeOK, NEW e \in Evidence, Took(e)
  PROVE  troubles' \in 0 .. MaxTroubles
<1>1. troubles \in 0 .. MaxTroubles /\ MaxTroubles \in Nat
  BY BoundsAssumption DEF TypeOK
<1>2. CASE e.cost = 0
  BY <1>1, <1>2, SMT DEF Took
<1>3. CASE e.cost = 1
  BY <1>1, <1>3, EvidenceType, SMT DEF Took
<1> QED
  BY <1>2, <1>3, EvidenceType

LEMMA AdmitType ==
  ASSUME TypeOK, NEW e \in Evidence, Admit(e)
  PROVE  /\ troubles' \in 0 .. MaxTroubles
         /\ stable' \in Macs /\ saved' \in Macs \cup {Absent}
         /\ pending' \in Macs /\ address' \in {"none", "this", "earlier"}
         /\ file' \in Macs \cup {Absent}
         /\ as' \in Macs
         /\ basis' \in Bases /\ owing' \in BOOLEAN
         /\ reached' \subseteq Units /\ unnamed' \in 0 .. 2
<1>1. troubles' \in 0 .. MaxTroubles
  BY TookType DEF Admit
<1>2. basis' \in Bases
  BY DEF Admit, Basis, Bases
<1>3. owing' \in BOOLEAN
  BY DEF Admit
<1>4. Identity(e) \in Macs
  BY IdentityType
<1>5. stable' \in Macs /\ address' \in {"none", "this", "earlier"}
  BY <1>4, Zenon DEF Admit, Remember, TypeOK
<1>6. /\ saved' \in Macs \cup {Absent} /\ file' \in Macs \cup {Absent}
      /\ pending' \in Macs /\ as' \in Macs /\ reached' \subseteq Units
  BY <1>4, Zenon DEF Admit, TypeOK
<1>7. unnamed' \in 0 .. 2
  BY SMT DEF Admit, TypeOK
<1> QED
  BY <1>1, <1>2, <1>3, <1>5, <1>6, <1>7

LEMMA TroubleType == TypeOK /\ Trouble => troubles' \in 0 .. MaxTroubles
<1>1. TypeOK => troubles \in 0 .. MaxTroubles /\ MaxTroubles \in Nat
  BY BoundsAssumption DEF TypeOK
<1> QED
  BY <1>1, SMT DEF Trouble

LEMMA SaveType ==
  ASSUME TypeOK, NEW e \in Evidence, FailsToSave(e)
  PROVE  /\ troubles' \in 0 .. MaxTroubles
         /\ file' \in Macs \cup {Absent}
         /\ UNCHANGED history
<1>1. troubles' \in 0 .. MaxTroubles
  BY TroubleType DEF FailsToSave
<1> QED
  BY <1>1, IdentityType DEF FailsToSave, TypeOK

LEMMA RefusalType ==
  ASSUME TypeOK, NEW e \in Evidence, Disagrees(e) \/ NotNow(e)
  PROVE  /\ troubles' \in 0 .. MaxTroubles
         /\ UNCHANGED <<file, history>>
BY TookType, TroubleType DEF Disagrees, NotNow

LEMMA RefusedType ==
  ASSUME TypeOK, NEW e \in Evidence, Refused(e)
  PROVE  /\ troubles' \in 0 .. MaxTroubles
         /\ file' \in Macs \cup {Absent}
         /\ stable' \in Macs /\ address' \in {"none", "this", "earlier"}
         /\ UNCHANGED <<saved, pending, history>>
<1>1. CASE (Disagrees(e) \/ NotNow(e)) /\ UNCHANGED memory
  BY <1>1, RefusalType DEF TypeOK, memory
<1>2. CASE FailsToSave(e) /\ Remember(Identity(e)) /\ UNCHANGED <<saved, pending>>
  BY <1>2, SaveType, IdentityType DEF Remember, TypeOK
<1> QED
  BY <1>1, <1>2 DEF Refused

Counters ==
  /\ starts \in 0 .. MaxStarts /\ moves \in 0 .. MaxMoves
  /\ commands \in 0 .. MaxCommands /\ troubles \in 0 .. MaxTroubles
Flags ==
  /\ durable \in BOOLEAN /\ replace \in BOOLEAN /\ up \in BOOLEAN
  /\ known \in BOOLEAN /\ published \in BOOLEAN /\ live \in BOOLEAN
  /\ creds \in BOOLEAN /\ basis \in Bases /\ owing \in BOOLEAN
Data ==
  /\ unit \in Units /\ neighbour \in {"unit", "router", "none"}
  /\ trackers \subseteq Trackers
  /\ conf \in Macs /\ file \in Macs \cup {Absent}
  /\ stable \in Macs /\ saved \in Macs \cup {Absent} /\ pending \in Macs
  /\ address \in {"none", "this", "earlier"}
  /\ link \in Units \cup {NoUnit}
  /\ at \in Places /\ as \in Macs \cup {Unknown}
  /\ reached \subseteq Units /\ unnamed \in 0 .. 2

LEMMA Parts == TypeOK <=> Counters /\ Flags /\ Data
BY Zenon DEF TypeOK, Counters, Flags, Data


LEMMA CountersStep ==
  ASSUME TypeOK, [Next]_vars PROVE Counters'
<1> USE DEF network, setup, memory, session, history, bounds, Smooth
<1>1. Counters
  BY Parts
<1>2. CASE \/ UNCHANGED bounds
           \/ /\ Trouble \/ troubles' \in 0 .. MaxTroubles
              /\ UNCHANGED <<starts, moves, commands>>
  BY <1>1, <1>2, TroubleType DEF Counters
<1>3. CASE Start \/ CommandStarts \/ Swap \/ TrackersChange
  <2>1. ASSUME NEW n \in 0 .. MaxStarts, n > 0 PROVE n - 1 \in 0 .. MaxStarts
    BY <2>1, BoundsAssumption, SMT
  <2>2. ASSUME NEW n \in 0 .. MaxMoves, n > 0 PROVE n - 1 \in 0 .. MaxMoves
    BY <2>2, BoundsAssumption, SMT
  <2>3. ASSUME NEW n \in 0 .. MaxCommands, n > 0 PROVE n - 1 \in 0 .. MaxCommands
    BY <2>3, BoundsAssumption, SMT
  <2> QED
    BY <1>1, <1>3, <2>1, <2>2, <2>3, Zenon
       DEF Counters, Start, CommandStarts, Swap, TrackersChange
<1>4. CASE Crash \/ PollConnects \/ PollCannotConnect \/ PollReuses
  BY <1>2, <1>4 DEF Crash, PollConnects, PollCannotConnect, PollReuses
<1>5. CASE PollAdmits \/ ReconnectAdmitted \/ IdentityRenewed
  BY <1>2, <1>5, AdmitType DEF PollAdmits, ReconnectAdmitted, IdentityRenewed
<1>6. CASE PollWaits \/ PollStops
  BY <1>2, <1>6, RefusalType, SaveType DEF PollWaits, PollStops
<1>7. CASE PollEnds \/ PollCannotSave \/ PollFails
  BY <1>2, <1>7 DEF PollEnds, PollCannotSave, PollFails
<1>8. CASE CommandWrites \/ CommandReconnects \/ CommandCannotReconnect
  BY <1>2, <1>8 DEF CommandWrites, CommandReconnects, CommandCannotReconnect
<1>9. CASE ReconnectRefused \/ IdentityNotRenewed
  BY <1>2, <1>9, RefusedType DEF ReconnectRefused, IdentityNotRenewed
<1>10. CASE CommandWorks \/ CommandPublishes \/ CommandCannotSave \/ CommandFails
  BY <1>2, <1>10 DEF CommandWorks, CommandPublishes, CommandCannotSave, CommandFails
<1>11. CASE LoseConnection \/ UNCHANGED vars
  BY <1>2, <1>11 DEF LoseConnection, vars
<1> QED
  BY <1>3, <1>4, <1>5, <1>6, <1>7, <1>8, <1>9, <1>10, <1>11 DEF Next

LEMMA FlagsStep ==
  ASSUME TypeOK, [Next]_vars PROVE Flags'
<1> USE DEF network, setup, memory, session, history, bounds, Flags, Close, Gone, LogIn
<1>1. Flags /\ "none" \in Bases
  BY Parts DEF Bases
<1>2. CASE Start \/ Crash \/ PollConnects \/ PollCannotConnect \/ PollReuses
  BY <1>1, <1>2, Zenon DEF Start, Crash, PollConnects, PollCannotConnect, PollReuses
<1>3. CASE PollAdmits \/ ReconnectAdmitted \/ IdentityRenewed
  BY <1>1, <1>3, AdmitType, Zenon DEF PollAdmits, ReconnectAdmitted, IdentityRenewed
<1>4. CASE PollWaits \/ PollStops
  BY <1>1, <1>4, RefusalType, SaveType, Zenon DEF PollWaits, PollStops
<1>5. CASE PollEnds \/ CommandPublishes
  BY <1>1, <1>5, Zenon DEF PollEnds, CommandPublishes, SavePending
<1>6. CASE PollCannotSave \/ PollFails
  BY <1>1, <1>6, Zenon DEF PollCannotSave, PollFails
<1>7. CASE CommandStarts \/ CommandWrites \/ CommandReconnects \/ CommandCannotReconnect
  BY <1>1, <1>7, Zenon DEF CommandStarts, CommandWrites, CommandReconnects, CommandCannotReconnect
<1>8. CASE ReconnectRefused \/ IdentityNotRenewed
  BY <1>1, <1>8, RefusedType, Zenon DEF ReconnectRefused, IdentityNotRenewed
<1>9. CASE CommandWorks \/ CommandCannotSave \/ CommandFails
  BY <1>1, <1>9, Zenon DEF CommandWorks, CommandCannotSave, CommandFails
<1>10. CASE Swap \/ LoseConnection \/ TrackersChange \/ UNCHANGED vars
  BY <1>1, <1>10, Zenon DEF Swap, LoseConnection, TrackersChange, vars
<1> QED
  BY <1>2, <1>3, <1>4, <1>5, <1>6, <1>7, <1>8, <1>9, <1>10 DEF Next

LEMMA DataStep ==
  ASSUME TypeOK, [Next]_vars PROVE Data'
<1> USE DEF network, setup, memory, session, history, bounds, Data, Places, Close, Gone, LogIn
<1>1. Data
  BY Parts
<1>2. CASE Start \/ Crash \/ PollConnects \/ PollCannotConnect \/ PollReuses
  <2>1. 0 \in 0 .. 2
    BY SMT
  <2> QED
    BY <1>1, <1>2, <2>1, Zenon
       DEF Start, Crash, PollConnects, PollCannotConnect, PollReuses, Macs
<1>3. CASE PollAdmits \/ ReconnectAdmitted \/ IdentityRenewed
  BY <1>1, <1>3, AdmitType, Zenon DEF PollAdmits, ReconnectAdmitted, IdentityRenewed
<1>4. CASE PollWaits \/ PollStops
  BY <1>1, <1>4, RefusalType, SaveType, Zenon DEF PollWaits, PollStops, Macs
<1>5. CASE PollEnds \/ CommandPublishes
  BY <1>1, <1>5, Zenon DEF PollEnds, CommandPublishes, SavePending, Macs
<1>6. CASE PollCannotSave \/ PollFails
  BY <1>1, <1>6, SMT DEF PollCannotSave, PollFails, Macs
<1>7. CASE CommandStarts \/ CommandWrites \/ CommandReconnects \/ CommandCannotReconnect
  <2>1. link # NoUnit => reached \cup {link} \subseteq Units
    BY <1>1
  <2> QED
    BY <1>1, <1>7, <2>1, Zenon
       DEF CommandStarts, CommandWrites, CommandReconnects, CommandCannotReconnect
<1>8. CASE ReconnectRefused \/ IdentityNotRenewed
  BY <1>1, <1>8, RefusedType, Zenon DEF ReconnectRefused, IdentityNotRenewed
<1>9. CASE CommandWorks \/ CommandCannotSave \/ CommandFails
  BY <1>1, <1>9, Zenon DEF CommandWorks, CommandCannotSave, CommandFails, Macs
<1>10. CASE Swap \/ LoseConnection \/ TrackersChange \/ UNCHANGED vars
  <2>1. ASSUME NEW m \in Units, NEW b \in BOOLEAN
        PROVE  /\ {[mac |-> m, trusted |-> b]} \subseteq Trackers
               /\ trackers \cup {[mac |-> m, trusted |-> b]} \subseteq Trackers
    BY <1>1 DEF Trackers
  <2>2. TrackersChange => trackers' \subseteq Trackers
    BY <1>1, <2>1 DEF TrackersChange
  <2> QED
    BY <1>1, <1>10, <2>2, Zenon DEF Swap, LoseConnection, TrackersChange, vars
<1> QED
  BY <1>2, <1>3, <1>4, <1>5, <1>6, <1>7, <1>8, <1>9, <1>10 DEF Next

\* Every variable stays in its range.
THEOREM TypeCorrect == Spec => []TypeOK
<1>1. TypeOK /\ [Next]_vars => TypeOK'
  BY CountersStep, FlagsStep, DataStep DEF TypeOK, Counters, Flags, Data
<1> QED
  BY TypeInit, <1>1, PTL DEF Spec

-----------------------------------------------------------------------------
(* Sessions *)

\* Which session can be open where: a command may have none, and everywhere
\* else a validated one is open, or the one about to be validated.
Sessions ==
  /\ ~up => at = "idle" /\ link = NoUnit
  /\ link = NoUnit => as = Unknown
  /\ at = "command" /\ link # NoUnit => as # Unknown
  /\ at \in {"publishing", "after", "announcing"} =>
       link # NoUnit /\ as # Unknown /\ known
  /\ at \in {"polling", "reconnected"} => link # NoUnit /\ as = Unknown
  /\ at = "idle" /\ link # NoUnit => known /\ as # Unknown

LEMMA AdmittedAs ==
  ASSUME TypeOK, NEW e \in Evidence, Admit(e) PROVE as' # Unknown
BY AdmitType, UnitsAssumption DEF Macs

LEMMA SessionsStep ==
  ASSUME TypeOK, Sessions, [Next]_vars PROVE Sessions'
<1> USE DEF network, setup, memory, session, history, bounds, Sessions
<1>1. CASE Start \/ Crash
  BY <1>1, Zenon DEF Start, Crash, Gone, Close
<1>2. CASE PollConnects \/ CommandReconnects
  BY <1>2, UnitsAssumption DEF PollConnects, CommandReconnects, LogIn, TypeOK
<1>3. CASE PollCannotConnect \/ PollReuses
  BY <1>3, Zenon DEF PollCannotConnect, PollReuses
<1>4. CASE PollAdmits \/ ReconnectAdmitted \/ IdentityRenewed
  BY <1>4, AdmittedAs DEF PollAdmits, ReconnectAdmitted, IdentityRenewed
<1>5. CASE PollWaits \/ PollStops \/ PollCannotSave \/ PollFails
  BY <1>5, Zenon DEF PollWaits, PollStops, PollCannotSave, PollFails, Gone, Close
<1>6. CASE PollEnds \/ CommandPublishes
  BY <1>6 DEF PollEnds, CommandPublishes
<1>7. CASE CommandStarts \/ CommandWrites \/ CommandWorks
  <2>1. CASE CommandStarts
    BY <2>1, Zenon DEF CommandStarts
  <2>3. CASE CommandWrites
    <3>1. UNCHANGED <<up, at, link, as, known>>
      BY <2>3 DEF CommandWrites
    <3> QED
      BY <3>1
  <2>2. CASE CommandWorks
    <3>1. at' \in {"idle", "after"} /\ known'
      BY <2>2, Zenon DEF CommandWorks
    <3>2. up' /\ link' # NoUnit /\ as' # Unknown
      BY <2>2, Zenon DEF CommandWorks
    <3> QED
      BY <3>1, <3>2
  <2> QED
    BY <1>7, <2>1, <2>2, <2>3
<1>8. CASE CommandCannotReconnect \/ CommandCannotSave \/ CommandFails
  BY <1>8 DEF CommandCannotReconnect, CommandCannotSave, CommandFails, Close
<1>9. CASE ReconnectRefused \/ IdentityNotRenewed
  BY <1>9 DEF ReconnectRefused, IdentityNotRenewed, Close
<1>10. CASE Swap \/ LoseConnection \/ TrackersChange \/ UNCHANGED vars
  BY <1>10 DEF Swap, LoseConnection, TrackersChange, vars
<1> QED
  BY <1>1, <1>2, <1>3, <1>4, <1>5, <1>6, <1>7, <1>8, <1>9, <1>10 DEF Next

LEMMA SessionsInvariant == Spec => []Sessions
<1>1. Init => Sessions
  BY DEF Init, Sessions
<1>2. TypeOK /\ TypeOK' /\ Sessions /\ [Next]_vars => Sessions'
  BY SessionsStep
<1> QED
  BY TypeCorrect, <1>1, <1>2, PTL DEF Spec

\* A command is carried out only over a session whose peer was validated
\* after its own login, however often it reconnected.
THEOREM EveryCommandIsVouched == Spec => []CommandIsVouched
<1>1. Sessions => CommandIsVouched
  BY DEF Sessions, CommandIsVouched
<1> QED
  BY SessionsInvariant, <1>1, PTL

\* A session that is open between two steps of the main loop was validated, so
\* the identity the bridge has cached is that of the session.
THEOREM OpenSessionsAreKnown == Spec => []OpenMeansKnown
<1>1. Sessions => OpenMeansKnown
  BY DEF Sessions, OpenMeansKnown
<1> QED
  BY SessionsInvariant, <1>1, PTL

-----------------------------------------------------------------------------
(* Admissions *)

\* What an admission says of what was known before.
LEMMA Admission ==
  ASSUME TypeOK, NEW e \in Evidence, Acceptable(e)
  PROVE  LET m == Identity(e)
         IN  /\ m = NoMac => /\ conf = NoMac /\ stable = NoMac
                             /\ saved = Absent /\ address # "earlier"
             /\ conf # NoMac => m = conf
             /\ conf = NoMac => stable \in {NoMac, m}
             /\ Replaces(m) => conf # NoMac /\ replace /\ m = conf
             /\ Saves(m) => durable /\ ~HasMac(saved)
<1> DEFINE m == Identity(e)
<1>1. m \in Macs /\ TrustedMac(e) \in Macs
  BY IdentityType
<1>2. ~Conflict(e) /\ ~Unavailable(e)
  BY DEF Acceptable
<1>3. conf # NoMac => m = conf
  BY DEF Identity
<1>4. conf = NoMac => m = TrustedMac(e)
  BY DEF Identity
<1>5. m = NoMac => /\ conf = NoMac /\ stable = NoMac
                   /\ saved = Absent /\ address # "earlier"
  BY <1>2, <1>3, <1>4 DEF Unavailable
<1>6. conf = NoMac => stable \in {NoMac, m}
  BY <1>2, <1>4, <1>5 DEF Conflict
<1>7. AgainstFile(m) /\ m # NoMac => conf # NoMac /\ replace /\ m = conf
  BY <1>2, <1>3, <1>4 DEF Conflict
<1>8. Saves(m) => durable /\ ~HasMac(saved)
  BY <1>1, <1>5, <1>7, UnitsAssumption DEF Saves, Replaces, AgainstFile, HasMac, Macs
<1>9. Replaces(m) => conf # NoMac /\ replace /\ m = conf
  BY <1>7 DEF Replaces, HasMac
<1> QED
  BY <1>3, <1>5, <1>6, <1>8, <1>9

-----------------------------------------------------------------------------
(* Admissions without a MAC *)

\* After the first admission without a MAC there is something that forbids the
\* next one: the mark in the file, or what the process remembers.
Naming ==
  /\ unnamed \in {0, 1}
  /\ durable /\ unnamed = 1 => file # Absent
  /\ up /\ durable /\ unnamed = 1 => saved # Absent
  /\ up /\ ~durable /\ unnamed = 1 =>
       conf # NoMac \/ stable # NoMac \/ address # "none"
  /\ link # NoUnit /\ address = "this" => as = NoMac
  /\ at = "command" /\ link # NoUnit /\ ~known => as \in Units
  /\ at = "after" => as \in Units

\* Such an admission is the first; a named one leaves what forbids another.
LEMMA NamingAdmit ==
  ASSUME TypeOK, Naming, up, as # NoMac, link # NoUnit, NEW e \in Evidence, Admit(e),
         UNCHANGED <<durable, conf>>
  PROVE  /\ unnamed' \in {0, 1}
         /\ durable /\ unnamed' = 1 => file' # Absent /\ saved' # Absent
         /\ ~durable /\ unnamed' = 1 =>
              conf # NoMac \/ stable' # NoMac \/ address' # "none"
         /\ address' = "this" => as' = NoMac
<1> DEFINE m == Identity(e)
<1>1. m \in Macs /\ Acceptable(e)
  BY IdentityType DEF Admit
<1>2. Absent \notin Macs
  BY UnitsAssumption DEF Macs
<1>3. address' = IF m = NoMac THEN "this" ELSE "none"
  BY DEF Admit, Remember
<1>4. as' = m
  BY DEF Admit
<1>5. CASE m = NoMac
  <2>1. conf = NoMac /\ stable = NoMac /\ saved = Absent /\ address # "earlier"
    BY <1>1, <1>5, Admission
  <2>2. address = "none"
    BY <2>1 DEF TypeOK, Naming
  <2>3. unnamed = 0
    BY <2>1, <2>2 DEF TypeOK, Naming
  <2>4. unnamed' = 1
    BY <1>5, <2>3 DEF Admit
  <2>5. durable => Saves(m)
    BY <1>5, <2>1, UnitsAssumption DEF Saves, Replaces, HasMac
  <2>6. durable => file' = NoMac /\ saved' = NoMac
    BY <1>5, <2>5 DEF Admit
  <2> QED
    BY <1>3, <1>4, <1>5, <2>4, <2>6, UnitsAssumption
<1>6. CASE m # NoMac
  <2>1. unnamed' = unnamed /\ address' = "none"
    BY <1>3, <1>6 DEF Admit
  <2>2. conf = NoMac => stable' = m
    BY <1>6 DEF Admit, Remember
  <2>3. file' \in {file, m} /\ saved' \in {saved, m}
    BY DEF Admit
  <2> QED
    BY <1>1, <1>2, <1>6, <2>1, <2>2, <2>3 DEF Naming
<1> QED
  BY <1>5, <1>6

LEMMA NamingRefused ==
  ASSUME TypeOK, Naming, NEW e \in Evidence, Refused(e), UNCHANGED <<durable, conf>>
  PROVE  /\ UNCHANGED <<unnamed, saved>>
         /\ file # Absent => file' # Absent
         /\ ~durable => UNCHANGED <<stable, address>>
<1>1. CASE (Disagrees(e) \/ NotNow(e)) /\ UNCHANGED memory
  BY <1>1, RefusalType DEF history, memory
<1>2. CASE FailsToSave(e) /\ Remember(Identity(e)) /\ UNCHANGED <<saved, pending>>
  <2>1. Identity(e) # Absent
    BY IdentityType, UnitsAssumption DEF Macs
  <2> QED
    BY <1>2, <2>1 DEF FailsToSave, history, Saves
<1> QED
  BY <1>1, <1>2 DEF Refused

LEMMA NamingStep ==
  ASSUME TypeOK, TypeOK', Sessions, Naming, [Next]_vars PROVE Naming'
<1> USE DEF network, setup, memory, session, history, bounds
<1>0. Absent # NoMac /\ NoMac \notin Units /\ Unknown # NoMac /\ Absent \notin Units
  BY UnitsAssumption
<1>1. CASE Start
  <2>1. /\ up' /\ saved' = file /\ UNCHANGED <<durable, file, link, as, at>>
        /\ unnamed' = IF durable THEN unnamed ELSE 0
    BY <1>1, Zenon DEF Start
  <2>2. at = "idle" /\ link = NoUnit
    BY <1>1 DEF Start, Sessions
  <2> QED
    BY <2>1, <2>2 DEF Naming
<1>2. CASE Gone /\ UNCHANGED <<setup, unnamed>> /\ (file # Absent => file' # Absent)
  BY <1>2 DEF Gone, Close, Naming
<1>3. CASE Crash \/ PollStops \/ PollCannotSave
  <2>1. CASE Crash
    BY <1>2, <2>1 DEF Crash
  <2>2. CASE PollStops
    <3>1. PICK e \in Evidence : Disagrees(e) \/ FailsToSave(e)
      BY <2>2 DEF PollStops
    <3>2. Identity(e) # Absent
      BY IdentityType, <1>0 DEF Macs
    <3>3. unnamed' = unnamed /\ (file # Absent => file' # Absent)
      BY <3>1, <3>2 DEF Disagrees, FailsToSave
    <3> QED
      BY <1>2, <2>2, <3>3 DEF PollStops
  <2>3. CASE PollCannotSave
    BY <1>0, <1>2, <2>3 DEF PollCannotSave, TypeOK, Macs
  <2> QED
    BY <1>3, <2>1, <2>2, <2>3
<1>4. CASE PollConnects \/ CommandReconnects
  <2>1. /\ address' \in {"none", "earlier"} /\ (address' = "none" => address = "none")
        /\ UNCHANGED <<durable, file, conf, up, stable, saved, unnamed>>
        /\ at' \in {"polling", "reconnected"}
    BY <1>4 DEF PollConnects, CommandReconnects, LogIn, TypeOK
  <2> QED
    BY <2>1 DEF Naming
<1>5. CASE CommandStarts
  <2>1. up /\ at = "idle" /\ at' = "command"
    BY <1>5 DEF CommandStarts
  <2>2. link # NoUnit => known
    BY <2>1 DEF Sessions
  <2>3. UNCHANGED <<durable, file, conf, up, stable, saved, address, unnamed, link, as, known>>
    BY <1>5 DEF CommandStarts
  <2> QED
    BY <2>1, <2>2, <2>3 DEF Naming
<1>6. CASE CommandWorks
  <2>1. at' \in {"idle", "after"} /\ (at' = "after" => ~known)
    BY <1>6, Zenon DEF CommandWorks
  <2>2. /\ at = "command" /\ link # NoUnit
        /\ UNCHANGED <<durable, file, conf, up, stable, saved, address, unnamed, link, as>>
    BY <1>6 DEF CommandWorks
  <2> QED
    BY <2>1, <2>2 DEF Naming
<1>7. ASSUME UNCHANGED <<durable, file, conf, up, stable, saved, address, unnamed, link, as>>,
             \/ UNCHANGED <<known, at>>
             \/ at' \in {"idle", "publishing", "polling"}
      PROVE  Naming'
  BY <1>7 DEF Naming
<1>8. ASSUME UNCHANGED <<durable, file, conf, up, stable, saved, address, unnamed>>,
             link' = NoUnit, at' = "idle" \/ (at = "command" /\ at' = at)
      PROVE  Naming'
  BY <1>8 DEF Naming
<1>9. CASE PollCannotConnect \/ PollReuses
  <2>1. at' \in {"idle", "publishing", "polling"}
    BY <1>9, Zenon DEF PollCannotConnect, PollReuses
  <2> QED
    BY <1>7, <1>9, <2>1 DEF PollCannotConnect, PollReuses
<1>10. CASE PollWaits
  <2>1. UNCHANGED <<file, unnamed>>
    BY <1>10 DEF PollWaits, NotNow
  <2> QED
    BY <1>8, <1>10, <2>1 DEF PollWaits, Close
<1>11. CASE PollFails \/ CommandFails \/ CommandCannotReconnect
  BY <1>8, <1>11 DEF PollFails, CommandFails, CommandCannotReconnect, Close
<1>12. CASE CommandWrites \/ Swap \/ LoseConnection \/ TrackersChange \/ UNCHANGED vars
  BY <1>7, <1>12 DEF CommandWrites, Swap, LoseConnection, TrackersChange, vars
<1>13. ASSUME UNCHANGED <<durable, conf, up, stable, address, unnamed, link, as>>,
              at' = "idle", file' \in {file, pending}, saved' \in {saved, pending}
       PROVE  Naming'
  BY <1>0, <1>13 DEF Naming, TypeOK, Macs
<1>14. CASE PollEnds \/ CommandPublishes
  <2>1. /\ file' \in {file, pending} /\ saved' \in {saved, pending} /\ at' = "idle"
    BY <1>14, Zenon DEF PollEnds, CommandPublishes, SavePending
  <2> QED
    BY <1>13, <1>14, <2>1 DEF PollEnds, CommandPublishes
<1>15. CASE CommandCannotSave
  BY <1>13, <1>15 DEF CommandCannotSave
<1>16. CASE PollAdmits
  <2>1. PICK e \in Evidence : Admit(e)
    BY <1>16 DEF PollAdmits
  <2>2. /\ at = "polling" /\ up /\ at' = "publishing" /\ UNCHANGED <<durable, conf, up, link>>
    BY <1>16 DEF PollAdmits
  <2>3. as = Unknown /\ link # NoUnit
    BY <2>2 DEF Sessions
  <2> QED
    BY <1>0, <2>1, <2>2, <2>3, NamingAdmit DEF Naming
<1>17. CASE ReconnectAdmitted
  <2>1. PICK e \in Evidence : Admit(e)
    BY <1>17 DEF ReconnectAdmitted
  <2>2. /\ at = "reconnected" /\ up /\ at' = "command" /\ UNCHANGED <<durable, conf, up, link>>
        /\ as' # NoMac
    BY <1>17 DEF ReconnectAdmitted
  <2>3. as = Unknown /\ link # NoUnit
    BY <2>2 DEF Sessions
  <2>4. as' \in Units
    BY <2>1, <2>2, AdmitType DEF Macs
  <2> QED
    BY <1>0, <2>1, <2>2, <2>3, <2>4, NamingAdmit DEF Naming
<1>18. CASE IdentityRenewed
  <2>1. PICK e \in Evidence : Admit(e)
    BY <1>18 DEF IdentityRenewed
  <2>2. /\ at = "after" /\ up /\ at' \in {"idle", "announcing"}
        /\ UNCHANGED <<durable, conf, up, link>>
    BY <1>18 DEF IdentityRenewed
  <2>3. as \in Units /\ link # NoUnit
    BY <2>2 DEF Sessions, Naming
  <2> QED
    BY <1>0, <2>1, <2>2, <2>3, NamingAdmit DEF Naming
<1>19. CASE ReconnectRefused \/ IdentityNotRenewed
  <2>1. PICK e \in Evidence : Refused(e)
    BY <1>19 DEF ReconnectRefused, IdentityNotRenewed
  <2>2. /\ UNCHANGED <<durable, conf, up>> /\ link' = NoUnit /\ at' = "idle"
    BY <1>19 DEF ReconnectRefused, IdentityNotRenewed, Close
  <2> QED
    BY <2>1, <2>2, NamingRefused DEF Naming
<1> HIDE DEF network, setup, memory, session, history, bounds
<1> QED
  BY <1>1, <1>3, <1>4, <1>5, <1>6, <1>9, <1>10, <1>11, <1>12, <1>14, <1>15,
     <1>16, <1>17, <1>18, <1>19 DEF Next

\* With an identity file one session at most is ever admitted without a MAC,
\* without one, one in the life of the process: _device_info heeds the mark in
\* the file, or what it remembers, from then on.
THEOREM NamelessOnce == Spec => []AddressOnlyOnce
<1>1. Init => Naming
  BY DEF Init, Naming
<1>2. TypeOK /\ TypeOK' /\ Sessions /\ Naming /\ [Next]_vars => Naming'
  BY NamingStep
<1>3. Naming => AddressOnlyOnce
  BY SMT DEF Naming, AddressOnlyOnce
<1> QED
  BY TypeCorrect, SessionsInvariant, <1>1, <1>2, <1>3, PTL DEF Spec

-----------------------------------------------------------------------------
(* The MAC in the file *)

\* The process knows the MAC that is in the file, or is bound to it, or has just
\* replaced another with it and does not know whether that was saved; a
\* replacement that waits is the configured MAC, as which the session was
\* admitted.
Filed ==
  /\ ~durable => file = Absent
  /\ up /\ durable /\ HasMac(file) =>
       \/ saved = file
       \/ ~HasMac(saved) /\ (conf = file \/ (conf = NoMac /\ stable = file))
       \/ replace /\ conf = file /\ pending = file
  /\ conf # NoMac /\ as # Unknown => as = conf
  /\ pending # NoMac => durable /\ replace /\ conf = pending
  /\ up /\ conf # NoMac => stable = conf

\* A validation does not change a MAC in the file.
LEMMA FileStays ==
  ASSUME TypeOK, Filed, up, NEW e \in Evidence, Acceptable(e), HasMac(file),
         Saves(Identity(e))
  PROVE  Identity(e) = file
<1> DEFINE m == Identity(e)
<1>1. durable /\ ~HasMac(saved)
  BY Admission
<1>2. conf # NoMac => m = conf
  BY Admission
<1>3. conf = NoMac => stable \in {NoMac, m}
  BY Admission
<1>4. file # NoMac /\ saved # file
  BY <1>1 DEF HasMac
<1> QED
  BY <1>1, <1>2, <1>3, <1>4 DEF Filed

\* A step leaves the file alone, or validates, or saves the replacement.
LEMMA FileChange ==
  ASSUME TypeOK, Sessions, [Next]_vars
  PROVE  \/ file' = file
         \/ /\ up
            /\ \E e \in Evidence : /\ Acceptable(e) /\ Saves(Identity(e))
                                   /\ file' = Identity(e)
         \/ /\ as # Unknown /\ pending # NoMac /\ file' = pending
<1>1. CASE PollAdmits \/ ReconnectAdmitted \/ IdentityRenewed
  <2>1. up /\ \E e \in Evidence : Admit(e)
    BY <1>1 DEF PollAdmits, ReconnectAdmitted, IdentityRenewed
  <2> QED
    BY <2>1 DEF Admit
<1>2. CASE PollWaits \/ PollStops \/ ReconnectRefused \/ IdentityNotRenewed
  <2>1. up /\ \E e \in Evidence : NotNow(e) \/ Disagrees(e) \/ FailsToSave(e)
    BY <1>2 DEF PollWaits, PollStops, ReconnectRefused, IdentityNotRenewed, Refused
  <2> QED
    BY <2>1 DEF NotNow, Disagrees, FailsToSave
<1>3. CASE PollEnds \/ CommandPublishes
  <2>1. as # Unknown
    BY <1>3 DEF PollEnds, CommandPublishes, Sessions
  <2>2. file' = file \/ (pending # NoMac /\ file' = pending)
    BY <1>3, Zenon DEF PollEnds, CommandPublishes, SavePending
  <2> QED
    BY <2>1, <2>2
<1>4. CASE PollCannotSave \/ CommandCannotSave
  <2>1. as # Unknown
    BY <1>4 DEF PollCannotSave, CommandCannotSave, Sessions
  <2> QED
    BY <1>4, <2>1 DEF PollCannotSave, CommandCannotSave
<1>5. CASE \/ Start \/ Crash \/ PollConnects \/ PollCannotConnect \/ PollReuses
           \/ PollFails \/ CommandStarts \/ CommandWrites
  BY <1>5 DEF Start, Crash, PollConnects, PollCannotConnect, PollReuses,
     PollFails, CommandStarts, CommandWrites
<1>6. CASE \/ CommandReconnects \/ CommandCannotReconnect \/ CommandWorks
           \/ CommandFails \/ Swap \/ LoseConnection \/ TrackersChange
           \/ UNCHANGED vars
  BY <1>6 DEF CommandReconnects, CommandCannotReconnect, CommandWorks,
     CommandFails, Swap, LoseConnection, TrackersChange, vars
<1> QED
  BY <1>1, <1>2, <1>3, <1>4, <1>5, <1>6 DEF Next

LEMMA FiledAdmit ==
  ASSUME TypeOK, Filed, up, NEW e \in Evidence, Admit(e), UNCHANGED <<setup, up>>
  PROVE  Filed'
<1> DEFINE m == Identity(e)
<1>1. Acceptable(e) /\ m \in Macs /\ as' = m
  BY IdentityType DEF Admit
<1>2. /\ m = NoMac => conf = NoMac /\ stable = NoMac /\ saved = Absent
      /\ conf # NoMac => m = conf
      /\ conf = NoMac => stable \in {NoMac, m}
      /\ Replaces(m) => conf # NoMac /\ replace /\ m = conf
      /\ Saves(m) => durable /\ ~HasMac(saved)
  BY <1>1, Admission
<1>3. HasMac(file) /\ Saves(m) => m = file
  BY <1>1, FileStays
<1>4. stable' = IF conf = NoMac /\ m # NoMac THEN m ELSE stable
  BY DEF Admit, Remember
<1>5. pending' = IF durable /\ Replaces(m) THEN m ELSE pending
  BY DEF Admit
<1>6. CASE Saves(m)
  <2>1. file' = m /\ saved' = m
    BY <1>6 DEF Admit
  <2>2. up' /\ durable' = durable /\ conf' = conf /\ replace' = replace
    BY DEF setup
  <2> QED
    BY <1>1, <1>2, <1>4, <1>5, <1>6, <2>1, <2>2, Zenon DEF Filed
<1>7. CASE ~Saves(m)
  <2>1. file' = file /\ saved' = saved
    BY <1>7 DEF Admit
  <2>2. up' /\ durable' = durable /\ conf' = conf /\ replace' = replace
    BY DEF setup
  <2>3. HasMac(file) => file # NoMac
    BY DEF HasMac
  <2>4. HasMac(file)' = HasMac(file) /\ HasMac(saved)' = HasMac(saved)
    BY <2>1 DEF HasMac
  <2>5. conf = NoMac /\ stable = file /\ HasMac(file) => stable' = file
    BY <1>2, <1>4, <2>3
  <2>6. pending = file /\ replace /\ conf = file /\ HasMac(file) => pending' = file
    BY <1>2, <1>5, <2>3
  <2> QED
    BY <1>1, <1>2, <1>4, <1>5, <2>1, <2>2, <2>4, <2>5, <2>6 DEF Filed
<1> QED
  BY <1>6, <1>7

LEMMA FiledRefused ==
  ASSUME TypeOK, Filed, up, NEW e \in Evidence, Refused(e), UNCHANGED <<setup, up>>,
         as' = Unknown
  PROVE  Filed'
<1>1. CASE (Disagrees(e) \/ NotNow(e)) /\ UNCHANGED memory
  BY <1>1, RefusalType DEF Filed, memory, setup, HasMac
<1>2. CASE FailsToSave(e) /\ Remember(Identity(e)) /\ UNCHANGED <<saved, pending>>
  <2> DEFINE m == Identity(e)
  <2>1. Acceptable(e) /\ m \in Macs /\ Saves(m) /\ file' \in {file, m}
    BY <1>2, IdentityType DEF FailsToSave
  <2>2. /\ conf # NoMac => m = conf
        /\ conf = NoMac => stable \in {NoMac, m}
        /\ durable /\ ~HasMac(saved)
    BY <2>1, Admission
  <2>3. HasMac(file) => m = file
    BY <2>1, FileStays
  <2>4. stable' = IF conf = NoMac /\ m # NoMac THEN m ELSE stable
    BY <1>2 DEF Remember
  <2>5. up' /\ durable' = durable /\ conf' = conf /\ replace' = replace
        /\ saved' = saved /\ pending' = pending
    BY <1>2 DEF setup
  <2>6. HasMac(file)' => file' = m /\ m # NoMac
    BY <2>1, <2>3 DEF HasMac
  <2>7. ~HasMac(saved)'
    BY <2>2, <2>5 DEF HasMac
  <2> QED
    BY <2>2, <2>4, <2>5, <2>6, <2>7 DEF Filed
<1> QED
  BY <1>1, <1>2 DEF Refused

LEMMA FiledStep ==
  ASSUME TypeOK, Sessions, Filed, [Next]_vars PROVE Filed'
<1> USE DEF network, setup, memory, session, history, bounds
<1>0. Absent # NoMac /\ Unknown # NoMac
  BY UnitsAssumption
<1>1. CASE Start
  <2>1. /\ up' /\ saved' = file /\ pending' = NoMac /\ stable' = conf'
        /\ UNCHANGED <<durable, file, link, as>>
    BY <1>1, Zenon DEF Start
  <2>2. as = Unknown
    BY <1>1 DEF Start, Sessions
  <2> QED
    BY <2>1, <2>2 DEF Filed
<1>2. ASSUME Gone, UNCHANGED setup, ~durable => file' = file PROVE Filed'
  BY <1>2 DEF Gone, Close, Filed
<1>3. CASE Crash
  BY <1>2, <1>3 DEF Crash
<1>4. CASE PollStops
  <2>1. PICK e \in Evidence : Disagrees(e) \/ FailsToSave(e)
    BY <1>4 DEF PollStops
  <2>2. ~durable => file' = file
    BY <2>1 DEF Disagrees, FailsToSave, Saves
  <2> QED
    BY <1>2, <1>4, <2>2 DEF PollStops
<1>5. CASE PollCannotSave
  BY <1>2, <1>5 DEF PollCannotSave, Filed
<1>6. ASSUME UNCHANGED <<setup, file, stable, saved, pending>>, up' = up,
             as' \in {as, Unknown}
      PROVE  Filed'
  BY <1>6 DEF Filed, HasMac
<1>7. CASE \/ PollConnects \/ PollCannotConnect \/ PollReuses
           \/ PollFails \/ CommandStarts \/ CommandWrites
  BY <1>6, <1>7 DEF PollConnects, PollCannotConnect, PollReuses, PollFails,
     CommandStarts, CommandWrites, LogIn, Close
<1>8. CASE \/ CommandReconnects \/ CommandCannotReconnect \/ CommandWorks
           \/ CommandFails \/ Swap \/ LoseConnection \/ TrackersChange
           \/ UNCHANGED vars
  BY <1>6, <1>8 DEF CommandReconnects, CommandCannotReconnect, CommandWorks,
     CommandFails, Swap, LoseConnection, TrackersChange, vars, LogIn, Close
<1>9. CASE PollWaits
  <2>1. file' = file
    BY <1>9 DEF PollWaits, NotNow
  <2> QED
    BY <1>6, <1>9, <2>1 DEF PollWaits, Close
<1>10. CASE PollAdmits \/ ReconnectAdmitted \/ IdentityRenewed
  <2>1. up /\ (\E e \in Evidence : Admit(e)) /\ UNCHANGED <<setup, up>>
    BY <1>10 DEF PollAdmits, ReconnectAdmitted, IdentityRenewed
  <2> QED
    BY <2>1, FiledAdmit
<1>11. CASE ReconnectRefused \/ IdentityNotRenewed
  <2>1. /\ up /\ (\E e \in Evidence : Refused(e)) /\ UNCHANGED <<setup, up>>
        /\ as' = Unknown
    BY <1>11 DEF ReconnectRefused, IdentityNotRenewed, Close
  <2> QED
    BY <2>1, FiledRefused
<1>12. CASE PollEnds \/ CommandPublishes
  <2>1. UNCHANGED <<setup, up, stable, as>>
    BY <1>12 DEF PollEnds, CommandPublishes
  <2>2. \/ UNCHANGED <<file, saved, pending>>
        \/ /\ pending' = NoMac
           /\ \/ pending # NoMac /\ file' = pending /\ saved' = pending
              \/ pending = NoMac /\ UNCHANGED <<file, saved>>
    BY <1>12, Zenon DEF PollEnds, CommandPublishes, SavePending
  <2> QED
    BY <2>1, <2>2 DEF Filed, HasMac
<1>13. CASE CommandCannotSave
  <2>1. /\ UNCHANGED <<setup, up, stable, saved, pending, as>>
        /\ pending # NoMac /\ file' \in {file, pending}
    BY <1>13 DEF CommandCannotSave
  <2> QED
    BY <2>1 DEF Filed, HasMac
<1> HIDE DEF network, setup, memory, session, history, bounds
<1> QED
  BY <1>1, <1>3, <1>4, <1>5, <1>7, <1>8, <1>9, <1>10, <1>11, <1>12, <1>13 DEF Next

LEMMA FiledInvariant == Spec => []Filed
<1>1. Init => Filed
  BY DEF Init, Filed, HasMac
<1>2. TypeOK /\ Sessions /\ Filed /\ [Next]_vars => Filed'
  BY FiledStep
<1> QED
  BY TypeCorrect, SessionsInvariant, <1>1, <1>2, PTL DEF Spec

\* No validation, crash or failed save ever takes a MAC out of the file: it is
\* replaced only by the one the operator asked for, over a session that was
\* admitted as that one.
THEOREM SavedIdentityStays == Spec => SavedIdentityKept
<1>1. TypeOK /\ Sessions /\ Filed /\ [Next]_vars =>
        [HasMac(file) /\ file' # file =>
           replace /\ file' = conf /\ as = conf]_vars
  <2> SUFFICES ASSUME TypeOK, Sessions, Filed, [Next]_vars, HasMac(file), file' # file
               PROVE  replace /\ file' = conf /\ as = conf
    OBVIOUS
  <2>1. as # Unknown /\ pending # NoMac /\ file' = pending
    BY FileChange, FileStays
  <2> QED
    BY <2>1 DEF Filed
<1> QED
  BY TypeCorrect, SessionsInvariant, FiledInvariant, <1>1, PTL
     DEF Spec, SavedIdentityKept

-----------------------------------------------------------------------------
(* The unit of the session *)

\* A session that was admitted as a unit is with it, if the lookup that named its
\* unit was compared with that MAC.
Named == as \in Units /\ Compared => link = as

\* Trackers that agree with each other and with the neighbour table, and name the
\* unit of the session or have it named beside them, name that one unit; and a
\* neighbour table that confirms a replacement and names the unit of the session
\* names the operator's.
LEMMA NamedAdmit ==
  ASSUME TypeOK, link # NoUnit, NEW e \in Evidence, Admit(e), link' = link
  PROVE  Named'
<1> DEFINE m == Identity(e)  t == TrustedMac(e)
<1> SUFFICES ASSUME m \in Units, Compared' PROVE link = m
  BY DEF Admit, Named
<1>1. /\ link \in e.names \cup {e.local}
      /\ e.names # {} \/ Replaces(m)
  <2>1. basis' = Basis(e, m)
    BY DEF Admit
  <2> QED
    BY <2>1 DEF Basis, Compared
<1>2. ~Conflict(e) /\ ~Unavailable(e)
  BY DEF Admit, Acceptable
<1>3. e.names \subseteq Units /\ NoMac \notin Units
  BY EvidenceType, UnitsAssumption
<1>4. link # NoMac
  BY <1>3 DEF TypeOK
<1>5. CASE e.names # {}
  <2>1. t \in e.names
    BY <1>5 DEF TrustedMac
  <2>2. m = t
    BY <1>2, <1>3, <2>1 DEF Conflict, Identity
  <2>3. CASE link \in e.names
    BY <1>2, <2>1, <2>2, <2>3 DEF Conflict, LookupsClash
  <2>4. CASE link = e.local
    BY <1>2, <1>3, <1>4, <2>1, <2>2, <2>4 DEF Conflict, LookupsClash
  <2> QED
    BY <1>1, <2>3, <2>4
<1>6. CASE e.names = {}
  <2>1. link = e.local /\ t = NoMac /\ Replaces(m)
    BY <1>1, <1>6 DEF TrustedMac
  <2>2. m # NoMac
    BY <1>3
  <2>3. conf = m
    BY <2>1, <2>2 DEF Identity
  <2>4. AgainstFile(conf)
    BY <2>1, <2>3 DEF Replaces
  <2>5. conf \in {e.local, t}
    BY <1>2, <2>2, <2>3, <2>4 DEF Unavailable, Unconfirmed
  <2> QED
    BY <2>1, <2>2, <2>3, <2>5
<1> QED
  BY <1>5, <1>6

LEMMA NamedStep ==
  ASSUME TypeOK, Sessions, Named, [Next]_vars PROVE Named'
<1> USE DEF network, setup, memory, session, history, bounds
<1>1. ASSUME as' = Unknown PROVE Named'
  BY <1>1, UnitsAssumption DEF Named
<1>2. ASSUME UNCHANGED <<link, as, basis>> PROVE Named'
  BY <1>2 DEF Named, Compared
<1>3. CASE \/ Start \/ PollCannotConnect \/ PollReuses \/ PollEnds
           \/ CommandStarts \/ CommandWrites \/ CommandWorks
  BY <1>2, <1>3 DEF Start, PollCannotConnect, PollReuses, PollEnds,
     CommandStarts, CommandWrites, CommandWorks
<1>4. CASE \/ CommandPublishes \/ CommandCannotSave \/ Swap
           \/ LoseConnection \/ TrackersChange \/ UNCHANGED vars
  BY <1>2, <1>4 DEF CommandPublishes, CommandCannotSave, Swap,
     LoseConnection, TrackersChange, vars
<1>5. CASE \/ Crash \/ PollConnects \/ PollWaits \/ PollStops
           \/ PollCannotSave \/ PollFails
  BY <1>1, <1>5 DEF Crash, PollConnects, PollWaits, PollStops,
     PollCannotSave, PollFails, Gone, Close, LogIn
<1>6. CASE \/ CommandReconnects \/ CommandCannotReconnect \/ CommandFails
           \/ ReconnectRefused \/ IdentityNotRenewed
  BY <1>1, <1>6 DEF CommandReconnects, CommandCannotReconnect, CommandFails,
     ReconnectRefused, IdentityNotRenewed, Close, LogIn
<1>7. CASE PollAdmits \/ ReconnectAdmitted \/ IdentityRenewed
  <2>1. at \in {"polling", "reconnected", "after"} /\ link' = link
        /\ \E e \in Evidence : Admit(e)
    BY <1>7 DEF PollAdmits, ReconnectAdmitted, IdentityRenewed
  <2>2. link # NoUnit
    BY <2>1 DEF Sessions
  <2> QED
    BY <2>1, <2>2, NamedAdmit
<1> HIDE DEF network, setup, memory, session, history, bounds
<1> QED
  BY <1>3, <1>4, <1>5, <1>6, <1>7 DEF Next

LEMMA NamedInvariant == Spec => []Named
<1>1. Init => Named
  BY UnitsAssumption DEF Init, Named
<1>2. TypeOK /\ Sessions /\ Named /\ [Next]_vars => Named'
  BY NamedStep
<1> QED
  BY TypeCorrect, SessionsInvariant, <1>1, <1>2, PTL DEF Spec

\* A session is not commanded as another unit than the one it is with, where
\* _device_info compares a lookup that names that unit with the MAC: with a
\* tracker that counts, or when the operator's MAC replaces a saved one.  An
\* operator's MAC that replaces nothing is taken as it is while the trackers are
\* silent, whatever the neighbour table says.
THEOREM StrangersAreNotCommanded == Spec => []NoStranger
<1>1. Named => NoStranger
  BY DEF Named, NoStranger
<1> QED
  BY NamedInvariant, <1>1, PTL

-----------------------------------------------------------------------------
(* The unit of the bridge *)

\* What was written to is what the bridge is bound to: the MAC in the file, the
\* one the operator replaces it with until that is saved, or without a file the
\* one the process was started with or found.
Bound ==
  /\ \A a, b \in reached : a = b
  /\ owing => durable /\ replace /\ conf # NoMac /\ reached \subseteq {conf}
  /\ durable /\ ~owing => reached \subseteq {file} /\ (as \in Units => as = file)
  /\ up /\ ~durable => reached \subseteq {stable} /\ (as \in Units => as = stable)
  /\ up /\ durable /\ HasMac(saved) /\ ~owing => saved = file
  /\ pending # NoMac => owing

LEMMA BoundAdmit ==
  ASSUME TypeOK, Filed, Bound, up, NEW e \in Evidence, Admit(e), UNCHANGED <<setup, up>>
  PROVE  Bound'
<1> DEFINE m == Identity(e)
<1>0. NoMac \notin Units /\ Absent \notin Macs
  BY UnitsAssumption DEF Macs
<1>1. Acceptable(e) /\ m \in Macs /\ as' = m
  BY IdentityType DEF Admit
<1>2. /\ m = NoMac => conf = NoMac /\ stable = NoMac /\ saved = Absent
      /\ conf # NoMac => m = conf
      /\ conf = NoMac => stable \in {NoMac, m}
      /\ Replaces(m) => conf # NoMac /\ replace /\ m = conf
      /\ Saves(m) => durable /\ ~HasMac(saved)
  BY <1>1, Admission
<1>3. HasMac(file) /\ Saves(m) => m = file
  BY <1>1, FileStays
<1>4. stable' = IF conf = NoMac /\ m # NoMac THEN m ELSE stable
  BY DEF Admit, Remember
<1>5. /\ durable' = durable /\ conf' = conf /\ replace' = replace
  BY DEF setup
<1>6. CASE durable /\ Replaces(m)
  <2>1. reached' = {} /\ owing' /\ conf # NoMac /\ replace
    BY <1>2, <1>6 DEF Admit
  <2> QED
    BY <1>5, <1>6, <2>1 DEF Bound
<1>7. CASE durable /\ ~Replaces(m)
  <2>1. reached' = reached /\ (owing' <=> owing) /\ pending' = pending
    BY <1>7 DEF Admit
  <2>2. CASE owing
    BY <1>5, <1>7, <2>1, <2>2 DEF Bound
  <2>3. CASE ~owing
    <3>1. pending' = NoMac
      BY <2>1, <2>3 DEF Bound
    <3>2. CASE Saves(m)
      <4>1. file' = m /\ saved' = m
        BY <3>2 DEF Admit
      <4>2. reached \subseteq {m}
        <5>1. CASE HasMac(file)
          BY <1>3, <1>7, <2>3, <3>2, <5>1 DEF Bound
        <5>2. CASE ~HasMac(file)
          <6>1. file \notin Units
            BY <1>0, <5>2 DEF HasMac, Macs
          <6> QED
            BY <1>7, <2>3, <6>1 DEF Bound, TypeOK
        <5> QED
          BY <5>1, <5>2
      <4> QED
        BY <1>1, <1>5, <1>7, <2>1, <2>3, <3>1, <4>1, <4>2 DEF Bound
    <3>3. CASE ~Saves(m)
      <4>1. file' = file /\ saved' = saved
        BY <3>3 DEF Admit
      <4>2. saved = m
        BY <1>7, <3>3 DEF Saves
      <4>3. m \in Units => HasMac(saved)
        BY <1>0, <4>2 DEF HasMac, Macs
      <4>4. HasMac(saved)' = HasMac(saved)
        BY <4>1 DEF HasMac
      <4> QED
        BY <1>1, <1>5, <1>7, <2>1, <2>3, <3>1, <4>1, <4>2, <4>3, <4>4 DEF Bound
    <3> QED
      BY <3>2, <3>3
  <2> QED
    BY <2>2, <2>3
<1>8. CASE ~durable
  <2>1. reached' = reached /\ (owing' <=> owing) /\ pending' = pending
    BY <1>8 DEF Admit
  <2>2. ~owing /\ pending = NoMac
    BY <1>8 DEF Bound
  <2>3. m \in Units => m = stable'
    BY <1>0, <1>2, <1>4 DEF Filed
  <2>4. reached \subseteq {stable'}
    <3>1. CASE stable = NoMac
      BY <1>0, <1>8, <3>1 DEF Bound, TypeOK
    <3>2. CASE stable # NoMac
      BY <1>2, <1>4, <1>8, <3>2 DEF Bound
    <3> QED
      BY <3>1, <3>2
  <2> QED
    BY <1>1, <1>5, <1>8, <2>1, <2>2, <2>3, <2>4 DEF Bound
<1> QED
  BY <1>6, <1>7, <1>8

LEMMA BoundRefused ==
  ASSUME TypeOK, Filed, Bound, up, NEW e \in Evidence, Refused(e), UNCHANGED <<setup, up>>,
         as' = Unknown
  PROVE  Bound'
<1>0. Unknown \notin Units /\ NoMac \notin Units /\ Absent \notin Units
  BY UnitsAssumption
<1>1. CASE (Disagrees(e) \/ NotNow(e)) /\ UNCHANGED memory
  <2>1. UNCHANGED <<file, history, stable, saved, pending>>
    BY <1>1, RefusalType DEF memory
  <2> QED
    BY <1>0, <2>1 DEF Bound, history, setup, HasMac
<1>2. CASE FailsToSave(e) /\ Remember(Identity(e)) /\ UNCHANGED <<saved, pending>>
  <2> DEFINE m == Identity(e)
  <2>1. Acceptable(e) /\ Saves(m) /\ file' \in {file, m} /\ UNCHANGED history
    BY <1>2 DEF FailsToSave
  <2>2. durable /\ ~HasMac(saved)
    BY <2>1, Admission
  <2>3. HasMac(file) => file' = file
    BY <2>1, FileStays
  <2>4. ~HasMac(saved)'
    BY <1>2, <2>2 DEF HasMac
  <2>5. UNCHANGED <<owing, reached, durable, replace, conf, up, pending>>
    BY <1>2, <2>1 DEF history, setup
  <2>6. ~owing => reached \subseteq {file'}
    <3>1. CASE HasMac(file)
      BY <2>2, <2>3, <3>1 DEF Bound
    <3>2. CASE ~HasMac(file)
      BY <1>0, <2>2, <3>2 DEF Bound, TypeOK, HasMac
    <3> QED
      BY <3>1, <3>2
  <2> QED
    BY <1>0, <2>2, <2>4, <2>5, <2>6 DEF Bound
<1> QED
  BY <1>1, <1>2 DEF Refused

LEMMA BoundStep ==
  ASSUME TypeOK, Sessions, Filed, Named, Bound, [Next]_vars PROVE Bound'
<1> USE DEF network, setup, memory, session, history, bounds
<1>0. Absent # NoMac /\ Unknown # NoMac /\ {Unknown, NoMac, Absent} \cap Units = {}
  BY UnitsAssumption
<1>1. CASE Start
  <2>1. /\ up' /\ saved' = file /\ pending' = NoMac
        /\ UNCHANGED <<durable, file, as, owing>>
        /\ owing => conf' = conf /\ replace' = replace
        /\ reached' = IF durable THEN reached ELSE {}
    BY <1>1, Zenon DEF Start
  <2>2. as = Unknown
    BY <1>1 DEF Start, Sessions
  <2> QED
    BY <1>0, <2>1, <2>2 DEF Bound
<1>2. ASSUME Gone, UNCHANGED <<setup, owing, reached>>,
             owing \/ file' = file \/ (HasMac(file) => file' = file)
      PROVE  Bound'
  <2>1. ~up' /\ as' = Unknown /\ pending' = NoMac
    BY <1>2 DEF Gone, Close
  <2>2. durable /\ ~owing => reached \subseteq {file'}
    <3>1. CASE file' = file \/ owing
      BY <3>1 DEF Bound
    <3>2. CASE ~HasMac(file)
      BY <1>0, <3>2 DEF Bound, TypeOK, HasMac
    <3> QED
      BY <1>2, <3>1, <3>2
  <2> QED
    BY <1>0, <1>2, <2>1, <2>2 DEF Bound
<1>3. CASE Crash
  BY <1>2, <1>3 DEF Crash
<1>4. CASE PollStops
  <2>1. PICK e \in Evidence : Disagrees(e) \/ FailsToSave(e)
    BY <1>4 DEF PollStops
  <2>2. up /\ (HasMac(file) => file' = file)
    BY <1>4, <2>1, FileStays DEF PollStops, Disagrees, FailsToSave
  <2>3. UNCHANGED <<owing, reached>>
    BY <2>1 DEF Disagrees, FailsToSave
  <2> QED
    BY <1>2, <1>4, <2>2, <2>3 DEF PollStops
<1>5. CASE PollCannotSave
  <2>1. /\ UNCHANGED <<setup, reached>> /\ pending # NoMac
        /\ file' \in {file, pending} /\ (owing' <=> file' # pending)
    BY <1>5 DEF PollCannotSave
  <2>2. ~up' /\ as' = Unknown /\ pending' = NoMac
    BY <1>5 DEF PollCannotSave, Gone, Close
  <2>3. conf = pending /\ owing
    BY <2>1 DEF Filed, Bound
  <2> QED
    BY <1>0, <2>1, <2>2, <2>3 DEF Bound
<1>6. ASSUME UNCHANGED <<setup, file, stable, saved, pending, owing, reached, up>>,
             as' \in {as, Unknown}
      PROVE  Bound'
  BY <1>0, <1>6 DEF Bound, HasMac
<1>7. CASE \/ PollConnects \/ PollCannotConnect \/ PollReuses
           \/ PollFails \/ CommandStarts
  BY <1>6, <1>7 DEF PollConnects, PollCannotConnect, PollReuses, PollFails,
     CommandStarts, LogIn, Close
<1>8. CASE \/ CommandReconnects \/ CommandCannotReconnect \/ CommandWorks
           \/ CommandFails \/ Swap \/ LoseConnection \/ TrackersChange
           \/ UNCHANGED vars
  BY <1>6, <1>8 DEF CommandReconnects, CommandCannotReconnect, CommandWorks,
     CommandFails, Swap, LoseConnection, TrackersChange, vars, LogIn, Close
<1>9. CASE PollWaits
  <2>1. UNCHANGED <<file, owing, reached>>
    BY <1>9 DEF PollWaits, NotNow
  <2> QED
    BY <1>6, <1>9, <2>1 DEF PollWaits, Close
<1>10. CASE CommandWrites
  <2>1. UNCHANGED <<setup, file, stable, saved, pending, owing, up, as>>
    BY <1>10 DEF CommandWrites
  <2>2. CASE reached' = reached
    BY <1>6, <2>1, <2>2
  <2>3. CASE as \in Units /\ Compared /\ reached' = reached \cup {link}
    <3>1. link = as /\ up
      BY <1>10, <2>3 DEF Named, CommandWrites
    <3>2. owing => link = conf
      BY <1>0, <2>3, <3>1 DEF Filed, Bound
    <3>3. durable /\ ~owing => link = file
      BY <2>3, <3>1 DEF Bound
    <3>4. ~durable => link = stable
      BY <2>3, <3>1 DEF Bound
    <3>5. HasMac(saved)' = HasMac(saved)
      BY <2>1 DEF HasMac
    <3>6. \A x, y \in reached' : x = y
      BY <2>3, <3>1, <3>2, <3>3, <3>4 DEF Bound
    <3> QED
      BY <2>1, <2>3, <3>2, <3>3, <3>4, <3>5, <3>6 DEF Bound
  <2> QED
    BY <1>10, <2>2, <2>3 DEF CommandWrites
<1>11. CASE PollAdmits \/ ReconnectAdmitted \/ IdentityRenewed
  <2>1. up /\ (\E e \in Evidence : Admit(e)) /\ UNCHANGED <<setup, up>>
    BY <1>11 DEF PollAdmits, ReconnectAdmitted, IdentityRenewed
  <2> QED
    BY <2>1, BoundAdmit
<1>12. CASE ReconnectRefused \/ IdentityNotRenewed
  <2>1. /\ up /\ (\E e \in Evidence : Refused(e)) /\ UNCHANGED <<setup, up>>
        /\ as' = Unknown
    BY <1>12 DEF ReconnectRefused, IdentityNotRenewed, Close
  <2> QED
    BY <2>1, BoundRefused
<1>13. CASE PollEnds \/ CommandPublishes
  <2>1. UNCHANGED <<setup, up, stable, as, reached>> /\ as # Unknown
    BY <1>13 DEF PollEnds, CommandPublishes, Sessions
  <2>2. \/ UNCHANGED <<file, saved, pending, owing>>
        \/ /\ pending' = NoMac
           /\ \/ /\ pending # NoMac /\ file' = pending /\ saved' = pending
                 /\ ~owing'
              \/ pending = NoMac /\ UNCHANGED <<file, saved, owing>>
    BY <1>13, Zenon DEF PollEnds, CommandPublishes, SavePending
  <2>3. CASE UNCHANGED <<file, saved, owing>> /\ pending' \in {pending, NoMac}
    BY <2>1, <2>3 DEF Bound, HasMac
  <2>4. CASE pending # NoMac /\ file' = pending /\ saved' = pending /\ ~owing' /\ pending' = NoMac
    <3>1. conf = pending /\ as = conf /\ reached \subseteq {conf} /\ durable
      BY <2>1, <2>4 DEF Filed, Bound
    <3> QED
      BY <2>1, <2>4, <3>1 DEF Bound
  <2> QED
    BY <2>2, <2>3, <2>4
<1>14. CASE CommandCannotSave
  <2>1. /\ UNCHANGED <<setup, up, stable, saved, pending, as, owing, reached>>
        /\ pending # NoMac
    BY <1>14 DEF CommandCannotSave
  <2>2. owing /\ durable
    BY <2>1 DEF Bound
  <2> QED
    BY <2>1, <2>2 DEF Bound
<1> HIDE DEF network, setup, memory, session, history, bounds
<1> QED
  BY <1>1, <1>3, <1>4, <1>5, <1>7, <1>8, <1>9, <1>10, <1>11, <1>12, <1>13, <1>14
     DEF Next

\* Over all sessions, crashes and restarts, what was written to in the sessions
\* of StrangersAreNotCommanded is one physical unit, until the operator replaces
\* it.  What is written to under an operator's MAC while the trackers are silent
\* is not part of this.
THEOREM OneUnitReached == Spec => []OneUnit
<1>1. Init => Bound
  BY UnitsAssumption DEF Init, Bound, HasMac
<1>2. TypeOK /\ Sessions /\ Filed /\ Named /\ Bound /\ [Next]_vars => Bound'
  BY BoundStep
<1>3. Bound => OneUnit
  <2> SUFFICES ASSUME Bound PROVE Cardinality(reached) <= 1
    BY DEF OneUnit
  <2>1. CASE reached = {}
    BY <2>1, FS_EmptySet
  <2>2. ASSUME NEW x \in reached PROVE Cardinality(reached) = 1
    <3>1. reached = {x}
      BY DEF Bound
    <3> QED
      BY <3>1, FS_Singleton
  <2> QED
    BY <2>1, <2>2
<1> QED
  BY TypeCorrect, SessionsInvariant, FiledInvariant, NamedInvariant, <1>1, <1>2,
     <1>3, PTL DEF Spec
=============================================================================
