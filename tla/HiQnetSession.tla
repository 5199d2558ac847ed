--------------------------- MODULE HiQnetSession ---------------------------
(***************************************************************************)
(* HiQnetClient (protocol.py): one console session, its lock, its line     *)
(* buffer and the set echoes it still expects, over a connection to a unit *)
(* that answers in order, acknowledges a set late, early or never, and     *)
(* may go away.  A line is one item; deadlines are moments the callers'    *)
(* clocks pass (hour).  The unit and TCP are external code.  Requests have *)
(* a number and lines the number of the request they answer: history the   *)
(* client does not see, the protocol has no request identifiers.           *)
(***************************************************************************)
EXTENDS Integers, Sequences

CONSTANTS
  Callers,    \* threads that use the client
  NoCaller,
  Paths,      \* the unit's parameters
  Values,
  NoPath,
  NoValue,
  Script,     \* bound on the calls of one behaviour: the kinds of each
  MaxFaults   \* bound on its faults

AllKinds == {"connect", "reconnect", "close", "get", "set", "ls"}

ASSUME CallerAssumption == NoCaller \notin Callers
ASSUME NothingAssumption == NoPath \notin Paths /\ NoValue \notin Values
ASSUME ScriptAssumption == Script \in Seq(SUBSET AllKinds)
ASSUME FaultsAssumption == MaxFaults \in Nat

MaxCalls == Len(Script)

VARIABLES
  sock,     \* number of the connection _socket is, 0 for None
  creds,    \* _credentials is set
  pending,  \* _pending_set_echoes
  saved,    \* the credentials a reconnect puts back (a local of _reconnect)
  lock,     \* holder of _lock
  call,     \* call[c]: the call c is making
  at,       \* at[c]: where it is in it
  hour,     \* hour[c]: "early", past its "start" deadline, or "over"
  outcome,  \* outcome[c]: how the last call of c ended
  calls,    \* calls made so far: the number of the last one

  value,    \* value[p]: the unit's parameter p
  toUnit,   \* toUnit[k]: requests of connection k the unit has not read
  owed,     \* acknowledgements of sets the unit has not sent yet
  lines,    \* lines the unit sent, on their way or in _buffer
  up,       \* the unit still has the current connection
  faults,   \* faults left
  orderly,  \* history: the current connection had no fault and no disorder
  skipped   \* history: a set since the last answer goes unacknowledged

client == <<sock, creds, pending, saved>>
threads == <<lock, call, at, hour, outcome, calls>>
unit == <<value, toUnit, owed, lines, up>>
history == <<orderly, skipped>>
vars == <<client, threads, unit, faults, history>>

Numbers == 0 .. MaxCalls
Request(kind, p, v, started, n) ==
  [kind |-> kind, path |-> p, value |-> v, started |-> started, of |-> n]
Requests ==
  {r \in [kind : AllKinds, path : Paths \cup {NoPath},
          value : Values \cup {NoValue}, started : BOOLEAN, of : Numbers] :
     /\ r.kind \in {"get", "set"} => r.path \in Paths
     /\ r.kind = "set" => r.value \in Values}
NoRequest == Request("close", NoPath, NoValue, FALSE, 0)
Line(kind, r, v) == [kind |-> kind, path |-> r.path, value |-> v, of |-> r.of]
LineKinds == {"banner", "login", "get", "set", "setr", "ls", "entry", "endls",
              "error", "noise"}
Lines == [kind : LineKinds, path : Paths \cup {NoPath},
          value : Values \cup {NoValue}, of : Numbers]
Ended(how, v, n) == [how |-> how, value |-> v, of |-> n]
NoOutcome == Ended("none", NoValue, 0)
Outcomes == [how : {"none", "ok", "failed", "expired", "denied"},
             value : Values \cup {NoValue}, of : Numbers]

TypeOK ==
  /\ sock \in Numbers
  /\ creds \in BOOLEAN
  /\ pending \in Seq(Requests)
  /\ saved \in BOOLEAN
  /\ lock \in Callers \cup {NoCaller}
  /\ call \in [Callers -> Requests]
  /\ at \in [Callers -> {"idle", "waiting", "locked", "reading", "more"}]
  /\ hour \in [Callers -> {"early", "start", "over"}]
  /\ outcome \in [Callers -> Outcomes]
  /\ calls \in Numbers
  /\ value \in [Paths -> Values]
  /\ toUnit \in [1 .. MaxCalls -> Seq(Requests)]
  /\ owed \in Seq(Lines)
  /\ lines \in Seq(Lines)
  /\ up \in BOOLEAN
  /\ faults \in 0 .. MaxFaults
  /\ orderly \in BOOLEAN
  /\ skipped \in BOOLEAN

\* Types, and a closed session keeps nothing of what was open.
Closed == sock = 0 => pending = <<>> /\ lines = <<>> /\ owed = <<>> /\ ~up
SessionOK == TypeOK /\ Closed

Init ==
  /\ sock = 0
  /\ creds = FALSE
  /\ pending = <<>>
  /\ saved = FALSE
  /\ lock = NoCaller
  /\ call = [c \in Callers |-> NoRequest]
  /\ at = [c \in Callers |-> "idle"]
  /\ hour = [c \in Callers |-> "early"]
  /\ outcome = [c \in Callers |-> NoOutcome]
  /\ calls = 0
  /\ value \in [Paths -> Values]
  /\ toUnit = [k \in 1 .. MaxCalls |-> <<>>]
  /\ owed = <<>>
  /\ lines = <<>>
  /\ up = FALSE
  /\ faults = MaxFaults
  /\ orderly = TRUE
  /\ skipped = FALSE

-----------------------------------------------------------------------------
(* Parts of the handlers *)

\* The lines under way in the current connection are lost with it.
LinesLost == owed' = <<>> /\ lines' = <<>> /\ up' = FALSE

CloseSocketKeepsEchoes ==
  /\ sock' = 0
  /\ LinesLost
  /\ UNCHANGED <<pending, toUnit, value>>

\* close, under the lock; what was sent stays on its way to the unit.
CloseSocket ==
  /\ sock' = 0
  /\ pending' = <<>>
  /\ LinesLost
  /\ UNCHANGED <<toUnit, value>>

\* The call ends and releases the lock.
Finish(c, result) ==
  /\ outcome' = [outcome EXCEPT ![c] = result]
  /\ at' = [at EXCEPT ![c] = "idle"]
  /\ lock' = NoCaller
  /\ hour' = [hour EXCEPT ![c] = "early"]
  /\ UNCHANGED <<call, calls>>

End(c, how) == Finish(c, Ended(how, NoValue, call[c].of))

\* How a login that failed leaves the credentials: gone after connect and
\* after an AuthenticationError, else as a reconnect found them.
KeepsCredentials(c, denied) ==
  /\ creds' = IF call[c].kind \in {"connect", "reconnect"}
              THEN saved /\ ~denied ELSE creds
  /\ saved' = FALSE

Logging(c) == call[c].kind \in {"connect", "reconnect"}

BreakLeavesOpen(c, how) ==
  /\ End(c, how)
  /\ UNCHANGED <<client, unit, skipped>>

\* An exchange fails: every way to fail closes the session first.
Break(c, how) ==
  /\ CloseSocket
  /\ KeepsCredentials(c, how = "denied")
  /\ End(c, how)
  /\ UNCHANGED skipped

Expired(c) == hour[c] = "over"
StartExpired(c) == Expired(c) \/ (call[c].started /\ hour[c] = "start")

Fault == faults > 0 /\ faults' = faults - 1
NoFault == UNCHANGED faults

-----------------------------------------------------------------------------
(* The client: one action is what happens between two waits *)

\* A caller starts a call; its deadlines run from here, before the lock.
Begin(c) ==
  /\ at[c] = "idle"
  /\ calls < MaxCalls
  /\ \E kind \in Script[calls + 1], p \in Paths, v \in Values, started \in BOOLEAN :
       /\ started => kind = "set"
       /\ call' = [call EXCEPT ![c] = Request(kind,
                     IF kind \in {"get", "set"} THEN p ELSE NoPath,
                     IF kind = "set" THEN v ELSE NoValue, started, calls + 1)]
  /\ calls' = calls + 1
  /\ at' = [at EXCEPT ![c] = "waiting"]
  /\ hour' = [hour EXCEPT ![c] = "early"]
  /\ outcome' = [outcome EXCEPT ![c] = NoOutcome]
  /\ UNCHANGED <<lock, client, unit, faults, history>>

Lock(c) ==
  /\ at[c] = "waiting"
  /\ lock = NoCaller
  /\ lock' = c
  /\ at' = [at EXCEPT ![c] = "locked"]
  /\ UNCHANGED <<call, hour, outcome, calls, client, unit, faults, history>>

\* _send refuses before anything is sent: a deadline has passed, in which case
\* the session is closed too, or there is no session.
Refuse(c) ==
  /\ at[c] = "locked"
  /\ call[c].kind \in {"get", "set", "ls"}
  /\ \/ /\ StartExpired(c)
        /\ Break(c, IF call[c].started THEN "expired" ELSE "failed")
        /\ orderly' = FALSE
     \/ /\ ~StartExpired(c)
        /\ sock = 0
        /\ End(c, "failed")
        /\ UNCHANGED <<client, unit, history>>
  /\ NoFault

SendBreaksExpired(c) ==
  /\ at[c] = "locked"
  /\ call[c].kind \in {"get", "set", "ls"}
  /\ ~StartExpired(c)
  /\ sock # 0
  /\ Fault
  /\ \E sent \in BOOLEAN :
       toUnit' = IF sent THEN [toUnit EXCEPT ![sock] = Append(@, call[c])]
                         ELSE toUnit
  /\ sock' = 0
  /\ pending' = <<>>
  /\ LinesLost
  /\ KeepsCredentials(c, FALSE)
  /\ End(c, IF call[c].started THEN "expired" ELSE "failed")
  /\ orderly' = FALSE
  /\ UNCHANGED <<value, skipped>>

\* sendall raises, or the deadline passes during it, the request on its way.
SendBreaks(c) ==
  /\ at[c] = "locked"
  /\ call[c].kind \in {"get", "set", "ls"}
  /\ ~StartExpired(c)
  /\ sock # 0
  /\ Fault
  /\ \E sent \in BOOLEAN :
       toUnit' = IF sent THEN [toUnit EXCEPT ![sock] = Append(@, call[c])]
                         ELSE toUnit
  /\ sock' = 0
  /\ pending' = <<>>
  /\ LinesLost
  /\ KeepsCredentials(c, FALSE)
  /\ End(c, "failed")
  /\ orderly' = FALSE
  /\ UNCHANGED <<value, skipped>>

\* A set returns as soon as it is sent; a get or ls reads on.
Send(c) ==
  /\ at[c] = "locked"
  /\ call[c].kind \in {"get", "set", "ls"}
  /\ ~StartExpired(c)
  /\ sock # 0
  /\ toUnit' = [toUnit EXCEPT ![sock] = IF up THEN Append(@, call[c]) ELSE @]
  /\ \/ /\ call[c].kind = "set"
        /\ pending' = Append(pending, call[c])
        /\ End(c, "ok")
     \/ /\ call[c].kind # "set"
        /\ at' = [at EXCEPT ![c] = "reading"]
        /\ UNCHANGED <<pending, lock, call, hour, outcome, calls>>
  /\ UNCHANGED <<sock, creds, saved, value, owed, lines, up, faults,
                 history>>

Close(c) ==
  /\ at[c] = "locked"
  /\ call[c].kind = "close"
  /\ CloseSocket
  /\ End(c, "ok")
  /\ UNCHANGED <<creds, saved, faults, history>>

\* _reconnect without credentials, or _connect before a socket exists.
CannotConnect(c) ==
  /\ at[c] = "locked"
  /\ Logging(c)
  /\ \/ /\ call[c].kind = "reconnect" /\ ~creds
        /\ NoFault
        /\ End(c, "failed")
        /\ UNCHANGED <<client, unit, history>>
     \/ /\ call[c].kind = "reconnect" => creds
        /\ IF Expired(c) THEN NoFault ELSE Fault
        /\ CloseSocket
        /\ creds' = (call[c].kind = "reconnect")
        /\ saved' = FALSE
        /\ End(c, "failed")
        /\ UNCHANGED <<orderly, skipped>>

\* _connect: the credentials go first, then the old session; the new one is
\* numbered by its call.
Connect(c) ==
  /\ at[c] = "locked"
  /\ Logging(c)
  /\ call[c].kind = "reconnect" => creds
  /\ ~Expired(c)
  /\ creds' = FALSE
  /\ saved' = (call[c].kind = "reconnect")
  /\ sock' = call[c].of
  /\ pending' = <<>>
  /\ toUnit' = [toUnit EXCEPT ![call[c].of] = <<call[c]>>]
  /\ owed' = <<>>
  /\ lines' = <<>>
  /\ up' = TRUE
  /\ at' = [at EXCEPT ![c] = "reading"]
  /\ orderly' = TRUE
  /\ skipped' = FALSE
  /\ UNCHANGED <<lock, call, hour, outcome, calls, value, faults>>

Reading(c) == at[c] \in {"reading", "more"}

ReadBreaksAtEnd(c) ==
  /\ Reading(c)
  /\ lines = <<>> /\ ~up
  /\ Break(c, "failed")
  /\ orderly' = FALSE
  /\ NoFault

\* _read_line gives up: the deadline, or the end of the stream.
ReadBreaks(c) ==
  /\ Reading(c)
  /\ Expired(c) \/ (lines = <<>> /\ ~up)
  /\ Break(c, "failed")
  /\ orderly' = FALSE
  /\ NoFault

\* The line _read_line returns, if one is complete before the deadline.
NextLine(c) ==
  IF ~Reading(c) \/ Expired(c) \/ lines = <<>> THEN {} ELSE {Head(lines)}

AcknowledgesSet(line, r) ==
  /\ line.kind = "set"
  /\ line.path = r.path
  /\ line.value = r.value

Acknowledges(line, r) ==
  /\ line.kind \in {"set", "setr"}
  /\ line.path = r.path
  /\ line.value = r.value

\* _read_response_line: the line acknowledges the oldest pending set.
IsEcho(c, line) ==
  /\ at[c] = "reading"
  /\ pending # <<>>
  /\ Acknowledges(line, Head(pending))

ReadEcho(c) ==
  /\ \E line \in NextLine(c) : IsEcho(c, line)
  /\ lines' = Tail(lines)
  /\ pending' = Tail(pending)
  /\ UNCHANGED <<sock, creds, saved, threads, value, toUnit, owed, up, faults,
                 history>>

\* The line is the one the call is waiting for.
Fits(c, line) ==
  \/ /\ at[c] = "reading"
     /\ \/ call[c].kind = "get" /\ line.kind = "get"
           /\ line.path = call[c].path
        \/ call[c].kind = "ls" /\ line.kind = "ls"
        \/ Logging(c) /\ line.kind \in {"banner", "login"}
  \/ /\ at[c] = "more"
     /\ \/ call[c].kind = "ls" /\ line.kind \in {"entry", "endls"}
        \/ Logging(c) /\ line.kind = "login"

CompletesEarly(line) == line.kind \in {"get", "entry", "endls", "login"}

\* ... and the last one: the call returns with it.
Completes(line) == line.kind \in {"get", "endls", "login"}

ReadAnswer(c) ==
  /\ \E line \in NextLine(c) :
       /\ ~IsEcho(c, line)
       /\ Fits(c, line)
       /\ lines' = Tail(lines)
       /\ pending' = IF at[c] = "reading" THEN <<>> ELSE pending
       /\ \/ /\ Completes(line)
             /\ Finish(c, Ended("ok", line.value, line.of))
             /\ creds' = (Logging(c) \/ creds)
             /\ saved' = FALSE
          \/ /\ ~Completes(line)
             /\ at' = [at EXCEPT ![c] = "more"]
             /\ UNCHANGED <<lock, call, hour, outcome, calls, creds, saved>>
  /\ UNCHANGED <<sock, value, toUnit, owed, up, faults, history>>

ReadNonsenseStaysOpen(c) ==
  /\ \E line \in NextLine(c) : ~IsEcho(c, line) /\ ~Fits(c, line)
  /\ lines' = Tail(lines)
  /\ pending' = <<>>
  /\ End(c, "failed")
  /\ UNCHANGED <<sock, creds, saved, value, toUnit, owed, up, faults, history>>

\* An error frame, a line that is no frame, or another frame than expected:
\* nothing read later could be told from its answer.
ReadNonsense(c) ==
  /\ \E line \in NextLine(c) : ~IsEcho(c, line) /\ ~Fits(c, line)
  /\ Break(c, IF Logging(c) THEN "denied" ELSE "failed")
  /\ NoFault
  /\ UNCHANGED orderly

Client(c) ==
  \/ Lock(c) \/ Refuse(c) \/ SendBreaks(c) \/ Send(c) \/ Close(c)
  \/ CannotConnect(c) \/ Connect(c)
  \/ ReadBreaks(c) \/ ReadEcho(c) \/ ReadAnswer(c)
  \/ ReadNonsense(c)

\* Time passes for a caller, under the lock or waiting for it.
Tick(c) ==
  /\ at[c] # "idle"
  /\ hour[c] # "over"
  /\ hour' = [hour EXCEPT ![c] = IF @ = "early" /\ call[c].started
                                    THEN "start" ELSE "over"]
  /\ orderly' = FALSE
  /\ UNCHANGED <<lock, call, at, outcome, calls, client, unit, faults,
                 skipped>>

-----------------------------------------------------------------------------
(* The unit and the network *)

\* The unit reads a request, of the current connection or of one the client
\* has closed since, and works out the answer.
Answer(r) ==
  CASE r.kind = "get" -> <<Line("get", r, value[r.path])>>
    [] r.kind = "ls" -> <<Line("ls", r, NoValue), Line("entry", r, NoValue),
                          Line("endls", r, NoValue)>>
    [] OTHER -> <<Line("banner", r, NoValue), Line("login", r, NoValue)>>

Serve(k) ==
  /\ toUnit[k] # <<>>
  /\ toUnit' = [toUnit EXCEPT ![k] = Tail(@)]
  /\ LET r == Head(toUnit[k])
         here == k = sock /\ up
     IN \/ /\ r.kind = "set"
           /\ value' = [value EXCEPT ![r.path] = r.value]
           /\ \/ /\ skipped' = (skipped \/ here)
                 /\ UNCHANGED <<owed, orderly>>
              \/ /\ here
                 /\ \E kind \in {"set", "setr"} :
                      owed' = Append(owed, Line(kind, r, r.value))
                 /\ orderly' = (orderly /\ ~skipped)
                 /\ UNCHANGED skipped
           /\ UNCHANGED lines
        \/ /\ r.kind # "set"
           /\ lines' = IF here THEN lines \o Answer(r) ELSE lines
           /\ orderly' = (orderly /\ owed = <<>>)
           /\ skipped' = (skipped /\ ~here)
           /\ UNCHANGED <<value, owed>>
  /\ UNCHANGED <<client, threads, up, faults>>

\* Acknowledgements keep their order, but may come late: after an answer to
\* something asked later.
SendEcho ==
  /\ owed # <<>>
  /\ lines' = Append(lines, Head(owed))
  /\ owed' = Tail(owed)
  /\ UNCHANGED <<client, threads, value, toUnit, up, faults, history>>

\* The unit refuses what it was asked, or says something nobody asked for.
Misbehave ==
  /\ up
  /\ Fault
  /\ orderly' = FALSE
  /\ \/ /\ lines' = Append(lines, Line("noise", NoRequest, NoValue))
        /\ UNCHANGED toUnit
     \/ /\ toUnit[sock] # <<>>
        /\ toUnit' = [toUnit EXCEPT ![sock] = Tail(@)]
        /\ lines' = Append(lines, Line("error", Head(toUnit[sock]), NoValue))
  /\ UNCHANGED <<client, threads, value, owed, up, skipped>>

\* The connection goes; what was sent before may still be read, or not.
Drop ==
  /\ up
  /\ Fault
  /\ up' = FALSE
  /\ orderly' = FALSE
  /\ owed' = <<>>
  /\ lines' \in {lines, <<>>}
  /\ \E kept \in BOOLEAN :
       toUnit' = IF kept THEN toUnit ELSE [toUnit EXCEPT ![sock] = <<>>]
  /\ UNCHANGED <<client, threads, value, skipped>>

OtherWriter ==
  /\ Fault
  /\ \E p \in Paths, v \in Values : value' = [value EXCEPT ![p] = v]
  /\ UNCHANGED <<client, threads, toUnit, owed, lines, up, history>>

Unit ==
  \/ \E k \in 1 .. MaxCalls : Serve(k)
  \/ SendEcho \/ Misbehave \/ Drop \/ OtherWriter

\* No call is left to make and all are answered.
Finished ==
  /\ calls = MaxCalls
  /\ \A c \in Callers : at[c] = "idle"
  /\ UNCHANGED vars

Next ==
  \/ \E c \in Callers : Begin(c) \/ Client(c) \/ Tick(c)
  \/ Unit
  \/ Finished

Spec == Init /\ [][Next]_vars

\* Threads run, and clocks go on; nothing is assumed of the unit.
FairSpec == Spec /\ \A c \in Callers : WF_vars(Client(c)) /\ WF_vars(Tick(c))

-----------------------------------------------------------------------------
(* Properties *)

\* A get, ls or login that returns, returns with the answer to itself, though
\* answers carry no request number: never a late line of another exchange.
AnswerIsOwn ==
  \A c \in Callers :
    outcome[c].how = "ok" => outcome[c].of = call[c].of

\* When nobody is in an exchange, an open session owes nothing but
\* acknowledgements and complaints about sets: everything that failed closed it.
QuietBetweenCalls ==
  lock = NoCaller /\ sock # 0 =>
    /\ \A i \in DOMAIN lines : lines[i].kind \in {"set", "setr", "error", "noise"}
    /\ \A i \in DOMAIN toUnit[sock] : toUnit[sock][i].kind = "set"

\* ProtocolStartDeadlineExpired tells the controller that nothing was written,
\* so that it need not roll back: the set is not on its way, nor was it.
ExpiredMeansUnsent ==
  \A c \in Callers : outcome[c].how = "expired" =>
    \A k \in DOMAIN toUnit : \A i \in DOMAIN toUnit[k] :
      toUnit[k][i].of # outcome[c].of

\* A unit that keeps to the protocol does not lose its session: as long as it
\* answers in time and acknowledges sets in order before its next answer, all
\* or none of them, only close and login calls end the session.
OrderlyUnitKept ==
  [][sock # 0 /\ sock' = 0 /\ orderly' =>
       \E c \in Callers : lock = c /\ call[c].kind \notin {"get", "set", "ls"}]_vars

\* Whoever has the lock gives it back: every wait under it has a deadline.
LockIsReleased == \A c \in Callers : lock = c ~> lock # c

\* The callers' view of their gets.
Ask ==
  LET Mine(c) == {lines[i] : i \in {j \in DOMAIN lines :
                    lines[j].kind = "get" /\ lines[j].of = call[c].of}}
      View(c) ==
        CASE at[c] = "idle" /\ outcome[c].how = "ok" ->
               [at |-> "returned", path |-> call[c].path,
                value |-> outcome[c].value]
          [] at[c] # "idle" /\ Mine(c) = {} ->
               [at |-> "asked", path |-> call[c].path]
          [] at[c] # "idle" /\ Mine(c) # {} ->
               [at |-> "seen", path |-> call[c].path,
                value |-> (CHOOSE line \in Mine(c) : TRUE).value]
          [] OTHER -> [at |-> "idle"]
  IN [c \in Callers |-> IF call[c].kind = "get" THEN View(c)
                        ELSE [at |-> "idle"]]

Contract == INSTANCE ConsoleReads WITH ask <- Ask

\* Every get that returns gives a value the unit had during the call.
ReadsAreCurrent == Contract!Spec
=============================================================================
