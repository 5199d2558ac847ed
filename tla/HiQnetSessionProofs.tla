------------------------ MODULE HiQnetSessionProofs ------------------------
(***************************************************************************)
(* Over a HiQnetClient session an answer belongs to its request, for any   *)
(* callers, paths and values, any sequence of calls, and any faults.       *)
(***************************************************************************)
EXTENDS HiQnetSession, TLAPS

-----------------------------------------------------------------------------
(* Sequences *)

LEMMA AppendElements ==
  ASSUME NEW S, NEW s \in Seq(S), NEW x \in S
  PROVE  /\ Append(s, x) \in Seq(S)
         /\ Len(Append(s, x)) = Len(s) + 1
         /\ \A i \in DOMAIN Append(s, x) :
              \/ i \in DOMAIN s /\ Append(s, x)[i] = s[i]
              \/ i = Len(s) + 1 /\ Append(s, x)[i] = x
BY SMT

LEMMA TailElements ==
  ASSUME NEW S, NEW s \in Seq(S), s # <<>>
  PROVE  /\ Tail(s) \in Seq(S) /\ Head(s) \in S
         /\ Len(Tail(s)) = Len(s) - 1
         /\ 1 \in DOMAIN s /\ Head(s) = s[1]
         /\ \A i \in DOMAIN Tail(s) : i + 1 \in DOMAIN s /\ Tail(s)[i] = s[i + 1]
BY SMT

LEMMA KeptOrEmpty ==
  ASSUME NEW S, NEW s \in Seq(S), NEW t, t = s \/ t = <<>>
  PROVE  t \in Seq(S)
<1>1. <<>> \in Seq(S)
  OBVIOUS
<1> QED
  BY <1>1

LEMMA ConcatElements ==
  ASSUME NEW S, NEW s \in Seq(S), NEW t \in Seq(S)
  PROVE  /\ s \o t \in Seq(S)
         /\ \A i \in DOMAIN (s \o t) :
              \/ i \in DOMAIN s /\ (s \o t)[i] = s[i]
              \/ i - Len(s) \in DOMAIN t /\ (s \o t)[i] = t[i - Len(s)] /\ i > Len(s)
BY SMT

-----------------------------------------------------------------------------
(* Types *)

LEMMA CountType == MaxCalls \in Nat
BY ScriptAssumption DEF MaxCalls

LEMMA TypeInit == Init => TypeOK
<1> SUFFICES ASSUME Init PROVE TypeOK
  OBVIOUS
<1>1. NoRequest \in Requests
  BY CountType DEF NoRequest, Requests, Request, AllKinds, Numbers
<1>2. NoOutcome \in Outcomes
  BY CountType DEF NoOutcome, Outcomes, Ended, Numbers
<1>3. 0 \in Numbers /\ faults \in 0 .. MaxFaults
  BY CountType, FaultsAssumption DEF Numbers, Init
<1>4. /\ pending \in Seq(Requests) /\ toUnit \in [1 .. MaxCalls -> Seq(Requests)]
      /\ owed \in Seq(Lines) /\ lines \in Seq(Lines)
  BY DEF Init
<1> QED
  BY <1>1, <1>2, <1>3, <1>4 DEF Init, TypeOK

\* What a call under way is numbered.
LEMMA LineType ==
  ASSUME NEW k \in LineKinds, NEW r \in Requests, NEW v \in Values \cup {NoValue}
  PROVE  Line(k, r, v) \in Lines
BY DEF Line, Lines, Requests

LEMMA AnswerType ==
  ASSUME NEW r \in Requests,
         value \in [Paths -> Values]
  PROVE  Answer(r) \in Seq(Lines)
<1>1. \A k \in LineKinds : Line(k, r, NoValue) \in Lines
  BY LineType
<1>2. r.kind = "get" => Line("get", r, value[r.path]) \in Lines
  BY LineType DEF LineKinds, Requests
<1> QED
  BY <1>1, <1>2 DEF Answer, LineKinds

Flags ==
  /\ creds \in BOOLEAN /\ saved \in BOOLEAN /\ up \in BOOLEAN
  /\ orderly \in BOOLEAN /\ skipped \in BOOLEAN

ClientData ==
  /\ sock \in Numbers
  /\ pending \in Seq(Requests)
  /\ lock \in Callers \cup {NoCaller}
  /\ call \in [Callers -> Requests]
  /\ at \in [Callers -> {"idle", "waiting", "locked", "reading", "more"}]
  /\ hour \in [Callers -> {"early", "start", "over"}]
  /\ outcome \in [Callers -> Outcomes]
  /\ calls \in Numbers
  /\ faults \in 0 .. MaxFaults

UnitData ==
  /\ value \in [Paths -> Values]
  /\ toUnit \in [1 .. MaxCalls -> Seq(Requests)]
  /\ owed \in Seq(Lines)
  /\ lines \in Seq(Lines)

LEMMA Parts == TypeOK <=> Flags /\ ClientData /\ UnitData
BY Zenon DEF TypeOK, Flags, ClientData, UnitData

\* A caller's part of the data.
LEMMA FinishType ==
  ASSUME ClientData, NEW c \in Callers, NEW r \in Outcomes, Finish(c, r)
  PROVE  /\ outcome' \in [Callers -> Outcomes]
         /\ at' \in [Callers -> {"idle", "waiting", "locked", "reading", "more"}]
         /\ lock' \in Callers \cup {NoCaller}
         /\ hour' \in [Callers -> {"early", "start", "over"}]
         /\ UNCHANGED <<call, calls>>
BY DEF Finish, ClientData

LEMMA EndedType ==
  ASSUME ClientData, NEW c \in Callers,
         NEW how \in {"ok", "failed", "expired", "denied"}
  PROVE  Ended(how, NoValue, call[c].of) \in Outcomes
BY DEF Ended, Outcomes, ClientData, Requests

LEMMA EndType ==
  ASSUME ClientData, NEW c \in Callers,
         NEW how \in {"ok", "failed", "expired", "denied"}, End(c, how)
  PROVE  /\ outcome' \in [Callers -> Outcomes]
         /\ at' \in [Callers -> {"idle", "waiting", "locked", "reading", "more"}]
         /\ lock' \in Callers \cup {NoCaller}
         /\ hour' \in [Callers -> {"early", "start", "over"}]
         /\ UNCHANGED <<call, calls>>
BY EndedType, FinishType DEF End

LEMMA FaultType == ClientData /\ (Fault \/ NoFault) => faults' \in 0 .. MaxFaults
BY FaultsAssumption, SMT DEF ClientData, Fault, NoFault

LEMMA FlagsStep ==
  ASSUME TypeOK, [Next]_vars PROVE Flags'
<1> USE DEF Flags, client, threads, unit, history, LinesLost
<1>0. Flags
  BY Parts
<1>1. ASSUME NEW c \in Callers, Begin(c) \/ Lock(c) \/ Tick(c) PROVE Flags'
  BY <1>0, <1>1 DEF Begin, Lock, Tick
<1>2. ASSUME NEW c \in Callers, NEW how, Break(c, how), orderly' \in BOOLEAN PROVE Flags'
  BY <1>0, <1>2 DEF Break, CloseSocket, KeepsCredentials
<1>3. ASSUME NEW c \in Callers, Refuse(c) \/ SendBreaks(c) \/ Send(c) PROVE Flags'
  BY <1>0, <1>2, <1>3 DEF Refuse, SendBreaks, Send, KeepsCredentials
<1>4. ASSUME NEW c \in Callers, Close(c) \/ CannotConnect(c) \/ Connect(c) PROVE Flags'
  BY <1>0, <1>4 DEF Close, CannotConnect, Connect, CloseSocket
<1>5. ASSUME NEW c \in Callers, ReadBreaks(c) \/ ReadEcho(c) \/ ReadAnswer(c) \/ ReadNonsense(c)
      PROVE  Flags'
  BY <1>0, <1>2, <1>5 DEF ReadBreaks, ReadEcho, ReadAnswer, ReadNonsense
<1>6. ASSUME NEW k \in 1 .. MaxCalls, Serve(k) PROVE Flags'
  BY <1>0, <1>6, Zenon DEF Serve
<1>7. CASE SendEcho \/ Misbehave \/ Drop \/ OtherWriter
  BY <1>0, <1>7, Zenon DEF SendEcho, Misbehave, Drop, OtherWriter
<1>8. CASE Finished \/ UNCHANGED vars
  BY <1>0, <1>8 DEF Finished, vars
<1> QED
  BY <1>1, <1>3, <1>4, <1>5, <1>6, <1>7, <1>8 DEF Next, Client, Unit

Places == {"idle", "waiting", "locked", "reading", "more"}

LEMMA ClientDataStep ==
  ASSUME TypeOK, [Next]_vars PROVE ClientData'
<1> USE DEF client, threads, unit, history
<1>0. ClientData /\ UnitData
  BY Parts
<1>1. ASSUME NEW c \in Callers, NEW how \in {"ok", "failed", "expired", "denied"},
             End(c, how), sock' \in {sock, 0}, (pending' = pending \/ pending' = <<>>),
             Fault \/ NoFault
      PROVE  ClientData'
  <2>1. sock' \in Numbers /\ pending' \in Seq(Requests)
    <3>1. sock' \in Numbers
      BY <1>0, <1>1, CountType DEF ClientData, Numbers
    <3>2. pending' \in Seq(Requests)
      BY <1>0, <1>1, KeptOrEmpty DEF ClientData
    <3> QED
      BY <3>1, <3>2
  <2>2. faults' \in 0 .. MaxFaults
    BY <1>0, <1>1, FaultType
  <2> QED
    BY <1>0, <1>1, <2>1, <2>2, EndType DEF ClientData
<1>2. ASSUME NEW c \in Callers, Begin(c) PROVE ClientData'
  <2>1. PICK kind \in Script[calls + 1], p \in Paths, v \in Values, started \in BOOLEAN :
          call' = [call EXCEPT ![c] = Request(kind,
                     IF kind \in {"get", "set"} THEN p ELSE NoPath,
                     IF kind = "set" THEN v ELSE NoValue, started, calls + 1)]
    BY <1>2 DEF Begin
  <2>2. calls \in Nat /\ calls + 1 \in 1 .. MaxCalls
    BY <1>0, <1>2, CountType DEF Begin, ClientData, Numbers
  <2>3. Script[calls + 1] \subseteq AllKinds
    BY <2>2, ScriptAssumption DEF MaxCalls
  <2>4. calls' \in Numbers /\ calls' = calls + 1
    BY <1>2, <2>2, CountType DEF Begin, Numbers
  <2>5. Request(kind, IF kind \in {"get", "set"} THEN p ELSE NoPath,
                IF kind = "set" THEN v ELSE NoValue, started, calls + 1) \in Requests
    BY <2>3, <2>4, NothingAssumption DEF Request, Requests
  <2>6. NoOutcome \in Outcomes
    BY CountType DEF NoOutcome, Ended, Outcomes, Numbers
  <2> QED
    BY <1>0, <1>2, <2>1, <2>4, <2>5, <2>6 DEF Begin, ClientData
<1>3. ASSUME NEW c \in Callers, Lock(c) \/ Tick(c) PROVE ClientData'
  BY <1>0, <1>3 DEF Lock, Tick, ClientData
<1>4. ASSUME NEW c \in Callers, NEW how \in {"ok", "failed", "expired", "denied"},
             Break(c, how), Fault \/ NoFault
      PROVE  ClientData'
  BY <1>1, <1>4 DEF Break, CloseSocket
<1>5. ASSUME NEW c \in Callers, Refuse(c) \/ SendBreaks(c) PROVE ClientData'
  <2>1. CASE Refuse(c)
    <3>1. CASE Break(c, IF call[c].started THEN "expired" ELSE "failed")
      BY <1>4, <2>1, <3>1 DEF Refuse
    <3>2. CASE End(c, "failed") /\ UNCHANGED <<sock, pending>>
      BY <1>1, <2>1, <3>2 DEF Refuse
    <3> QED
      BY <2>1, <3>1, <3>2 DEF Refuse
  <2>2. CASE SendBreaks(c)
    BY <1>1, <2>2 DEF SendBreaks
  <2> QED
    BY <1>5, <2>1, <2>2
<1>6. ASSUME NEW c \in Callers, Send(c) PROVE ClientData'
  <2>1. CASE End(c, "ok") /\ pending' = Append(pending, call[c])
    <3>1. pending' \in Seq(Requests)
      BY <1>0, <2>1 DEF ClientData
    <3> QED
      BY <1>0, <1>6, <2>1, <3>1, EndType DEF Send, ClientData
  <2>2. CASE /\ at' = [at EXCEPT ![c] = "reading"]
             /\ UNCHANGED <<pending, lock, call, hour, outcome, calls>>
    BY <1>0, <1>6, <2>2 DEF Send, ClientData
  <2> QED
    BY <1>6, <2>1, <2>2 DEF Send
<1>7. ASSUME NEW c \in Callers, Close(c) \/ CannotConnect(c) PROVE ClientData'
  BY <1>1, <1>7 DEF Close, CannotConnect, CloseSocket, NoFault
<1>8. ASSUME NEW c \in Callers, Connect(c) PROVE ClientData'
  BY <1>0, <1>8 DEF Connect, ClientData, Requests
<1>9. ASSUME NEW c \in Callers, ReadBreaks(c) \/ ReadNonsense(c) PROVE ClientData'
  BY <1>4, <1>9 DEF ReadBreaks, ReadNonsense
<1>10. ASSUME NEW c \in Callers, ReadEcho(c) PROVE ClientData'
  BY <1>0, <1>10 DEF ReadEcho, IsEcho, ClientData
<1>11. ASSUME NEW c \in Callers, ReadAnswer(c) PROVE ClientData'
  <2>1. PICK line \in NextLine(c) :
          /\ (pending' = pending \/ pending' = <<>>)
          /\ \/ Finish(c, Ended("ok", line.value, line.of))
             \/ /\ at' = [at EXCEPT ![c] = "more"]
                /\ UNCHANGED <<lock, call, hour, outcome, calls>>
    BY <1>11 DEF ReadAnswer
  <2>2. line \in Lines
    BY <1>0 DEF NextLine, UnitData
  <2>3. Ended("ok", line.value, line.of) \in Outcomes
    BY <2>2 DEF Ended, Outcomes, Lines
  <2>4. UNCHANGED <<sock, faults>> /\ pending' \in Seq(Requests)
    BY <1>0, <1>11, <2>1 DEF ReadAnswer, ClientData
  <2>5. CASE Finish(c, Ended("ok", line.value, line.of))
    BY <1>0, <2>3, <2>4, <2>5, FinishType DEF ClientData
  <2>6. CASE /\ at' = [at EXCEPT ![c] = "more"]
             /\ UNCHANGED <<lock, call, hour, outcome, calls>>
    BY <1>0, <2>4, <2>6 DEF ClientData
  <2> QED
    BY <2>1, <2>5, <2>6
<1>12. ASSUME UNCHANGED <<client, threads>>, Fault \/ NoFault PROVE ClientData'
  BY <1>0, <1>12, FaultType DEF ClientData
<1>13. ASSUME Unit \/ Finished \/ UNCHANGED vars PROVE ClientData'
  BY <1>12, <1>13 DEF Unit, Serve, SendEcho, Misbehave, Drop, OtherWriter,
     Finished, vars, NoFault
<1> QED
  BY <1>2, <1>3, <1>5, <1>6, <1>7, <1>8, <1>9, <1>10, <1>11, <1>13 DEF Next, Client

LEMMA UnitDataStep ==
  ASSUME SessionOK, [Next]_vars PROVE UnitData'
<1> USE DEF client, threads, unit, history, LinesLost
<1>0. ClientData /\ UnitData
  BY Parts DEF SessionOK
<1>1. ASSUME UNCHANGED <<value, toUnit>>, owed' = owed \/ owed' = <<>>,
             lines' = lines \/ lines' = <<>>
      PROVE  UnitData'
  <2>1. owed' \in Seq(Lines)
    BY <1>0, <1>1, KeptOrEmpty DEF UnitData
  <2>2. lines' \in Seq(Lines)
    BY <1>0, <1>1, KeptOrEmpty DEF UnitData
  <2> QED
    BY <1>0, <1>1, <2>1, <2>2, Zenon DEF UnitData
<1>2. ASSUME NEW c \in Callers, Begin(c) \/ Lock(c) \/ Tick(c) \/ Refuse(c) PROVE UnitData'
  BY <1>1, <1>2 DEF Begin, Lock, Tick, Refuse, Break, CloseSocket
<1>3. ASSUME NEW k \in 1 .. MaxCalls, NEW r \in Requests
      PROVE  [toUnit EXCEPT ![k] = Append(@, r)] \in [1 .. MaxCalls -> Seq(Requests)]
  BY <1>0 DEF UnitData
<1>4. ASSUME NEW c \in Callers, SendBreaks(c) \/ Send(c) PROVE UnitData'
  <2>1. sock # 0
    BY <1>4 DEF SendBreaks, Send
  <2>2. sock \in 1 .. MaxCalls
    BY <1>0, <2>1, CountType DEF ClientData, Numbers
  <2>3. \/ toUnit' = toUnit
        \/ toUnit' = [toUnit EXCEPT ![sock] = Append(@, call[c])]
        \/ toUnit' = [toUnit EXCEPT ![sock] = @]
    BY <1>4, Zenon DEF SendBreaks, Send
  <2>4. call[c] \in Requests
    BY <1>0 DEF ClientData
  <2>5. toUnit \in [1 .. MaxCalls -> Seq(Requests)]
    BY <1>0 DEF UnitData
  <2>6. toUnit' \in [1 .. MaxCalls -> Seq(Requests)]
    BY <1>3, <2>2, <2>3, <2>4, <2>5
  <2>7. owed' = owed \/ owed' = <<>>
    BY <1>4 DEF SendBreaks, Send
  <2>8. lines' = lines \/ lines' = <<>>
    BY <1>4 DEF SendBreaks, Send
  <2>9. value' = value
    BY <1>4 DEF SendBreaks, Send
  <2>10. owed' \in Seq(Lines)
    BY <1>0, <2>7, KeptOrEmpty DEF UnitData
  <2>11. lines' \in Seq(Lines)
    BY <1>0, <2>8, KeptOrEmpty DEF UnitData
  <2> QED
    BY <1>0, <2>6, <2>9, <2>10, <2>11, Zenon DEF UnitData
<1>5. ASSUME NEW c \in Callers, Close(c) \/ CannotConnect(c) PROVE UnitData'
  BY <1>1, <1>5 DEF Close, CannotConnect, CloseSocket
<1>6. ASSUME NEW c \in Callers, Connect(c) PROVE UnitData'
  <2>1. <<call[c]>> \in Seq(Requests)
    BY <1>0 DEF ClientData
  <2>2. toUnit' \in [1 .. MaxCalls -> Seq(Requests)]
    BY <1>0, <1>6, <2>1 DEF Connect, UnitData
  <2>3. value' = value /\ owed' = <<>> /\ lines' = <<>>
    BY <1>6 DEF Connect
  <2>4. <<>> \in Seq(Lines)
    OBVIOUS
  <2> QED
    BY <1>0, <2>2, <2>3, <2>4, Zenon DEF UnitData
<1>7. ASSUME NEW c \in Callers, ReadBreaks(c) \/ ReadNonsense(c) PROVE UnitData'
  BY <1>1, <1>7 DEF ReadBreaks, ReadNonsense, Break, CloseSocket
<1>8. ASSUME NEW c \in Callers, ReadEcho(c) \/ ReadAnswer(c) PROVE UnitData'
  <2>1. lines # <<>> /\ lines' = Tail(lines) /\ UNCHANGED <<value, toUnit, owed>>
    BY <1>8 DEF ReadEcho, ReadAnswer, NextLine
  <2>2. lines' \in Seq(Lines)
    BY <1>0, <2>1, TailElements DEF UnitData
  <2> QED
    BY <1>0, <2>1, <2>2, Zenon DEF UnitData
<1>9. ASSUME NEW k \in 1 .. MaxCalls, Serve(k) PROVE UnitData'
  <2> DEFINE r == Head(toUnit[k])
  <2>0. toUnit \in [1 .. MaxCalls -> Seq(Requests)] /\ toUnit[k] \in Seq(Requests)
    BY <1>0 DEF UnitData
  <2>1. r \in Requests /\ toUnit' \in [1 .. MaxCalls -> Seq(Requests)]
    <3>1. toUnit[k] # <<>> /\ toUnit' = [toUnit EXCEPT ![k] = Tail(@)]
      BY <1>9 DEF Serve
    <3> QED
      BY <2>0, <3>1, TailElements
  <2>2. CASE r.kind = "set"
    <3>1. \A kind \in {"set", "setr"} : Line(kind, r, r.value) \in Lines
      BY <2>1, LineType DEF LineKinds, Requests
    <3>2. owed' \in Seq(Lines) /\ lines' = lines
      <4>1. /\ lines' = lines
            /\ \/ owed' = owed
               \/ \E kind \in {"set", "setr"} : owed' = Append(owed, Line(kind, r, r.value))
        BY <1>9, <2>2, Zenon DEF Serve
      <4>2. owed \in Seq(Lines)
        BY <1>0 DEF UnitData
      <4> QED
        BY <3>1, <4>1, <4>2, AppendElements
    <3>3. value' \in [Paths -> Values]
      BY <1>0, <1>9, <2>1, <2>2 DEF Serve, UnitData, Requests
    <3> QED
      BY <1>0, <2>1, <3>2, <3>3 DEF UnitData
  <2>3. CASE r.kind # "set"
    <3>1. Answer(r) \in Seq(Lines)
      BY <1>0, <2>1, AnswerType DEF UnitData
    <3>2. lines' \in Seq(Lines) /\ UNCHANGED <<value, owed>>
      <4>1. (lines' = lines \o Answer(r) \/ lines' = lines) /\ UNCHANGED <<value, owed>>
        BY <1>9, <2>3, Zenon DEF Serve
      <4>2. lines \in Seq(Lines)
        BY <1>0 DEF UnitData
      <4> QED
        BY <3>1, <4>1, <4>2, ConcatElements
    <3> QED
      BY <1>0, <2>1, <3>2 DEF UnitData
  <2> QED
    BY <2>2, <2>3
<1>10. CASE SendEcho
  BY <1>0, <1>10 DEF SendEcho, UnitData
<1>11. CASE Misbehave
  <2>1. \A r \in Requests : Line("error", r, NoValue) \in Lines
    BY LineType DEF LineKinds
  <2>2. Line("noise", NoRequest, NoValue) \in Lines
    BY CountType DEF Line, NoRequest, Request, Lines, LineKinds, Numbers
  <2>3. CASE lines' = Append(lines, Line("noise", NoRequest, NoValue)) /\ UNCHANGED toUnit
    BY <1>0, <1>11, <2>2, <2>3 DEF Misbehave, UnitData
  <2>4. CASE /\ toUnit[sock] # <<>>
             /\ toUnit' = [toUnit EXCEPT ![sock] = Tail(@)]
             /\ lines' = Append(lines, Line("error", Head(toUnit[sock]), NoValue))
    <3>1. sock # 0
      BY <1>11 DEF Misbehave, SessionOK, Closed
    <3>2. sock \in 1 .. MaxCalls
      BY <1>0, <3>1, CountType DEF ClientData, Numbers
    <3> QED
      BY <1>0, <1>11, <2>1, <2>4, <3>2 DEF Misbehave, UnitData
  <2> QED
    BY <1>11, <2>3, <2>4 DEF Misbehave
<1>12. CASE Drop \/ OtherWriter
  <2>1. CASE Drop
    <3>1. lines' = lines \/ lines' = <<>>
      BY <2>1 DEF Drop
    <3>2. lines' \in Seq(Lines)
      BY <1>0, <3>1, KeptOrEmpty DEF UnitData
    <3>3. toUnit' \in [1 .. MaxCalls -> Seq(Requests)]
      <4>1. toUnit' = toUnit \/ toUnit' = [toUnit EXCEPT ![sock] = <<>>]
        BY <2>1 DEF Drop
      <4>2. toUnit \in [1 .. MaxCalls -> Seq(Requests)] /\ <<>> \in Seq(Requests)
        BY <1>0 DEF UnitData
      <4> QED
        BY <4>1, <4>2
    <3>4. owed' \in Seq(Lines) /\ value' = value
      BY <2>1 DEF Drop
    <3> QED
      BY <3>2, <3>3, <3>4, <1>0, Zenon DEF UnitData
  <2>2. CASE OtherWriter
    BY <1>0, <2>2 DEF OtherWriter, UnitData
  <2> QED
    BY <1>12, <2>1, <2>2
<1>13. CASE Finished \/ UNCHANGED vars
  BY <1>1, <1>13 DEF Finished, vars
<1> QED
  BY <1>2, <1>4, <1>5, <1>6, <1>7, <1>8, <1>9, <1>10, <1>11, <1>12, <1>13
     DEF Next, Client, Unit

\* Who has the lock is in an exchange, and calls have numbers of their own.
Turns ==
  /\ \A c \in Callers : lock = c <=> at[c] \in {"locked", "reading", "more"}
  /\ \A c \in Callers : at[c] # "idle" => call[c].of # 0
  /\ \A c \in Callers : call[c].of <= calls
  /\ \A c, d \in Callers : call[c].of = call[d].of /\ call[c].of # 0 => c = d

\* An action of a caller that has the lock: its call goes on, or it ends.
LEMMA TakesTurns ==
  ASSUME ClientData, NEW c \in Callers, Client(c)
  PROVE  \/ Lock(c)
         \/ /\ at[c] \in {"locked", "reading", "more"}
            /\ UNCHANGED <<call, calls>>
            /\ \/ /\ lock' = NoCaller /\ at' = [at EXCEPT ![c] = "idle"]
               \/ /\ lock' = lock
                  /\ at' = [at EXCEPT ![c] = "reading"] \/ at' = [at EXCEPT ![c] = "more"]
               \/ UNCHANGED <<lock, at>>
<1> USE DEF threads
<1>1. CASE Refuse(c) \/ SendBreaks(c) \/ Send(c) \/ Close(c)
  BY <1>1 DEF Refuse, SendBreaks, Send, Close, Break, End, Finish
<1>2. CASE CannotConnect(c) \/ Connect(c)
  BY <1>2 DEF CannotConnect, Connect, End, Finish
<1>3. CASE ReadBreaks(c) \/ ReadNonsense(c)
  <2>1. Reading(c)
    BY <1>3 DEF ReadBreaks, ReadNonsense, NextLine
  <2> QED
    BY <1>3, <2>1 DEF ReadBreaks, ReadNonsense, Break, End, Finish, Reading
<1>4. CASE ReadEcho(c) \/ ReadAnswer(c)
  <2>1. Reading(c)
    BY <1>4 DEF ReadEcho, ReadAnswer, NextLine
  <2> QED
    BY <1>4, <2>1 DEF ReadEcho, ReadAnswer, Finish, Reading
<1> QED
  BY <1>1, <1>2, <1>3, <1>4 DEF Client

LEMMA TurnsStep ==
  ASSUME TypeOK, Turns, [Next]_vars PROVE Turns'
<1> USE DEF threads
<1>0. ClientData
  BY Parts
<1>1. ASSUME NEW c \in Callers, Begin(c) PROVE Turns'
  <2>1. /\ at[c] = "idle" /\ at' = [at EXCEPT ![c] = "waiting"]
        /\ calls' = calls + 1 /\ lock' = lock
    BY <1>1 DEF Begin
  <2>2. \E r : call' = [call EXCEPT ![c] = r] /\ r.of = calls + 1
    <3>1. PICK kind \in Script[calls + 1], p \in Paths, v \in Values, started \in BOOLEAN :
            call' = [call EXCEPT ![c] = Request(kind,
                       IF kind \in {"get", "set"} THEN p ELSE NoPath,
                       IF kind = "set" THEN v ELSE NoValue, started, calls + 1)]
      BY <1>1 DEF Begin
    <3> DEFINE r == Request(kind, IF kind \in {"get", "set"} THEN p ELSE NoPath,
                            IF kind = "set" THEN v ELSE NoValue, started, calls + 1)
    <3>2. r.of = calls + 1
      BY DEF Request
    <3> HIDE DEF r
    <3> QED
      BY <3>1, <3>2 DEF r
  <2>3. calls \in Nat /\ \A d \in Callers : call[d].of \in Nat
    BY <1>0, CountType DEF ClientData, Numbers, Requests
  <2>4. /\ call'[c].of = calls + 1
        /\ \A d \in Callers : d # c => call'[d] = call[d] /\ at'[d] = at[d]
        /\ at'[c] = "waiting"
    BY <1>0, <2>1, <2>2 DEF ClientData
  <2>5. \A d \in Callers : call'[d].of <= calls'
    BY <2>1, <2>3, <2>4 DEF Turns
  <2>6. \A d, f \in Callers : call'[d].of = call'[f].of /\ call'[d].of # 0 => d = f
    BY <2>3, <2>4 DEF Turns
  <2>7. \A d \in Callers : at'[d] # "idle" => call'[d].of # 0
    BY <2>3, <2>4 DEF Turns
  <2>8. \A d \in Callers : lock' = d <=> at'[d] \in {"locked", "reading", "more"}
    BY <2>1, <2>4 DEF Turns
  <2> QED
    BY <2>5, <2>6, <2>7, <2>8 DEF Turns
<1>2. ASSUME NEW c \in Callers, Lock(c) PROVE Turns'
  <2>1. /\ at[c] = "waiting" /\ lock = NoCaller /\ lock' = c
        /\ at' = [at EXCEPT ![c] = "locked"] /\ UNCHANGED <<call, calls>>
    BY <1>2 DEF Lock
  <2>2. \A d \in Callers : at[d] \notin {"locked", "reading", "more"}
    BY <2>1, CallerAssumption DEF Turns
  <2> QED
    BY <1>0, <2>1, <2>2 DEF Turns, ClientData
<1>3. ASSUME NEW c \in Callers, Client(c), ~Lock(c) PROVE Turns'
  <2>1. at[c] \in {"locked", "reading", "more"} /\ UNCHANGED <<call, calls>>
    BY <1>0, <1>3, TakesTurns
  <2>2. lock = c /\ call[c].of # 0
    BY <2>1 DEF Turns
  <2>3. CASE lock' = NoCaller /\ at' = [at EXCEPT ![c] = "idle"]
    BY <1>0, <2>1, <2>2, <2>3, CallerAssumption DEF Turns, ClientData
  <2>4. CASE /\ lock' = lock
             /\ at' = [at EXCEPT ![c] = "reading"] \/ at' = [at EXCEPT ![c] = "more"]
    BY <1>0, <2>1, <2>2, <2>4 DEF Turns, ClientData
  <2>5. CASE UNCHANGED <<lock, at>>
    BY <2>1, <2>5 DEF Turns
  <2> QED
    BY <1>0, <1>3, <2>3, <2>4, <2>5, TakesTurns
<1>4. ASSUME UNCHANGED <<lock, call, at, calls>> PROVE Turns'
  BY <1>4 DEF Turns
<1>5. ASSUME NEW c \in Callers, Tick(c) PROVE Turns'
  BY <1>4, <1>5 DEF Tick
<1>6. CASE Unit \/ Finished \/ UNCHANGED vars
  BY <1>4, <1>6 DEF Unit, Serve, SendEcho, Misbehave, Drop, OtherWriter,
     Finished, vars
<1> QED
  BY <1>1, <1>2, <1>3, <1>5, <1>6 DEF Next

LEMMA ClosedStep ==
  ASSUME SessionOK, Turns, [Next]_vars PROVE Closed'
<1> USE DEF client, threads, unit, history, LinesLost
<1>0. ClientData /\ UnitData /\ Closed
  BY Parts DEF SessionOK
<1>1. ASSUME UNCHANGED <<sock, pending, lines, owed, up>> PROVE Closed'
  BY <1>0, <1>1 DEF Closed
<1>2. ASSUME CloseSocket PROVE Closed'
  BY <1>2 DEF CloseSocket, Closed
<1>3. ASSUME NEW c \in Callers, Begin(c) \/ Lock(c) \/ Tick(c) \/ Refuse(c) PROVE Closed'
  BY <1>1, <1>2, <1>3 DEF Begin, Lock, Tick, Refuse, Break
<1>4. ASSUME NEW c \in Callers, SendBreaks(c) \/ Send(c) \/ Connect(c) PROVE Closed'
  <2>1. CASE SendBreaks(c)
    BY <2>1 DEF SendBreaks, Closed
  <2>2. CASE Send(c)
    BY <2>2 DEF Send, Closed
  <2>3. CASE Connect(c)
    <3>1. up' /\ pending' = <<>> /\ lines' = <<>> /\ owed' = <<>> /\ sock' = call[c].of
      BY <2>3 DEF Connect
    <3>2. call[c].of # 0
      BY <2>3 DEF Connect, Turns
    <3> QED
      BY <3>1, <3>2 DEF Closed
  <2> QED
    BY <1>4, <2>1, <2>2, <2>3
<1>5. ASSUME NEW c \in Callers, Close(c) \/ CannotConnect(c) PROVE Closed'
  BY <1>1, <1>2, <1>5 DEF Close, CannotConnect
<1>6. ASSUME NEW c \in Callers, ReadBreaks(c) \/ ReadNonsense(c) PROVE Closed'
  BY <1>2, <1>6 DEF ReadBreaks, ReadNonsense, Break
<1>7. ASSUME NEW c \in Callers, ReadEcho(c) \/ ReadAnswer(c) PROVE Closed'
  <2>1. lines # <<>> /\ UNCHANGED sock
    BY <1>7 DEF ReadEcho, ReadAnswer, NextLine
  <2> QED
    BY <1>0, <2>1 DEF Closed
<1>8. ASSUME NEW k \in 1 .. MaxCalls, Serve(k) PROVE Closed'
  <2>1. CASE sock = 0
    <3>1. ~up
      BY <1>0, <2>1 DEF Closed
    <3>2. UNCHANGED <<sock, pending, up, lines, owed>>
      BY <1>8, <3>1 DEF Serve
    <3> QED
      BY <1>1, <3>2
  <2>2. CASE sock # 0
    BY <1>8, <2>2 DEF Serve, Closed
  <2> QED
    BY <2>1, <2>2
<1>9. CASE SendEcho \/ Misbehave \/ Drop
  <2>1. sock # 0 /\ sock' = sock
    BY <1>0, <1>9 DEF SendEcho, Misbehave, Drop, Closed
  <2> QED
    BY <2>1 DEF Closed
<1>10. CASE OtherWriter \/ Finished \/ UNCHANGED vars
  BY <1>1, <1>10 DEF OtherWriter, Finished, vars
<1> QED
  BY <1>3, <1>4, <1>5, <1>6, <1>7, <1>8, <1>9, <1>10 DEF Next, Client, Unit

LEMMA TurnsInvariant == Spec => [](SessionOK /\ Turns)
<1>1. Init => SessionOK /\ Turns
  <2>1. Init => Closed
    BY DEF Init, Closed
  <2>2. Init => Turns
    BY CallerAssumption DEF Init, Turns, NoRequest, Request
  <2> QED
    BY <2>1, <2>2, TypeInit DEF SessionOK
<1>2. SessionOK /\ Turns /\ [Next]_vars => (SessionOK /\ Turns)'
  <2> SUFFICES ASSUME SessionOK, Turns, [Next]_vars PROVE (SessionOK /\ Turns)'
    OBVIOUS
  <2>1. TypeOK
    BY DEF SessionOK
  <2>2. (Flags /\ ClientData /\ UnitData)'
    BY <2>1, FlagsStep, ClientDataStep, UnitDataStep
  <2>3. TypeOK'
    BY <2>2 DEF TypeOK, Flags, ClientData, UnitData
  <2> QED
    BY <2>1, <2>3, ClosedStep, TurnsStep DEF SessionOK
<1> QED
  BY <1>1, <1>2, PTL DEF Spec

\* Every variable stays in its range, and close leaves nothing behind of the
\* session: no echo still expected, no line still buffered.
THEOREM SessionsAreSound == Spec => []SessionOK
BY TurnsInvariant, PTL

-----------------------------------------------------------------------------
(* Exchanges *)

Answers == {"banner", "login", "get", "ls", "entry", "endls"}
Endings == {"login", "get", "endls"}

OnlySets(requests) == \A i \in DOMAIN requests : requests[i].kind = "set"
NoAnswer(ls) == \A i \in DOMAIN ls : ls[i].kind \notin Answers

\* The request of the exchange under way is the last the unit has to read, and
\* until it was read there are no answers; the answers there are belong to the
\* exchange, and the one that ends it is the last.
Exchange ==
  /\ \A c \in Callers : Reading(c) => sock # 0
  /\ \A i \in DOMAIN owed : owed[i].kind \in {"set", "setr"}
  /\ \A i \in DOMAIN lines : lines[i].kind \in Answers =>
       \E c \in Callers : Reading(c) /\ lines[i].of = call[c].of
  /\ \A i, j \in DOMAIN lines :
       i < j /\ lines[i].kind \in Endings => lines[j].kind \notin Answers
  /\ sock # 0 => \A i \in DOMAIN toUnit[sock] :
       \/ toUnit[sock][i].kind = "set"
       \/ /\ i = Len(toUnit[sock])
          /\ \E c \in Callers : at[c] = "reading" /\ toUnit[sock][i] = call[c]
  /\ sock # 0 => NoAnswer(lines) \/ OnlySets(toUnit[sock])

\* Between exchanges nothing is left of one.
LEMMA Quiet ==
  ASSUME Exchange, \A c \in Callers : ~Reading(c)
  PROVE  /\ NoAnswer(lines)
         /\ sock # 0 => OnlySets(toUnit[sock])
BY DEF Exchange, NoAnswer, OnlySets, Reading

\* Who has the lock is the only one to read.
LEMMA OneReader ==
  ASSUME Turns, NEW c \in Callers, at[c] \in {"locked", "reading", "more"}
  PROVE  \A d \in Callers : Reading(d) => d = c
<1>1. lock = c
  BY DEF Turns
<1>2. \A d \in Callers : Reading(d) => lock = d
  BY DEF Turns, Reading
<1> QED
  BY <1>1, <1>2

\* An exchange that fails takes all that is left of it away.
LEMMA ExchangeFails ==
  ASSUME TypeOK, Turns, NEW c \in Callers, at[c] \in {"locked", "reading", "more"},
         sock' = 0, LinesLost, at' = [at EXCEPT ![c] = "idle"]
  PROVE  Exchange'
<1>1. \A d \in Callers : ~Reading(d)'
  BY OneReader DEF Reading, TypeOK
<1>2. lines' = <<>> /\ owed' = <<>>
  BY DEF LinesLost
<1>3. NoAnswer(lines')
  BY <1>2 DEF NoAnswer
<1> QED
  BY <1>1, <1>2 DEF Exchange

\* The first line is read.
LEMMA LineRead ==
  ASSUME TypeOK, Exchange, lines # <<>>, lines' = Tail(lines)
  PROVE  /\ \A i \in DOMAIN lines' : i + 1 \in DOMAIN lines /\ lines'[i] = lines[i + 1]
         /\ \A i, j \in DOMAIN lines' :
              i < j /\ lines'[i].kind \in Endings => lines'[j].kind \notin Answers
         /\ NoAnswer(lines) => NoAnswer(lines')
         /\ Head(lines).kind \in Endings => NoAnswer(lines')
         /\ 1 \in DOMAIN lines /\ Head(lines) = lines[1]
<1>1. lines \in Seq(Lines)
  BY DEF TypeOK
<1>2. /\ \A i \in DOMAIN lines' : i + 1 \in DOMAIN lines /\ lines'[i] = lines[i + 1]
      /\ 1 \in DOMAIN lines /\ Head(lines) = lines[1]
  BY <1>1, TailElements
<1>3. DOMAIN lines' \subseteq Nat \ {0}
  BY <1>1
<1>4. \A i, j \in DOMAIN lines' :
        i < j /\ lines'[i].kind \in Endings => lines'[j].kind \notin Answers
  <2> SUFFICES ASSUME NEW i \in DOMAIN lines', NEW j \in DOMAIN lines', i < j,
                      lines'[i].kind \in Endings
               PROVE  lines'[j].kind \notin Answers
    OBVIOUS
  <2>1. i + 1 < j + 1
    BY <1>3
  <2> QED
    BY <1>2, <2>1 DEF Exchange
<1>5. NoAnswer(lines) => NoAnswer(lines')
  BY <1>2 DEF NoAnswer
<1>6. Head(lines).kind \in Endings => NoAnswer(lines')
  <2> SUFFICES ASSUME Head(lines).kind \in Endings, NEW i \in DOMAIN lines'
               PROVE  lines'[i].kind \notin Answers
    BY DEF NoAnswer
  <2>1. 1 < i + 1
    BY <1>3
  <2> QED
    BY <1>2, <2>1 DEF Exchange
<1> QED
  BY <1>2, <1>4, <1>5, <1>6

\* A request is read by the unit.
LEMMA RequestRead ==
  ASSUME TypeOK, Exchange, sock # 0, toUnit[sock] # <<>>,
         toUnit' = [toUnit EXCEPT ![sock] = Tail(@)], UNCHANGED <<sock, at, call>>
  PROVE  /\ \A i \in DOMAIN toUnit'[sock] :
              \/ toUnit'[sock][i].kind = "set"
              \/ /\ i = Len(toUnit'[sock])
                 /\ \E c \in Callers : at[c] = "reading" /\ toUnit'[sock][i] = call[c]
         /\ OnlySets(toUnit[sock]) => OnlySets(toUnit'[sock])
         /\ \/ Head(toUnit[sock]).kind = "set"
            \/ /\ toUnit'[sock] = <<>>
               /\ \E c \in Callers : at[c] = "reading" /\ Head(toUnit[sock]) = call[c]
<1>1. sock \in 1 .. MaxCalls /\ toUnit \in [1 .. MaxCalls -> Seq(Requests)]
  BY CountType DEF TypeOK, Numbers
<1> DEFINE q == toUnit[sock]
<1>2. q \in Seq(Requests) /\ toUnit'[sock] = Tail(q)
  BY <1>1
<1>3. /\ Len(Tail(q)) = Len(q) - 1
      /\ 1 \in DOMAIN q /\ Head(q) = q[1]
      /\ \A i \in DOMAIN Tail(q) : i + 1 \in DOMAIN q /\ Tail(q)[i] = q[i + 1]
  BY <1>2, TailElements
<1>4. Len(q) \in Nat /\ DOMAIN Tail(q) \subseteq Nat
  BY <1>2
<1>5. \A i \in DOMAIN q : \/ q[i].kind = "set"
                          \/ /\ i = Len(q)
                             /\ \E c \in Callers : at[c] = "reading" /\ q[i] = call[c]
  BY DEF Exchange
<1>6. \A i \in DOMAIN Tail(q) : i + 1 = Len(q) => i = Len(Tail(q))
  BY <1>3, <1>4
<1>7. Len(q) = 1 => Tail(q) = <<>>
  BY <1>2, <1>3
<1>8. \A i \in DOMAIN Tail(q) :
        \/ Tail(q)[i].kind = "set"
        \/ /\ i = Len(Tail(q))
           /\ \E c \in Callers : at[c] = "reading" /\ Tail(q)[i] = call[c]
  <2> SUFFICES ASSUME NEW i \in DOMAIN Tail(q), Tail(q)[i].kind # "set"
               PROVE  /\ i = Len(Tail(q))
                      /\ \E c \in Callers : at[c] = "reading" /\ Tail(q)[i] = call[c]
    OBVIOUS
  <2>1. i + 1 \in DOMAIN q /\ Tail(q)[i] = q[i + 1]
    BY <1>3
  <2> QED
    BY <1>5, <1>6, <2>1, Zenon
<1>9. OnlySets(q) => OnlySets(Tail(q))
  BY <1>3 DEF OnlySets
<1>10. \/ Head(q).kind = "set"
       \/ /\ Tail(q) = <<>>
          /\ \E c \in Callers : at[c] = "reading" /\ Head(q) = call[c]
  BY <1>3, <1>5, <1>7, Zenon
<1> QED
  BY <1>2, <1>8, <1>9, <1>10

\* What is under way stays, and so do those who read.
LEMMA ExchangeGoesOn ==
  ASSUME Exchange, UNCHANGED <<sock, owed, lines, toUnit>>,
         \A d \in Callers : Reading(d)' <=> Reading(d),
         \A d \in Callers : Reading(d) => at'[d] = at[d] /\ call'[d] = call[d]
  PROVE  Exchange'
BY DEF Exchange, Reading, NoAnswer, OnlySets

\* The same when nobody reads, and an exchange without lines ends.
LEMMA ExchangeIdle ==
  ASSUME Exchange, UNCHANGED <<sock, owed, lines, toUnit>>,
         \A d \in Callers : ~Reading(d), \A d \in Callers : ~Reading(d)'
  PROVE  Exchange'
BY Quiet DEF Exchange, NoAnswer, OnlySets

LEMMA ExchangeStarts ==
  ASSUME TypeOK, Turns, Exchange, NEW c \in Callers,
         Begin(c) \/ Lock(c) \/ Tick(c) \/ Send(c) \/ Connect(c)
  PROVE  Exchange'
<1> USE DEF client, threads, unit, history
<1>0. /\ at \in [Callers -> Places] /\ call \in [Callers -> Requests]
      /\ sock \in Numbers /\ toUnit \in [1 .. MaxCalls -> Seq(Requests)]
  BY DEF TypeOK, Places
<1>1. CASE Begin(c) \/ Lock(c)
  <2>1. /\ UNCHANGED <<sock, owed, lines, toUnit>>
        /\ at[c] \in {"idle", "waiting"}
        /\ at' = [at EXCEPT ![c] = "waiting"] \/ at' = [at EXCEPT ![c] = "locked"]
        /\ \A d \in Callers : d # c => call'[d] = call[d]
    BY <1>0, <1>1 DEF Begin, Lock
  <2>2. \A d \in Callers : Reading(d)' <=> Reading(d)
    BY <1>0, <2>1 DEF Reading
  <2>3. \A d \in Callers : Reading(d) => at'[d] = at[d] /\ call'[d] = call[d]
    BY <1>0, <2>1 DEF Reading
  <2> QED
    BY <2>1, <2>2, <2>3, ExchangeGoesOn
<1>2. CASE Tick(c)
  BY <1>2, ExchangeGoesOn DEF Tick, Reading
<1>3. CASE Send(c)
  <2>1. at[c] = "locked" /\ sock # 0 /\ UNCHANGED <<sock, owed, lines, call>>
    BY <1>3 DEF Send, End, Finish
  <2>2. \A d \in Callers : ~Reading(d)
    BY <2>1, OneReader DEF Reading
  <2>3. NoAnswer(lines) /\ OnlySets(toUnit[sock])
    BY <2>1, <2>2, Quiet
  <2>4. sock \in 1 .. MaxCalls
    BY <1>0, <2>1, CountType DEF Numbers
  <2>5. toUnit[sock] \in Seq(Requests) /\ call[c] \in Requests
    BY <1>0, <2>4
  <2>6. toUnit'[sock] = IF up THEN Append(toUnit[sock], call[c]) ELSE toUnit[sock]
    BY <1>0, <1>3, <2>4 DEF Send
  <2>7. \A j \in DOMAIN toUnit'[sock] :
          \/ toUnit'[sock][j].kind = "set"
          \/ j = Len(toUnit'[sock]) /\ toUnit'[sock][j] = call[c]
    <3>1. CASE up
      BY <2>3, <2>5, <2>6, <3>1, AppendElements DEF OnlySets
    <3>2. CASE ~up
      BY <2>3, <2>6, <3>2 DEF OnlySets
    <3> QED
      BY <3>1, <3>2
  <2>8. CASE call[c].kind = "set" /\ at' = [at EXCEPT ![c] = "idle"]
    <3>1. \A d \in Callers : ~Reading(d)'
      BY <1>0, <2>2, <2>8 DEF Reading
    <3>2. OnlySets(toUnit'[sock])
      BY <2>7, <2>8 DEF OnlySets
    <3> QED
      BY <2>1, <2>3, <3>1, <3>2 DEF Exchange, NoAnswer, OnlySets
  <2>9. CASE at' = [at EXCEPT ![c] = "reading"]
    <3>1. at'[c] = "reading"
      BY <1>0, <2>9
    <3>2. \A d \in Callers : Reading(d)' => sock # 0
      BY <2>1
    <3> QED
      BY <2>1, <2>3, <2>7, <3>1, <3>2 DEF Exchange, NoAnswer
  <2> QED
    BY <1>3, <2>8, <2>9 DEF Send, End, Finish
<1>4. CASE Connect(c)
  <2>1. /\ at[c] = "locked" /\ at' = [at EXCEPT ![c] = "reading"] /\ call' = call
        /\ sock' = call[c].of /\ owed' = <<>> /\ lines' = <<>>
        /\ toUnit' = [toUnit EXCEPT ![call[c].of] = <<call[c]>>]
    BY <1>4 DEF Connect
  <2>2. call[c].of # 0 /\ call[c].of \in Numbers
    BY <1>0, <2>1 DEF Turns, Requests
  <2>3. sock' \in 1 .. MaxCalls
    BY <2>1, <2>2, CountType DEF Numbers
  <2>4. toUnit'[sock'] = <<call[c]>> /\ at'[c] = "reading"
    BY <1>0, <2>1, <2>3
  <2>5. \A j \in DOMAIN toUnit'[sock'] : j = Len(toUnit'[sock']) /\ toUnit'[sock'][j] = call'[c]
    <3>1. LET q == <<call[c]>> IN \A j \in DOMAIN q : j = Len(q) /\ q[j] = call[c]
      OBVIOUS
    <3> QED
      BY <2>1, <2>4, <3>1
  <2>6. NoAnswer(lines')
    BY <2>1 DEF NoAnswer
  <2> QED
    BY <2>1, <2>2, <2>4, <2>5, <2>6 DEF Exchange
<1> QED
  BY <1>1, <1>2, <1>3, <1>4

LEMMA ExchangeEnds ==
  ASSUME TypeOK, Turns, Exchange, NEW c \in Callers,
         \/ Refuse(c) \/ SendBreaks(c) \/ Close(c) \/ CannotConnect(c)
         \/ ReadBreaks(c) \/ ReadNonsense(c)
  PROVE  Exchange'
<1>1. at[c] \in {"locked", "reading", "more"}
  BY DEF Refuse, SendBreaks, Close, CannotConnect, ReadBreaks, ReadNonsense,
     NextLine, Reading
<1>2. at' = [at EXCEPT ![c] = "idle"]
  BY DEF Refuse, SendBreaks, Close, CannotConnect, ReadBreaks, ReadNonsense,
     Break, End, Finish
<1>3. CASE sock' = 0 /\ LinesLost
  BY <1>1, <1>2, <1>3, ExchangeFails
<1>4. CASE at[c] = "locked" /\ UNCHANGED <<client, unit>>
  <2>1. \A d \in Callers : ~Reading(d)
    BY <1>4, OneReader DEF Reading
  <2>2. \A d \in Callers : ~Reading(d)'
    BY <1>2, <2>1 DEF Reading, TypeOK
  <2> QED
    BY <1>4, <2>1, <2>2, ExchangeIdle DEF client, unit
<1> QED
  BY <1>3, <1>4 DEF Refuse, SendBreaks, Close, CannotConnect, ReadBreaks,
     ReadNonsense, Break, CloseSocket

\* What a caller reads.
LEMMA ExchangeReads ==
  ASSUME TypeOK, Turns, Exchange, NEW c \in Callers, ReadEcho(c) \/ ReadAnswer(c)
  PROVE  /\ Exchange'
         /\ \A line \in NextLine(c) : Fits(c, line) => line.of = call[c].of
<1> USE DEF client, threads, unit, history
<1>0. at \in [Callers -> Places]
  BY DEF TypeOK, Places
<1>1. /\ Reading(c) /\ lines # <<>> /\ lines' = Tail(lines)
      /\ UNCHANGED <<sock, owed, toUnit, call>> /\ NextLine(c) = {Head(lines)}
  BY DEF ReadEcho, ReadAnswer, NextLine, Finish
<1>2. \A d \in Callers : Reading(d) => d = c
  BY <1>1, OneReader DEF Reading
<1>3. sock # 0
  BY <1>1 DEF Exchange
<1>4. /\ \A k \in DOMAIN lines' : k + 1 \in DOMAIN lines /\ lines'[k] = lines[k + 1]
      /\ \A k, j \in DOMAIN lines' :
           k < j /\ lines'[k].kind \in Endings => lines'[j].kind \notin Answers
      /\ NoAnswer(lines) => NoAnswer(lines')
      /\ Head(lines).kind \in Endings => NoAnswer(lines')
      /\ 1 \in DOMAIN lines /\ Head(lines) = lines[1]
  BY <1>1, LineRead
<1>5. \A k \in DOMAIN lines : lines[k].kind \in Answers => lines[k].of = call[c].of
  BY <1>2 DEF Exchange
<1>6. Fits(c, Head(lines)) => Head(lines).kind \in Answers
  BY DEF Fits, Answers
<1>7. CASE UNCHANGED at
  <2>1. \A d \in Callers : Reading(d)' <=> Reading(d)
    BY <1>7 DEF Reading
  <2>2. \A k \in DOMAIN lines' : lines'[k].kind \in Answers => lines'[k].of = call[c].of
    BY <1>4, <1>5
  <2> QED
    BY <1>1, <1>3, <1>4, <1>5, <1>6, <1>7, <2>1, <2>2
       DEF Exchange, NoAnswer, OnlySets
<1>8. CASE ReadAnswer(c) /\ Completes(Head(lines)) /\ at' = [at EXCEPT ![c] = "idle"]
  <2>1. Fits(c, Head(lines)) /\ Head(lines).kind \in Endings
    BY <1>1, <1>8 DEF ReadAnswer, Completes, Endings
  <2>2. NoAnswer(lines') /\ OnlySets(toUnit[sock])
    BY <1>3, <1>4, <1>6, <2>1 DEF Exchange, NoAnswer
  <2>3. \A d \in Callers : ~Reading(d)'
    BY <1>0, <1>2, <1>8 DEF Reading
  <2> QED
    BY <1>1, <1>4, <1>5, <1>6, <2>2, <2>3 DEF Exchange, NoAnswer, OnlySets
<1>9. CASE ReadAnswer(c) /\ at' = [at EXCEPT ![c] = "more"]
  <2>1. Fits(c, Head(lines))
    BY <1>1, <1>9 DEF ReadAnswer
  <2>2. OnlySets(toUnit[sock])
    BY <1>3, <1>4, <1>6, <2>1 DEF Exchange, NoAnswer
  <2>3. \A k \in DOMAIN lines' : lines'[k].kind \in Answers => lines'[k].of = call[c].of
    BY <1>4, <1>5
  <2>4. Reading(c)'
    BY <1>0, <1>9 DEF Reading
  <2> QED
    BY <1>1, <1>3, <1>4, <1>5, <1>6, <2>2, <2>3, <2>4 DEF Exchange, NoAnswer, OnlySets
<1>10. CASE ReadEcho(c)
  BY <1>7, <1>10 DEF ReadEcho
<1>11. CASE ReadAnswer(c)
  <2>1. \/ Completes(Head(lines)) /\ at' = [at EXCEPT ![c] = "idle"]
        \/ at' = [at EXCEPT ![c] = "more"]
    BY <1>1, <1>11 DEF ReadAnswer, Finish
  <2> QED
    BY <1>8, <1>9, <1>11, <2>1
<1> QED
  BY <1>10, <1>11

\* A line that answers nothing comes in.
LEMMA LineAdded ==
  ASSUME TypeOK, Exchange, NEW line \in Lines, line.kind \notin Answers,
         lines' = Append(lines, line)
  PROVE  /\ \A j \in DOMAIN lines' : lines'[j].kind \in Answers =>
              j \in DOMAIN lines /\ lines'[j] = lines[j]
         /\ \A j, k \in DOMAIN lines' :
              j < k /\ lines'[j].kind \in Endings => lines'[k].kind \notin Answers
         /\ NoAnswer(lines) => NoAnswer(lines')
<1>0. lines \in Seq(Lines)
  BY DEF TypeOK
<1>1. \A j \in DOMAIN lines' : lines'[j].kind \in Answers =>
        j \in DOMAIN lines /\ lines'[j] = lines[j]
  BY <1>0, AppendElements
<1>2. \A k \in Endings : k \in Answers
  BY DEF Endings, Answers
<1>3. \A j, k \in DOMAIN lines' :
        j < k /\ lines'[j].kind \in Endings => lines'[k].kind \notin Answers
  <2> SUFFICES ASSUME NEW j \in DOMAIN lines', NEW k \in DOMAIN lines', j < k,
                      lines'[j].kind \in Endings, lines'[k].kind \in Answers
               PROVE  FALSE
    OBVIOUS
  <2>1. /\ j \in DOMAIN lines /\ lines'[j] = lines[j]
        /\ k \in DOMAIN lines /\ lines'[k] = lines[k]
    BY <1>1, <1>2
  <2> QED
    BY <2>1 DEF Exchange
<1>4. NoAnswer(lines) => NoAnswer(lines')
  BY <1>1 DEF NoAnswer
<1> QED
  BY <1>1, <1>3, <1>4

\* The unit answers a request of the exchange under way.
LEMMA AnswerSent ==
  ASSUME TypeOK, Exchange, NEW r \in Requests, r.kind # "set", NoAnswer(lines),
         lines' = lines \o Answer(r)
  PROVE  /\ \A j \in DOMAIN lines' : lines'[j].kind \in Answers => lines'[j].of = r.of
         /\ \A j, k \in DOMAIN lines' :
              j < k /\ lines'[j].kind \in Endings => lines'[k].kind \notin Answers
<1> DEFINE a == Answer(r)
<1>0. lines \in Seq(Lines) /\ value \in [Paths -> Values]
  BY DEF TypeOK
<1>1. a \in Seq(Lines)
  BY <1>0, AnswerType
<1>2. \A j \in DOMAIN a : a[j].of = r.of
  BY DEF Answer, Line
<1>3. \A j \in DOMAIN a : a[j].kind \in Endings => j = Len(a)
  BY DEF Answer, Line, Endings
<1>4. \A j \in DOMAIN lines' :
        \/ j \in DOMAIN lines /\ lines'[j] = lines[j]
        \/ j - Len(lines) \in DOMAIN a /\ lines'[j] = a[j - Len(lines)] /\ j > Len(lines)
  BY <1>0, <1>1, ConcatElements
<1>5. \A j \in DOMAIN lines' : lines'[j].kind \in Answers =>
        j - Len(lines) \in DOMAIN a /\ lines'[j] = a[j - Len(lines)]
  BY <1>4 DEF NoAnswer
<1> HIDE DEF a
<1>6. \A j \in DOMAIN lines' : lines'[j].kind \in Answers => lines'[j].of = r.of
  BY <1>2, <1>5
<1>7. \A j, k \in DOMAIN lines' :
        j < k /\ lines'[j].kind \in Endings => lines'[k].kind \notin Answers
  <2> SUFFICES ASSUME NEW j \in DOMAIN lines', NEW k \in DOMAIN lines', j < k,
                      lines'[j].kind \in Endings, lines'[k].kind \in Answers
               PROVE  FALSE
    OBVIOUS
  <2>1. lines'[j].kind \in Answers
    BY DEF Endings, Answers
  <2>2. j - Len(lines) = Len(a) /\ k - Len(lines) \in DOMAIN a
    BY <1>3, <1>5, <2>1
  <2>3. j \in Nat /\ k \in Nat /\ Len(lines) \in Nat
    BY <1>0, <1>1, ConcatElements DEF a
  <2> QED
    BY <1>1, <2>2, <2>3
<1> QED
  BY <1>6, <1>7

LEMMA ExchangeServed ==
  ASSUME TypeOK, Exchange, NEW n \in 1 .. MaxCalls, Serve(n) PROVE Exchange'
<1> USE DEF client, threads, unit, history
<1>0. /\ sock \in Numbers /\ toUnit \in [1 .. MaxCalls -> Seq(Requests)]
      /\ owed \in Seq(Lines)
  BY DEF TypeOK
<1>1. /\ toUnit[n] # <<>> /\ toUnit' = [toUnit EXCEPT ![n] = Tail(@)]
      /\ UNCHANGED <<sock, at, call>>
  BY DEF Serve
<1> DEFINE r == Head(toUnit[n])
<1>2. r \in Requests
  BY <1>0, <1>1, TailElements
<1>3. \A d \in Callers : Reading(d)' <=> Reading(d)
  BY <1>1 DEF Reading
<1>4. \A j \in DOMAIN owed' : owed'[j].kind \in {"set", "setr"}
  <2>1. \/ owed' = owed
        \/ \E kind \in {"set", "setr"} :
             r.kind = "set" /\ owed' = Append(owed, Line(kind, r, r.value))
    BY Zenon DEF Serve
  <2>2. ASSUME NEW kind \in {"set", "setr"}, r.kind = "set",
               owed' = Append(owed, Line(kind, r, r.value))
        PROVE  \A j \in DOMAIN owed' : owed'[j].kind \in {"set", "setr"}
    <3>1. Line(kind, r, r.value) \in Lines
      BY <1>2, <2>2, LineType DEF LineKinds, Requests
    <3>2. Line(kind, r, r.value).kind = kind
      BY DEF Line
    <3> QED
      BY <1>0, <2>2, <3>1, <3>2, AppendElements DEF Exchange
  <2> QED
    BY <2>1, <2>2 DEF Exchange
<1>5. CASE n # sock
  <2>1. lines' = lines /\ (sock # 0 => toUnit'[sock] = toUnit[sock])
    <3>1. lines' = lines
      BY <1>5, Zenon DEF Serve
    <3> QED
      BY <1>0, <1>1, <1>5, <3>1, CountType DEF Numbers
  <2>2. sock # 0 => \A i \in DOMAIN toUnit'[sock] :
          \/ toUnit'[sock][i].kind = "set"
          \/ /\ i = Len(toUnit'[sock])
             /\ \E c \in Callers : at[c] = "reading" /\ toUnit'[sock][i] = call[c]
    BY <2>1 DEF Exchange
  <2>3. sock # 0 => NoAnswer(lines') \/ OnlySets(toUnit'[sock])
    BY <2>1 DEF Exchange
  <2>4. \A i \in DOMAIN lines' : lines'[i].kind \in Answers =>
          \E c \in Callers : Reading(c)' /\ lines'[i].of = call'[c].of
    BY <1>1, <1>3, <2>1 DEF Exchange
  <2>5. /\ \A c \in Callers : Reading(c)' => sock' # 0
        /\ \A i, j \in DOMAIN lines' :
             i < j /\ lines'[i].kind \in Endings => lines'[j].kind \notin Answers
    BY <1>1, <1>3, <2>1 DEF Exchange
  <2>6. sock' = sock /\ at' = at /\ call' = call
    BY <1>1
  <2>7. sock' # 0 => \A i \in DOMAIN toUnit'[sock'] :
          \/ toUnit'[sock'][i].kind = "set"
          \/ /\ i = Len(toUnit'[sock'])
             /\ \E c \in Callers : at'[c] = "reading" /\ toUnit'[sock'][i] = call'[c]
    BY <2>2, <2>6
  <2>8. sock' # 0 => NoAnswer(lines') \/ OnlySets(toUnit'[sock'])
    BY <2>3, <2>6
  <2> QED
    BY <1>4, <2>4, <2>5, <2>7, <2>8, Zenon DEF Exchange
<1>6. CASE n = sock
  <2>0. sock # 0
    BY <1>6, CountType
  <2>1. /\ \A i \in DOMAIN toUnit'[sock] :
             \/ toUnit'[sock][i].kind = "set"
             \/ /\ i = Len(toUnit'[sock])
                /\ \E c \in Callers : at[c] = "reading" /\ toUnit'[sock][i] = call[c]
        /\ OnlySets(toUnit[sock]) => OnlySets(toUnit'[sock])
        /\ \/ r.kind = "set"
           \/ /\ toUnit'[sock] = <<>>
              /\ \E c \in Callers : at[c] = "reading" /\ r = call[c]
    BY <1>1, <1>6, <2>0, RequestRead
  <2>2. CASE lines' = lines
    BY <1>1, <1>3, <1>4, <2>0, <2>1, <2>2 DEF Exchange, NoAnswer
  <2>3. CASE r.kind # "set" /\ lines' = lines \o Answer(r)
    <3>1. PICK c \in Callers : at[c] = "reading" /\ r = call[c]
      BY <2>1, <2>3
    <3>2. ~OnlySets(toUnit[sock])
      BY <1>0, <1>1, <1>6, <2>3, TailElements DEF OnlySets
    <3>3. NoAnswer(lines)
      BY <2>0, <3>2 DEF Exchange
    <3>4. /\ \A j \in DOMAIN lines' : lines'[j].kind \in Answers => lines'[j].of = r.of
          /\ \A j, k \in DOMAIN lines' :
               j < k /\ lines'[j].kind \in Endings => lines'[k].kind \notin Answers
      BY <1>2, <2>3, <3>3, AnswerSent
    <3>5. OnlySets(toUnit'[sock])
      BY <2>1, <2>3 DEF OnlySets
    <3>6. Reading(c)
      BY <3>1 DEF Reading
    <3> QED
      BY <1>1, <1>3, <1>4, <2>0, <2>1, <3>1, <3>4, <3>5, <3>6 DEF Exchange
  <2>4. lines' = lines \/ (r.kind # "set" /\ lines' = lines \o Answer(r))
    BY Zenon DEF Serve
  <2> QED
    BY <2>2, <2>3, <2>4
<1> QED
  BY <1>5, <1>6

LEMMA ExchangeDisturbed ==
  ASSUME SessionOK, Exchange, SendEcho \/ Misbehave \/ Drop \/ OtherWriter
  PROVE  Exchange'
<1> USE DEF client, threads, unit, history
<1>0. /\ TypeOK /\ Closed /\ sock \in Numbers /\ owed \in Seq(Lines)
      /\ toUnit \in [1 .. MaxCalls -> Seq(Requests)]
  BY DEF SessionOK, TypeOK
<1>1. UNCHANGED <<sock, at, call>>
  BY DEF SendEcho, Misbehave, Drop, OtherWriter
<1>2. \A d \in Callers : Reading(d)' <=> Reading(d)
  BY <1>1 DEF Reading
<1>3. ASSUME NEW line \in Lines, line.kind \notin Answers, lines' = Append(lines, line),
             \A j \in DOMAIN owed' : owed'[j].kind \in {"set", "setr"},
             toUnit' = toUnit \/ (/\ sock # 0 /\ toUnit[sock] # <<>>
                                  /\ toUnit' = [toUnit EXCEPT ![sock] = Tail(@)])
      PROVE  Exchange'
  <2>1. /\ \A j \in DOMAIN lines' : lines'[j].kind \in Answers =>
             j \in DOMAIN lines /\ lines'[j] = lines[j]
        /\ \A j, k \in DOMAIN lines' :
             j < k /\ lines'[j].kind \in Endings => lines'[k].kind \notin Answers
        /\ NoAnswer(lines) => NoAnswer(lines')
    BY <1>0, <1>3, LineAdded
  <2>2. sock # 0 =>
          /\ \A i \in DOMAIN toUnit'[sock] :
               \/ toUnit'[sock][i].kind = "set"
               \/ /\ i = Len(toUnit'[sock])
                  /\ \E c \in Callers : at[c] = "reading" /\ toUnit'[sock][i] = call[c]
          /\ OnlySets(toUnit[sock]) => OnlySets(toUnit'[sock])
    <3>1. CASE toUnit' = toUnit
      BY <3>1 DEF Exchange
    <3>2. CASE /\ sock # 0 /\ toUnit[sock] # <<>>
               /\ toUnit' = [toUnit EXCEPT ![sock] = Tail(@)]
      BY <1>0, <1>1, <3>2, RequestRead
    <3> QED
      BY <1>3, <3>1, <3>2
  <2> QED
    BY <1>1, <1>2, <1>3, <2>1, <2>2 DEF Exchange
<1>4. CASE SendEcho
  <2>1. Head(owed) \in Lines /\ Head(owed).kind \in {"set", "setr"}
    BY <1>0, <1>4, TailElements DEF SendEcho, Exchange
  <2>2. \A j \in DOMAIN owed' : owed'[j].kind \in {"set", "setr"}
    <3>1. owed # <<>> /\ owed' = Tail(owed)
      BY <1>4 DEF SendEcho
    <3> QED
      BY <1>0, <3>1, TailElements DEF Exchange
  <2>3. Head(owed).kind \notin Answers
    BY <2>1 DEF Answers
  <2> QED
    BY <1>3, <1>4, <2>1, <2>2, <2>3 DEF SendEcho
<1>5. CASE Misbehave
  <2>0. sock # 0
    BY <1>0, <1>5 DEF Misbehave, Closed
  <2>1. \A j \in DOMAIN owed' : owed'[j].kind \in {"set", "setr"}
    BY <1>5 DEF Misbehave, Exchange
  <2>2. CASE lines' = Append(lines, Line("noise", NoRequest, NoValue)) /\ toUnit' = toUnit
    <3> DEFINE x == Line("noise", NoRequest, NoValue)
    <3>1. x \in Lines
      BY CountType DEF Line, NoRequest, Request, Lines, LineKinds, Numbers
    <3>2. x.kind \notin Answers
      BY DEF Line, Answers
    <3> QED
      BY <1>3, <2>1, <2>2, <3>1, <3>2
  <2>3. CASE /\ toUnit[sock] # <<>>
             /\ toUnit' = [toUnit EXCEPT ![sock] = Tail(@)]
             /\ lines' = Append(lines, Line("error", Head(toUnit[sock]), NoValue))
    <3> DEFINE x == Line("error", Head(toUnit[sock]), NoValue)
    <3>1. Head(toUnit[sock]) \in Requests
      BY <1>0, <2>0, <2>3, TailElements, CountType DEF Numbers
    <3>2. x \in Lines
      BY <3>1, LineType DEF LineKinds
    <3>3. x.kind \notin Answers
      BY DEF Line, Answers
    <3> QED
      BY <1>3, <2>0, <2>1, <2>3, <3>2, <3>3
  <2> QED
    BY <1>5, <2>2, <2>3 DEF Misbehave
<1>6. CASE Drop
  <2>0. sock # 0
    BY <1>0, <1>6 DEF Drop, Closed
  <2>1. /\ owed' = <<>> /\ (lines' = lines \/ lines' = <<>>)
        /\ toUnit' = toUnit \/ toUnit' = [toUnit EXCEPT ![sock] = <<>>]
    BY <1>6 DEF Drop
  <2>2. toUnit'[sock] = toUnit[sock] \/ toUnit'[sock] = <<>>
    BY <1>0, <2>0, <2>1, CountType DEF Numbers
  <2>3. \A j \in DOMAIN lines' : j \in DOMAIN lines /\ lines'[j] = lines[j]
    BY <2>1
  <2>4. \A j \in DOMAIN toUnit'[sock] : toUnit'[sock] = toUnit[sock]
    BY <2>2
  <2> QED
    BY <1>1, <1>2, <2>1, <2>3, <2>4 DEF Exchange, NoAnswer, OnlySets
<1>7. CASE OtherWriter
  BY <1>1, <1>2, <1>7, ExchangeGoesOn DEF OtherWriter
<1> QED
  BY <1>4, <1>5, <1>6, <1>7

LEMMA ExchangeInvariant == Spec => []Exchange
<1>1. Init => Exchange
  BY DEF Init, Exchange, Reading, NoAnswer
<1>2. SessionOK /\ Turns /\ Exchange /\ [Next]_vars => Exchange'
  <2> SUFFICES ASSUME SessionOK, Turns, Exchange, [Next]_vars PROVE Exchange'
    OBVIOUS
  <2>1. TypeOK
    BY DEF SessionOK
  <2>2. CASE UNCHANGED vars
    BY <2>2, ExchangeGoesOn DEF vars, client, threads, unit, Reading
  <2>3. CASE Finished
    BY <2>2, <2>3 DEF Finished
  <2>4. ASSUME NEW c \in Callers, Begin(c) \/ Client(c) \/ Tick(c) PROVE Exchange'
    BY <2>1, <2>4, ExchangeStarts, ExchangeEnds, ExchangeReads DEF Client
  <2>5. CASE Unit
    BY <2>1, <2>5, ExchangeServed, ExchangeDisturbed DEF Unit
  <2> QED
    BY <2>2, <2>3, <2>4, <2>5 DEF Next
<1> QED
  BY TurnsInvariant, <1>1, <1>2, PTL DEF Spec

\* An exchange that failed closed the session, so that an open one owes nothing
\* but acknowledgements of sets once nobody reads from it.
THEOREM QuietWhenUnlocked == Spec => []QuietBetweenCalls
<1>1. SessionOK /\ Turns /\ Exchange => QuietBetweenCalls
  <2> SUFFICES ASSUME SessionOK, Turns, Exchange, lock = NoCaller, sock # 0
               PROVE  /\ \A i \in DOMAIN lines :
                           lines[i].kind \in {"set", "setr", "error", "noise"}
                      /\ \A i \in DOMAIN toUnit[sock] : toUnit[sock][i].kind = "set"
    BY DEF QuietBetweenCalls
  <2>1. \A c \in Callers : ~Reading(c)
    BY CallerAssumption DEF Turns, Reading
  <2>2. NoAnswer(lines) /\ OnlySets(toUnit[sock])
    BY <2>1, Quiet
  <2>3. \A i \in DOMAIN lines : lines[i].kind \in LineKinds
    <3>1. \A i \in DOMAIN lines : lines[i] \in Lines
      BY DEF SessionOK, TypeOK
    <3> QED
      BY <3>1 DEF Lines
  <2> QED
    BY <2>2, <2>3 DEF NoAnswer, OnlySets, LineKinds, Answers
<1> QED
  BY TurnsInvariant, ExchangeInvariant, <1>1, PTL

-----------------------------------------------------------------------------
(* Results *)

\* A result is that of the last call, which is over.
Results ==
  \A c \in Callers : outcome[c].how # "none" =>
    outcome[c].of = call[c].of /\ call[c].of # 0 /\ at[c] = "idle"

LEMMA ResultsStep ==
  ASSUME SessionOK, Turns, Exchange, Results, [Next]_vars PROVE Results'
<1> USE DEF threads
<1>0. /\ TypeOK /\ at \in [Callers -> Places] /\ call \in [Callers -> Requests]
      /\ outcome \in [Callers -> Outcomes]
  BY DEF SessionOK, TypeOK, Places
<1>1. ASSUME UNCHANGED <<at, call, outcome>> PROVE Results'
  BY <1>1 DEF Results
<1>2. ASSUME NEW c \in Callers, Begin(c) PROVE Results'
  <2>1. \A d \in Callers : d # c => /\ call'[d] = call[d] /\ at'[d] = at[d]
                                    /\ outcome'[d] = outcome[d]
    BY <1>0, <1>2 DEF Begin
  <2>2. outcome'[c].how = "none"
    BY <1>0, <1>2 DEF Begin, NoOutcome, Ended
  <2> QED
    BY <2>1, <2>2 DEF Results
<1>3. ASSUME NEW c \in Callers, at[c] # "idle", UNCHANGED <<call, outcome>>,
             \E q \in Places : at' = [at EXCEPT ![c] = q]
      PROVE  Results'
  BY <1>0, <1>3 DEF Results
<1>4. ASSUME NEW c \in Callers, Lock(c) \/ Tick(c) \/ Connect(c) PROVE Results'
  BY <1>1, <1>3, <1>4 DEF Lock, Tick, Connect, Places
<1>5. ASSUME NEW c \in Callers, NEW r, r.of = call[c].of, at[c] # "idle", Finish(c, r)
      PROVE  Results'
  BY <1>0, <1>5 DEF Finish, Results, Turns
<1>6. ASSUME NEW c \in Callers, NEW how, at[c] # "idle", End(c, how) PROVE Results'
  BY <1>5, <1>6 DEF End, Ended
<1>7. ASSUME NEW c \in Callers, Refuse(c) \/ SendBreaks(c) \/ Close(c) \/ CannotConnect(c)
      PROVE  Results'
  BY <1>6, <1>7 DEF Refuse, SendBreaks, Close, CannotConnect, Break
<1>8. ASSUME NEW c \in Callers, Send(c) PROVE Results'
  BY <1>3, <1>6, <1>8 DEF Send, Places
<1>9. ASSUME NEW c \in Callers, ReadBreaks(c) \/ ReadNonsense(c) PROVE Results'
  BY <1>6, <1>9 DEF ReadBreaks, ReadNonsense, Break, NextLine, Reading
<1>10. ASSUME NEW c \in Callers, ReadEcho(c) PROVE Results'
  BY <1>1, <1>10 DEF ReadEcho
<1>11. ASSUME NEW c \in Callers, ReadAnswer(c) PROVE Results'
  <2>1. PICK line \in NextLine(c) :
          /\ Fits(c, line)
          /\ \/ Finish(c, Ended("ok", line.value, line.of))
             \/ /\ at' = [at EXCEPT ![c] = "more"]
                /\ UNCHANGED <<call, outcome>>
    BY <1>11 DEF ReadAnswer
  <2>2. at[c] # "idle" /\ line.of = call[c].of
    BY <1>0, <1>11, <2>1, ExchangeReads DEF NextLine, Reading
  <2>3. Ended("ok", line.value, line.of).of = call[c].of
    BY <2>2 DEF Ended
  <2> QED
    BY <1>3, <1>5, <2>1, <2>2, <2>3 DEF Places
<1>12. CASE Unit \/ Finished \/ UNCHANGED vars
  BY <1>1, <1>12 DEF Unit, Serve, SendEcho, Misbehave, Drop, OtherWriter,
     Finished, vars
<1> QED
  BY <1>2, <1>4, <1>7, <1>8, <1>9, <1>10, <1>11, <1>12 DEF Next, Client

LEMMA ResultsInvariant == Spec => []Results
<1>1. Init => Results
  BY DEF Init, Results, NoOutcome, Ended
<1> QED
  BY TurnsInvariant, ExchangeInvariant, ResultsStep, <1>1, PTL DEF Spec

\* Whatever echoes, errors and other lines come in between, late or out of turn:
\* a call that returns, returns with the answer to its own request.
THEOREM AnswersBelong == Spec => []AnswerIsOwn
<1>1. Results => AnswerIsOwn
  BY DEF Results, AnswerIsOwn
<1> QED
  BY ResultsInvariant, <1>1, PTL

-----------------------------------------------------------------------------
(* Requests on their way *)

InTransit(n) ==
  \E k \in 1 .. MaxCalls : \E i \in DOMAIN toUnit[k] : toUnit[k][i].of = n

\* A caller gives a request away when it sends it or logs in.
GivesAway(c) == SendBreaks(c) \/ Send(c) \/ Connect(c)

\* A caller that gives a request away adds only its own.
LEMMA TransitGiven ==
  ASSUME SessionOK, NEW n, InTransit(n)', NEW c \in Callers, GivesAway(c)
  PROVE  InTransit(n) \/ call[c].of = n
<1>0. /\ TypeOK /\ sock \in Numbers /\ call \in [Callers -> Requests]
      /\ toUnit \in [1 .. MaxCalls -> Seq(Requests)]
  BY DEF SessionOK, TypeOK
<1>a. PICK k \in 1 .. MaxCalls : \E i \in DOMAIN toUnit'[k] : toUnit'[k][i].of = n
  BY DEF InTransit
<1>1. PICK i \in DOMAIN toUnit'[k] : toUnit'[k][i].of = n
  BY <1>a
<1>2. ASSUME toUnit'[k] = toUnit[k] PROVE InTransit(n)
  BY <1>1, <1>2 DEF InTransit
<1>4. ASSUME toUnit'[k] = Append(toUnit[k], call[c])
      PROVE  InTransit(n) \/ call[c].of = n
  <2>1. toUnit[k] \in Seq(Requests) /\ call[c] \in Requests
    BY <1>0
  <2>2. \/ i \in DOMAIN toUnit[k] /\ toUnit'[k][i] = toUnit[k][i]
        \/ toUnit'[k][i] = call[c]
    BY <1>1, <1>4, <2>1, AppendElements
  <2> QED
    BY <1>1, <2>2 DEF InTransit
<1>5. CASE Connect(c)
  <2>1. toUnit' = [toUnit EXCEPT ![call[c].of] = <<call[c]>>]
    BY <1>5 DEF Connect
  <2>2. CASE k = call[c].of
    <3>1. toUnit'[k] = <<call[c]>>
      BY <1>0, <2>1, <2>2
    <3>2. toUnit'[k][i] = call[c]
      BY <1>1, <3>1
    <3> QED
      BY <1>1, <3>2
  <2>3. CASE k # call[c].of
    BY <1>0, <1>2, <2>1, <2>3
  <2> QED
    BY <2>2, <2>3
<1>6. CASE SendBreaks(c) \/ Send(c)
  <2>1. \/ toUnit' = toUnit
        \/ toUnit' = [toUnit EXCEPT ![sock] = Append(@, call[c])]
        \/ toUnit' = [toUnit EXCEPT ![sock] = @]
    BY <1>6, Zenon DEF SendBreaks, Send
  <2>2. toUnit'[k] = toUnit[k] \/ toUnit'[k] = Append(toUnit[k], call[c])
    BY <1>0, <2>1
  <2> QED
    BY <1>2, <1>4, <2>2
<1> QED
  BY <1>5, <1>6 DEF GivesAway

\* No other step puts a request on its way.
LEMMA TransitStays ==
  ASSUME SessionOK, NEW n, InTransit(n)',
         \/ \E c \in Callers : Begin(c) \/ Tick(c) \/ (Client(c) /\ ~GivesAway(c))
         \/ Unit \/ Finished \/ UNCHANGED vars
  PROVE  InTransit(n)
<1> USE DEF client, threads, unit, history
<1>0. TypeOK /\ sock \in Numbers /\ toUnit \in [1 .. MaxCalls -> Seq(Requests)]
  BY DEF SessionOK, TypeOK
<1>a. PICK k \in 1 .. MaxCalls : \E i \in DOMAIN toUnit'[k] : toUnit'[k][i].of = n
  BY DEF InTransit
<1>1. PICK i \in DOMAIN toUnit'[k] : toUnit'[k][i].of = n
  BY <1>a
<1>2. ASSUME toUnit'[k] = toUnit[k] PROVE InTransit(n)
  BY <1>1, <1>2 DEF InTransit
<1>3. ASSUME toUnit[k] # <<>>, toUnit'[k] = Tail(toUnit[k]) PROVE InTransit(n)
  <2>1. i + 1 \in DOMAIN toUnit[k] /\ toUnit'[k][i] = toUnit[k][i + 1]
    BY <1>0, <1>1, <1>3, TailElements
  <2> QED
    BY <1>1, <2>1 DEF InTransit
<1>7. ASSUME NEW c \in Callers, Client(c) /\ ~GivesAway(c) PROVE InTransit(n)
  <2>1. toUnit' = toUnit
    BY <1>7 DEF Client, GivesAway, Lock, Refuse, Close, CannotConnect,
       ReadBreaks, ReadEcho, ReadAnswer, ReadNonsense, Break, CloseSocket
  <2> QED
    BY <1>2, <2>1
<1>8. ASSUME NEW c \in Callers, Begin(c) \/ Tick(c) PROVE InTransit(n)
  BY <1>2, <1>8 DEF Begin, Tick
<1>9. ASSUME NEW m \in 1 .. MaxCalls, Serve(m) PROVE InTransit(n)
  <2>1. toUnit[m] # <<>> /\ toUnit' = [toUnit EXCEPT ![m] = Tail(@)]
    BY <1>9 DEF Serve
  <2> QED
    BY <1>0, <1>2, <1>3, <2>1
<1>10. CASE Misbehave
  <2>1. \/ toUnit' = toUnit
        \/ toUnit[sock] # <<>> /\ toUnit' = [toUnit EXCEPT ![sock] = Tail(@)]
    BY <1>10 DEF Misbehave
  <2> QED
    BY <1>0, <1>2, <1>3, <2>1
<1>11. CASE Drop
  <2>1. toUnit' = toUnit \/ toUnit' = [toUnit EXCEPT ![sock] = <<>>]
    BY <1>11 DEF Drop
  <2>2. toUnit'[k] # <<>>
    BY <1>1
  <2> QED
    BY <1>0, <1>2, <2>1, <2>2
<1>12. CASE SendEcho \/ OtherWriter \/ Finished \/ UNCHANGED vars
  BY <1>2, <1>12 DEF SendEcho, OtherWriter, Finished, vars
<1> QED
  BY <1>7, <1>8, <1>9, <1>10, <1>11, <1>12 DEF Unit

\* A call that has not sent anything, or expired without, is not on its way.
Unsent ==
  /\ \A n \in Nat : InTransit(n) => n <= calls
  /\ \A c \in Callers, n \in Nat :
       /\ n = call[c].of
       /\ at[c] \in {"waiting", "locked"} \/ outcome[c].how = "expired"
       => ~InTransit(n)

LEMMA UnsentStep ==
  ASSUME SessionOK, Turns, Turns', Results, Results', Unsent, [Next]_vars PROVE Unsent'
<1> USE DEF threads
<1>0. /\ TypeOK /\ at \in [Callers -> Places] /\ call \in [Callers -> Requests]
      /\ outcome \in [Callers -> Outcomes] /\ calls \in Nat
      /\ \A c \in Callers : call[c].of \in Nat
  BY CountType DEF SessionOK, TypeOK, Places, Numbers, Requests
<1>1. ASSUME NEW c \in Callers, GivesAway(c) PROVE Unsent'
  <2>1. at[c] = "locked" /\ call[c].of # 0 /\ UNCHANGED <<call, calls>>
    BY <1>1 DEF GivesAway, SendBreaks, Send, Connect, End, Finish, Turns
  <2>2. at'[c] \notin {"waiting", "locked"} /\ outcome'[c].how # "expired"
    <3>1. outcome[c].how # "expired"
      BY <2>1 DEF Results
    <3>2. at' = [at EXCEPT ![c] = "idle"] \/ at' = [at EXCEPT ![c] = "reading"]
      BY <1>1 DEF GivesAway, SendBreaks, Send, Connect, End, Finish
    <3>3. \/ outcome' = outcome
          \/ outcome' = [outcome EXCEPT ![c] = Ended("ok", NoValue, call[c].of)]
          \/ outcome' = [outcome EXCEPT ![c] = Ended("failed", NoValue, call[c].of)]
      BY <1>1 DEF GivesAway, SendBreaks, Send, Connect, End, Finish
    <3>4. outcome'[c] \in {outcome[c], Ended("ok", NoValue, call[c].of),
                           Ended("failed", NoValue, call[c].of)}
      BY <1>0, <3>3
    <3> QED
      BY <1>0, <3>1, <3>2, <3>4 DEF Ended
  <2>3. \A d \in Callers : d # c => at'[d] = at[d] /\ outcome'[d] = outcome[d]
    BY <1>0, <1>1 DEF GivesAway, SendBreaks, Send, Connect, End, Finish
  <2>4. \A n \in Nat : InTransit(n)' => InTransit(n) \/ n = call[c].of
    BY <1>1, TransitGiven
  <2>5. \A n \in Nat : InTransit(n)' => n <= calls'
    BY <2>1, <2>4 DEF Unsent, Turns
  <2>6. ASSUME NEW d \in Callers, NEW n \in Nat, n = call'[d].of,
               at'[d] \in {"waiting", "locked"} \/ outcome'[d].how = "expired"
        PROVE  ~InTransit(n)'
    <3>1. d # c /\ n = call[d].of
      BY <2>1, <2>2, <2>6
    <3>2. n # call[c].of
      BY <2>1, <3>1 DEF Turns
    <3>3. ~InTransit(n)
      BY <2>3, <2>6, <3>1 DEF Unsent
    <3> QED
      BY <2>4, <3>2, <3>3
  <2> QED
    BY <2>5, <2>6 DEF Unsent
<1>3. ASSUME \A n \in Nat : InTransit(n)' => InTransit(n), calls' = calls,
             \A c \in Callers : call'[c] = call[c],
             \A c \in Callers :
               at'[c] \in {"waiting", "locked"} \/ outcome'[c].how = "expired" =>
                 at[c] \in {"waiting", "locked"} \/ outcome[c].how = "expired"
      PROVE  Unsent'
  BY <1>3 DEF Unsent
<1>4. ASSUME NEW c \in Callers, Begin(c) PROVE Unsent'
  <2>1. /\ calls' = calls + 1
        /\ \A d \in Callers : d # c => /\ call'[d] = call[d] /\ at'[d] = at[d]
                                       /\ outcome'[d] = outcome[d]
    BY <1>0, <1>4 DEF Begin
  <2>2. call'[c].of = calls + 1
    <3>1. PICK kind \in Script[calls + 1], p \in Paths, v \in Values, started \in BOOLEAN :
            call' = [call EXCEPT ![c] = Request(kind,
                       IF kind \in {"get", "set"} THEN p ELSE NoPath,
                       IF kind = "set" THEN v ELSE NoValue, started, calls + 1)]
      BY <1>4 DEF Begin
    <3>2. call'[c] = Request(kind, IF kind \in {"get", "set"} THEN p ELSE NoPath,
                             IF kind = "set" THEN v ELSE NoValue, started, calls + 1)
      BY <1>0, <3>1
    <3> QED
      BY <3>2 DEF Request
  <2>3. \A n \in Nat : InTransit(n)' => InTransit(n)
    BY <1>4, TransitStays
  <2>4. ~InTransit(calls + 1)
    BY <1>0 DEF Unsent
  <2>5. \A n \in Nat : InTransit(n)' => n <= calls'
    BY <1>0, <2>1, <2>3 DEF Unsent
  <2>6. ASSUME NEW d \in Callers, NEW n \in Nat, n = call'[d].of,
               at'[d] \in {"waiting", "locked"} \/ outcome'[d].how = "expired"
        PROVE  ~InTransit(n)'
    <3>1. CASE d = c
      BY <2>2, <2>3, <2>4, <2>6, <3>1
    <3>2. CASE d # c
      BY <2>1, <2>3, <2>6, <3>2 DEF Unsent
    <3> QED
      BY <3>1, <3>2
  <2> QED
    BY <2>5, <2>6 DEF Unsent
<1>5. ASSUME NEW c \in Callers, Client(c), ~GivesAway(c) PROVE Unsent'
  <2>0. \A n \in Nat : InTransit(n)' => InTransit(n)
    BY <1>5, TransitStays
  <2>1. UNCHANGED <<call, calls>>
    BY <1>0, <1>5, TakesTurns DEF Lock, SessionOK, TypeOK, ClientData
  <2>2. CASE Lock(c)
    BY <1>0, <1>3, <2>0, <2>1, <2>2 DEF Lock
  <2>3. CASE ~Lock(c) /\ at[c] = "locked"
    <3>1. \A d \in Callers : d # c => at'[d] = at[d] /\ outcome'[d] = outcome[d]
      BY <1>0, <1>5, <2>3 DEF Client, GivesAway, Refuse, Close, CannotConnect,
         ReadBreaks, ReadEcho, ReadAnswer, ReadNonsense, NextLine, Reading,
         Break, End, Finish
    <3> QED
      BY <1>3, <2>0, <2>1, <2>3, <3>1
  <2>4. CASE ReadBreaks(c) \/ ReadNonsense(c)
    <3>1. at' = [at EXCEPT ![c] = "idle"]
      BY <2>4 DEF ReadBreaks, ReadNonsense, Break, End, Finish
    <3>2. \/ outcome' = [outcome EXCEPT ![c] = Ended("failed", NoValue, call[c].of)]
          \/ outcome' = [outcome EXCEPT ![c] = Ended("denied", NoValue, call[c].of)]
      BY <2>4, Zenon DEF ReadBreaks, ReadNonsense, Break, End, Finish
    <3>3. outcome'[c] \in {Ended("failed", NoValue, call[c].of),
                           Ended("denied", NoValue, call[c].of)}
      BY <1>0, <3>2
    <3>4. \A d \in Callers : d # c => outcome'[d] = outcome[d]
      BY <1>0, <3>2
    <3> QED
      BY <1>0, <1>3, <2>0, <2>1, <3>1, <3>3, <3>4 DEF Ended
  <2>5. CASE ReadEcho(c)
    BY <1>3, <2>0, <2>1, <2>5 DEF ReadEcho
  <2>6. CASE ReadAnswer(c)
    <3>1. \/ /\ \E line : outcome' = [outcome EXCEPT ![c] = Ended("ok", line.value, line.of)]
             /\ at' = [at EXCEPT ![c] = "idle"]
          \/ at' = [at EXCEPT ![c] = "more"] /\ outcome' = outcome
      BY <2>6 DEF ReadAnswer, Finish
    <3>2. \/ outcome' = outcome
          \/ /\ outcome'[c].how = "ok"
             /\ \A d \in Callers : d # c => outcome'[d] = outcome[d]
      BY <1>0, <3>1 DEF Ended
    <3>3. \A d \in Callers : at'[d] \in {at[d], "idle", "more"}
      BY <1>0, <3>1
    <3> QED
      BY <1>3, <2>0, <2>1, <3>2, <3>3
  <2> QED
    BY <1>5, <2>2, <2>3, <2>4, <2>5, <2>6 DEF Client, GivesAway, Refuse, Close,
       CannotConnect
<1>6. CASE (\E c \in Callers : Tick(c)) \/ Unit \/ Finished \/ UNCHANGED vars
  <2>1. UNCHANGED <<call, calls, at, outcome>>
    BY <1>6 DEF Tick, Unit, Serve, SendEcho, Misbehave, Drop, OtherWriter,
       Finished, vars
  <2>2. \A n \in Nat : InTransit(n)' => InTransit(n)
    BY <1>6, TransitStays
  <2> QED
    BY <1>3, <2>1, <2>2
<1> QED
  BY <1>1, <1>4, <1>5, <1>6 DEF Next

LEMMA UnsentInvariant == Spec => []Unsent
<1>1. Init => Unsent
  BY CountType DEF Init, Unsent, InTransit, NoOutcome, Ended
<1> QED
  BY <1>1, SessionsAreSound, TurnsInvariant, ResultsInvariant, UnsentStep, PTL DEF Spec

\* A set the client reports as expired before it started is not on its way to
\* the unit, and was not: the controller may leave the outputs as they are.
THEOREM ExpiredIsUnsent == Spec => []ExpiredMeansUnsent
<1>1. SessionOK /\ Results /\ Unsent => ExpiredMeansUnsent
  <2> SUFFICES ASSUME SessionOK, Results, Unsent, NEW c \in Callers,
                      outcome[c].how = "expired", NEW k \in DOMAIN toUnit,
                      NEW i \in DOMAIN toUnit[k]
               PROVE  toUnit[k][i].of # outcome[c].of
    BY DEF ExpiredMeansUnsent
  <2>1. k \in 1 .. MaxCalls /\ call[c].of \in Nat
    BY CountType DEF SessionOK, TypeOK, Numbers, Requests
  <2>2. outcome[c].of = call[c].of
    BY DEF Results
  <2>3. ~InTransit(call[c].of)
    BY <2>1 DEF Unsent
  <2> QED
    BY <2>1, <2>2, <2>3 DEF InTransit
<1> QED
  BY <1>1, SessionsAreSound, ResultsInvariant, UnsentInvariant, PTL
=============================================================================
