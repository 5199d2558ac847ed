----------------------- MODULE HiQnetSessionContract -----------------------
(***************************************************************************)
(* HiQnetSession implements ConsoleReads under the map Ask: a get that     *)
(* returns, returns what the unit had at one instant during the call.  For *)
(* any callers, script of calls, paths and values, and any faults.         *)
(***************************************************************************)
EXTENDS HiQnetSessionProofs

-----------------------------------------------------------------------------
(* The map *)

\* Where the answer to the call of c is among the lines on their way.
Answered(c) == {j \in DOMAIN lines : lines[j].kind = "get" /\ lines[j].of = call[c].of}

\* What a caller's get is at.
AskMeans ==
  \A c \in Callers :
    /\ call[c].kind # "get" => Ask[c] = Contract!Idle
    /\ call[c].kind = "get" =>
         /\ at[c] = "idle" =>
              Ask[c] = IF outcome[c].how = "ok"
                       THEN Contract!Returned(call[c].path, outcome[c].value)
                       ELSE Contract!Idle
         /\ at[c] # "idle" /\ Answered(c) = {} => Ask[c] = Contract!Asked(call[c].path)
         /\ \A j : at[c] # "idle" /\ Answered(c) = {j} =>
              Ask[c] = Contract!Seen(call[c].path, lines[j].value)

LEMMA AskIs == AskMeans
<1> SUFFICES ASSUME NEW c \in Callers
             PROVE  /\ call[c].kind # "get" => Ask[c] = Contract!Idle
                    /\ call[c].kind = "get" =>
                         /\ at[c] = "idle" =>
                              Ask[c] = IF outcome[c].how = "ok"
                                THEN Contract!Returned(call[c].path, outcome[c].value)
                                ELSE Contract!Idle
                         /\ at[c] # "idle" /\ Answered(c) = {} =>
                              Ask[c] = Contract!Asked(call[c].path)
                         /\ \A j : at[c] # "idle" /\ Answered(c) = {j} =>
                              Ask[c] = Contract!Seen(call[c].path, lines[j].value)
  BY DEF AskMeans
<1> DEFINE mine == {lines[i] : i \in Answered(c)}
<1>1. Ask[c] = IF call[c].kind = "get"
               THEN CASE at[c] = "idle" /\ outcome[c].how = "ok" ->
                           [at |-> "returned", path |-> call[c].path,
                            value |-> outcome[c].value]
                      [] at[c] # "idle" /\ mine = {} ->
                           [at |-> "asked", path |-> call[c].path]
                      [] at[c] # "idle" /\ mine # {} ->
                           [at |-> "seen", path |-> call[c].path,
                            value |-> (CHOOSE line \in mine : TRUE).value]
                      [] OTHER -> [at |-> "idle"]
               ELSE [at |-> "idle"]
  BY DEF Ask, Answered
<1>2. Answered(c) = {} => mine = {}
  OBVIOUS
<1>3. ASSUME NEW j, Answered(c) = {j}
      PROVE  mine # {} /\ (CHOOSE line \in mine : TRUE) = lines[j]
  <2>1. mine = {lines[j]}
    BY <1>3
  <2> QED
    BY <2>1
<1> HIDE DEF mine
<1> QED
  BY <1>1, <1>2, <1>3
     DEF Contract!Idle, Contract!Asked, Contract!Seen, Contract!Returned

\* Only who reads has an answer on its way, and one.
Unique ==
  \A c \in Callers : Answered(c) # {} => Reading(c) /\ \E j : Answered(c) = {j}

LEMMA UniqueHolds ==
  ASSUME TypeOK, Turns, Exchange PROVE Unique
<1> SUFFICES ASSUME NEW c \in Callers, NEW j \in Answered(c)
             PROVE  Reading(c) /\ Answered(c) = {j}
  BY DEF Unique
<1>1. \A k \in Answered(c) : /\ k \in DOMAIN lines
                             /\ lines[k].kind \in Answers /\ lines[k].kind \in Endings
                             /\ lines[k].of = call[c].of
  BY DEF Answered, Answers, Endings
<1>2. PICK d \in Callers : Reading(d) /\ lines[j].of = call[d].of
  BY <1>1 DEF Exchange
<1>3. d = c
  BY <1>1, <1>2 DEF Turns, Reading
<1>4. ASSUME NEW k \in Answered(c) PROVE k = j
  <2>1. ~(j < k) /\ ~(k < j)
    BY <1>1, <1>4 DEF Exchange
  <2>2. j \in Nat /\ k \in Nat
    BY <1>1, <1>4 DEF TypeOK
  <2> QED
    BY <2>1, <2>2
<1> QED
  BY <1>2, <1>3, <1>4

-----------------------------------------------------------------------------
(* Steps of the map *)

\* A caller's get is where it was.
LEMMA AskStays ==
  ASSUME AskMeans, AskMeans', NEW c \in Callers,
         call'[c] = call[c], outcome'[c] = outcome[c],
         at'[c] = "idle" <=> at[c] = "idle",
         \/ Answered(c) = {} /\ Answered(c)' = {}
         \/ \E j, k : /\ Answered(c) = {j} /\ Answered(c)' = {k}
                      /\ lines[j] = lines'[k]
  PROVE  Ask'[c] = Ask[c]
BY DEF AskMeans

\* ... if it does not read, or if the lines are the same.
LEMMA AskOfOthers ==
  ASSUME AskMeans, AskMeans', Unique, Unique', NEW c \in Callers,
         call'[c] = call[c], outcome'[c] = outcome[c],
         at'[c] = "idle" <=> at[c] = "idle",
         lines' = lines \/ (~Reading(c) /\ ~Reading(c)')
  PROVE  Ask'[c] = Ask[c]
<1>1. CASE lines' = lines
  <2>1. Answered(c)' = Answered(c)
    BY <1>1 DEF Answered
  <2> QED
    BY <1>1, <2>1, AskStays DEF Unique
<1>2. CASE ~Reading(c) /\ ~Reading(c)'
  <2>1. Answered(c) = {} /\ Answered(c)' = {}
    BY <1>2 DEF Unique
  <2> QED
    BY <2>1, AskStays
<1> QED
  BY <1>1, <1>2

\* All gets are where they were.
LEMMA AllStay ==
  ASSUME \A c \in Callers : Ask'[c] = Ask[c] PROVE Ask' = Ask
BY DEF Ask

LEMMA AskStutters ==
  ASSUME \A c \in Callers : Ask'[c] = Ask[c], value' = value
  PROVE  [Contract!Next]_<<value, Ask>>
BY AllStay

\* One get moves on.
LEMMA OneMoves ==
  ASSUME NEW c \in Callers, \A d \in Callers \ {c} : Ask'[d] = Ask[d]
  PROVE  Ask' = [Ask EXCEPT ![c] = Ask'[c]]
<1>1. DOMAIN Ask = Callers /\ Ask = [d \in Callers |-> Ask[d]]
      /\ Ask' = [d \in Callers |-> Ask'[d]]
  BY DEF Ask
<1> QED
  BY <1>1


-----------------------------------------------------------------------------
(* Steps of the client *)

\* What the lemmas below know of a state.
Known == TypeOK /\ Turns /\ Exchange /\ Unique /\ AskMeans

\* A call that ends with anything but an answer to a get.
LEMMA CallEnds ==
  ASSUME Known, Known', NEW c \in Callers, at[c] \in {"locked", "reading", "more"},
         at' = [at EXCEPT ![c] = "idle"], call' = call, value' = value,
         NEW x, outcome' = [outcome EXCEPT ![c] = x],
         x.how # "ok" \/ call[c].kind # "get"
  PROVE  [Contract!Next]_<<value, Ask>>
<1> USE DEF Known
<1>1. /\ at \in [Callers -> Places] /\ outcome \in [Callers -> Outcomes]
  BY DEF TypeOK, Places
<1>2. \A d \in Callers : Reading(d) => d = c
  BY OneReader
<1>3. \A d \in Callers \ {c} : /\ at'[d] = at[d] /\ call'[d] = call[d]
                               /\ outcome'[d] = outcome[d]
                               /\ ~Reading(d) /\ ~Reading(d)'
  BY <1>1, <1>2 DEF Reading
<1>4. \A d \in Callers \ {c} : Ask'[d] = Ask[d]
  BY <1>3, AskOfOthers
<1>5. at'[c] = "idle" /\ outcome'[c] = x /\ at[c] # "idle" /\ call'[c] = call[c]
  BY <1>1
<1>6. CASE call[c].kind # "get"
  <2>1. Ask'[c] = Ask[c]
    BY <1>5, <1>6 DEF AskMeans
  <2> QED
    BY <1>4, <2>1, AskStutters
<1>7. CASE call[c].kind = "get"
  <2>1. Ask'[c] = Contract!Idle
    BY <1>5, <1>7 DEF AskMeans
  <2>2. Ask[c].at # "idle"
    <3>1. \/ Ask[c] = Contract!Asked(call[c].path)
          \/ \E j : Ask[c] = Contract!Seen(call[c].path, lines[j].value)
      BY <1>5, <1>7 DEF AskMeans, Unique
    <3>2. /\ Contract!Asked(call[c].path).at = "asked"
          /\ \A v : Contract!Seen(call[c].path, v).at = "seen"
      BY DEF Contract!Asked, Contract!Seen
    <3> QED
      BY <3>1, <3>2
  <2>3. Ask' = [Ask EXCEPT ![c] = Contract!Idle]
    BY <1>4, <2>1, OneMoves
  <2> QED
    BY <2>2, <2>3 DEF Contract!Next, Contract!GiveUp
<1> QED
  BY <1>6, <1>7

\* A call is made.
LEMMA AskBegins ==
  ASSUME Known, Known', NEW c \in Callers, Begin(c)
  PROVE  [Contract!Next]_<<value, Ask>>
<1> USE DEF Known
<1>1. /\ at \in [Callers -> Places] /\ outcome \in [Callers -> Outcomes]
      /\ call \in [Callers -> Requests]
  BY DEF TypeOK, Places
<1>2. PICK kind \in Script[calls + 1], p \in Paths, v \in Values, started \in BOOLEAN :
        call' = [call EXCEPT ![c] = Request(kind,
                   IF kind \in {"get", "set"} THEN p ELSE NoPath,
                   IF kind = "set" THEN v ELSE NoValue, started, calls + 1)]
  BY DEF Begin
<1>3. /\ at[c] = "idle" /\ at' = [at EXCEPT ![c] = "waiting"]
      /\ outcome' = [outcome EXCEPT ![c] = NoOutcome]
      /\ lines' = lines /\ value' = value
  BY DEF Begin, unit
<1>4. \A d \in Callers \ {c} : Ask'[d] = Ask[d]
  <2>1. \A d \in Callers \ {c} : /\ at'[d] = at[d] /\ call'[d] = call[d]
                                 /\ outcome'[d] = outcome[d]
    BY <1>1, <1>2, <1>3
  <2> QED
    BY <1>3, <2>1, AskOfOthers
<1>5. call'[c].kind = kind /\ (kind = "get" => call'[c].path = p)
  BY <1>1, <1>2 DEF Request
<1>6. at'[c] = "waiting" /\ Answered(c)' = {}
  BY <1>1, <1>3 DEF Unique, Reading
<1>7. \/ Ask[c] = Contract!Idle
      \/ Ask[c] = Contract!Returned(call[c].path, outcome[c].value)
  BY <1>3 DEF AskMeans
<1>8. Ask[c].at \in {"idle", "returned"} /\ (Ask[c].at = "idle" => Ask[c] = Contract!Idle)
  BY <1>7 DEF Contract!Idle, Contract!Returned
<1>9. CASE kind = "get"
  <2>1. Ask'[c] = Contract!Asked(p)
    BY <1>5, <1>6, <1>9 DEF AskMeans
  <2>2. Ask' = [Ask EXCEPT ![c] = Contract!Asked(p)]
    BY <1>4, <2>1, OneMoves
  <2> QED
    BY <1>3, <1>8, <2>2 DEF Contract!Next, Contract!Call
<1>10. CASE kind # "get"
  <2>1. Ask'[c] = Contract!Idle
    BY <1>5, <1>10 DEF AskMeans
  <2>2. CASE Ask[c].at = "idle"
    BY <1>3, <1>4, <1>8, <2>1, <2>2, AskStutters
  <2>3. CASE Ask[c].at # "idle"
    <3>1. Ask' = [Ask EXCEPT ![c] = Contract!Idle]
      BY <1>4, <2>1, OneMoves
    <3> QED
      BY <1>3, <2>3, <3>1 DEF Contract!Next, Contract!GiveUp
  <2> QED
    BY <2>2, <2>3
<1> QED
  BY <1>9, <1>10

\* An answer is read: a get returns with what its answer says, or more is read
\* of something else.
LEMMA AnswerRead ==
  ASSUME Known, Known', NEW c \in Callers, ReadAnswer(c)
  PROVE  [Contract!Next]_<<value, Ask>>
<1> USE DEF Known
<1>0. /\ at \in [Callers -> Places] /\ outcome \in [Callers -> Outcomes]
      /\ lines \in Seq(Lines)
  BY DEF TypeOK, Places
<1> DEFINE line == Head(lines)
<1>1. /\ Reading(c) /\ lines # <<>> /\ NextLine(c) = {line}
      /\ call' = call /\ value' = value
  BY DEF ReadAnswer, NextLine, Finish
<1>2. /\ Fits(c, line)
      /\ \/ /\ Completes(line)
            /\ outcome' = [outcome EXCEPT ![c] = Ended("ok", line.value, line.of)]
            /\ at' = [at EXCEPT ![c] = "idle"]
         \/ /\ ~Completes(line)
            /\ at' = [at EXCEPT ![c] = "more"] /\ outcome' = outcome
  BY <1>1 DEF ReadAnswer, Finish
<1>3. at[c] \in {"locked", "reading", "more"}
  BY <1>1 DEF Reading
<1>4. \A d \in Callers \ {c} : ~Reading(d) /\ ~Reading(d)'
  BY <1>0, <1>2, <1>3, OneReader DEF Reading
<1>5. \A d \in Callers \ {c} : Ask'[d] = Ask[d]
  <2>1. \A d \in Callers \ {c} : /\ at'[d] = at[d] /\ call'[d] = call[d]
                                 /\ outcome'[d] = outcome[d]
    BY <1>0, <1>1, <1>2
  <2> QED
    BY <1>4, <2>1, AskOfOthers
<1>6. CASE call[c].kind # "get"
  <2>1. Ask'[c] = Ask[c]
    BY <1>1, <1>6 DEF AskMeans
  <2> QED
    BY <1>1, <1>5, <2>1, AskStutters
<1>7. CASE call[c].kind = "get"
  <2>1. line.kind = "get" /\ Completes(line)
    BY <1>2, <1>7 DEF Fits, Logging, Completes
  <2>2. 1 \in DOMAIN lines /\ line = lines[1] /\ line.of = call[c].of
    <3>1. 1 \in DOMAIN lines /\ line = lines[1]
      BY <1>0, <1>1, TailElements
    <3> QED
      BY <1>1, <1>2, <3>1, ExchangeReads
  <2>3. Answered(c) = {1}
    BY <2>1, <2>2 DEF Unique, Answered
  <2>4. Ask[c] = Contract!Seen(call[c].path, line.value)
    BY <1>3, <1>7, <2>2, <2>3 DEF AskMeans
  <2>5. /\ at'[c] = "idle" /\ outcome'[c].how = "ok" /\ outcome'[c].value = line.value
        /\ call'[c] = call[c]
    BY <1>0, <1>1, <1>2, <2>1 DEF Ended
  <2>6. Ask'[c] = Contract!Returned(call[c].path, line.value)
    BY <1>7, <2>5 DEF AskMeans
  <2>7. /\ Ask[c].at = "seen" /\ Ask[c].path = call[c].path
        /\ Ask[c].value = line.value
    BY <2>4 DEF Contract!Seen
  <2>8. Ask' = [Ask EXCEPT ![c] = Contract!Returned(Ask[c].path, Ask[c].value)]
    BY <1>5, <2>6, <2>7, OneMoves
  <2> QED
    BY <1>1, <2>7, <2>8 DEF Contract!Next, Contract!Return
<1> QED
  BY <1>6, <1>7

\* An acknowledgement is read: answers move up.
LEMMA EchoRead ==
  ASSUME Known, Known', NEW c \in Callers, ReadEcho(c)
  PROVE  [Contract!Next]_<<value, Ask>>
<1> USE DEF Known
<1>1. /\ lines # <<>> /\ lines' = Tail(lines) /\ IsEcho(c, Head(lines))
      /\ UNCHANGED <<at, call, outcome, value>>
  BY DEF ReadEcho, NextLine, threads
<1>2. /\ lines \in Seq(Lines) /\ Len(Tail(lines)) = Len(lines) - 1
      /\ 1 \in DOMAIN lines /\ Head(lines) = lines[1]
      /\ \A i \in DOMAIN Tail(lines) : i + 1 \in DOMAIN lines /\ Tail(lines)[i] = lines[i + 1]
  BY <1>1, TailElements DEF TypeOK
<1>3. lines[1].kind # "get"
  BY <1>1, <1>2 DEF IsEcho, Acknowledges
<1>4. ASSUME NEW d \in Callers PROVE Ask'[d] = Ask[d]
  <2>1. ASSUME NEW k \in Answered(d)'
        PROVE  k + 1 \in Answered(d) /\ lines'[k] = lines[k + 1]
    BY <1>1, <1>2, <2>1 DEF Answered
  <2>2. ASSUME NEW j \in Answered(d) PROVE j - 1 \in Answered(d)'
    <3>1. j \in DOMAIN lines /\ j # 1 /\ j \in Nat
      BY <1>2, <1>3, <2>2 DEF Answered
    <3>2. j - 1 \in DOMAIN lines' /\ lines'[j - 1] = lines[j]
      BY <1>1, <1>2, <3>1
    <3> QED
      BY <1>1, <2>2, <3>2 DEF Answered
  <2>3. CASE Answered(d)' = {}
    <3>1. Answered(d) = {}
      BY <2>2, <2>3
    <3> QED
      BY <1>1, <2>3, <3>1, AskStays
  <2>4. CASE Answered(d)' # {}
    <3>1. PICK k : Answered(d)' = {k}
      BY <2>4 DEF Unique
    <3>2. k + 1 \in Answered(d) /\ lines'[k] = lines[k + 1]
      BY <2>1, <3>1
    <3>3. Answered(d) = {k + 1}
      BY <3>2 DEF Unique
    <3> QED
      BY <1>1, <3>1, <3>2, <3>3, AskStays
  <2> QED
    BY <2>3, <2>4
<1> QED
  BY <1>1, <1>4, AskStutters

\* What a thread does with its call.
LEMMA ClientAsks ==
  ASSUME Known, Known', NEW c \in Callers, Client(c)
  PROVE  [Contract!Next]_<<value, Ask>>
<1> USE DEF Known, threads, client, unit
<1>0. /\ at \in [Callers -> Places] /\ outcome \in [Callers -> Outcomes]
  BY DEF TypeOK, Places
<1>1. CASE Lock(c)
  <2>1. \A d \in Callers : /\ call'[d] = call[d] /\ outcome'[d] = outcome[d]
                           /\ at'[d] = "idle" <=> at[d] = "idle"
    BY <1>0, <1>1 DEF Lock
  <2>2. lines' = lines /\ value' = value
    BY <1>1 DEF Lock
  <2> QED
    BY <2>1, <2>2, AskOfOthers, AskStutters
<1>2. ASSUME NEW how, how # "ok", at[c] \in {"locked", "reading", "more"},
             End(c, how), value' = value
      PROVE  [Contract!Next]_<<value, Ask>>
  <2>1. Ended(how, NoValue, call[c].of).how = how
    BY DEF Ended
  <2> QED
    BY <1>2, <2>1, CallEnds DEF End, Finish
<1>3. CASE Refuse(c) \/ SendBreaks(c) \/ CannotConnect(c)
  BY <1>2, <1>3 DEF Refuse, SendBreaks, CannotConnect, Break, CloseSocket
<1>4. CASE ReadBreaks(c) \/ ReadNonsense(c)
  BY <1>2, <1>4 DEF ReadBreaks, ReadNonsense, NextLine, Reading, Break, CloseSocket
<1>5. CASE Close(c)
  <2>1. \E x : outcome' = [outcome EXCEPT ![c] = x]
    BY <1>5 DEF Close, End, Finish
  <2> QED
    BY <1>5, <2>1, CallEnds DEF Close, End, Finish, CloseSocket
<1>6. CASE Send(c)
  <2>1. CASE call[c].kind = "set"
    <3>1. \E x : outcome' = [outcome EXCEPT ![c] = x]
      BY <1>6, <2>1 DEF Send, End, Finish
    <3> QED
      BY <1>6, <2>1, <3>1, CallEnds DEF Send, End, Finish
  <2>2. CASE call[c].kind # "set"
    <3>1. \A d \in Callers : /\ call'[d] = call[d] /\ outcome'[d] = outcome[d]
                             /\ at'[d] = "idle" <=> at[d] = "idle"
      BY <1>0, <1>6, <2>2 DEF Send
    <3>2. lines' = lines /\ value' = value
      BY <1>6 DEF Send
    <3> QED
      BY <3>1, <3>2, AskOfOthers, AskStutters
  <2> QED
    BY <2>1, <2>2
<1>7. CASE Connect(c)
  <2>1. /\ at[c] = "locked" /\ at' = [at EXCEPT ![c] = "reading"]
        /\ UNCHANGED <<call, outcome, value>> /\ call[c].kind # "get"
    BY <1>7 DEF Connect, Logging
  <2>2. \A d \in Callers \ {c} : ~Reading(d) /\ ~Reading(d)'
    BY <1>0, <2>1, OneReader DEF Reading
  <2>3. \A d \in Callers \ {c} : Ask'[d] = Ask[d]
    <3>1. \A d \in Callers \ {c} : at'[d] = at[d]
      BY <1>0, <2>1
    <3> QED
      BY <2>1, <2>2, <3>1, AskOfOthers
  <2>4. Ask'[c] = Ask[c]
    BY <2>1 DEF AskMeans
  <2> QED
    BY <2>1, <2>3, <2>4, AskStutters
<1> QED
  BY <1>1, <1>3, <1>4, <1>5, <1>6, <1>7, AnswerRead, EchoRead DEF Client

-----------------------------------------------------------------------------
(* Steps of the unit *)

\* Lines that answer no get come in after the others.
LEMMA NoGetAdded ==
  ASSUME Known, Known', UNCHANGED <<at, call, outcome>>,
         \A j \in DOMAIN lines : j \in DOMAIN lines' /\ lines'[j] = lines[j],
         \A j \in DOMAIN lines' : lines'[j].kind = "get" =>
           j \in DOMAIN lines /\ lines'[j] = lines[j]
  PROVE  \A c \in Callers : Ask'[c] = Ask[c]
<1> SUFFICES ASSUME NEW c \in Callers PROVE Ask'[c] = Ask[c]
  OBVIOUS
<1> USE DEF Known
<1>1. Answered(c)' = Answered(c)
  BY DEF Answered
<1>2. \A j \in Answered(c) : lines'[j] = lines[j]
  BY DEF Answered
<1>3. CASE Answered(c) = {}
  BY <1>1, <1>3, AskStays
<1>4. CASE Answered(c) # {}
  <2>1. PICK j : Answered(c) = {j}
    BY <1>4 DEF Unique
  <2>2. Answered(c)' = {j} /\ lines[j] = lines'[j]
    BY <1>1, <1>2, <2>1
  <2> QED
    BY <2>1, <2>2, AskStays
<1> QED
  BY <1>3, <1>4

\* The unit reads a request.
LEMMA AskServed ==
  ASSUME Known, Known', NEW k \in 1 .. MaxCalls, Serve(k)
  PROVE  [Contract!Next]_<<value, Ask>>
<1> USE DEF Known
<1> DEFINE r == Head(toUnit[k])
<1>0. /\ toUnit \in [1 .. MaxCalls -> Seq(Requests)] /\ lines \in Seq(Lines)
      /\ value \in [Paths -> Values]
  BY DEF TypeOK
<1>1. /\ toUnit[k] # <<>> /\ toUnit' = [toUnit EXCEPT ![k] = Tail(@)]
      /\ UNCHANGED <<sock, at, call, outcome>>
  BY DEF Serve, client, threads
<1>2. r \in Requests
  BY <1>0, <1>1, TailElements
<1>3. CASE lines' = lines
  <2>1. \A c \in Callers : Ask'[c] = Ask[c]
    BY <1>1, <1>3, AskOfOthers
  <2>2. \/ value' = value
        \/ r.kind = "set" /\ value' = [value EXCEPT ![r.path] = r.value]
    BY Zenon DEF Serve
  <2>3. CASE value' = value
    BY <2>1, <2>3, AskStutters
  <2>4. CASE r.kind = "set" /\ value' = [value EXCEPT ![r.path] = r.value]
    <3>1. r.path \in Paths /\ r.value \in Values
      BY <1>2, <2>4 DEF Requests
    <3>2. Ask' = Ask
      BY <2>1, AllStay
    <3> QED
      BY <2>4, <3>1, <3>2 DEF Contract!Next, Contract!Change
  <2> QED
    BY <2>2, <2>3, <2>4
<1>4. CASE /\ k = sock /\ r.kind # "set" /\ value' = value
           /\ lines' = lines \o Answer(r)
  <2> DEFINE a == Answer(r)
  <2>1. a \in Seq(Lines)
    BY <1>0, <1>2, AnswerType
  <2>2. \A j \in DOMAIN lines : j \in DOMAIN lines' /\ lines'[j] = lines[j]
    BY <1>0, <1>4, <2>1
  <2>3. CASE r.kind # "get"
    <3>1. \A j \in DOMAIN a : a[j].kind # "get"
      BY <1>4, <2>3 DEF Answer, Line
    <3>2. \A j \in DOMAIN lines' : lines'[j].kind = "get" =>
            j \in DOMAIN lines /\ lines'[j] = lines[j]
      BY <1>0, <1>4, <2>1, <3>1, ConcatElements
    <3>3. \A c \in Callers : Ask'[c] = Ask[c]
      BY <1>1, <2>2, <3>2, NoGetAdded
    <3> QED
      BY <1>4, <3>3, AskStutters
  <2>4. CASE r.kind = "get"
    <3>1. sock # 0
      BY <1>4, CountType
    <3>2. PICK c \in Callers : at[c] = "reading" /\ r = call[c]
      BY <1>1, <1>4, <3>1, RequestRead
    <3>3. NoAnswer(lines)
      <4>1. ~OnlySets(toUnit[sock])
        BY <1>0, <1>1, <1>4, TailElements DEF OnlySets
      <4> QED
        BY <3>1, <4>1 DEF Exchange
    <3>4. a = <<Line("get", r, value[r.path])>>
      BY <2>4 DEF Answer
    <3>5. LET n == Len(lines) + 1
          IN  n \in DOMAIN lines' /\ lines'[n] = Line("get", r, value[r.path])
      BY <1>0, <1>4, <2>1, <3>4
    <3>6. Answered(c)' = {Len(lines) + 1}
      <4>1. Len(lines) + 1 \in Answered(c)'
        BY <1>1, <3>2, <3>5 DEF Answered, Line
      <4> QED
        BY <4>1 DEF Unique
    <3>7. Answered(c) = {}
      BY <3>3 DEF Answered, NoAnswer, Answers
    <3>8. Ask[c] = Contract!Asked(r.path)
      BY <2>4, <3>2, <3>7 DEF AskMeans
    <3>9. Ask'[c] = Contract!Seen(r.path, value[r.path])
      <4>1. lines'[Len(lines) + 1].value = value[r.path]
        BY <3>5 DEF Line
      <4> QED
        BY <1>1, <2>4, <3>2, <3>6, <4>1 DEF AskMeans
    <3>10. \A d \in Callers \ {c} : Ask'[d] = Ask[d]
      <4>1. \A d \in Callers \ {c} : ~Reading(d) /\ ~Reading(d)'
        BY <1>1, <3>2, OneReader DEF Reading
      <4> QED
        BY <1>1, <4>1, AskOfOthers
    <3>11. Ask[c].at = "asked" /\ Ask[c].path = r.path
      BY <3>8 DEF Contract!Asked
    <3>12. Ask' = [Ask EXCEPT ![c] = Contract!Seen(Ask[c].path, value[Ask[c].path])]
      BY <3>9, <3>10, <3>11, OneMoves
    <3> QED
      BY <1>4, <3>11, <3>12 DEF Contract!Next, Contract!Look
  <2> QED
    BY <2>3, <2>4
<1>5. \/ lines' = lines
      \/ /\ k = sock /\ r.kind # "set" /\ value' = value
         /\ lines' = lines \o Answer(r)
  BY Zenon DEF Serve
<1> QED
  BY <1>3, <1>4, <1>5

\* An answer on its way is lost.
LEMMA AnswersLost ==
  ASSUME Known, Known', UNCHANGED <<at, call, outcome, value>>, lines' = <<>>
  PROVE  [Contract!Next]_<<value, Ask>>
<1> USE DEF Known
<1>1. \A d \in Callers : Answered(d)' = {}
  BY DEF Answered
<1>2. ASSUME NEW d \in Callers, Answered(d) = {} PROVE Ask'[d] = Ask[d]
  BY <1>1, <1>2, AskStays
<1>3. CASE \A d \in Callers : Answered(d) = {}
  BY <1>2, <1>3, AskStutters
<1>4. ASSUME NEW c \in Callers, Answered(c) # {}
      PROVE  [Contract!Next]_<<value, Ask>>
  <2>1. PICK j : Reading(c) /\ Answered(c) = {j}
    BY <1>4 DEF Unique
  <2>2. \A d \in Callers \ {c} : Answered(d) = {}
    BY <2>1, OneReader DEF Unique, Reading
  <2>3. \A d \in Callers \ {c} : Ask'[d] = Ask[d]
    BY <1>2, <2>2
  <2>4. CASE call[c].kind # "get"
    <3>1. Ask'[c] = Ask[c]
      BY <2>4 DEF AskMeans
    <3> QED
      BY <2>3, <3>1, AskStutters
  <2>5. CASE call[c].kind = "get"
    <3>1. /\ Ask[c] = Contract!Seen(call[c].path, lines[j].value)
          /\ Ask'[c] = Contract!Asked(call[c].path)
      BY <1>1, <2>1, <2>5 DEF AskMeans, Reading
    <3>2. Ask[c].at = "seen" /\ Ask[c].path = call[c].path
      BY <3>1 DEF Contract!Seen
    <3>3. Ask' = [Ask EXCEPT ![c] = Contract!Asked(Ask[c].path)]
      BY <2>3, <3>1, <3>2, OneMoves
    <3> QED
      BY <3>2, <3>3 DEF Contract!Next, Contract!LoseAnswer
  <2> QED
    BY <2>4, <2>5
<1> QED
  BY <1>3, <1>4

LEMMA UnitAsks ==
  ASSUME Known, Known', SendEcho \/ Misbehave \/ Drop \/ OtherWriter
  PROVE  [Contract!Next]_<<value, Ask>>
<1> USE DEF Known, threads, client
<1>1. UNCHANGED <<at, call, outcome>>
  BY DEF SendEcho, Misbehave, Drop, OtherWriter
<1>2. ASSUME NEW line, line.kind # "get", lines' = Append(lines, line), value' = value
      PROVE  [Contract!Next]_<<value, Ask>>
  <2>1. lines \in Seq(Lines)
    BY DEF TypeOK
  <2>2. /\ \A j \in DOMAIN lines : j \in DOMAIN lines' /\ lines'[j] = lines[j]
        /\ \A j \in DOMAIN lines' : j \in DOMAIN lines \/ lines'[j] = line
    BY <1>2, <2>1
  <2>3. \A c \in Callers : Ask'[c] = Ask[c]
    BY <1>1, <1>2, <2>2, NoGetAdded
  <2> QED
    BY <1>2, <2>3, AskStutters
<1>3. ASSUME lines' = lines PROVE \A c \in Callers : Ask'[c] = Ask[c]
  BY <1>1, <1>3, AskOfOthers
<1>4. CASE SendEcho
  <2>1. owed \in Seq(Lines) /\ owed # <<>>
    BY <1>4 DEF SendEcho, TypeOK
  <2>2. Head(owed).kind # "get"
    BY <2>1, TailElements DEF Exchange
  <2> QED
    BY <1>2, <1>4, <2>2 DEF SendEcho
<1>5. CASE Misbehave
  <2>1. \A x, v : Line("noise", x, v).kind # "get" /\ Line("error", x, v).kind # "get"
    BY DEF Line
  <2> QED
    BY <1>2, <1>5, <2>1 DEF Misbehave
<1>6. CASE Drop
  <2>1. value' = value /\ (lines' = lines \/ lines' = <<>>)
    BY <1>6 DEF Drop
  <2> QED
    BY <1>1, <1>3, <2>1, AnswersLost, AskStutters
<1>7. CASE OtherWriter
  <2>1. Ask' = Ask
    BY <1>3, <1>7, AllStay DEF OtherWriter
  <2> QED
    BY <1>7, <2>1 DEF OtherWriter, Contract!Next, Contract!Change
<1> QED
  BY <1>4, <1>5, <1>6, <1>7

-----------------------------------------------------------------------------
(* The refinement *)

LEMMA AskInit == Init => Contract!Init
<1> SUFFICES ASSUME Init PROVE Contract!Init
  OBVIOUS
<1>1. \A c \in Callers : call[c].kind = "close"
  BY DEF Init, NoRequest, Request
<1>2. \A c \in Callers : Ask[c] = Contract!Idle
  BY <1>1, AskIs DEF AskMeans
<1>3. Ask = [c \in Callers |-> Contract!Idle]
  BY <1>2 DEF Ask
<1> QED
  BY <1>3 DEF Init, Contract!Init

LEMMA AskStep ==
  ASSUME Known, Known', [Next]_vars PROVE [Contract!Next]_<<value, Ask>>
<1> USE DEF Known
<1>1. ASSUME UNCHANGED <<at, call, outcome, lines, value>>
      PROVE  [Contract!Next]_<<value, Ask>>
  BY <1>1, AskOfOthers, AskStutters
<1>2. CASE (\E c \in Callers : Tick(c)) \/ Finished \/ UNCHANGED vars
  BY <1>1, <1>2 DEF Tick, Finished, vars, client, threads, unit
<1>3. CASE Unit
  BY <1>3, AskServed, UnitAsks DEF Unit
<1> QED
  BY <1>2, <1>3, AskBegins, ClientAsks DEF Next

\* A get that returns gives its caller a value the unit had during the call,
\* whatever is acknowledged late, out of turn or never, and whatever fails
\* (HiQnetClient.get and set, and what they leave in the buffer).
THEOREM GetsAreCurrent == Spec => ReadsAreCurrent
<1>1. Spec => [](TypeOK /\ Turns /\ Exchange)
  BY TurnsInvariant, ExchangeInvariant, PTL DEF SessionOK
<1>2. TypeOK /\ Turns /\ Exchange => Known
  BY UniqueHolds, AskIs DEF Known
<1>3. Known /\ Known' /\ [Next]_vars => [Contract!Next]_<<value, Ask>>
  BY AskStep
<1> QED
  BY <1>1, <1>2, <1>3, AskInit, PTL DEF Spec, ReadsAreCurrent, Contract!Spec
=============================================================================
