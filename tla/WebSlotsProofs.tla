-------------------------- MODULE WebSlotsProofs --------------------------
(***************************************************************************)
(* The save slots of the browser player, for any games, any number of      *)
(* slots, operations, boots and failed transactions: what the machine      *)
(* holds, and what the sheet shows once every answer has come.             *)
(***************************************************************************)
EXTENDS WebSlots, SequenceTheorems, TLAPS

Event == [call : Call, ok : BOOLEAN]

\* The calls made and not handled yet, wherever they are.
Answered == {e.call : e \in Range(events)}
Made == asking \cup Range(queue) \cup Answered

-----------------------------------------------------------------------------
(* Sequences.                                                              *)

\* What is left of a sequence without its element i.
LEMMA Removing ==
  ASSUME NEW S, NEW s \in Seq(S), NEW i \in 1..Len(s)
  PROVE  /\ RemoveAt(s, i) \in Seq(S)
         /\ Len(RemoveAt(s, i)) = Len(s) - 1
         /\ \A j \in 1..(Len(s) - 1) : RemoveAt(s, i)[j] = s[IF j < i THEN j ELSE j + 1]
<1> DEFINE front == SubSeq(s, 1, i - 1)
           back  == SubSeq(s, i + 1, Len(s))
<1>1. front \in Seq(S) /\ Len(front) = i - 1 /\ \A j \in 1..(i - 1) : front[j] = s[j]
  BY SubSeqProperties, ElementOfSeq
<1>2. back \in Seq(S) /\ Len(back) = Len(s) - i
      /\ \A j \in 1..(Len(s) - i) : back[j] = s[i + j]
  BY SubSeqProperties, ElementOfSeq
<1>3. RemoveAt(s, i) = front \o back
  BY DEF RemoveAt
<1> HIDE DEF front, back
<1>4. /\ front \o back \in Seq(S)
      /\ Len(front \o back) = Len(front) + Len(back)
      /\ \A j \in 1..(Len(front) + Len(back)) :
           (front \o back)[j] = IF j <= Len(front) THEN front[j] ELSE back[j - Len(front)]
  BY <1>1, <1>2, ConcatProperties
<1>5. Len(s) \in Nat
  BY LenProperties
<1>6. ASSUME NEW j \in 1..(Len(s) - 1)
      PROVE  RemoveAt(s, i)[j] = s[IF j < i THEN j ELSE j + 1]
  <2>1. CASE j < i
    BY <1>1, <1>2, <1>3, <1>4, <1>5, <2>1
  <2>2. CASE ~(j < i)
    <3>1. RemoveAt(s, i)[j] = back[j - (i - 1)]
      BY <1>1, <1>2, <1>3, <1>4, <1>5, <2>2
    <3>2. j - (i - 1) \in 1..(Len(s) - i) /\ i + (j - (i - 1)) = j + 1
      BY <1>5, <2>2
    <3> QED
      BY <1>2, <2>2, <3>1, <3>2
  <2> QED
    BY <2>1, <2>2
<1> QED
  BY <1>1, <1>2, <1>3, <1>4, <1>5, <1>6

\* The elements of a sequence, and of the one left without element i.
LEMMA RangeOfRemoving ==
  ASSUME NEW S, NEW s \in Seq(S), NEW i \in 1..Len(s)
  PROVE  Range(s) = Range(RemoveAt(s, i)) \cup {s[i]}
<1> DEFINE r == RemoveAt(s, i)
<1>1. r \in Seq(S) /\ Len(r) = Len(s) - 1
      /\ \A j \in 1..(Len(s) - 1) : r[j] = s[IF j < i THEN j ELSE j + 1]
  BY Removing
<1> HIDE DEF r
<1>2. ASSUME NEW j \in 1..Len(s)  PROVE s[j] \in {r[k] : k \in 1..Len(r)} \cup {s[i]}
  <2>1. CASE j < i
    BY <1>1, <2>1
  <2>2. CASE j = i
    BY <2>2
  <2>3. CASE j > i
    <3>1. j - 1 \in 1..Len(r) /\ r[j - 1] = s[j]
      BY <1>1, <2>3
    <3> QED
      BY <3>1
  <2> QED
    BY <2>1, <2>2, <2>3
<1>3. ASSUME NEW j \in 1..Len(r)  PROVE r[j] \in {s[k] : k \in 1..Len(s)}
  BY <1>1
<1>4. Range(s) = {s[k] : k \in 1..Len(s)} /\ Range(r) = {r[k] : k \in 1..Len(r)}
  BY <1>1, RangeEquality
<1> QED
  BY <1>2, <1>3, <1>4 DEF r

\* The elements of a sequence with one more at its end.
LEMMA RangeOfAppend ==
  ASSUME NEW S, NEW s \in Seq(S), NEW e \in S
  PROVE  /\ Append(s, e) \in Seq(S)
         /\ Range(Append(s, e)) = Range(s) \cup {e}
<1> DEFINE r == Append(s, e)
<1>1. r \in Seq(S) /\ Len(r) = Len(s) + 1 /\ r[Len(s) + 1] = e
      /\ \A i \in 1..Len(s) : r[i] = s[i]
  BY AppendProperties
<1>2. Range(s) = {s[k] : k \in 1..Len(s)} /\ Range(r) = {r[k] : k \in 1..Len(r)}
  BY <1>1, RangeEquality
<1> HIDE DEF r
<1>3. 1..Len(r) = 1..Len(s) \cup {Len(s) + 1}
  BY <1>1, LenProperties
<1> QED
  BY <1>1, <1>2, <1>3 DEF r

\* The elements of a sequence without its first.
LEMMA RangeOfTail ==
  ASSUME NEW S, NEW s \in Seq(S), s # <<>>
  PROVE  /\ Len(s) >= 1 /\ s[1] \in S
         /\ Tail(s) \in Seq(S) /\ Len(Tail(s)) = Len(s) - 1
         /\ \A i \in 1..(Len(s) - 1) : Tail(s)[i] = s[i + 1]
         /\ Range(s) = Range(Tail(s)) \cup {s[1]}
<1> DEFINE r == Tail(s)
<1>1. Len(s) \in Nat /\ Len(s) >= 1
  BY EmptySeq, LenProperties
<1>2. r \in Seq(S) /\ Len(r) = Len(s) - 1 /\ \A i \in 1..Len(r) : r[i] = s[i + 1]
  BY HeadTailProperties
<1>3. s[1] \in S
  BY <1>1, ElementOfSeq
<1>4. Range(s) = {s[k] : k \in 1..Len(s)} /\ Range(r) = {r[k] : k \in 1..Len(r)}
  BY <1>2, RangeEquality
<1> HIDE DEF r
<1>5. ASSUME NEW k \in 1..Len(s)  PROVE s[k] \in {r[j] : j \in 1..Len(r)} \cup {s[1]}
  <2>1. CASE k = 1
    BY <2>1
  <2>2. CASE k # 1
    <3>1. k - 1 \in 1..Len(r) /\ r[k - 1] = s[k]
      BY <1>1, <1>2, <2>2
    <3> QED
      BY <3>1
  <2> QED
    BY <2>1, <2>2
<1>6. ASSUME NEW j \in 1..Len(r)  PROVE r[j] \in {s[k] : k \in 1..Len(s)}
  <2>1. j + 1 \in 1..Len(s) /\ r[j] = s[j + 1]
    BY <1>1, <1>2
  <2> QED
    BY <2>1
<1>7. s[1] \in {s[k] : k \in 1..Len(s)}
  BY <1>1
<1> QED
  BY <1>1, <1>2, <1>3, <1>4, <1>5, <1>6, <1>7 DEF r

-----------------------------------------------------------------------------
(* Types, and whose save each call carries.                                *)

\* Of a call made when n operations had been asked for: a save it stores or
\* found, and every save it listed, is its game's.
CallIsWhole(c, n) ==
  /\ c.save # None => c.save[1] = c.game
  /\ \A s \in Slots : c.got[s] # None => c.got[s][1] = c.game
  /\ c.do = "delete" => c.save = None
  /\ c.do = "put" => c.save \in Games \X (0..n)
  /\ c.do # "list" => c.why \in WebOp

CallsAreWhole == \A c \in Made : CallIsWhole(c, hist.ops)

StoreIsWhole == \A g \in Games, s \in Slots : store[g][s] # None => store[g][s][1] = g

Counts ==
  hist \in [ops : 0..MaxOps, changes : 0..MaxChanges, faults : 0..MaxFaults,
            crossed : BOOLEAN, hung : BOOLEAN, overtaken : BOOLEAN, replaced : BOOLEAN,
            exportLoaded : BOOLEAN]

\* A save that waits for its answer is of the game that is current.
Saving == pending # None /\ pending.op \in {"save", "import"}
PendingIsWhole == game # None /\ Saving => pending.save \in Saves /\ pending.save[1] = game

Types ==
  TypeOK /\ Counts /\ CallsAreWhole /\ StoreIsWhole /\ PendingIsWhole
    /\ \A c \in asking : c.do = "put"

\* An operation the player asks for: what it is and the transaction it makes.
AskedAs(op, do, save) ==
  \/ op \in {"save", "import"} /\ do = "put" /\ save = NewSave
  \/ op \in {"load", "export"} /\ do = "get" /\ save = None
  \/ op = "delete" /\ do = "delete" /\ save = None

\* Whatever the player asks for is one call to storage.
LEMMA EveryOperationAsks ==
  ASSUME \/ \E s \in Slots : SaveSlot(s) \/ LoadSlot(s) \/ ExportSlot(s) \/ DeleteSlot(s)
         \/ ImportSlot
  PROVE  \E op \in WebOp, do \in {"put", "get", "delete"}, save \in {None, NewSave}, s \in Slots :
           AskedAs(op, do, save) /\ Ask(op, s, save, do)
<1>1. ASSUME NEW s \in Slots, SaveSlot(s)  PROVE AskedAs("save", "put", NewSave) /\ Ask("save", s, NewSave, "put")
  BY <1>1 DEF SaveSlot, AskedAs
<1>2. ASSUME NEW s \in Slots, LoadSlot(s)  PROVE AskedAs("load", "get", None) /\ Ask("load", s, None, "get")
  BY <1>2 DEF LoadSlot, AskedAs
<1>3. ASSUME NEW s \in Slots, ExportSlot(s)  PROVE AskedAs("export", "get", None) /\ Ask("export", s, None, "get")
  BY <1>3 DEF ExportSlot, AskedAs
<1>4. ASSUME NEW s \in Slots, DeleteSlot(s)
      PROVE AskedAs("delete", "delete", None) /\ Ask("delete", s, None, "delete")
  BY <1>4 DEF DeleteSlot, AskedAs
<1>5. ASSUME ImportSlot
      PROVE \E s \in Slots : AskedAs("import", "put", NewSave) /\ Ask("import", s, NewSave, "put")
  BY <1>5 DEF ImportSlot, AskedAs
<1> QED
  BY <1>1, <1>2, <1>3, <1>4, <1>5, Zenon DEF WebOp

\* The call an operation makes.
LEMMA AskMakes ==
  ASSUME Types, NEW op \in WebOp, NEW do \in {"put", "get", "delete"}, NEW save \in {None, NewSave},
         NEW s \in Slots, AskedAs(op, do, save), Ask(op, s, save, do),
         NEW c, c = Request(do, game, s, save, op)
  PROVE  /\ c \in Call /\ CallIsWhole(c, hist.ops + 1)
         /\ c.do = do /\ c.why = op /\ c.game = game /\ c.slot = s /\ c.save = save
         /\ game \in Games /\ hist.ops + 1 \in 0..MaxOps
         /\ pending' \in Operation /\ pending' # None /\ pending'.op = op
         /\ do = "put" => asking' = asking \cup {c} /\ queue' = queue
         /\ do # "put" => asking' = asking /\ queue' = Append(queue, c)
         /\ Made' = Made \cup {c}
         /\ pending' = [op |-> op, save |-> save] /\ pending = None
         /\ hist' = [hist EXCEPT !.ops = @ + 1]
         /\ UNCHANGED <<game, machine, web, events, store>>
<1> USE BoundsAssumption, GamesAssumption
<1>1. game \in Games /\ hist.ops + 1 \in 0..MaxOps /\ hist.ops \in Nat
  BY DEF Ask, Types, TypeOK, Counts
<1>2. /\ do = "put" => asking' = asking \cup {c} /\ queue' = queue
      /\ do # "put" => asking' = asking /\ queue' = Append(queue, c)
      /\ UNCHANGED <<game, machine, web, events, store>>
      /\ hist' = [hist EXCEPT !.ops = @ + 1]
      /\ pending' = [op |-> op, save |-> save] /\ pending = None
  BY DEF Ask, Pending
<1>3. save \in Saves \cup {None} /\ (save # None => save[1] = game)
      /\ (do = "put" => save \in Games \X (0..(hist.ops + 1)))
  BY <1>1 DEF NewSave, Saves, AskedAs
<1>4. Empty \in Sheet /\ \A t \in Slots : Empty[t] = None
  BY DEF Empty, Sheet
<1>5. c \in Call /\ c.do = do /\ c.why = op /\ c.game = game /\ c.slot = s /\ c.save = save
      /\ c.got = Empty
  <2>1. c = [do |-> do, game |-> game, slot |-> s, save |-> save, got |-> Empty,
             why |-> op, again |-> FALSE]
    BY DEF Request
  <2> QED
    BY <1>1, <1>3, <1>4, <2>1 DEF Call
<1>6. CallIsWhole(c, hist.ops + 1)
  BY <1>3, <1>4, <1>5 DEF CallIsWhole, AskedAs
<1>7. Made' = Made \cup {c}
  <2>1. Answered' = Answered
    BY <1>2 DEF Answered
  <2>2. CASE do = "put"
    BY <1>2, <2>1, <2>2 DEF Made
  <2>3. CASE do # "put"
    <3>1. Range(Append(queue, c)) = Range(queue) \cup {c}
      BY <1>5, RangeOfAppend DEF Types, TypeOK
    <3> QED
      BY <1>2, <2>1, <2>3, <3>1 DEF Made
  <2> QED
    BY <2>2, <2>3
<1>8. pending' \in Operation /\ pending' # None /\ pending'.op = op
  <2>1. pending' \in Operation
    BY <1>2, <1>3 DEF Operation
  <2> QED
    BY <1>2, <2>1, NoneAssumption
<1> QED
  BY <1>1, <1>2, <1>5, <1>6, <1>7, <1>8

\* A call stays whole while more operations are asked for.
LEMMA WholeLater ==
  ASSUME NEW c, NEW n \in Nat, NEW m \in Nat, n <= m, CallIsWhole(c, n)
  PROVE  CallIsWhole(c, m)
<1>1. 0..n \subseteq 0..m
  OBVIOUS
<1> QED
  BY <1>1 DEF CallIsWhole

\* The calls after a step, one of the containers at a time.
LEMMA AnswerAdds ==
  ASSUME Types, NEW c \in Call, NEW ok \in BOOLEAN, Answer(c, ok)
  PROVE  /\ events' = Append(events, [call |-> c, ok |-> ok])
         /\ events' \in Seq(Event)
         /\ Answered' = Answered \cup {c}
<1> DEFINE e == [call |-> c, ok |-> ok]
<1>1. e \in Event /\ e.call = c
  BY DEF Event
<1>2. events \in Seq(Event) /\ events' = Append(events, e)
  BY DEF Types, TypeOK, Event, Answer
<1> HIDE DEF e
<1>3. Append(events, e) \in Seq(Event) /\ Range(Append(events, e)) = Range(events) \cup {e}
  BY <1>1, <1>2, RangeOfAppend
<1>4. Answered' = {f.call : f \in Range(events) \cup {e}}
  BY <1>2, <1>3 DEF Answered
<1> QED
  BY <1>1, <1>2, <1>3, <1>4 DEF Answered, e

LEMMA HandledTakes ==
  ASSUME Types, NEW d, Handled(d)
  PROVE  /\ events[1] \in Event /\ events[1].call \in Call /\ events[1].ok \in BOOLEAN
         /\ events[1].call.do = d
         /\ events' \in Seq(Event) /\ events' = Tail(events)
         /\ Len(events) \in Nat /\ Len(events) >= 1 /\ Len(events') = Len(events) - 1
         /\ \A i \in 1..(Len(events) - 1) : events'[i] = events[i + 1]
         /\ Answered = Answered' \cup {events[1].call}
<1>1. events \in Seq(Event) /\ events # <<>> /\ events' = Tail(events) /\ events[1].call.do = d
  BY DEF Types, TypeOK, Event, Handled
<1>2. /\ Len(events) >= 1 /\ events[1] \in Event
      /\ events' \in Seq(Event) /\ Len(events') = Len(events) - 1
      /\ \A i \in 1..(Len(events) - 1) : events'[i] = events[i + 1]
      /\ Range(events) = Range(events') \cup {events[1]}
  BY <1>1, RangeOfTail
<1>3. Answered = Answered' \cup {events[1].call}
  BY <1>2 DEF Answered
<1>4. Len(events) \in Nat
  BY <1>1, LenProperties
<1> QED
  BY <1>1, <1>2, <1>3, <1>4 DEF Event

\* A game's listing is a whole call.
LEMMA ListIsACall ==
  ASSUME NEW g \in Games
  PROVE  /\ List(g) \in Call /\ List(g).do = "list" /\ List(g).game = g
         /\ \A n : CallIsWhole(List(g), n)
         /\ Empty \in Sheet /\ \A s \in Slots : Empty[s] = None
<1>1. Empty \in Sheet /\ \A s \in Slots : Empty[s] = None
  BY DEF Empty, Sheet
<1>2. 0 \in Slots
  BY BoundsAssumption DEF Slots
<1>3. List(g) = [do |-> "list", game |-> g, slot |-> 0, save |-> None, got |-> Empty,
                 why |-> "list", again |-> FALSE]
  BY DEF List, Request
<1>4. List(g) \in Call
  BY <1>1, <1>2, <1>3 DEF Call
<1> QED
  BY <1>1, <1>3, <1>4 DEF CallIsWhole

LEMMA ForgottenAdds ==
  ASSUME Types, NEW g \in Games, Forgotten(g), UNCHANGED asking
  PROVE  /\ queue' = Append(queue, List(g)) /\ queue' \in Seq(Call)
         /\ Range(queue') = Range(queue) \cup {List(g)}
         /\ Made' = asking \cup Range(queue) \cup Answered' \cup {List(g)}
         /\ web' = Empty /\ pending' = None
<1>1. List(g) \in Call /\ queue \in Seq(Call)
  BY ListIsACall DEF Types, TypeOK
<1>2. queue' = Append(queue, List(g)) /\ web' = Empty /\ pending' = None
  BY DEF Forgotten
<1>3. queue' \in Seq(Call) /\ Range(queue') = Range(queue) \cup {List(g)}
  BY <1>1, <1>2, RangeOfAppend
<1> QED
  BY <1>2, <1>3 DEF Made

\* The transaction that runs leaves the queue.
LEMMA TransactionTakes ==
  ASSUME Types, NEW i \in DOMAIN queue
  PROVE  /\ i \in 1..Len(queue) /\ Len(queue) \in Nat /\ queue[i] \in Call
         /\ CallIsWhole(queue[i], hist.ops)
         /\ RemoveAt(queue, i) \in Seq(Call) /\ Len(RemoveAt(queue, i)) = Len(queue) - 1
         /\ \A j \in 1..(Len(queue) - 1) :
              RemoveAt(queue, i)[j] = queue[IF j < i THEN j ELSE j + 1]
         /\ Range(queue) = Range(RemoveAt(queue, i)) \cup {queue[i]}
<1>1. queue \in Seq(Call) /\ i \in 1..Len(queue) /\ Len(queue) \in Nat
  BY LenProperties DEF Types, TypeOK
<1>2. queue[i] \in Call
  BY <1>1, ElementOfSeq
<1>3. Range(queue) = Range(RemoveAt(queue, i)) \cup {queue[i]}
  BY <1>1, RangeOfRemoving
<1>4. CallIsWhole(queue[i], hist.ops)
  BY <1>3 DEF Types, CallsAreWhole, Made
<1>5. /\ RemoveAt(queue, i) \in Seq(Call) /\ Len(RemoveAt(queue, i)) = Len(queue) - 1
      /\ \A j \in 1..(Len(queue) - 1) :
           RemoveAt(queue, i)[j] = queue[IF j < i THEN j ELSE j + 1]
  BY <1>1, Removing
<1> QED
  BY <1>1, <1>2, <1>3, <1>4, <1>5

\* A reader brings what it read, and is the same call.
LEMMA ReadKeepsTheCall ==
  ASSUME Types, NEW c \in Call, Reading(c), CallIsWhole(c, hist.ops),
         NEW r, r = IF c.again THEN c ELSE Read(c)
  PROVE  /\ r \in Call /\ CallIsWhole(r, hist.ops)
         /\ r.do = c.do /\ r.game = c.game /\ r.slot = c.slot /\ r.why = c.why
<1>1. store \in [Games -> Sheet] /\ c.game \in Games /\ c.slot \in Slots
  BY DEF Types, TypeOK, Call
<1>2. store[c.game] \in Sheet /\ store[c.game][c.slot] \in Saves \cup {None}
  BY <1>1 DEF Sheet
<1>3. \A s \in Slots : store[c.game][s] # None => store[c.game][s][1] = c.game
  BY <1>1 DEF Types, StoreIsWhole
<1>4. CASE c.again
  BY <1>4
<1>5. CASE ~c.again /\ c.do = "list"
  <2>1. r = [c EXCEPT !.got = store[c.game], !.again = TRUE]
    BY <1>5 DEF Read
  <2>2. r \in Call
    BY <1>2, <2>1 DEF Call
  <2>3. r.do = c.do /\ r.game = c.game /\ r.slot = c.slot /\ r.why = c.why /\ r.save = c.save
        /\ r.got = store[c.game]
    BY <2>1 DEF Call
  <2> QED
    BY <1>3, <2>2, <2>3 DEF CallIsWhole
<1>6. CASE ~c.again /\ c.do # "list"
  <2>1. r = [c EXCEPT !.save = store[c.game][c.slot], !.again = TRUE] /\ c.do = "get"
    BY <1>6 DEF Read, Reading
  <2>2. r \in Call
    BY <1>2, <2>1 DEF Call
  <2>3. r.do = c.do /\ r.game = c.game /\ r.slot = c.slot /\ r.why = c.why /\ r.got = c.got
        /\ r.save = store[c.game][c.slot]
    BY <2>1 DEF Call
  <2> QED
    BY <1>1, <1>3, <2>1, <2>2, <2>3 DEF CallIsWhole
<1> QED
  BY <1>4, <1>5, <1>6

\* What a reader leaves: it is answered, or looks again at the end of the queue.
LEMMA ReadsMoves ==
  ASSUME Types, NEW i \in DOMAIN queue, Reads(i), UNCHANGED asking
  PROVE  \E r \in Call :
           /\ CallIsWhole(r, hist.ops) /\ Reading(queue[i])
           /\ r.do = queue[i].do /\ r.game = queue[i].game
           /\ r.slot = queue[i].slot /\ r.why = queue[i].why
           /\ \/ queue' = Append(RemoveAt(queue, i), r) /\ UNCHANGED events
              \/ queue' = RemoveAt(queue, i) /\ Answer(r, TRUE)
           /\ queue' \in Seq(Call) /\ events' \in Seq(Event)
           /\ Range(queue') \cup Answered' = Range(RemoveAt(queue, i)) \cup Answered \cup {r}
           /\ Answered \subseteq Answered' /\ Answered' \subseteq Answered \cup {r}
           /\ Made' = asking \cup Range(RemoveAt(queue, i)) \cup Answered \cup {r}
<1> DEFINE c == queue[i]
           r == IF c.again THEN c ELSE Read(c)
           rest == RemoveAt(queue, i)
<1>1. c \in Call /\ CallIsWhole(c, hist.ops) /\ rest \in Seq(Call)
  BY TransactionTakes
<1>2. Reading(c) /\ \/ queue' = Append(rest, r) /\ UNCHANGED events
                    \/ queue' = rest /\ Answer(r, TRUE)
  BY DEF Reads
<1>3. r \in Call /\ CallIsWhole(r, hist.ops)
      /\ r.do = c.do /\ r.game = c.game /\ r.slot = c.slot /\ r.why = c.why
  BY <1>1, <1>2, ReadKeepsTheCall
<1>4. events \in Seq(Event)
  BY DEF Types, TypeOK, Event
<1> HIDE DEF r, rest
<1>5. CASE queue' = Append(rest, r) /\ UNCHANGED events
  <2>1. queue' \in Seq(Call) /\ Range(queue') = Range(rest) \cup {r}
    BY <1>1, <1>3, <1>5, RangeOfAppend
  <2>2. Answered' = Answered
    BY <1>5 DEF Answered
  <2>3. Made' = asking \cup Range(rest) \cup Answered \cup {r}
    BY <2>1, <2>2 DEF Made
  <2> QED
    BY <1>2, <1>3, <1>4, <1>5, <2>1, <2>2, <2>3 DEF rest
<1>6. CASE queue' = rest /\ Answer(r, TRUE)
  <2>1. events' \in Seq(Event) /\ Answered' = Answered \cup {r}
    BY <1>3, <1>6, AnswerAdds
  <2>2. Made' = asking \cup Range(rest) \cup Answered \cup {r}
    BY <1>6, <2>1 DEF Made
  <2> QED
    BY <1>1, <1>2, <1>3, <1>6, <2>1, <2>2 DEF rest
<1> QED
  BY <1>2, <1>5, <1>6

-----------------------------------------------------------------------------
(* Every step keeps the types.                                             *)

LEMMA AskTyped ==
  ASSUME Types, NEW op \in WebOp, NEW do \in {"put", "get", "delete"}, NEW save \in {None, NewSave},
         NEW s \in Slots, AskedAs(op, do, save), Ask(op, s, save, do)
  PROVE  Types'
<1> DEFINE c == Request(do, game, s, save, op)
<1>1. /\ c \in Call /\ CallIsWhole(c, hist.ops + 1)
      /\ c.do = do /\ c.game = game /\ c.save = save
      /\ game \in Games /\ hist.ops + 1 \in 0..MaxOps
      /\ do = "put" => asking' = asking \cup {c} /\ queue' = queue
      /\ do # "put" => asking' = asking /\ queue' = Append(queue, c)
      /\ Made' = Made \cup {c}
      /\ pending' = [op |-> op, save |-> save] /\ pending' \in Operation
      /\ hist' = [hist EXCEPT !.ops = @ + 1]
      /\ UNCHANGED <<game, machine, web, events, store>>
  BY AskMakes
<1> HIDE DEF c
<1>2. hist \in [ops : 0..MaxOps, changes : 0..MaxChanges, faults : 0..MaxFaults,
                crossed : BOOLEAN, hung : BOOLEAN, overtaken : BOOLEAN,
                replaced : BOOLEAN, exportLoaded : BOOLEAN] /\ hist.ops \in Nat
  BY DEF Types, Counts
<1>3. Counts' /\ hist'.ops = hist.ops + 1
  BY <1>1, <1>2 DEF Counts
<1>4. CallsAreWhole'
  <2>1. \A d \in Made : CallIsWhole(d, hist.ops + 1)
    BY <1>2, WholeLater DEF Types, CallsAreWhole
  <2>2. \A d \in Made' : CallIsWhole(d, hist'.ops)
    BY <1>1, <1>3, <2>1
  <2> QED
    BY <2>2 DEF CallsAreWhole, CallIsWhole
<1>5. queue' \in Seq(Call) /\ asking' \subseteq Call /\ \A d \in asking' : d.do = "put"
  <2>1. queue \in Seq(Call) /\ asking \subseteq Call /\ \A d \in asking : d.do = "put"
    BY DEF Types, TypeOK
  <2>2. Append(queue, c) \in Seq(Call)
    BY <1>1, <2>1, RangeOfAppend
  <2>3. CASE do = "put"
    BY <1>1, <2>1, <2>3
  <2>4. CASE do # "put"
    BY <1>1, <2>1, <2>2, <2>4
  <2> QED
    BY <2>3, <2>4
<1>6. save \in Saves \cup {None} /\ (op \in {"save", "import"} => save \in Saves /\ save[1] = game)
  BY <1>1 DEF AskedAs, NewSave, Saves
<1>7. TypeOK'
  BY <1>1, <1>5, <1>6 DEF Types, TypeOK
<1>8. StoreIsWhole' /\ PendingIsWhole'
  BY <1>1, <1>6 DEF Types, StoreIsWhole, PendingIsWhole, Saving
<1> QED
  BY <1>3, <1>4, <1>5, <1>7, <1>8 DEF Types

LEMMA ChangeGameTyped ==
  ASSUME Types, NEW g \in Games, ChangeGame(g)
  PROVE  Types'
<1>1. Forgotten(g) /\ game' = g /\ machine' = g /\ UNCHANGED <<asking, events, store>>
      /\ hist.changes < MaxChanges
      /\ hist' = [hist EXCEPT !.changes = @ + 1, !.crossed = @ \/ Outstanding]
  BY DEF ChangeGame
<1>2. queue' \in Seq(Call) /\ Made' = asking \cup Range(queue) \cup Answered' \cup {List(g)}
      /\ web' = Empty /\ pending' = None
  BY <1>1, ForgottenAdds
<1>3. Answered' = Answered
  BY <1>1 DEF Answered
<1>4. Counts' /\ hist'.ops = hist.ops
  <2>1. (hist.crossed \/ Outstanding) \in BOOLEAN /\ hist.changes + 1 \in 0..MaxChanges
    BY <1>1, BoundsAssumption DEF Types, Counts
  <2> QED
    BY <1>1, <2>1 DEF Types, Counts
<1>5. Made' = Made \cup {List(g)}
  BY <1>2, <1>3 DEF Made
<1>6. CallsAreWhole'
  <2>1. \A c \in Made' : CallIsWhole(c, hist'.ops)
    BY <1>4, <1>5, ListIsACall DEF Types, CallsAreWhole
  <2> QED
    BY <2>1 DEF CallsAreWhole, CallIsWhole
<1>7. TypeOK' /\ StoreIsWhole' /\ PendingIsWhole' /\ (\A c \in asking' : c.do = "put")
  BY <1>1, <1>2, ListIsACall DEF Types, TypeOK, StoreIsWhole, PendingIsWhole, Saving
<1> QED
  BY <1>4, <1>6, <1>7 DEF Types

LEMMA UnloadTyped ==
  ASSUME Types, Unload
  PROVE  Types'
<1>1. /\ hist.changes < MaxChanges /\ game' = None /\ machine' = None
      /\ hist' = [hist EXCEPT !.changes = @ + 1]
      /\ UNCHANGED <<pending, web, asking, queue, events, store>>
  BY DEF Unload
<1>2. Counts' /\ hist'.ops = hist.ops
  BY <1>1, BoundsAssumption DEF Types, Counts
<1>3. Made' = Made
  BY <1>1 DEF Made, Answered
<1>4. CallsAreWhole'
  BY <1>2, <1>3 DEF Types, CallsAreWhole, CallIsWhole
<1>5. TypeOK' /\ StoreIsWhole' /\ PendingIsWhole' /\ \A c \in asking' : c.do = "put"
  BY <1>1 DEF Types, TypeOK, StoreIsWhole, PendingIsWhole
<1> QED
  BY <1>2, <1>4, <1>5 DEF Types

LEMMA PersistedTyped ==
  ASSUME Types, Persisted
  PROVE  Types' /\ Made' = Made
<1>1. PICK c \in asking :
        /\ asking' = asking \ {c} /\ queue' = Append(queue, c)
        /\ UNCHANGED <<game, machine, pending, web, events, store, hist>>
  BY DEF Persisted
<1>2. queue' \in Seq(Call) /\ Range(queue') = Range(queue) \cup {c}
  BY <1>1, RangeOfAppend DEF Types, TypeOK
<1>3. Made' = Made
  BY <1>1, <1>2 DEF Made, Answered
<1>4. CallsAreWhole'
  BY <1>1, <1>3 DEF Types, CallsAreWhole, CallIsWhole
<1>5. TypeOK' /\ Counts' /\ StoreIsWhole' /\ PendingIsWhole' /\ \A d \in asking' : d.do = "put"
  BY <1>1, <1>2 DEF Types, TypeOK, Counts, StoreIsWhole, PendingIsWhole, Saving
<1> QED
  BY <1>3, <1>4, <1>5 DEF Types

LEMMA ReadsTyped ==
  ASSUME Types, NEW i \in DOMAIN queue, Reads(i),
         UNCHANGED <<game, machine, pending, web, asking>>
  PROVE  Types'
<1>1. PICK r \in Call :
        /\ CallIsWhole(r, hist.ops)
        /\ queue' \in Seq(Call) /\ events' \in Seq(Event)
        /\ Made' = asking \cup Range(RemoveAt(queue, i)) \cup Answered \cup {r}
  BY ReadsMoves
<1>2. UNCHANGED <<store, hist>>
  BY DEF Reads
<1>3. Made' \subseteq Made \cup {r}
  BY <1>1, TransactionTakes DEF Made
<1>4. CallsAreWhole'
  BY <1>1, <1>2, <1>3 DEF Types, CallsAreWhole, CallIsWhole
<1>5. TypeOK' /\ Counts' /\ StoreIsWhole' /\ PendingIsWhole' /\ \A d \in asking' : d.do = "put"
  BY <1>1, <1>2 DEF Types, TypeOK, Counts, StoreIsWhole, PendingIsWhole, Saving, Event
<1> QED
  BY <1>4, <1>5 DEF Types

\* What a writer leaves.
LEMMA WritesMoves ==
  ASSUME Types, NEW i \in DOMAIN queue, Writes(i), UNCHANGED asking
  PROVE  /\ queue[i].do \in {"put", "delete"} /\ queue' = RemoveAt(queue, i)
         /\ Answer(queue[i], TRUE)
         /\ queue' \in Seq(Call) /\ events' \in Seq(Event)
         /\ Made' = Made
         /\ store' = [store EXCEPT ![queue[i].game][queue[i].slot] = queue[i].save]
         /\ store' \in [Games -> Sheet]
         /\ \E b \in BOOLEAN : hist' = [hist EXCEPT !.replaced = b]
<1> DEFINE c == queue[i]
<1>1. c \in Call /\ RemoveAt(queue, i) \in Seq(Call)
      /\ Range(queue) = Range(RemoveAt(queue, i)) \cup {c}
  BY TransactionTakes
<1>2. /\ ~Reading(c) /\ queue' = RemoveAt(queue, i) /\ Answer(c, TRUE)
      /\ store' = [store EXCEPT ![c.game][c.slot] = c.save]
  BY DEF Writes
<1>3. c.do \in {"put", "delete"}
  BY <1>1, <1>2 DEF Call, Reading
<1>4. events' \in Seq(Event) /\ Answered' = Answered \cup {c}
  BY <1>1, <1>2, AnswerAdds
<1>5. Made' = Made
  BY <1>1, <1>2, <1>4 DEF Made
<1>6. store' \in [Games -> Sheet]
  <2>1. store \in [Games -> Sheet] /\ c.game \in Games /\ c.slot \in Slots
        /\ c.save \in Saves \cup {None}
    BY <1>1 DEF Types, TypeOK, Call
  <2>2. [store[c.game] EXCEPT ![c.slot] = c.save] \in Sheet
    BY <2>1 DEF Sheet
  <2> QED
    BY <1>2, <2>1, <2>2
<1>7. \E b \in BOOLEAN : hist' = [hist EXCEPT !.replaced = b]
  <2> DEFINE b == hist.replaced \/ (c.why = "import" /\ store[c.game][c.slot] # None)
  <2>1. hist' = [hist EXCEPT !.replaced = b]
    BY DEF Writes
  <2>2. b \in BOOLEAN
    OBVIOUS
  <2> HIDE DEF b
  <2> QED
    BY <2>1, <2>2
<1> QED
  BY <1>1, <1>2, <1>3, <1>4, <1>5, <1>6, <1>7

LEMMA WritesTyped ==
  ASSUME Types, NEW i \in DOMAIN queue, Writes(i),
         UNCHANGED <<game, machine, pending, web, asking>>
  PROVE  Types'
<1> DEFINE c == queue[i]
<1>1. /\ queue' \in Seq(Call) /\ events' \in Seq(Event) /\ Made' = Made
      /\ store' = [store EXCEPT ![c.game][c.slot] = c.save]
      /\ store' \in [Games -> Sheet]
      /\ \E b \in BOOLEAN : hist' = [hist EXCEPT !.replaced = b]
  BY WritesMoves
<1>2. c \in Call /\ CallIsWhole(c, hist.ops)
  BY TransactionTakes
<1>3. Counts' /\ hist'.ops = hist.ops
  BY <1>1 DEF Types, Counts
<1>4. CallsAreWhole'
  BY <1>1, <1>3 DEF Types, CallsAreWhole, CallIsWhole
<1>5. StoreIsWhole'
  <2>1. SUFFICES ASSUME NEW g \in Games, NEW s \in Slots, store'[g][s] # None
                 PROVE  store'[g][s][1] = g
    BY DEF StoreIsWhole
  <2>2. store \in [Games -> Sheet] /\ c.game \in Games /\ c.slot \in Slots
    BY <1>2 DEF Types, TypeOK, Call
  <2>3. store[g] \in [Slots -> Saves \cup {None}]
    BY <2>2 DEF Sheet
  <2>4. CASE g = c.game /\ s = c.slot
    <3>1. store'[g][s] = c.save
      BY <1>1, <2>2, <2>3, <2>4
    <3> QED
      BY <1>2, <2>1, <2>4, <3>1 DEF CallIsWhole
  <2>5. CASE ~(g = c.game /\ s = c.slot)
    <3>1. store'[g][s] = store[g][s]
      BY <1>1, <2>2, <2>3, <2>5
    <3> QED
      BY <2>1, <3>1 DEF Types, StoreIsWhole
  <2> QED
    BY <2>4, <2>5
<1>6. TypeOK' /\ PendingIsWhole' /\ \A d \in asking' : d.do = "put"
  BY <1>1 DEF Types, TypeOK, PendingIsWhole, Saving, Event
<1> QED
  BY <1>3, <1>4, <1>5, <1>6 DEF Types

\* What a transaction that fails leaves.
LEMMA FailsMoves ==
  ASSUME Types, NEW i \in DOMAIN queue, Fails(i), UNCHANGED asking
  PROVE  /\ queue' = RemoveAt(queue, i) /\ UNCHANGED store
         /\ Answer(queue[i], FALSE) \/ UNCHANGED events
         /\ queue' \in Seq(Call) /\ events' \in Seq(Event)
         /\ Made' \subseteq Made
         /\ hist.faults + 1 \in 0..MaxFaults
         /\ \E h \in BOOLEAN : hist' = [hist EXCEPT !.faults = @ + 1, !.hung = h]
<1> DEFINE c == queue[i]
<1>1. c \in Call /\ RemoveAt(queue, i) \in Seq(Call)
      /\ Range(queue) = Range(RemoveAt(queue, i)) \cup {c}
  BY TransactionTakes
<1>2. queue' = RemoveAt(queue, i) /\ UNCHANGED store /\ hist.faults < MaxFaults
  BY DEF Fails
<1>3. hist.faults + 1 \in 0..MaxFaults
  BY <1>2, BoundsAssumption DEF Types, Counts
<1>4. CASE Answer(c, FALSE) /\ hist' = [hist EXCEPT !.faults = @ + 1]
  <2>1. events' \in Seq(Event) /\ Answered' = Answered \cup {c}
    BY <1>1, <1>4, AnswerAdds
  <2>2. hist' = [hist EXCEPT !.faults = @ + 1, !.hung = hist.hung] /\ hist.hung \in BOOLEAN
    BY <1>4 DEF Types, Counts
  <2>3. Made' \subseteq Made
    BY <1>1, <1>2, <2>1 DEF Made
  <2> QED
    BY <1>1, <1>2, <1>3, <1>4, <2>1, <2>2, <2>3
<1>5. CASE UNCHANGED events /\ hist' = [hist EXCEPT !.faults = @ + 1, !.hung = TRUE]
  <2>1. events' \in Seq(Event) /\ Answered' = Answered
    BY <1>5 DEF Types, TypeOK, Event, Answered
  <2>2. Made' \subseteq Made
    BY <1>1, <1>2, <2>1 DEF Made
  <2> QED
    BY <1>1, <1>2, <1>3, <1>5, <2>1, <2>2
<1> QED
  BY <1>4, <1>5 DEF Fails

LEMMA FailsTyped ==
  ASSUME Types, NEW i \in DOMAIN queue, Fails(i),
         UNCHANGED <<game, machine, pending, web, asking>>
  PROVE  Types'
<1>1. /\ UNCHANGED store /\ queue' \in Seq(Call) /\ events' \in Seq(Event)
      /\ Made' \subseteq Made /\ hist.faults + 1 \in 0..MaxFaults
      /\ \E h \in BOOLEAN : hist' = [hist EXCEPT !.faults = @ + 1, !.hung = h]
  BY FailsMoves
<1>2. Counts' /\ hist'.ops = hist.ops
  BY <1>1 DEF Types, Counts
<1>3. CallsAreWhole'
  BY <1>1, <1>2 DEF Types, CallsAreWhole, CallIsWhole
<1>4. TypeOK' /\ StoreIsWhole' /\ PendingIsWhole' /\ \A d \in asking' : d.do = "put"
  BY <1>1 DEF Types, TypeOK, StoreIsWhole, PendingIsWhole, Saving, Event
<1> QED
  BY <1>2, <1>3, <1>4 DEF Types

LEMMA ListedTyped ==
  ASSUME Types, Listed
  PROVE  Types' /\ Made = Made' \cup {events[1].call}
         /\ hist' \in {[hist EXCEPT !.overtaken = b] : b \in BOOLEAN}
<1> DEFINE c == events[1].call
<1>1. /\ c \in Call /\ events' \in Seq(Event) /\ Answered = Answered' \cup {c}
  BY HandledTakes DEF Listed
<1>2. UNCHANGED <<game, machine, pending, asking, queue, store>>
  BY DEF Listed
<1>3. Made = Made' \cup {c}
  BY <1>1, <1>2 DEF Made
<1>4. CallIsWhole(c, hist.ops)
  BY <1>3 DEF Types, CallsAreWhole
<1>5. /\ web' \in {web, c.got} /\ (web' # web => game = c.game)
      /\ hist' \in {[hist EXCEPT !.overtaken = b] : b \in BOOLEAN}
  <2>1. CASE Current /\ Ok
    <3> DEFINE b == ~\A s \in Slots : c.got[s] = store[game][s] \/ Coming(s)
    <3>1. hist' = [hist EXCEPT !.overtaken = b] /\ web' = c.got
      BY <2>1 DEF Listed
    <3>2. b \in BOOLEAN
      OBVIOUS
    <3> HIDE DEF b
    <3> QED
      BY <2>1, <3>1, <3>2 DEF Current
  <2>2. CASE ~(Current /\ Ok)
    <3>1. web' = web /\ hist' = hist
      BY <2>2 DEF Listed
    <3>2. hist = [hist EXCEPT !.overtaken = hist.overtaken] /\ hist.overtaken \in BOOLEAN
      BY DEF Types, Counts
    <3> QED
      BY <3>1, <3>2
  <2> QED
    BY <2>1, <2>2
<1>6. Counts' /\ hist'.ops = hist.ops
  BY <1>5 DEF Types, Counts
<1>7. CallsAreWhole'
  BY <1>3, <1>6 DEF Types, CallsAreWhole, CallIsWhole
<1>8. TypeOK'
  <2>1. c.got \in Sheet
    BY <1>1 DEF Call
  <2>2. game # None => \A s \in Slots : web'[s] # None => web'[s][1] = game
    BY <1>4, <1>5 DEF CallIsWhole, Types, TypeOK
  <2> QED
    BY <1>1, <1>2, <1>5, <2>1, <2>2 DEF Types, TypeOK, Event
<1>9. StoreIsWhole' /\ PendingIsWhole' /\ \A d \in asking' : d.do = "put"
  BY <1>2 DEF Types, StoreIsWhole, PendingIsWhole, Saving
<1> QED
  BY <1>3, <1>5, <1>6, <1>7, <1>8, <1>9 DEF Types

LEMMA SavedTyped ==
  ASSUME Types, Saved
  PROVE  /\ Types'
         /\ Made \subseteq Made' \cup {events[1].call}
         /\ \/ Made = Made' \cup {events[1].call} /\ UNCHANGED queue
            \/ /\ game \in Games /\ Forgotten(game)
               /\ Made' \subseteq Made \cup {List(game)}
         /\ pending' = None
<1> DEFINE c == events[1].call
<1>1. /\ c \in Call /\ events' \in Seq(Event) /\ Answered = Answered' \cup {c}
  BY HandledTakes DEF Saved
<1>2. UNCHANGED <<game, machine, asking, store, hist>>
  BY DEF Saved
<1>3. game \in Games \cup {None} /\ web \in Sheet /\ c.game \in Games /\ c.slot \in Slots
  BY <1>1 DEF Types, TypeOK, Call
<1>4. CASE Forgotten(game) /\ Current /\ Ok
  <2>1. game \in Games
    BY <1>3, <1>4 DEF Current
  <2>2. queue' \in Seq(Call) /\ Made' = asking \cup Range(queue) \cup Answered' \cup {List(game)}
        /\ web' = Empty /\ pending' = None
    BY <1>2, <1>4, <2>1, ForgottenAdds
  <2>3. Made' \subseteq Made \cup {List(game)} /\ Made \subseteq Made' \cup {c}
    BY <1>1, <2>2 DEF Made
  <2>4. CallsAreWhole'
    <3>1. \A d \in Made' : CallIsWhole(d, hist.ops)
      BY <2>1, <2>3, ListIsACall DEF Types, CallsAreWhole
    <3> QED
      BY <1>2, <3>1 DEF CallsAreWhole, CallIsWhole
  <2>5. TypeOK' /\ Counts' /\ StoreIsWhole' /\ PendingIsWhole' /\ \A d \in asking' : d.do = "put"
    BY <1>1, <1>2, <2>1, <2>2, ListIsACall
    DEF Types, TypeOK, Counts, StoreIsWhole, PendingIsWhole, Saving, Event
  <2> QED
    BY <1>4, <2>1, <2>2, <2>3, <2>4, <2>5 DEF Types
<1>5. ASSUME pending' = None /\ UNCHANGED queue,
             \/ UNCHANGED web
             \/ Current /\ Saving /\ web' = [web EXCEPT ![c.slot] = pending.save]
      PROVE  Types' /\ Made = Made' \cup {c}
  <2>1. Made = Made' \cup {c}
    BY <1>1, <1>2, <1>5 DEF Made
  <2>2. CallsAreWhole'
    BY <1>2, <2>1 DEF Types, CallsAreWhole, CallIsWhole
  <2>3. web' \in Sheet /\ (game # None => \A s \in Slots : web'[s] # None => web'[s][1] = game)
    <3>1. CASE UNCHANGED web
      BY <3>1 DEF Types, TypeOK
    <3>2. CASE Current /\ Saving /\ web' = [web EXCEPT ![c.slot] = pending.save]
      <4>1. game # None
        BY <1>3, <3>2, GamesAssumption DEF Current
      <4>2. pending.save \in Saves /\ pending.save[1] = game
        BY <3>2, <4>1 DEF Types, PendingIsWhole
      <4> QED
        BY <1>3, <3>2, <4>1, <4>2 DEF Types, TypeOK, Sheet
    <3> QED
      BY <1>5, <3>1, <3>2
  <2>4. TypeOK' /\ Counts' /\ StoreIsWhole' /\ PendingIsWhole' /\ \A d \in asking' : d.do = "put"
    BY <1>1, <1>2, <1>5, <2>3
    DEF Types, TypeOK, Counts, StoreIsWhole, PendingIsWhole, Saving, Event
  <2> QED
    BY <2>1, <2>2, <2>4 DEF Types
<1> QED
  BY <1>4, <1>5 DEF Saved, Saving

LEMMA LoadedTyped ==
  ASSUME Types, Loaded, machine' \in Games \cup {None}
  PROVE  Types' /\ Made = Made' \cup {events[1].call}
<1> DEFINE c == events[1].call
           restores == Current /\ Ok /\ c.save # None /\ ~(pending # None /\ pending.op = "export")
           b == hist.exportLoaded \/ (restores /\ c.why = "export")
<1>1. c \in Call /\ events' \in Seq(Event) /\ Answered = Answered' \cup {c}
  BY HandledTakes DEF Loaded
<1>2. pending' = None /\ UNCHANGED <<game, web, asking, queue, store>>
      /\ hist' = [hist EXCEPT !.exportLoaded = b]
  BY DEF Loaded
<1>3. Made = Made' \cup {c}
  BY <1>1, <1>2 DEF Made
<1>4. b \in BOOLEAN
  OBVIOUS
<1> HIDE DEF b
<1>5. Counts' /\ hist'.ops = hist.ops
  BY <1>2, <1>4 DEF Types, Counts
<1>6. CallsAreWhole'
  BY <1>3, <1>5 DEF Types, CallsAreWhole, CallIsWhole
<1>7. TypeOK' /\ StoreIsWhole' /\ PendingIsWhole' /\ \A d \in asking' : d.do = "put"
  BY <1>1, <1>2 DEF Types, TypeOK, StoreIsWhole, PendingIsWhole, Saving, Event
<1> QED
  BY <1>3, <1>5, <1>6, <1>7 DEF Types

LEMMA DeletedTyped ==
  ASSUME Types, Deleted
  PROVE  Types' /\ Made = Made' \cup {events[1].call}
<1> DEFINE c == events[1].call
<1>1. c \in Call /\ events' \in Seq(Event) /\ Answered = Answered' \cup {c}
  BY HandledTakes DEF Deleted
<1>2. pending' = None /\ UNCHANGED <<game, machine, asking, queue, store, hist>>
      /\ web' \in {web, [web EXCEPT ![c.slot] = None]}
  BY DEF Deleted
<1>3. Made = Made' \cup {c}
  BY <1>1, <1>2 DEF Made
<1>4. CallsAreWhole'
  BY <1>2, <1>3 DEF Types, CallsAreWhole, CallIsWhole
<1>5. web' \in Sheet /\ (game # None => \A s \in Slots : web'[s] # None => web'[s][1] = game)
  <2>1. c.slot \in Slots
    BY <1>1 DEF Call
  <2> QED
    BY <1>2, <2>1 DEF Types, TypeOK, Sheet
<1>6. TypeOK' /\ Counts' /\ StoreIsWhole' /\ PendingIsWhole' /\ \A d \in asking' : d.do = "put"
  BY <1>1, <1>2, <1>5 DEF Types, TypeOK, Counts, StoreIsWhole, PendingIsWhole, Saving, Event
<1> QED
  BY <1>3, <1>4, <1>6 DEF Types

\* What a load restores is of the game that is current.
LEMMA LoadedKeepsTheGame ==
  ASSUME Types, Loaded, machine = game
  PROVE  machine' = game'
<1> DEFINE c == events[1].call
           restores == Current /\ Ok /\ c.save # None /\ ~(pending # None /\ pending.op = "export")
<1>1. Answered = Answered' \cup {c} /\ game' = game
      /\ machine' = IF restores THEN c.save[1] ELSE machine
  BY HandledTakes DEF Loaded
<1>2. c \in Made
  BY <1>1 DEF Made
<1>3. c.save # None => c.save[1] = c.game
  BY <1>2 DEF Types, CallsAreWhole, CallIsWhole
<1>4. CASE restores
  BY <1>1, <1>3, <1>4 DEF Current
<1>5. CASE ~restores
  BY <1>1, <1>5
<1> QED
  BY <1>4, <1>5

\* The types, with the machine holding the state of the game that is current.
Typed == Types /\ machine = game

\* Nothing is made yet where there is nothing.
LEMMA NothingMade ==
  ASSUME asking = {}, queue = <<>>, events = <<>>
  PROVE  Made = {} /\ queue \in Seq(Call) /\ events \in Seq(Event)
<1>1. queue \in Seq(Call) /\ events \in Seq(Event)
  BY EmptySeq
<1>2. Range(queue) = {} /\ Range(events) = {}
  BY DEF Range
<1> QED
  BY <1>1, <1>2 DEF Made, Answered

LEMMA InitTyped ==
  ASSUME Init
  PROVE  Typed
<1> USE BoundsAssumption
<1>1. Made = {} /\ queue \in Seq(Call) /\ events \in Seq(Event)
  BY NothingMade DEF Init
<1>2. Empty \in Sheet /\ \A s \in Slots : Empty[s] = None
  BY DEF Empty, Sheet
<1>3. ASSUME NEW g \in Games
      PROVE  /\ [s \in Slots |-> <<g, 0>>] \in Sheet
             /\ \A s \in Slots : [t \in Slots |-> <<g, 0>>][s][1] = g
  <2>1. <<g, 0>> \in Saves
    BY DEF Saves
  <2> QED
    BY <2>1 DEF Sheet
<1>4. PICK full \in SUBSET Games :
        store = [g \in Games |-> IF g \in full THEN [s \in Slots |-> <<g, 0>>] ELSE Empty]
  BY DEF Init
<1>5. store \in [Games -> Sheet] /\ StoreIsWhole
  BY <1>2, <1>3, <1>4 DEF StoreIsWhole
<1>6. Counts /\ machine = game
  BY DEF Init, Counts
<1>7. TypeOK /\ PendingIsWhole /\ \A c \in asking : c.do = "put"
  BY <1>1, <1>2, <1>5 DEF Init, TypeOK, PendingIsWhole, Saving, Event
<1>8. CallsAreWhole
  BY <1>1 DEF CallsAreWhole
<1> QED
  BY <1>5, <1>6, <1>7, <1>8 DEF Typed, Types

LEMMA StepTyped ==
  ASSUME Typed, [Next]_vars
  PROVE  Typed'
<1> USE DEF Typed
<1>1. CASE \/ \E s \in Slots : SaveSlot(s) \/ LoadSlot(s) \/ ExportSlot(s) \/ DeleteSlot(s)
           \/ ImportSlot
  <2>1. PICK op \in WebOp, do \in {"put", "get", "delete"}, save \in {None, NewSave}, s \in Slots :
          AskedAs(op, do, save) /\ Ask(op, s, save, do)
    BY <1>1, EveryOperationAsks
  <2>2. machine' = game'
    BY <2>1 DEF Ask
  <2> QED
    BY <2>1, <2>2, AskTyped
<1>2. ASSUME NEW g \in Games, ChangeGame(g)  PROVE Typed'
  BY <1>2, ChangeGameTyped DEF ChangeGame
<1>3. CASE Unload
  BY <1>3, UnloadTyped DEF Unload
<1>4. CASE Persisted
  <2>1. machine' = game'
    BY <1>4 DEF Persisted
  <2> QED
    BY <1>4, <2>1, PersistedTyped
<1>5. CASE Transaction
  <2>1. PICK i \in DOMAIN queue : /\ Reads(i) \/ Writes(i) \/ Fails(i)
                                  /\ UNCHANGED <<game, machine, pending, web, asking>>
    BY <1>5 DEF Transaction
  <2> QED
    BY <2>1, ReadsTyped, WritesTyped, FailsTyped
<1>6. CASE Listed
  BY <1>6, ListedTyped DEF Listed
<1>7. CASE Saved
  BY <1>7, SavedTyped DEF Saved
<1>8. CASE Loaded
  <2>1. machine' = game' /\ game' = game
    BY <1>8, LoadedKeepsTheGame DEF Loaded
  <2>2. machine' \in Games \cup {None}
    BY <2>1 DEF Types, TypeOK
  <2> QED
    BY <1>8, <2>1, <2>2, LoadedTyped
<1>9. CASE Deleted
  BY <1>9, DeletedTyped DEF Deleted
<1>10. CASE UNCHANGED vars
  <2>1. Made' = Made /\ hist' = hist
    BY <1>10 DEF vars, Made, Answered
  <2>2. CallsAreWhole'
    BY <2>1 DEF Types, CallsAreWhole, CallIsWhole
  <2> QED
    BY <1>10, <2>2 DEF vars, Types, TypeOK, Counts, StoreIsWhole, PendingIsWhole, Saving
<1> QED
  BY <1>1, <1>2, <1>3, <1>4, <1>5, <1>6, <1>7, <1>8, <1>9, <1>10 DEF Next, Player, PollWebSlots

\* Every variable keeps its type, every save stays with its own game, on the sheet,
\* in the store and in every call, and the machine is of the game that is current
\* (slots.rs: load_bytes only ever restores a save of the game it belongs to).
THEOREM TypeCorrect == Spec => []TypeOK
<1>1. Spec => []Typed
  BY InitTyped, StepTyped, PTL DEF Spec
<1>2. Typed => TypeOK
  BY DEF Typed, Types
<1> QED
  BY <1>1, <1>2, PTL

-----------------------------------------------------------------------------
(* Until a boot comes between a request and its answer, one request at a   *)
(* time is out, and it is the one `pending` names.                         *)

AtMostOne(S) == \A x, y \in S : x = y

\* Where the requests of the player are; a listing is asked by the program.
InQueue(s) == {i \in DOMAIN s : s[i].do # "list"}
InEvents(s) == {i \in DOMAIN s : s[i].call.do # "list"}

OneRequest ==
  /\ AtMostOne(asking) /\ AtMostOne(InQueue(queue)) /\ AtMostOne(InEvents(events))
  /\ asking # {} => InQueue(queue) = {} /\ InEvents(events) = {}
  /\ InQueue(queue) # {} => InEvents(events) = {}

Asked == \A c \in Made : c.do # "list" => pending # None /\ pending.op = c.why

Alone == ~hist.crossed => OneRequest /\ Asked

Inv == Typed /\ Alone /\ ExportLoadsOnlyAfterABoot

LEMMA QueueGains ==
  ASSUME NEW s \in Seq(Call), NEW c \in Call
  PROVE  /\ c.do = "list" => InQueue(Append(s, c)) = InQueue(s)
         /\ InQueue(s) = {} => AtMostOne(InQueue(Append(s, c)))
<1>1. /\ Append(s, c) \in Seq(Call) /\ Len(Append(s, c)) = Len(s) + 1
      /\ Append(s, c)[Len(s) + 1] = c /\ \A i \in 1..Len(s) : Append(s, c)[i] = s[i]
  BY AppendProperties
<1>2. DOMAIN s = 1..Len(s) /\ DOMAIN Append(s, c) = 1..(Len(s) + 1) /\ Len(s) \in Nat
  BY <1>1, LenProperties
<1>3. 1..(Len(s) + 1) = 1..Len(s) \cup {Len(s) + 1}
  BY <1>2
<1>4. InQueue(Append(s, c)) = InQueue(s) \cup {i \in {Len(s) + 1} : c.do # "list"}
  BY <1>1, <1>2, <1>3 DEF InQueue
<1> QED
  BY <1>4 DEF AtMostOne

LEMMA QueueDrops ==
  ASSUME NEW s \in Seq(Call), NEW i \in 1..Len(s)
  PROVE  /\ AtMostOne(InQueue(s)) => AtMostOne(InQueue(RemoveAt(s, i)))
         /\ AtMostOne(InQueue(s)) /\ s[i].do # "list" => InQueue(RemoveAt(s, i)) = {}
         /\ InQueue(s) = {} => InQueue(RemoveAt(s, i)) = {}
<1> DEFINE r == RemoveAt(s, i)
           at(j) == IF j < i THEN j ELSE j + 1
<1>1. r \in Seq(Call) /\ Len(r) = Len(s) - 1 /\ \A j \in 1..(Len(s) - 1) : r[j] = s[at(j)]
  BY Removing
<1>2. DOMAIN s = 1..Len(s) /\ DOMAIN r = 1..(Len(s) - 1) /\ Len(s) \in Nat
  BY <1>1, LenProperties
<1> HIDE DEF r
<1>3. ASSUME NEW j \in InQueue(r)
      PROVE  j \in Int /\ at(j) \in InQueue(s) /\ at(j) # i
  <2>1. j \in 1..(Len(s) - 1) /\ r[j].do # "list"
    BY <1>2 DEF InQueue
  <2>2. at(j) \in 1..Len(s) /\ at(j) # i
    BY <1>2, <2>1
  <2>3. s[at(j)].do # "list"
    BY <1>1, <2>1
  <2> QED
    BY <1>2, <2>1, <2>2, <2>3 DEF InQueue
<1>4. AtMostOne(InQueue(s)) => AtMostOne(InQueue(r))
  <2>1. SUFFICES ASSUME AtMostOne(InQueue(s)), NEW j \in InQueue(r), NEW k \in InQueue(r)
                 PROVE  j = k
    BY DEF AtMostOne
  <2>2. at(j) = at(k) /\ j \in Int /\ k \in Int
    BY <1>3, <2>1 DEF AtMostOne
  <2> QED
    BY <2>2
<1>5. AtMostOne(InQueue(s)) /\ s[i].do # "list" => InQueue(r) = {}
  BY <1>2, <1>3 DEF AtMostOne, InQueue
<1>6. InQueue(s) = {} => InQueue(r) = {}
  BY <1>3
<1> QED
  BY <1>4, <1>5, <1>6 DEF r

LEMMA EventsGain ==
  ASSUME Types, NEW c \in Call, NEW ok \in BOOLEAN, Answer(c, ok)
  PROVE  /\ c.do = "list" => InEvents(events') = InEvents(events)
         /\ InEvents(events) = {} => AtMostOne(InEvents(events'))
<1> DEFINE e == [call |-> c, ok |-> ok]
<1>1. events \in Seq(Event) /\ e \in Event /\ events' = Append(events, e) /\ e.call = c
  BY DEF Types, TypeOK, Event, Answer
<1> HIDE DEF e
<1>2. /\ events' \in Seq(Event) /\ Len(events') = Len(events) + 1
      /\ events'[Len(events) + 1] = e /\ \A i \in 1..Len(events) : events'[i] = events[i]
  BY <1>1, AppendProperties
<1>3. DOMAIN events = 1..Len(events) /\ DOMAIN events' = 1..(Len(events) + 1) /\ Len(events) \in Nat
  BY <1>1, <1>2, LenProperties
<1>4. 1..(Len(events) + 1) = 1..Len(events) \cup {Len(events) + 1}
  BY <1>3
<1>5. InEvents(events') = InEvents(events) \cup {i \in {Len(events) + 1} : c.do # "list"}
  BY <1>1, <1>2, <1>3, <1>4 DEF InEvents
<1> QED
  BY <1>5 DEF AtMostOne

LEMMA EventsDrop ==
  ASSUME Types, NEW d, Handled(d)
  PROVE  /\ AtMostOne(InEvents(events)) => AtMostOne(InEvents(events'))
         /\ AtMostOne(InEvents(events)) /\ d # "list" => InEvents(events') = {}
         /\ d # "list" => InEvents(events) # {}
         /\ InEvents(events) = {} => InEvents(events') = {}
<1>1. /\ events[1].call.do = d /\ events' \in Seq(Event) /\ events \in Seq(Event)
      /\ Len(events) \in Nat /\ Len(events) >= 1 /\ Len(events') = Len(events) - 1
      /\ \A i \in 1..(Len(events) - 1) : events'[i] = events[i + 1]
  BY HandledTakes DEF Types, TypeOK, Event
<1>2. DOMAIN events = 1..Len(events) /\ DOMAIN events' = 1..(Len(events) - 1)
  BY <1>1, LenProperties
<1>3. ASSUME NEW j \in InEvents(events')
      PROVE  j \in Nat \ {0} /\ j + 1 \in InEvents(events)
  <2>1. j \in 1..(Len(events) - 1) /\ events'[j].call.do # "list"
    BY <1>2 DEF InEvents
  <2>2. j + 1 \in 1..Len(events) /\ events[j + 1].call.do # "list"
    BY <1>1, <2>1
  <2> QED
    BY <1>2, <2>1, <2>2 DEF InEvents
<1>4. d # "list" => 1 \in InEvents(events)
  BY <1>1, <1>2 DEF InEvents
<1>5. AtMostOne(InEvents(events)) => AtMostOne(InEvents(events'))
  BY <1>3 DEF AtMostOne
<1>6. AtMostOne(InEvents(events)) /\ d # "list" => InEvents(events') = {}
  <2>1. SUFFICES ASSUME AtMostOne(InEvents(events)), d # "list", NEW j \in InEvents(events')
                 PROVE  FALSE
    OBVIOUS
  <2>2. j + 1 = 1 /\ j \in Nat \ {0}
    BY <1>3, <1>4, <2>1 DEF AtMostOne
  <2> QED
    BY <2>2
<1>7. InEvents(events) = {} => InEvents(events') = {}
  BY <1>3
<1> QED
  BY <1>4, <1>5, <1>6, <1>7

\* No request is out exactly when all that is out are listings.
Quiet == asking = {} /\ InQueue(queue) = {} /\ InEvents(events) = {}

LEMMA OnlyListings ==
  ASSUME NEW a, NEW q, NEW e, \A c \in a : c.do = "put"
  PROVE  a = {} /\ InQueue(q) = {} /\ InEvents(e) = {}
         <=> \A c \in a \cup Range(q) \cup {f.call : f \in Range(e)} : c.do = "list"
<1>1. Range(q) = {q[i] : i \in DOMAIN q} /\ Range(e) = {e[i] : i \in DOMAIN e}
  BY DEF Range
<1>2. InQueue(q) = {} <=> \A c \in Range(q) : c.do = "list"
  BY <1>1 DEF InQueue
<1>3. InEvents(e) = {} <=> \A c \in {f.call : f \in Range(e)} : c.do = "list"
  <2>1. InEvents(e) = {} <=> \A f \in Range(e) : f.call.do = "list"
    BY <1>1 DEF InEvents
  <2> QED
    BY <2>1
<1>4. a = {} <=> \A c \in a : c.do = "list"
  OBVIOUS
<1> QED
  BY <1>2, <1>3, <1>4

LEMMA QuietMeansListings ==
  /\ Types => (Quiet <=> \A c \in Made : c.do = "list")
  /\ Types' => (Quiet' <=> \A c \in Made' : c.do = "list")
BY OnlyListings DEF Types, Quiet, Made, Answered

LEMMA QuietIsNotOutstanding ==
  ASSUME Types, ~Outstanding
  PROVE  Quiet
BY DEF Outstanding, Quiet, InQueue, InEvents

LEMMA QuietIsAlone ==
  ASSUME Quiet, \A c \in Made : c.do = "list"
  PROVE  OneRequest /\ Asked
BY DEF Quiet, OneRequest, Asked, AtMostOne

LEMMA AskAlone ==
  ASSUME Inv, NEW op \in WebOp, NEW do \in {"put", "get", "delete"}, NEW save \in {None, NewSave},
         NEW s \in Slots, AskedAs(op, do, save), Ask(op, s, save, do)
  PROVE  Alone' /\ ExportLoadsOnlyAfterABoot'
<1> DEFINE c == Request(do, game, s, save, op)
<1>1. Types
  BY DEF Inv, Typed
<1>2. /\ c \in Call /\ c.do = do /\ c.why = op
      /\ do = "put" => asking' = asking \cup {c} /\ queue' = queue
      /\ do # "put" => asking' = asking /\ queue' = Append(queue, c)
      /\ Made' = Made \cup {c}
      /\ pending' # None /\ pending'.op = op /\ pending = None
      /\ hist' = [hist EXCEPT !.ops = @ + 1]
      /\ UNCHANGED events
  BY <1>1, AskMakes
<1> HIDE DEF c
<1>3. hist'.crossed = hist.crossed /\ hist'.exportLoaded = hist.exportLoaded
  BY <1>1, <1>2 DEF Types, Counts
<1>4. ASSUME ~hist.crossed  PROVE OneRequest' /\ Asked'
  <2>1. \A d \in Made : d.do = "list"
    BY <1>2, <1>4 DEF Inv, Alone, Asked
  <2>2. Quiet
    BY <1>1, <2>1, QuietMeansListings
  <2>3. Asked'
    <3>1. \A d \in Made' : d.do # "list" => d = c
      BY <1>2, <2>1
    <3> QED
      BY <1>2, <3>1 DEF Asked
  <2>4. queue \in Seq(Call)
    BY <1>1 DEF Types, TypeOK
  <2>5. OneRequest'
    <3>1. CASE do = "put"
      BY <1>2, <2>2, <3>1 DEF OneRequest, Quiet, AtMostOne
    <3>2. CASE do # "put"
      BY <1>2, <2>2, <2>4, <3>2, QueueGains DEF OneRequest, Quiet, AtMostOne
    <3> QED
      BY <3>1, <3>2
  <2> QED
    BY <2>3, <2>5
<1> QED
  BY <1>3, <1>4 DEF Inv, Alone, ExportLoadsOnlyAfterABoot

LEMMA ChangeGameAlone ==
  ASSUME Inv, NEW g \in Games, ChangeGame(g)
  PROVE  Alone' /\ ExportLoadsOnlyAfterABoot'
<1>1. Types
  BY DEF Inv, Typed
<1>2. /\ Forgotten(g) /\ UNCHANGED <<asking, events>>
      /\ hist' = [hist EXCEPT !.changes = @ + 1, !.crossed = @ \/ Outstanding]
  BY DEF ChangeGame
<1>3. hist'.crossed = (hist.crossed \/ Outstanding) /\ hist'.exportLoaded = hist.exportLoaded
  BY <1>1, <1>2 DEF Types, Counts
<1>4. ASSUME ~hist.crossed, ~Outstanding  PROVE OneRequest' /\ Asked'
  <2>1. Quiet /\ \A c \in Made : c.do = "list"
    BY <1>1, <1>4, QuietIsNotOutstanding, QuietMeansListings
  <2>2. queue' = Append(queue, List(g)) /\ Made' = asking \cup Range(queue) \cup Answered' \cup {List(g)}
    BY <1>1, <1>2, ForgottenAdds
  <2>3. Answered' = Answered /\ List(g) \in Call /\ List(g).do = "list" /\ queue \in Seq(Call)
    BY <1>1, <1>2, ListIsACall DEF Answered, Types, TypeOK
  <2>4. InQueue(queue') = InQueue(queue)
    BY <2>2, <2>3, QueueGains
  <2>5. Quiet' /\ \A c \in Made' : c.do = "list"
    BY <1>2, <2>1, <2>2, <2>3, <2>4 DEF Quiet, Made
  <2> QED
    BY <2>5 DEF Quiet, OneRequest, Asked, AtMostOne
<1> QED
  BY <1>3, <1>4 DEF Inv, Alone, ExportLoadsOnlyAfterABoot

LEMMA PersistedAlone ==
  ASSUME Inv, Persisted
  PROVE  Alone' /\ ExportLoadsOnlyAfterABoot'
<1>1. Types
  BY DEF Inv, Typed
<1>2. PICK c \in asking : /\ asking' = asking \ {c} /\ queue' = Append(queue, c)
                          /\ UNCHANGED <<pending, events, hist>>
  BY DEF Persisted
<1>3. Made' = Made
  BY <1>1, PersistedTyped
<1>4. ASSUME OneRequest  PROVE OneRequest'
  <2>1. asking = {c} /\ InQueue(queue) = {} /\ InEvents(events) = {}
    BY <1>4 DEF OneRequest, AtMostOne
  <2>2. AtMostOne(InQueue(queue'))
    BY <1>1, <1>2, <2>1, QueueGains DEF Types, TypeOK
  <2> QED
    BY <1>2, <2>1, <2>2 DEF OneRequest, AtMostOne
<1> QED
  BY <1>2, <1>3, <1>4 DEF Inv, Alone, Asked, ExportLoadsOnlyAfterABoot

\* A call that moves within or out of the queue stays one request.
LEMMA MovedIsOneRequest ==
  ASSUME Types, OneRequest, NEW i \in DOMAIN queue, NEW r \in Call, r.do = queue[i].do,
         NEW ok \in BOOLEAN, asking' = asking,
         \/ queue' = Append(RemoveAt(queue, i), r) /\ events' = events
         \/ queue' = RemoveAt(queue, i) /\ Answer(r, ok)
         \/ queue' = RemoveAt(queue, i) /\ events' = events
  PROVE  OneRequest'
<1> DEFINE rest == RemoveAt(queue, i)
<1>1. queue \in Seq(Call) /\ i \in 1..Len(queue) /\ rest \in Seq(Call)
  BY TransactionTakes DEF Types, TypeOK
<1>2. /\ AtMostOne(InQueue(rest))
      /\ queue[i].do # "list" => InQueue(rest) = {}
      /\ InQueue(queue) = {} => InQueue(rest) = {}
  BY <1>1, QueueDrops DEF OneRequest
<1>3. r.do # "list" => i \in InQueue(queue)
  BY DEF InQueue
<1>4. r.do # "list" => asking = {} /\ InEvents(events) = {} /\ InQueue(rest) = {}
  BY <1>2, <1>3 DEF OneRequest
<1> HIDE DEF rest
<1>5. CASE queue' = Append(rest, r) /\ events' = events
  <2>1. /\ r.do = "list" => InQueue(queue') = InQueue(rest)
        /\ InQueue(rest) = {} => AtMostOne(InQueue(queue'))
    BY <1>1, <1>5, QueueGains
  <2>2. CASE r.do = "list"
    BY <1>2, <1>5, <2>1, <2>2 DEF OneRequest
  <2>3. CASE r.do # "list"
    BY <1>4, <1>5, <2>1, <2>3 DEF OneRequest
  <2> QED
    BY <2>2, <2>3
<1>6. CASE queue' = rest /\ Answer(r, ok)
  <2>1. /\ r.do = "list" => InEvents(events') = InEvents(events)
        /\ InEvents(events) = {} => AtMostOne(InEvents(events'))
    BY <1>6, EventsGain
  <2>2. CASE r.do = "list"
    BY <1>2, <1>6, <2>1, <2>2 DEF OneRequest
  <2>3. CASE r.do # "list"
    BY <1>4, <1>6, <2>1, <2>3 DEF OneRequest
  <2> QED
    BY <2>2, <2>3
<1>7. CASE queue' = rest /\ events' = events
  BY <1>2, <1>7 DEF OneRequest
<1> QED
  BY <1>5, <1>6, <1>7 DEF rest

LEMMA TransactionAlone ==
  ASSUME Inv, Transaction
  PROVE  Alone' /\ ExportLoadsOnlyAfterABoot'
<1>1. Types
  BY DEF Inv, Typed
<1>2. PICK i \in DOMAIN queue : /\ Reads(i) \/ Writes(i) \/ Fails(i)
                                /\ UNCHANGED <<game, machine, pending, web, asking>>
  BY DEF Transaction
<1>3. queue[i] \in Call /\ queue[i] \in Made
  BY <1>1, TransactionTakes DEF Made
<1>4. /\ hist'.crossed = hist.crossed /\ hist'.exportLoaded = hist.exportLoaded
      /\ OneRequest => OneRequest'
      /\ \A c \in Made' : \E d \in Made : c.do = d.do /\ c.why = d.why
  <2>1. CASE Reads(i)
    <3>1. PICK r \in Call :
            /\ r.do = queue[i].do /\ r.why = queue[i].why
            /\ \/ queue' = Append(RemoveAt(queue, i), r) /\ UNCHANGED events
               \/ queue' = RemoveAt(queue, i) /\ Answer(r, TRUE)
            /\ Made' = asking \cup Range(RemoveAt(queue, i)) \cup Answered \cup {r}
      BY <1>1, <1>2, <2>1, ReadsMoves
    <3>2. Made' \subseteq Made \cup {r}
      BY <1>1, <3>1, TransactionTakes DEF Made
    <3>3. OneRequest => OneRequest'
      BY <1>1, <1>2, <3>1, MovedIsOneRequest
    <3>4. hist' = hist
      BY <2>1 DEF Reads
    <3> QED
      BY <1>3, <3>1, <3>2, <3>3, <3>4
  <2>2. CASE Writes(i)
    <3>1. /\ queue' = RemoveAt(queue, i) /\ Answer(queue[i], TRUE) /\ Made' = Made
          /\ \E b \in BOOLEAN : hist' = [hist EXCEPT !.replaced = b]
      BY <1>1, <1>2, <2>2, WritesMoves
    <3>2. OneRequest => OneRequest'
      BY <1>1, <1>2, <1>3, <3>1, MovedIsOneRequest
    <3>3. hist'.crossed = hist.crossed /\ hist'.exportLoaded = hist.exportLoaded
      BY <1>1, <3>1 DEF Types, Counts
    <3> QED
      BY <3>1, <3>2, <3>3
  <2>3. CASE Fails(i)
    <3>1. /\ queue' = RemoveAt(queue, i) /\ Made' \subseteq Made
          /\ Answer(queue[i], FALSE) \/ UNCHANGED events
          /\ \E h \in BOOLEAN : hist' = [hist EXCEPT !.faults = @ + 1, !.hung = h]
      BY <1>1, <1>2, <2>3, FailsMoves
    <3>2. OneRequest => OneRequest'
      BY <1>1, <1>2, <1>3, <3>1, MovedIsOneRequest
    <3>3. hist'.crossed = hist.crossed /\ hist'.exportLoaded = hist.exportLoaded
      BY <1>1, <3>1 DEF Types, Counts
    <3> QED
      BY <3>1, <3>2, <3>3
  <2> QED
    BY <1>2, <2>1, <2>2, <2>3
<1> QED
  BY <1>2, <1>4 DEF Inv, Alone, Asked, ExportLoadsOnlyAfterABoot

LEMMA ListedAlone ==
  ASSUME Inv, Listed
  PROVE  Alone' /\ ExportLoadsOnlyAfterABoot'
<1>1. Types
  BY DEF Inv, Typed
<1>2. /\ Made' \subseteq Made
      /\ hist'.crossed = hist.crossed /\ hist'.exportLoaded = hist.exportLoaded
  BY <1>1, ListedTyped DEF Types, Counts
<1>3. UNCHANGED <<pending, asking, queue>> /\ Handled("list")
  BY DEF Listed
<1>4. OneRequest => OneRequest'
  BY <1>1, <1>3, EventsDrop DEF OneRequest
<1> QED
  BY <1>2, <1>3, <1>4 DEF Inv, Alone, Asked, ExportLoadsOnlyAfterABoot

\* Once the only request has been handled, none is out.
LEMMA HandledIsQuiet ==
  ASSUME Types, OneRequest, NEW d \in {"put", "get", "delete"}, Handled(d), UNCHANGED asking,
         InQueue(queue') = InQueue(queue)
  PROVE  Quiet'
<1>1. InEvents(events') = {} /\ InEvents(events) # {}
  BY EventsDrop DEF OneRequest
<1> QED
  BY <1>1 DEF Quiet, OneRequest

LEMMA HandledAlone ==
  ASSUME Inv, NEW d \in {"put", "get", "delete"}, Handled(d), UNCHANGED asking,
         InQueue(queue') = InQueue(queue), Types',
         hist'.crossed = hist.crossed
  PROVE  Alone'
<1>1. SUFFICES ASSUME OneRequest  PROVE OneRequest' /\ Asked'
  BY DEF Inv, Alone
<1>2. Quiet'
  BY <1>1, HandledIsQuiet DEF Inv, Typed
<1>3. \A c \in Made' : c.do = "list"
  BY <1>2, QuietMeansListings
<1> QED
  BY <1>2, <1>3 DEF Quiet, OneRequest, Asked, AtMostOne

LEMMA SavedAlone ==
  ASSUME Inv, Saved
  PROVE  Alone' /\ ExportLoadsOnlyAfterABoot'
<1>1. Types
  BY DEF Inv, Typed
<1>2. UNCHANGED <<asking, hist>> /\ Handled("put")
  BY DEF Saved
<1>3. Types' /\ (UNCHANGED queue \/ (game \in Games /\ Forgotten(game)))
  BY <1>1, SavedTyped
<1>4. InQueue(queue') = InQueue(queue)
  <2>1. CASE UNCHANGED queue
    BY <2>1
  <2>2. CASE game \in Games /\ Forgotten(game)
    <3>1. queue' = Append(queue, List(game)) /\ queue \in Seq(Call)
      BY <1>1, <1>2, <2>2, ForgottenAdds DEF Types, TypeOK
    <3> QED
      BY <2>2, <3>1, ListIsACall, QueueGains
  <2> QED
    BY <1>3, <2>1, <2>2
<1>5. Alone'
  BY <1>2, <1>3, <1>4, HandledAlone
<1> QED
  BY <1>2, <1>5 DEF Inv, ExportLoadsOnlyAfterABoot

\* The answer to the only request is an export's when an export is pending.
LEMMA LoadedAlone ==
  ASSUME Inv, Loaded, Types'
  PROVE  Alone' /\ ExportLoadsOnlyAfterABoot'
<1> DEFINE c == events[1].call
           restores == Current /\ Ok /\ c.save # None /\ ~(pending # None /\ pending.op = "export")
<1>1. Types
  BY DEF Inv, Typed
<1>2. /\ Handled("get") /\ UNCHANGED <<asking, queue>>
      /\ hist' = [hist EXCEPT !.exportLoaded = @ \/ (restores /\ c.why = "export")]
  BY DEF Loaded
<1>3. hist'.crossed = hist.crossed
      /\ hist'.exportLoaded = (hist.exportLoaded \/ (restores /\ c.why = "export"))
  BY <1>1, <1>2 DEF Types, Counts
<1>4. c \in Made /\ c.do = "get"
  BY <1>1, <1>2, HandledTakes DEF Made
<1>5. ~hist.crossed => ~(restores /\ c.why = "export")
  BY <1>4 DEF Inv, Alone, Asked
<1>6. Alone'
  BY <1>2, <1>3, HandledAlone
<1> QED
  BY <1>3, <1>5, <1>6 DEF Inv, ExportLoadsOnlyAfterABoot

LEMMA DeletedAlone ==
  ASSUME Inv, Deleted
  PROVE  Alone' /\ ExportLoadsOnlyAfterABoot'
<1>1. UNCHANGED <<asking, queue, hist>> /\ Handled("delete") /\ Types'
  BY DeletedTyped DEF Inv, Typed, Deleted
<1>2. Alone'
  BY <1>1, HandledAlone
<1> QED
  BY <1>1, <1>2 DEF Inv, ExportLoadsOnlyAfterABoot

LEMMA StepInv ==
  ASSUME Inv, [Next]_vars
  PROVE  Inv'
<1>1. Typed'
  BY StepTyped DEF Inv
<1>2. CASE \/ \E s \in Slots : SaveSlot(s) \/ LoadSlot(s) \/ ExportSlot(s) \/ DeleteSlot(s)
           \/ ImportSlot
  <2>1. PICK op \in WebOp, do \in {"put", "get", "delete"}, save \in {None, NewSave}, s \in Slots :
          AskedAs(op, do, save) /\ Ask(op, s, save, do)
    BY <1>2, EveryOperationAsks
  <2> QED
    BY <1>1, <2>1, AskAlone DEF Inv
<1>3. ASSUME NEW g \in Games, ChangeGame(g)  PROVE Inv'
  BY <1>1, <1>3, ChangeGameAlone DEF Inv
<1>4. CASE Unload
  <2>1. /\ UNCHANGED <<pending, asking, queue, events>>
        /\ hist' = [hist EXCEPT !.changes = @ + 1]
    BY <1>4 DEF Unload
  <2>2. hist'.crossed = hist.crossed /\ hist'.exportLoaded = hist.exportLoaded /\ Made' = Made
    BY <2>1 DEF Inv, Typed, Types, Counts, Made, Answered
  <2>3. OneRequest => OneRequest'
    BY <2>1 DEF OneRequest
  <2> QED
    BY <1>1, <2>1, <2>2, <2>3 DEF Inv, Alone, Asked, ExportLoadsOnlyAfterABoot
<1>5. CASE Persisted
  BY <1>1, <1>5, PersistedAlone DEF Inv
<1>6. CASE Transaction
  BY <1>1, <1>6, TransactionAlone DEF Inv
<1>7. CASE Listed
  BY <1>1, <1>7, ListedAlone DEF Inv
<1>8. CASE Saved
  BY <1>1, <1>8, SavedAlone DEF Inv
<1>9. CASE Loaded
  BY <1>1, <1>9, LoadedAlone DEF Inv, Typed
<1>10. CASE Deleted
  BY <1>1, <1>10, DeletedAlone DEF Inv
<1>11. CASE UNCHANGED vars
  <2>1. Made' = Made /\ UNCHANGED <<pending, asking, queue, events, hist>>
    BY <1>11 DEF vars, Made, Answered
  <2>2. OneRequest => OneRequest'
    BY <2>1 DEF OneRequest
  <2> QED
    BY <1>1, <2>1, <2>2 DEF Inv, Alone, Asked, ExportLoadsOnlyAfterABoot
<1> QED
  BY <1>2, <1>3, <1>4, <1>5, <1>6, <1>7, <1>8, <1>9, <1>10, <1>11 DEF Next, Player, PollWebSlots

LEMMA InitInv ==
  ASSUME Init
  PROVE  Inv
<1>1. Typed /\ Made = {}
  BY InitTyped, NothingMade DEF Init
<1>2. OneRequest
  <2>1. InQueue(queue) = {} /\ InEvents(events) = {} /\ asking = {}
    BY DEF Init, InQueue, InEvents
  <2> QED
    BY <2>1 DEF OneRequest, AtMostOne
<1> QED
  BY <1>1, <1>2 DEF Init, Inv, Alone, Asked, ExportLoadsOnlyAfterABoot

\* The machine always holds the state of the game that is current, whatever was
\* booted while a load was out, and a slot being exported is never loaded unless
\* a boot came between an older request and its answer (slots.rs, poll_web_slots).
THEOREM OnlyItsOwnState == Spec => []MachineRunsItsGame
<1>1. Spec => []Inv
  BY InitInv, StepInv, PTL DEF Spec
<1>2. Inv => MachineRunsItsGame
  BY DEF Inv, Typed, MachineRunsItsGame
<1> QED
  BY <1>1, <1>2, PTL

-----------------------------------------------------------------------------
(* The sheet, as long as no transaction has failed.                        *)

Write(c, g, s) == c.do \in {"put", "delete"} /\ c.game = g /\ c.slot = s

EventsOk == \A i \in DOMAIN events : events[i].ok

\* A slot holds what the last of its writes among the events says.
LastWrite(i) ==
  LET c == events[i].call
  IN /\ c.do \in {"put", "delete"}
     /\ \A j \in DOMAIN events : j > i => ~Write(events[j].call, c.game, c.slot)
LastWrites ==
  \A i \in DOMAIN events : LastWrite(i) =>
    store[events[i].call.game][events[i].call.slot] = events[i].call.save

\* The save that is pending is on its way.
SaveIsOut ==
  game # None /\ Saving =>
    \E c \in Made : c.do = "put" /\ c.game = game /\ c.save = pending.save

\* What will still set the sheet right: a listing; a save of this game that is not
\* the pending one, whose answer will ask for a listing unless it takes another's
\* place, which then does.
ListComes == \E c \in Range(queue) \cup Answered : c.do = "list" /\ c.game = game
RelistComes ==
  \E c \in Made : c.do = "put" /\ c.game = game /\ ~(Saving /\ c.save = pending.save)

\* A slot the sheet shows wrongly has the answer to a write of it coming.
SlotsSettle ==
  \A s \in Slots : (\E c \in Answered : Write(c, game, s)) \/ web[s] = store[game][s]

SheetSettles ==
  game # None /\ ~hist.overtaken => ListComes \/ RelistComes \/ SlotsSettle

Settling == hist.faults = 0 => EventsOk /\ LastWrites /\ SaveIsOut /\ SheetSettles

\* The events after one more answer, and after the first is handled.
LEMMA AnswerKeeps ==
  ASSUME Types, NEW c \in Call, Answer(c, TRUE), EventsOk, LastWrites
  PROVE  /\ EventsOk'
         /\ Reading(c) /\ UNCHANGED store => LastWrites'
         /\ ~Reading(c) /\ store' = [store EXCEPT ![c.game][c.slot] = c.save] => LastWrites'
<1> DEFINE e == [call |-> c, ok |-> TRUE]
           n == Len(events) + 1
<1>1. events \in Seq(Event) /\ e \in Event /\ events' = Append(events, e) /\ e.call = c /\ e.ok
  BY DEF Types, TypeOK, Event, Answer
<1> HIDE DEF e
<1>2. /\ events' \in Seq(Event) /\ Len(events') = n /\ events'[n] = e
      /\ \A i \in 1..Len(events) : events'[i] = events[i]
  BY <1>1, AppendProperties
<1>3. /\ DOMAIN events = 1..Len(events) /\ DOMAIN events' = 1..n /\ Len(events) \in Nat
      /\ 1..n = 1..Len(events) \cup {n} /\ n > Len(events)
  BY <1>1, <1>2, LenProperties
<1>4. EventsOk'
  BY <1>1, <1>2, <1>3 DEF EventsOk
<1>5. c.do \in {"put", "get", "delete", "list"}
  BY DEF Call
<1>6. ASSUME NEW i \in 1..Len(events), LastWrite(i)'
      PROVE  /\ LastWrite(i) /\ events'[i] = events[i]
             /\ ~Write(c, events[i].call.game, events[i].call.slot)
  <2>1. n \in DOMAIN events' /\ n > i /\ i \in DOMAIN events /\ events'[i] = events[i]
    BY <1>2, <1>3
  <2>2. \A j \in DOMAIN events : j > i => ~Write(events[j].call, events[i].call.game, events[i].call.slot)
    BY <1>2, <1>3, <1>6, <2>1 DEF LastWrite
  <2> QED
    BY <1>1, <1>2, <1>6, <2>1, <2>2 DEF LastWrite
<1>7. ASSUME Reading(c), UNCHANGED store  PROVE LastWrites'
  <2>1. SUFFICES ASSUME NEW i \in 1..n, LastWrite(i)'
                 PROVE  store[events'[i].call.game][events'[i].call.slot] = events'[i].call.save
    BY <1>3, <1>7 DEF LastWrites
  <2>2. i # n
    BY <1>1, <1>2, <1>7, <2>1 DEF LastWrite, Reading
  <2> QED
    BY <1>3, <1>6, <2>1, <2>2 DEF LastWrites
<1>8. ASSUME ~Reading(c), store' = [store EXCEPT ![c.game][c.slot] = c.save]  PROVE LastWrites'
  <2>1. SUFFICES ASSUME NEW i \in 1..n, LastWrite(i)'
                 PROVE  store'[events'[i].call.game][events'[i].call.slot] = events'[i].call.save
    BY <1>3 DEF LastWrites
  <2>2. store \in [Games -> [Slots -> Saves \cup {None}]] /\ c.game \in Games /\ c.slot \in Slots
    BY DEF Types, TypeOK, Sheet, Call
  <2>3. CASE i = n
    BY <1>1, <1>2, <1>8, <2>2, <2>3
  <2>4. CASE i # n
    <3>1. i \in 1..Len(events) /\ events[i].call \in Call
      <4>1. i \in 1..Len(events)
        BY <1>3, <2>1, <2>4
      <4>2. events[i] \in Event
        BY <1>1, <4>1, ElementOfSeq
      <4> QED
        BY <4>1, <4>2 DEF Event
    <3> DEFINE d == events[i].call
    <3>2. LastWrite(i) /\ events'[i] = events[i] /\ ~Write(c, d.game, d.slot)
      BY <1>6, <2>1, <3>1
    <3>3. store[d.game][d.slot] = d.save
      BY <1>3, <3>1, <3>2 DEF LastWrites
    <3>4. d.game \in Games /\ d.slot \in Slots /\ (d.game # c.game \/ d.slot # c.slot)
      BY <1>5, <1>8, <3>1, <3>2 DEF Call, Write, Reading
    <3>5. store'[d.game][d.slot] = store[d.game][d.slot]
      BY <1>8, <2>2, <3>4
    <3> QED
      BY <3>2, <3>3, <3>5
  <2> QED
    BY <2>3, <2>4
<1> QED
  BY <1>4, <1>7, <1>8

LEMMA HandlingKeeps ==
  ASSUME Types, NEW d, Handled(d), UNCHANGED store, EventsOk, LastWrites
  PROVE  /\ EventsOk' /\ LastWrites' /\ Ok
         /\ LET c == events[1].call
            IN  /\ d \in {"put", "delete"}
                /\ \A w \in Answered' : ~Write(w, c.game, c.slot)
                => store[c.game][c.slot] = c.save
<1>1. /\ events[1].call.do = d /\ events' \in Seq(Event) /\ events \in Seq(Event)
      /\ Len(events) \in Nat /\ Len(events) >= 1 /\ Len(events') = Len(events) - 1
      /\ \A i \in 1..(Len(events) - 1) : events'[i] = events[i + 1]
  BY HandledTakes DEF Types, TypeOK, Event
<1>2. DOMAIN events = 1..Len(events) /\ DOMAIN events' = 1..(Len(events) - 1)
  BY <1>1, LenProperties
<1>3. EventsOk' /\ Ok
  <2>1. ASSUME NEW i \in 1..(Len(events) - 1)  PROVE events'[i].ok
    <3>1. i + 1 \in DOMAIN events /\ events'[i] = events[i + 1]
      BY <1>1, <1>2
    <3> QED
      BY <3>1 DEF EventsOk
  <2>2. 1 \in DOMAIN events
    BY <1>1, <1>2
  <2> QED
    BY <1>2, <2>1, <2>2 DEF EventsOk, Ok
<1>4. LastWrites'
  <2>1. SUFFICES ASSUME NEW i \in 1..(Len(events) - 1), LastWrite(i)'
                 PROVE  store[events'[i].call.game][events'[i].call.slot] = events'[i].call.save
    BY <1>2 DEF LastWrites
  <2>2. i + 1 \in DOMAIN events /\ events'[i] = events[i + 1]
    BY <1>1, <1>2
  <2>3. ASSUME NEW j \in DOMAIN events, j > i + 1
        PROVE  ~Write(events[j].call, events[i + 1].call.game, events[i + 1].call.slot)
    <3>1. j - 1 \in DOMAIN events' /\ j - 1 > i /\ events'[j - 1] = events[j]
      BY <1>1, <1>2, <2>3
    <3> QED
      BY <2>1, <2>2, <3>1 DEF LastWrite
  <2>4. LastWrite(i + 1)
    BY <2>1, <2>2, <2>3 DEF LastWrite
  <2> QED
    BY <2>2, <2>4 DEF LastWrites
<1>5. ASSUME d \in {"put", "delete"},
             \A w \in Answered' : ~Write(w, events[1].call.game, events[1].call.slot)
      PROVE  store[events[1].call.game][events[1].call.slot] = events[1].call.save
  <2>1. ASSUME NEW j \in DOMAIN events, j > 1
        PROVE  ~Write(events[j].call, events[1].call.game, events[1].call.slot)
    <3>1. j - 1 \in DOMAIN events' /\ events'[j - 1] = events[j]
      BY <1>1, <1>2, <2>1
    <3>2. events[j].call \in Answered'
      BY <3>1 DEF Answered, Range
    <3> QED
      BY <1>5, <3>2
  <2>2. 1 \in DOMAIN events
    BY <1>1, <1>2
  <2>3. LastWrite(1)
    BY <1>1, <1>5, <2>1 DEF LastWrite
  <2> QED
    BY <2>2, <2>3 DEF LastWrites
<1> QED
  BY <1>3, <1>4, <1>5

LEMMA AskSettles ==
  ASSUME Types, Settling, NEW op \in WebOp, NEW do \in {"put", "get", "delete"},
         NEW save \in {None, NewSave}, NEW s \in Slots, AskedAs(op, do, save), Ask(op, s, save, do)
  PROVE  Settling'
<1> DEFINE c == Request(do, game, s, save, op)
<1>1. /\ c \in Call /\ c.do = do /\ c.game = game /\ c.save = save
      /\ game \in Games
      /\ do = "put" => queue' = queue
      /\ do # "put" => queue' = Append(queue, c)
      /\ Made' = Made \cup {c}
      /\ pending' = [op |-> op, save |-> save] /\ pending = None
      /\ hist' = [hist EXCEPT !.ops = @ + 1]
      /\ UNCHANGED <<game, machine, web, events, store>>
  BY AskMakes
<1> HIDE DEF c
<1>2. hist'.faults = hist.faults /\ hist'.overtaken = hist.overtaken /\ hist.ops \in Nat
  BY <1>1 DEF Types, Counts
<1>3. SUFFICES ASSUME EventsOk, LastWrites, SaveIsOut, SheetSettles
               PROVE  EventsOk' /\ LastWrites' /\ SaveIsOut' /\ SheetSettles'
  BY <1>2 DEF Settling
<1>4. EventsOk' /\ LastWrites' /\ Answered' = Answered
  BY <1>1, <1>3 DEF EventsOk, LastWrites, LastWrite, Answered
<1>5. SaveIsOut'
  BY <1>1 DEF SaveIsOut, Saving, AskedAs
<1>6. ListComes => ListComes'
  <2>1. Range(queue) \subseteq Range(queue')
    <3>1. Range(Append(queue, c)) = Range(queue) \cup {c}
      BY <1>1, RangeOfAppend DEF Types, TypeOK
    <3> QED
      BY <1>1, <3>1
  <2> QED
    BY <1>1, <1>4, <2>1 DEF ListComes
<1>7. RelistComes => RelistComes'
  <2>1. SUFFICES ASSUME NEW p \in Made, p.do = "put", p.game = game
                 PROVE  ~(Saving' /\ p.save = pending'.save)
    BY <1>1 DEF RelistComes
  <2>2. p.save \in Games \X (0..hist.ops)
    BY <2>1 DEF Types, CallsAreWhole, CallIsWhole
  <2>3. p.save # NewSave
    BY <1>2, <2>2 DEF NewSave
  <2> QED
    BY <1>1, <2>3 DEF Saving, AskedAs
<1>8. SlotsSettle => SlotsSettle'
  BY <1>1, <1>4 DEF SlotsSettle
<1> QED
  BY <1>1, <1>2, <1>3, <1>4, <1>5, <1>6, <1>7, <1>8 DEF SheetSettles

LEMMA ChangeGameSettles ==
  ASSUME Types, Settling, NEW g \in Games, ChangeGame(g)
  PROVE  Settling'
<1>1. /\ Forgotten(g) /\ game' = g /\ UNCHANGED <<asking, events, store>>
      /\ hist' = [hist EXCEPT !.changes = @ + 1, !.crossed = @ \/ Outstanding]
  BY DEF ChangeGame
<1>2. hist'.faults = hist.faults
  BY <1>1 DEF Types, Counts
<1>3. Range(queue') = Range(queue) \cup {List(g)} /\ pending' = None
  BY <1>1, ForgottenAdds
<1>4. List(g).do = "list" /\ List(g).game = g
  BY ListIsACall
<1>5. ListComes' /\ SaveIsOut'
  BY <1>1, <1>3, <1>4 DEF ListComes, SaveIsOut, Saving
<1>6. EventsOk /\ LastWrites => EventsOk' /\ LastWrites'
  BY <1>1 DEF EventsOk, LastWrites, LastWrite
<1> QED
  BY <1>2, <1>5, <1>6 DEF Settling, SheetSettles

LEMMA PersistedSettles ==
  ASSUME Types, Settling, Persisted
  PROVE  Settling'
<1>1. PICK c \in asking : queue' = Append(queue, c)
                          /\ UNCHANGED <<game, machine, pending, web, events, store, hist>>
  BY DEF Persisted
<1>2. Made' = Made /\ Answered' = Answered
  BY <1>1, PersistedTyped DEF Answered
<1>3. Range(queue') = Range(queue) \cup {c}
  BY <1>1, RangeOfAppend DEF Types, TypeOK
<1>4. EventsOk /\ LastWrites => EventsOk' /\ LastWrites'
  BY <1>1 DEF EventsOk, LastWrites, LastWrite
<1>5. SaveIsOut => SaveIsOut'
  BY <1>1, <1>2 DEF SaveIsOut, Saving
<1>6. SheetSettles => SheetSettles'
  BY <1>1, <1>2, <1>3 DEF SheetSettles, ListComes, RelistComes, SlotsSettle, Saving
<1> QED
  BY <1>1, <1>4, <1>5, <1>6 DEF Settling

LEMMA ReadsSettles ==
  ASSUME Types, Settling, NEW i \in DOMAIN queue, Reads(i),
         UNCHANGED <<game, machine, pending, web, asking>>
  PROVE  Settling'
<1> DEFINE c == queue[i]
<1>1. PICK r \in Call :
        /\ Reading(c) /\ r.do = c.do /\ r.game = c.game
        /\ \/ queue' = Append(RemoveAt(queue, i), r) /\ UNCHANGED events
           \/ queue' = RemoveAt(queue, i) /\ Answer(r, TRUE)
        /\ Range(queue') \cup Answered' = Range(RemoveAt(queue, i)) \cup Answered \cup {r}
        /\ Answered \subseteq Answered' /\ Answered' \subseteq Answered \cup {r}
        /\ Made' = asking \cup Range(RemoveAt(queue, i)) \cup Answered \cup {r}
  BY ReadsMoves
<1>2. UNCHANGED <<store, hist>>
  BY DEF Reads
<1>3. Range(queue) = Range(RemoveAt(queue, i)) \cup {c}
  BY TransactionTakes
<1> HIDE DEF c
<1>4. SUFFICES ASSUME EventsOk, LastWrites, SaveIsOut, SheetSettles
               PROVE  EventsOk' /\ LastWrites' /\ SaveIsOut' /\ SheetSettles'
  BY <1>2 DEF Settling
<1>5. EventsOk' /\ LastWrites'
  <2>1. Reading(r)
    BY <1>1 DEF Reading
  <2>2. CASE UNCHANGED events
    BY <1>2, <1>4, <2>2 DEF EventsOk, LastWrites, LastWrite
  <2>3. CASE Answer(r, TRUE)
    BY <1>2, <1>4, <2>1, <2>3, AnswerKeeps
  <2> QED
    BY <1>1, <2>2, <2>3
<1>6. \A p \in Made : p.do = "put" => p \in Made'
  BY <1>1, <1>3 DEF Made, Reading
<1>7. SaveIsOut'
  BY <1>4, <1>6 DEF SaveIsOut, Saving
<1>8. ListComes => ListComes'
  BY <1>1, <1>3 DEF ListComes
<1>9. RelistComes => RelistComes'
  BY <1>6 DEF RelistComes, Saving
<1>10. SlotsSettle => SlotsSettle'
  BY <1>1, <1>2 DEF SlotsSettle
<1> QED
  BY <1>2, <1>4, <1>5, <1>7, <1>8, <1>9, <1>10 DEF SheetSettles

LEMMA WritesSettles ==
  ASSUME Types, Settling, NEW i \in DOMAIN queue, Writes(i),
         UNCHANGED <<game, machine, pending, web, asking>>
  PROVE  Settling'
<1> DEFINE c == queue[i]
<1>1. /\ c.do \in {"put", "delete"} /\ queue' = RemoveAt(queue, i) /\ Answer(c, TRUE)
      /\ Made' = Made
      /\ store' = [store EXCEPT ![c.game][c.slot] = c.save]
      /\ \E b \in BOOLEAN : hist' = [hist EXCEPT !.replaced = b]
  BY WritesMoves
<1>2. c \in Call /\ Range(queue) = Range(RemoveAt(queue, i)) \cup {c}
  BY TransactionTakes
<1> HIDE DEF c
<1>3. Answered' = Answered \cup {c}
  BY <1>1, <1>2, AnswerAdds
<1>4. hist'.faults = hist.faults /\ hist'.overtaken = hist.overtaken
  BY <1>1 DEF Types, Counts
<1>5. SUFFICES ASSUME EventsOk, LastWrites, SaveIsOut, SheetSettles
               PROVE  EventsOk' /\ LastWrites' /\ SaveIsOut' /\ SheetSettles'
  BY <1>4 DEF Settling
<1>6. EventsOk' /\ LastWrites'
  BY <1>1, <1>2, <1>5, AnswerKeeps DEF Reading
<1>7. SaveIsOut'
  BY <1>1, <1>5 DEF SaveIsOut, Saving
<1>8. ListComes => ListComes'
  BY <1>1, <1>2, <1>3 DEF ListComes
<1>9. RelistComes => RelistComes'
  BY <1>1 DEF RelistComes, Saving
<1>10. game # None /\ SlotsSettle => SlotsSettle'
  <2>1. SUFFICES ASSUME game # None, SlotsSettle, NEW s \in Slots
                 PROVE  (\E d \in Answered' : Write(d, game, s)) \/ web[s] = store'[game][s]
    BY DEF SlotsSettle
  <2>2. CASE c.game = game /\ c.slot = s
    BY <1>1, <1>3, <2>2 DEF Write
  <2>3. CASE ~(c.game = game /\ c.slot = s)
    <3>1. store \in [Games -> [Slots -> Saves \cup {None}]] /\ c.game \in Games /\ c.slot \in Slots
          /\ game \in Games
      BY <1>2, <2>1 DEF Types, TypeOK, Sheet, Call
    <3>2. store'[game][s] = store[game][s]
      BY <1>1, <2>3, <3>1
    <3> QED
      BY <1>3, <2>1, <3>2 DEF SlotsSettle
  <2> QED
    BY <2>2, <2>3
<1> QED
  BY <1>4, <1>5, <1>6, <1>7, <1>8, <1>9, <1>10 DEF SheetSettles

LEMMA ListedSettles ==
  ASSUME Types, Settling, Listed
  PROVE  Settling'
<1> DEFINE c == events[1].call
<1>1. Handled("list") /\ UNCHANGED <<game, machine, pending, asking, queue, store>>
  BY DEF Listed
<1>2. /\ c \in Call /\ c.do = "list" /\ Answered = Answered' \cup {c}
      /\ events' = Tail(events) /\ Len(events) \in Nat
      /\ Len(events') = Len(events) - 1 /\ events' \in Seq(Event)
      /\ \A i \in 1..(Len(events) - 1) : events'[i] = events[i + 1]
  BY <1>1, HandledTakes
<1>3. Made = Made' \cup {c} /\ hist'.faults = hist.faults
  BY ListedTyped DEF Types, Counts
<1>4. SUFFICES ASSUME EventsOk, LastWrites, SaveIsOut, SheetSettles
               PROVE  EventsOk' /\ LastWrites' /\ SaveIsOut' /\ SheetSettles'
  BY <1>3 DEF Settling
<1>5. EventsOk' /\ LastWrites' /\ Ok
  BY <1>1, <1>4, HandlingKeeps
<1>6. SaveIsOut'
  BY <1>1, <1>2, <1>3, <1>4 DEF SaveIsOut, Saving
<1>7. CASE Current
  <2>1. web' = c.got
        /\ hist' = [hist EXCEPT !.overtaken = ~\A s \in Slots : c.got[s] = store[game][s] \/ Coming(s)]
    BY <1>5, <1>7 DEF Listed
  <2>2. ~hist'.overtaken => \A s \in Slots : c.got[s] = store[game][s] \/ Coming(s)
    BY <2>1 DEF Types, Counts
  <2>3. ASSUME NEW s \in Slots, Coming(s)  PROVE \E d \in Answered' : Write(d, game, s)
    <3>1. PICK i \in 2..Len(events) : /\ events[i].call.game = game /\ events[i].call.slot = s
                                      /\ ~Reading(events[i].call)
      BY <2>3 DEF Coming
    <3>2. i - 1 \in 1..Len(events') /\ events'[i - 1] = events[i]
      BY <1>2, <3>1
    <3>3. events[i] \in Event /\ events[i] \in Range(events')
      <4>1. DOMAIN events' = 1..Len(events')
        BY <1>2, LenProperties
      <4> QED
        BY <1>2, <3>2, <4>1, ElementOfSeq DEF Range
    <3>4. events[i].call \in Answered' /\ events[i].call.do \in {"put", "delete"}
      BY <3>1, <3>3 DEF Answered, Event, Call, Reading
    <3> QED
      BY <3>1, <3>4 DEF Write
  <2>4. ~hist'.overtaken => SlotsSettle'
    BY <1>1, <2>1, <2>2, <2>3 DEF SlotsSettle
  <2> QED
    BY <1>5, <1>6, <2>4 DEF SheetSettles
<1>8. CASE ~Current
  <2>1. UNCHANGED <<web, hist>> /\ c.game # game
    BY <1>8 DEF Listed, Current
  <2>2. ListComes => ListComes'
    BY <1>1, <1>2, <2>1 DEF ListComes
  <2>3. RelistComes => RelistComes'
    BY <1>1, <1>2, <1>3 DEF RelistComes, Saving
  <2>4. SlotsSettle => SlotsSettle'
    BY <1>1, <1>2, <2>1 DEF SlotsSettle, Write
  <2> QED
    BY <1>1, <1>4, <1>5, <1>6, <2>1, <2>2, <2>3, <2>4 DEF SheetSettles
<1> QED
  BY <1>7, <1>8

\* An answer that takes what was pending and leaves the queue, for another game
\* or with a sheet it sets right itself.
LEMMA TakesPending ==
  ASSUME Types, Settling, Types', NEW d \in {"put", "get", "delete"}, Handled(d),
         pending' = None, Made = Made' \cup {events[1].call},
         UNCHANGED <<game, queue, store>>, hist'.faults = hist.faults,
         hist'.overtaken = hist.overtaken,
         hist.faults = 0 /\ Current /\ d = "put" => Saving,
         LET c == events[1].call
         IN  game # None /\ hist.faults = 0 /\ EventsOk /\ LastWrites /\ SlotsSettle
             /\ ~(d = "put" /\ Current /\ c.save # pending.save)
             => SlotsSettle'
  PROVE  Settling'
<1> DEFINE c == events[1].call
<1>1. c \in Call /\ c.do = d /\ Answered = Answered' \cup {c}
  BY HandledTakes
<1>2. SUFFICES ASSUME hist.faults = 0, EventsOk, LastWrites, SaveIsOut, SheetSettles
               PROVE  EventsOk' /\ LastWrites' /\ SaveIsOut' /\ SheetSettles'
  BY DEF Settling
<1>3. EventsOk' /\ LastWrites'
  BY <1>2, HandlingKeeps
<1>4. SaveIsOut' /\ ~Saving'
  BY DEF SaveIsOut, Saving
<1>5. ListComes => ListComes'
  BY <1>1 DEF ListComes
<1>6. ASSUME NEW p \in Made, p.do = "put", p.game = game, p # c  PROVE RelistComes'
  BY <1>4, <1>6 DEF RelistComes
<1>7. CASE d = "put" /\ Current /\ c.save # pending.save /\ game # None
  <2>1. PICK p \in Made : p.do = "put" /\ p.game = game /\ p.save = pending.save
    BY <1>2, <1>7 DEF SaveIsOut
  <2> QED
    BY <1>3, <1>4, <1>6, <1>7, <2>1 DEF SheetSettles
<1>8. CASE ~(d = "put" /\ Current /\ c.save # pending.save) /\ game # None
  <2>1. RelistComes => RelistComes'
    <3>1. ASSUME NEW p \in Made, p.do = "put", p.game = game, ~(Saving /\ p.save = pending.save)
          PROVE  p # c
      BY <1>1, <1>2, <1>8, <3>1 DEF Current
    <3> QED
      BY <1>6, <3>1 DEF RelistComes
  <2> QED
    BY <1>2, <1>3, <1>4, <1>5, <1>8, <2>1 DEF SheetSettles
<1>9. CASE game = None
  BY <1>3, <1>4, <1>9 DEF SheetSettles
<1> QED
  BY <1>7, <1>8, <1>9

LEMMA SavedSettles ==
  ASSUME Types, Settling, Saved
  PROVE  Settling'
<1> DEFINE c == events[1].call
<1>1. Handled("put") /\ UNCHANGED <<game, machine, asking, store, hist>>
  BY DEF Saved
<1>2. c \in Call /\ c.do = "put" /\ Answered = Answered' \cup {c}
  BY <1>1, HandledTakes
<1>3. Types' /\ pending' = None
      /\ \/ Made = Made' \cup {c} /\ UNCHANGED queue
         \/ game \in Games /\ Forgotten(game)
  BY SavedTyped
<1>4. CASE game \in Games /\ Forgotten(game)
  <2>1. Range(queue') = Range(queue) \cup {List(game)}
    BY <1>1, <1>4, ForgottenAdds
  <2>2. ListComes' /\ SaveIsOut'
    BY <1>1, <1>3, <1>4, <2>1, ListIsACall DEF ListComes, SaveIsOut, Saving
  <2>3. EventsOk /\ LastWrites => EventsOk' /\ LastWrites'
    BY <1>1, HandlingKeeps
  <2> QED
    BY <1>1, <2>2, <2>3 DEF Settling, SheetSettles
<1>5. CASE ~(game \in Games /\ Forgotten(game))
  <2>1. Made = Made' \cup {c} /\ UNCHANGED queue
    BY <1>3, <1>5
  <2>2. c.game \in Games /\ c.slot \in Slots /\ web \in [Slots -> Saves \cup {None}]
    BY <1>2 DEF Types, TypeOK, Sheet, Call
  <2>3. hist.faults = 0 => Ok
    BY <1>1, HandlingKeeps DEF Settling
  <2>4. hist.faults = 0 /\ Current => Saving /\ web' = [web EXCEPT ![c.slot] = pending.save]
    BY <1>5, <2>2, <2>3 DEF Saved, Saving, Current
  <2>5. ~Current => web' = web
    BY DEF Saved
  <2>6. ASSUME game # None, hist.faults = 0, EventsOk, LastWrites, SlotsSettle,
               ~(Current /\ c.save # pending.save)
        PROVE  SlotsSettle'
    <3>1. SUFFICES ASSUME NEW s \in Slots, \A w \in Answered' : ~Write(w, game, s)
                   PROVE  web'[s] = store[game][s]
      BY <1>1 DEF SlotsSettle
    <3>2. CASE Current /\ s = c.slot
      <4>1. store[c.game][c.slot] = c.save
        BY <1>1, <2>6, <3>1, <3>2, HandlingKeeps DEF Current
      <4> QED
        BY <2>2, <2>4, <2>6, <3>2, <4>1 DEF Current
    <3>3. CASE ~(Current /\ s = c.slot)
      <4>1. ~Write(c, game, s)
        BY <3>3 DEF Current, Write
      <4>2. web[s] = store[game][s]
        BY <1>2, <2>6, <3>1, <4>1 DEF SlotsSettle
      <4> QED
        BY <2>2, <2>4, <2>5, <2>6, <3>3, <4>2
    <3> QED
      BY <3>2, <3>3
  <2> QED
    BY <1>1, <1>3, <2>1, <2>4, <2>6, TakesPending
<1> QED
  BY <1>4, <1>5

LEMMA LoadedSettles ==
  ASSUME Types, Settling, Loaded, Types'
  PROVE  Settling'
<1> DEFINE c == events[1].call
<1>1. /\ Handled("get") /\ pending' = None /\ UNCHANGED <<game, web, asking, queue, store>>
      /\ hist'.faults = hist.faults /\ hist'.overtaken = hist.overtaken
  BY DEF Loaded, Types, Counts
<1>2. c.do = "get" /\ Answered = Answered' \cup {c}
  BY <1>1, HandledTakes
<1>3. Made = Made' \cup {c}
  BY <1>1, <1>2 DEF Made
<1>4. SlotsSettle => SlotsSettle'
  BY <1>1, <1>2 DEF SlotsSettle, Write
<1> QED
  BY <1>1, <1>3, <1>4, TakesPending

LEMMA DeletedSettles ==
  ASSUME Types, Settling, Deleted
  PROVE  Settling'
<1> DEFINE c == events[1].call
<1>1. Handled("delete") /\ pending' = None
      /\ UNCHANGED <<game, machine, asking, queue, store, hist>>
  BY DEF Deleted
<1>2. c \in Call /\ c.do = "delete" /\ Answered = Answered' \cup {c}
  BY <1>1, HandledTakes
<1>3. Types' /\ Made = Made' \cup {c}
  BY DeletedTyped
<1>4. c.slot \in Slots /\ web \in [Slots -> Saves \cup {None}] /\ c.save = None
  BY <1>2, <1>3 DEF Types, TypeOK, Sheet, Call, CallsAreWhole, CallIsWhole
<1>5. ASSUME game # None, hist.faults = 0, EventsOk, LastWrites, SlotsSettle
      PROVE  SlotsSettle'
  <2>1. web' = IF Current THEN [web EXCEPT ![c.slot] = None] ELSE web
    BY <1>1, <1>5, HandlingKeeps DEF Deleted
  <2>2. SUFFICES ASSUME NEW s \in Slots, \A w \in Answered' : ~Write(w, game, s)
                 PROVE  web'[s] = store[game][s]
    BY <1>1 DEF SlotsSettle
  <2>3. CASE Current /\ s = c.slot
    <3>1. store[c.game][c.slot] = c.save
      BY <1>1, <1>5, <2>2, <2>3, HandlingKeeps DEF Current
    <3> QED
      BY <1>4, <2>1, <2>3, <3>1 DEF Current
  <2>4. CASE ~(Current /\ s = c.slot)
    <3>1. ~Write(c, game, s)
      BY <2>4 DEF Current, Write
    <3>2. web[s] = store[game][s]
      BY <1>2, <1>5, <2>2, <3>1 DEF SlotsSettle
    <3> QED
      BY <1>4, <2>1, <2>4, <3>2
  <2> QED
    BY <2>3, <2>4
<1> QED
  BY <1>1, <1>3, <1>5, TakesPending

SheetInv == Typed /\ Settling

LEMMA StepSettles ==
  ASSUME SheetInv, [Next]_vars
  PROVE  SheetInv'
<1>1. Types /\ Settling /\ Typed' /\ Types'
  BY StepTyped DEF SheetInv, Typed
<1>2. CASE \/ \E s \in Slots : SaveSlot(s) \/ LoadSlot(s) \/ ExportSlot(s) \/ DeleteSlot(s)
           \/ ImportSlot
  <2>1. PICK op \in WebOp, do \in {"put", "get", "delete"}, save \in {None, NewSave}, s \in Slots :
          AskedAs(op, do, save) /\ Ask(op, s, save, do)
    BY <1>2, EveryOperationAsks
  <2> QED
    BY <1>1, <2>1, AskSettles DEF SheetInv
<1>3. ASSUME NEW g \in Games, ChangeGame(g)  PROVE SheetInv'
  BY <1>1, <1>3, ChangeGameSettles DEF SheetInv
<1>4. CASE Unload
  <2>1. /\ game' = None /\ UNCHANGED <<events, store>>
        /\ hist' = [hist EXCEPT !.changes = @ + 1]
    BY <1>4 DEF Unload
  <2>2. hist'.faults = hist.faults
    BY <1>1, <2>1 DEF Types, Counts
  <2>3. EventsOk /\ LastWrites => EventsOk' /\ LastWrites'
    BY <2>1 DEF EventsOk, LastWrites, LastWrite
  <2> QED
    BY <1>1, <2>1, <2>2, <2>3 DEF SheetInv, Settling, SaveIsOut, SheetSettles
<1>5. CASE Persisted
  BY <1>1, <1>5, PersistedSettles DEF SheetInv
<1>6. CASE Transaction
  <2>1. PICK i \in DOMAIN queue : /\ Reads(i) \/ Writes(i) \/ Fails(i)
                                  /\ UNCHANGED <<game, machine, pending, web, asking>>
    BY <1>6 DEF Transaction
  <2>2. CASE Fails(i)
    <3>1. \E h \in BOOLEAN : hist' = [hist EXCEPT !.faults = @ + 1, !.hung = h]
      BY <1>1, <2>1, <2>2, FailsMoves
    <3>2. hist'.faults = hist.faults + 1 /\ hist.faults \in Nat
      BY <1>1, <3>1 DEF Types, Counts
    <3> QED
      BY <1>1, <3>2 DEF SheetInv, Settling
  <2> QED
    BY <1>1, <2>1, <2>2, ReadsSettles, WritesSettles DEF SheetInv
<1>7. CASE Listed
  BY <1>1, <1>7, ListedSettles DEF SheetInv
<1>8. CASE Saved
  BY <1>1, <1>8, SavedSettles DEF SheetInv
<1>9. CASE Loaded
  BY <1>1, <1>9, LoadedSettles DEF SheetInv
<1>10. CASE Deleted
  BY <1>1, <1>10, DeletedSettles DEF SheetInv
<1>11. CASE UNCHANGED vars
  <2>1. Made' = Made /\ Answered' = Answered
    BY <1>11 DEF vars, Made, Answered
  <2> QED
    BY <1>1, <1>11, <2>1 DEF vars, SheetInv, Settling, EventsOk, LastWrites, LastWrite, SaveIsOut,
      SheetSettles, ListComes, RelistComes, SlotsSettle, Saving
<1> QED
  BY <1>2, <1>3, <1>4, <1>5, <1>6, <1>7, <1>8, <1>9, <1>10, <1>11 DEF Next, Player, PollWebSlots

LEMMA InitSettles ==
  ASSUME Init
  PROVE  SheetInv
<1>1. Typed
  BY InitTyped
<1>2. EventsOk /\ LastWrites
  BY DEF Init, EventsOk, LastWrites
<1>3. SaveIsOut /\ SheetSettles
  BY DEF Init, SaveIsOut, SheetSettles
<1> QED
  BY <1>1, <1>2, <1>3 DEF SheetInv, Settling

\* Once every request has been answered, the sheet shows what the slots of the
\* running game hold, whatever boots and answers crossed, unless a transaction
\* failed or a listing was overtaken (slots.rs: poll_web_slots lists again when a
\* save's answer comes with nothing pending).
THEOREM SheetComesRight == Spec => []SheetIsTheStore
<1>1. Spec => []SheetInv
  BY InitSettles, StepSettles, PTL DEF Spec
<1>2. SheetInv => SheetIsTheStore
  <2>1. SUFFICES ASSUME SheetInv, game # None, asking = {}, queue = <<>>, events = <<>>,
                        hist.faults = 0, ~hist.overtaken
                 PROVE  web = store[game]
    BY DEF SheetIsTheStore
  <2>2. Made = {}
    BY <2>1, NothingMade
  <2>3. \A s \in Slots : web[s] = store[game][s]
    BY <2>1, <2>2 DEF SheetInv, Settling, SheetSettles, ListComes, RelistComes, SlotsSettle, Made
  <2>4. game \in Games /\ web \in Sheet /\ store[game] \in Sheet
    BY <2>1 DEF SheetInv, Typed, Types, TypeOK
  <2> QED
    BY <2>3, <2>4 DEF Sheet
<1> QED
  BY <1>1, <1>2, PTL
=============================================================================
