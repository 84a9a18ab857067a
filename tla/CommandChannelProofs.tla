------------------------ MODULE CommandChannelProofs ------------------------
(***************************************************************************)
(* Proofs about CommandChannel, for any sets of requests, dataloggers,     *)
(* hosts and registers, any assignment of dataloggers to hosts, and any    *)
(* capacity of the queues.                                                 *)
(***************************************************************************)
EXTENDS CommandChannel, SequenceTheorems, TLAPS

(* The connection loop holds a command exactly while it writes one.        *)
WritesItsCommand ==
  \A d \in Device : loop[d] = "write" <=> sending[d] # NoRequest

TypeInv == TypeOK /\ WritesItsCommand

-----------------------------------------------------------------------------
(* The keys of the tracker.                                                *)

(* The key a handler polls is a key of the tracker, whatever was asked.    *)
LEMMA KeyOfAsk ==
  ASSUME NEW a \in Asks
  PROVE  WaitKey(a) \in Keys
<1>1. a.kind \in Kinds /\ a.register \in Register
  BY DEF Asks
<1>2. Type(a.kind) \in Types
  BY <1>1, SMT DEF Kinds, InverterKinds, MultiKinds, Type, Types
<1> QED
  BY <1>1, <1>2 DEF WaitKey, Keys

(* A request that has begun asks for something.                            *)
LEMMA BegunAsks ==
  ASSUME TypeOK, NEW r \in Request, pc[r] # "idle"
  PROVE  /\ ask[r] \in Asks
         /\ WaitKey(ask[r]) \in Keys
         /\ QueueOf(r) \in Host
<1>1. ask[r] \in Asks
  BY DEF TypeOK
<1>2. ask[r].device \in Device
  BY <1>1 DEF Asks
<1> QED
  BY <1>1, <1>2, KeyOfAsk, ChannelAssumption DEF QueueOf

-----------------------------------------------------------------------------
(* Typing.                                                                 *)

(* A handler leaves the connection loops alone, and does not forget what   *)
(* was asked.                                                              *)
LEMMA ArriveTyped ==
  ASSUME TypeInv, NEW r \in Request, NEW d \in Device, NEW g \in Register,
         Arrive(r, d, g)
  PROVE  TypeInv'
<1> PICK k \in Kinds : Begin(r, k, d, g)
  BY DEF Arrive, DataloggerGet, DataloggerPut, InverterGet, InverterPut,
         MultiregisterGet, MultiregisterPut, Kinds, InverterKinds
<1> DEFINE a == [kind |-> k, device |-> d, register |-> g]
<1>1. a \in Asks /\ a # NoRequest
  BY NoRequestAssumption DEF Asks
<1> HIDE DEF a
<1>2. ask' = [ask EXCEPT ![r] = a] /\ UNCHANGED <<held, before, queue, trackerVars, loopVars>>
  BY DEF Begin, a
<1> DEFINE p == IF k = "regall" THEN "copy"
                ELSE IF Decodes(k) THEN "queue" ELSE "unbuildable"
<1>3. p \in Steps \ {"idle"}
  BY DEF Steps, Ended
<1>4. pc' = [pc EXCEPT ![r] = p]
  BY DEF Begin, Goto
<1> HIDE DEF p
<1>5. /\ pc' \in [Request -> Steps]
      /\ ask' \in [Request -> Asks \cup {NoRequest}]
      /\ \A q \in Request : pc'[q] = "idle" <=> ask'[q] = NoRequest
  BY <1>1, <1>2, <1>3, <1>4 DEF TypeInv, TypeOK
<1> QED
  BY <1>2, <1>5 DEF TypeInv, TypeOK, WritesItsCommand, trackerVars, loopVars

LEMMA HandleTyped ==
  ASSUME TypeInv, NEW r \in Request, Handle(r)
  PROVE  TypeInv'
<1> USE DEF TypeInv, TypeOK, WritesItsCommand, requestVars, trackerVars, loopVars,
            Goto, Steps, Ended
<1>1. CASE Queue(r)
  <2>1. QueueOf(r) \in Host
    BY <1>1, BegunAsks DEF Queue
  <2>2. queue' \in [Host -> Seq(Request)] /\ \A h \in Host : Len(queue'[h]) <= QueueCap
    <3>1. CASE Len(queue[QueueOf(r)]) < QueueCap
      <4> DEFINE q == queue[QueueOf(r)]
      <4>1. q \in Seq(Request)
        BY <2>1
      <4>2. Append(q, r) \in Seq(Request) /\ Len(Append(q, r)) = Len(q) + 1
        BY <4>1, AppendProperties
      <4>3. Len(Append(q, r)) <= QueueCap
        BY <3>1, <4>1, <4>2, ChannelAssumption
      <4>4. queue' = [queue EXCEPT ![QueueOf(r)] = Append(q, r)]
        BY <1>1, <3>1 DEF Queue
      <4> HIDE DEF q
      <4> QED
        BY <2>1, <4>2, <4>3, <4>4
    <3> QED
      BY <1>1, <3>1 DEF Queue
  <2> QED
    BY <1>1, <2>2 DEF Queue
<1>2. CASE Clear(r)
  <2>1. WaitKey(ask[r]) \in Keys
    BY <1>2, BegunAsks DEF Clear
  <2> QED
    BY <1>2, <2>1 DEF Clear
<1>3. CASE Poll(r)
  <2>1. WaitKey(ask[r]) \in Keys
    BY <1>3, BegunAsks DEF Poll
  <2> QED
    BY <1>3, <2>1 DEF Poll
<1>4. CASE Timeout(r)
  BY <1>4 DEF Timeout
<1>5. CASE Format(r)
  <2>1. converted' \in SUBSET Request
    BY <1>5 DEF Format
  <2> QED
    BY <1>5, <2>1 DEF Format
<1>6. CASE Copy(r)
  <2>1. \A g \in Register : <<"05", g>> \in Keys
    BY DEF Keys, Types
  <2>2. \A g \in Register : tracker[<<"05", g>>] \in Request \cup {NoRequest}
    BY <2>1
  <2>3. ASSUME NEW q \in {tracker[<<"05", g>>] : g \in Register}, q # NoRequest
        PROVE  q \in Request
    <3>1. PICK g \in Register : q = tracker[<<"05", g>>]
      BY <2>3, Zenon
    <3> QED
      BY <2>2, <2>3, <3>1
  <2>4. held' \in [Request -> SUBSET Request]
    BY <1>6, <2>3 DEF Copy
  <2> QED
    BY <1>6, <2>4 DEF Copy
<1>7. CASE FormatAll(r)
  BY <1>7 DEF FormatAll
<1> QED
  BY <1>1, <1>2, <1>3, <1>4, <1>5, <1>6, <1>7 DEF Handle

LEMMA ServeTyped ==
  ASSUME TypeInv, NEW d \in Device, Serve(d)
  PROVE  TypeInv'
<1> USE DEF TypeInv, TypeOK, WritesItsCommand, requestVars, trackerVars, loopVars
<1>1. CASE DataRecord(d)
  BY <1>1 DEF DataRecord
<1>2. CASE Pop(d)
  <2> DEFINE h == HostOf[d]
  <2>1. h \in Host /\ queue[h] \in Seq(Request)
    BY ChannelAssumption
  <2>2. CASE queue[h] = <<>>
    BY <1>2, <2>2 DEF Pop
  <2>3. CASE queue[h] # <<>>
    <3>1. /\ Head(queue[h]) \in Request
          /\ Tail(queue[h]) \in Seq(Request)
          /\ Len(Tail(queue[h])) = Len(queue[h]) - 1
      BY <2>1, <2>3, HeadTailProperties
    <3>2. Len(Tail(queue[h])) <= QueueCap
      BY <2>1, <3>1, ChannelAssumption
    <3>3. /\ queue' = [queue EXCEPT ![h] = Tail(queue[h])]
          /\ sending' = [sending EXCEPT ![d] = Head(queue[h])]
          /\ loop' = [loop EXCEPT ![d] = "write"]
      BY <1>2, <2>3 DEF Pop
    <3>4. Head(queue[h]) # NoRequest
      BY <3>1, NoRequestAssumption
    <3> HIDE DEF h
    <3>5. queue' \in [Host -> Seq(Request)] /\ \A i \in Host : Len(queue'[i]) <= QueueCap
      BY <2>1, <3>1, <3>2, <3>3
    <3> QED
      BY <1>2, <3>1, <3>3, <3>4, <3>5 DEF Pop
  <2> QED
    BY <2>2, <2>3
<1>3. CASE Write(d)
  <2>1. sending[d] \in Request
    BY <1>3 DEF Write
  <2> QED
    BY <1>3, <2>1 DEF Write
<1>4. ASSUME NEW r \in Request, Answer(d, r)
      PROVE  TypeInv'
  BY <1>4 DEF Answer
<1> QED
  BY <1>1, <1>2, <1>3, <1>4 DEF Serve

LEMMA LoseTyped ==
  ASSUME TypeInv, NEW d \in Device, NEW r \in Request, Lose(d, r)
  PROVE  TypeInv'
BY DEF Lose, TypeInv, TypeOK, WritesItsCommand, requestVars, trackerVars

LEMMA InitTyped == Init => TypeInv
<1> SUFFICES ASSUME Init PROVE TypeInv
  OBVIOUS
<1>1. \A h \in Host : queue[h] = <<>> /\ Len(queue[h]) = 0
  BY DEF Init
<1>2. queue \in [Host -> Seq(Request)]
  BY DEF Init
<1> QED
  BY <1>1, <1>2, ChannelAssumption DEF Init, TypeInv, TypeOK, WritesItsCommand, Steps

LEMMA NextTyped == TypeInv /\ [Next]_vars => TypeInv'
<1> SUFFICES ASSUME TypeInv, [Next]_vars PROVE TypeInv'
  OBVIOUS
<1>1. CASE UNCHANGED vars
  BY <1>1 DEF vars, requestVars, trackerVars, loopVars, TypeInv, TypeOK, WritesItsCommand
<1>2. CASE Next
  BY <1>2, ArriveTyped, HandleTyped, ServeTyped, LoseTyped DEF Next
<1> QED
  BY <1>1, <1>2

(* Every variable keeps its type, no queue ever holds more than its        *)
(* capacity, and a handler has a question from its first step on           *)
(* (command_tracker.go:46, 54-65).                                         *)
THEOREM ChannelTyping == Spec => []TypeOK
<1>1. TypeInv => TypeOK
  BY DEF TypeInv
<1> QED
  BY <1>1, InitTyped, NextTyped, PTL DEF Spec

-----------------------------------------------------------------------------
(* Where a command is.                                                     *)

BeingSent(r) == \E d \in Device : sending[d] = r
Received(r)  == \E d \in Device : r \in inbox[d]
Issued(r)    == Queued(r) \/ BeingSent(r) \/ Received(r) \/ r \in answered

QueuedOnce ==
  \A h, k \in Host :
    \A i \in DOMAIN queue[h], j \in DOMAIN queue[k] :
      queue[h][i] = queue[k][j] => h = k /\ i = j

SentOnce ==
  \A d, e \in Device : sending[d] # NoRequest /\ sending[d] = sending[e] => d = e

ReceivedOnce ==
  \A r \in Request : \A d, e \in Device : r \in inbox[d] /\ r \in inbox[e] => d = e

(* The places of a command exclude each other.                             *)
PlacesApart ==
  \A r \in Request :
    /\ Queued(r)    => ~BeingSent(r) /\ ~Received(r) /\ r \notin answered
    /\ BeingSent(r) => ~Received(r) /\ r \notin answered
    /\ Received(r)  => r \notin answered

(* Nothing is sent for a request that has not been through QueueCommand,   *)
(* and regall sends nothing at all.                                        *)
Unqueued == {"idle", "queue", "unbuildable", "refused"}

IssuedWereQueued ==
  \A r \in Request :
    /\ Issued(r) => pc[r] \notin Unqueued /\ ask[r].kind # "regall"
    /\ pc[r] \in {"queue", "clear", "wait", "format"} => ask[r].kind # "regall"
    /\ pc[r] \in {"copy", "formatAll"} => ask[r].kind = "regall"

PlaceInv ==
  /\ TypeInv
  /\ QueuedOnce
  /\ SentOnce
  /\ ReceivedOnce
  /\ PlacesApart
  /\ IssuedWereQueued

(* A step that moves no command leaves each where it was.                  *)
LEMMA PlacesFrame ==
  ASSUME PlaceInv, UNCHANGED <<queue, sending, inbox, answered>>
  PROVE  /\ QueuedOnce' /\ SentOnce' /\ ReceivedOnce' /\ PlacesApart'
         /\ \A r \in Request : Issued(r)' <=> Issued(r)
<1>1. QueuedOnce' /\ SentOnce' /\ ReceivedOnce'
  BY DEF PlaceInv, QueuedOnce, SentOnce, ReceivedOnce
<1>2. \A r \in Request : /\ Queued(r)' <=> Queued(r)
                         /\ BeingSent(r)' <=> BeingSent(r)
                         /\ Received(r)' <=> Received(r)
  BY DEF Queued, BeingSent, Received
<1> QED
  BY <1>1, <1>2 DEF PlaceInv, PlacesApart, Issued

(* A request that has just begun has sent nothing.                         *)
LEMMA ArrivePlaces ==
  ASSUME PlaceInv, NEW r \in Request, NEW d \in Device, NEW g \in Register,
         Arrive(r, d, g)
  PROVE  PlaceInv'
<1>1. TypeInv'
  BY ArriveTyped DEF PlaceInv
<1> PICK k \in Kinds : Begin(r, k, d, g)
  BY DEF Arrive, DataloggerGet, DataloggerPut, InverterGet, InverterPut,
         MultiregisterGet, MultiregisterPut, Kinds, InverterKinds
<1>2. UNCHANGED <<queue, sending, inbox, answered>>
  BY DEF Begin, trackerVars, loopVars
<1>3. IssuedWereQueued'
  <2>1. ~Issued(r)
    BY DEF PlaceInv, IssuedWereQueued, Begin, Unqueued
  <2>2. \A q \in Request \ {r} : pc'[q] = pc[q] /\ ask'[q] = ask[q]
    BY DEF Begin, Goto, PlaceInv, TypeInv, TypeOK
  <2>3. ask'[r].kind = k /\ pc'[r] = IF k = "regall" THEN "copy"
             ELSE IF Decodes(k) THEN "queue" ELSE "unbuildable"
    BY DEF Begin, Goto, PlaceInv, TypeInv, TypeOK
  <2> QED
    BY <1>2, <2>1, <2>2, <2>3, PlacesFrame DEF PlaceInv, IssuedWereQueued, Unqueued
<1> QED
  BY <1>1, <1>2, <1>3, PlacesFrame DEF PlaceInv

(* QueueCommand puts a command that is nowhere at the end of one queue.    *)
LEMMA QueuePlaces ==
  ASSUME PlaceInv, NEW r \in Request, Queue(r)
  PROVE  PlaceInv'
<1> DEFINE h == QueueOf(r)
           q == queue[h]
<1>1. TypeInv'
  BY HandleTyped DEF PlaceInv, Handle
<1>2. /\ ~Issued(r)
      /\ ask[r].kind # "regall"
      /\ UNCHANGED <<ask, sending, inbox, answered>>
  BY DEF PlaceInv, IssuedWereQueued, Queue, Unqueued, trackerVars, loopVars
<1>3. h \in Host /\ q \in Seq(Request)
  BY BegunAsks DEF Queue, PlaceInv, TypeInv, TypeOK
<1>4. CASE ~(Len(q) < QueueCap)
  <2>1. UNCHANGED queue /\ pc' = [pc EXCEPT ![r] = "refused"]
    BY <1>4 DEF Queue, Goto
  <2>2. IssuedWereQueued'
    BY <1>2, <2>1, PlacesFrame DEF PlaceInv, IssuedWereQueued, TypeInv, TypeOK
  <2> QED
    BY <1>1, <1>2, <2>1, <2>2, PlacesFrame DEF PlaceInv
<1>5. CASE Len(q) < QueueCap
  <2>1. queue' = [queue EXCEPT ![h] = Append(q, r)] /\ pc' = [pc EXCEPT ![r] = "clear"]
    BY <1>5 DEF Queue, Goto
  <2>2. /\ DOMAIN Append(q, r) = 1..(Len(q) + 1)
        /\ DOMAIN q = 1..Len(q)
        /\ Len(q) \in Nat
        /\ \A i \in 1..Len(q) : Append(q, r)[i] = q[i]
        /\ Append(q, r)[Len(q) + 1] = r
    <3>1. Append(q, r) \in Seq(Request) /\ Len(Append(q, r)) = Len(q) + 1
      BY <1>3, AppendProperties
    <3>2. DOMAIN Append(q, r) = 1..Len(Append(q, r)) /\ DOMAIN q = 1..Len(q) /\ Len(q) \in Nat
      BY <1>3, <3>1
    <3> HIDE DEF q
    <3> QED
      BY <1>3, <3>1, <3>2, AppendProperties
  <2>3. ASSUME NEW k \in Host, NEW i \in DOMAIN queue'[k]
        PROVE  \/ i \in DOMAIN queue[k] /\ queue'[k][i] = queue[k][i]
               \/ k = h /\ i = Len(q) + 1 /\ queue'[k][i] = r
    <3>1. CASE k # h
      BY <1>3, <2>1, <2>3, <3>1 DEF PlaceInv, TypeInv, TypeOK
    <3>2. CASE k = h
      <4>1. queue'[k] = Append(q, r)
        BY <1>3, <2>1, <3>2 DEF PlaceInv, TypeInv, TypeOK
      <4>2. i \in 1..(Len(q) + 1)
        BY <2>2, <2>3, <4>1
      <4>3. CASE i = Len(q) + 1
        BY <2>2, <3>2, <4>1, <4>3
      <4>4. CASE i # Len(q) + 1
        <5>1. i \in 1..Len(q)
          BY <2>2, <4>2, <4>4
        <5> QED
          BY <2>2, <3>2, <4>1, <5>1
      <4> QED
        BY <4>3, <4>4
    <3> QED
      BY <3>1, <3>2
  <2>4. QueuedOnce'
    <3> SUFFICES ASSUME NEW k \in Host, NEW l \in Host,
                        NEW i \in DOMAIN queue'[k], NEW j \in DOMAIN queue'[l],
                        queue'[k][i] = queue'[l][j]
                 PROVE  k = l /\ i = j
      BY DEF QueuedOnce
    <3>1. \A m \in Host : \A n \in DOMAIN queue[m] : queue[m][n] # r
      BY <1>2 DEF Issued, Queued
    <3> HIDE DEF h, q
    <3>2. \/ /\ i \in DOMAIN queue[k] /\ queue'[k][i] = queue[k][i]
             /\ j \in DOMAIN queue[l] /\ queue'[l][j] = queue[l][j]
          \/ k = h /\ l = h /\ i = Len(q) + 1 /\ j = Len(q) + 1
      BY <2>3, <3>1
    <3> QED
      BY <3>2 DEF PlaceInv, QueuedOnce
  <2>5. \A x \in Request : Queued(x)' => Queued(x) \/ x = r
    <3> HIDE DEF h, q
    <3> QED
      BY <2>3 DEF Queued
  <2>6. \A x \in Request : (BeingSent(x)' <=> BeingSent(x)) /\ (Received(x)' <=> Received(x))
    BY <1>2 DEF BeingSent, Received
  <2>7. SentOnce' /\ ReceivedOnce'
    BY <1>2 DEF PlaceInv, SentOnce, ReceivedOnce
  <2>8. PlacesApart'
    BY <1>2, <2>5, <2>6 DEF PlaceInv, PlacesApart, Issued
  <2>9. IssuedWereQueued'
    <3>1. pc'[r] = "clear" /\ \A x \in Request \ {r} : pc'[x] = pc[x]
      BY <2>1 DEF PlaceInv, TypeInv, TypeOK
    <3>2. \A x \in Request \ {r} : Issued(x)' => Issued(x)
      BY <1>2, <2>5, <2>6 DEF Issued
    <3> QED
      BY <1>2, <3>1, <3>2 DEF PlaceInv, IssuedWereQueued, Unqueued
  <2> QED
    BY <1>1, <2>4, <2>7, <2>8, <2>9 DEF PlaceInv
<1> QED
  BY <1>4, <1>5

(* The other steps of a handler move no command.                           *)
LEMMA HandlePlaces ==
  ASSUME PlaceInv, NEW r \in Request, Handle(r)
  PROVE  PlaceInv'
<1>1. TypeInv'
  BY HandleTyped DEF PlaceInv
<1>2. CASE Queue(r)
  BY <1>2, QueuePlaces
<1>3. CASE Clear(r) \/ Poll(r) \/ Timeout(r) \/ Format(r) \/ Copy(r) \/ FormatAll(r)
  <2>1. UNCHANGED <<ask, queue, sending, inbox, answered>>
    BY <1>3 DEF Clear, Poll, Timeout, Format, Copy, FormatAll, trackerVars, loopVars
  <2>2. PICK p \in {"wait", "format", "formatAll", "answered", "timedout", "panicked"} :
          /\ pc' = [pc EXCEPT ![r] = p]
          /\ p \in {"wait", "format"} => ask[r].kind # "regall"
          /\ p = "formatAll" => ask[r].kind = "regall"
          /\ pc[r] \notin Unqueued
    BY <1>3 DEF Clear, Poll, Timeout, Format, Copy, FormatAll, Goto, Unqueued,
                PlaceInv, IssuedWereQueued
  <2>3. pc'[r] = p /\ \A x \in Request \ {r} : pc'[x] = pc[x]
    BY <2>2 DEF PlaceInv, TypeInv, TypeOK
  <2>4. IssuedWereQueued'
    <3>1. \A x \in Request : Issued(x)' <=> Issued(x)
      BY <2>1, PlacesFrame
    <3> QED
      BY <2>1, <2>2, <2>3, <3>1 DEF PlaceInv, IssuedWereQueued, Unqueued
  <2> QED
    BY <1>1, <2>1, <2>4, PlacesFrame DEF PlaceInv
<1> QED
  BY <1>2, <1>3 DEF Handle

(* A connection takes a command that is in one queue, and it leaves it.    *)
LEMMA PopPlaces ==
  ASSUME PlaceInv, NEW d \in Device, Pop(d)
  PROVE  PlaceInv'
<1> DEFINE h == HostOf[d]
           q == queue[h]
           c == Head(q)
<1>1. TypeInv'
  BY ServeTyped DEF PlaceInv, Serve
<1>2. UNCHANGED <<pc, ask, inbox, answered>>
  BY DEF Pop, requestVars, trackerVars
<1>3. h \in Host /\ q \in Seq(Request) /\ sending[d] = NoRequest
  BY ChannelAssumption DEF Pop, PlaceInv, TypeInv, TypeOK, WritesItsCommand
<1>4. CASE q = <<>>
  <2>1. UNCHANGED <<queue, sending>>
    BY <1>4 DEF Pop
  <2> QED
    BY <1>1, <1>2, <2>1, PlacesFrame DEF PlaceInv, IssuedWereQueued
<1>5. CASE q # <<>>
  <2>1. queue' = [queue EXCEPT ![h] = Tail(q)] /\ sending' = [sending EXCEPT ![d] = c]
    BY <1>5 DEF Pop
  <2>2. /\ DOMAIN q = 1..Len(q) /\ Len(q) \in Nat /\ Len(q) # 0
        /\ DOMAIN Tail(q) = 1..(Len(q) - 1)
        /\ \A i \in 1..(Len(q) - 1) : Tail(q)[i] = q[i + 1]
        /\ c = q[1] /\ c \in Request
    <3> HIDE DEF h, q
    <3>1. /\ Tail(q) \in Seq(Request)
          /\ Len(Tail(q)) = Len(q) - 1
          /\ \A i \in 1..Len(Tail(q)) : Tail(q)[i] = q[i + 1]
          /\ Head(q) = q[1] /\ Head(q) \in Request
      BY <1>3, <1>5, HeadTailProperties
    <3>2. DOMAIN Tail(q) = 1..Len(Tail(q)) /\ DOMAIN q = 1..Len(q) /\ Len(q) \in Nat /\ Len(q) # 0
      BY <1>3, <1>5, <3>1
    <3> QED
      BY <3>1, <3>2
  <2>3. c \in Request /\ Queued(c)
    <3>1. 1 \in DOMAIN q
      BY <2>2
    <3> QED
      BY <1>3, <2>2, <3>1 DEF Queued
  <2>4. ASSUME NEW k \in Host, NEW i \in DOMAIN queue'[k]
        PROVE  \E j \in DOMAIN queue[k] :
                 /\ queue'[k][i] = queue[k][j]
                 /\ j = IF k = h THEN i + 1 ELSE i
                 /\ k = h => i \in Nat /\ j # 1
    <3>1. CASE k # h
      BY <1>3, <2>1, <2>4, <3>1 DEF PlaceInv, TypeInv, TypeOK
    <3>2. CASE k = h
      <4>1. queue'[k] = Tail(q)
        BY <1>3, <2>1, <3>2 DEF PlaceInv, TypeInv, TypeOK
      <4>2. i \in 1..(Len(q) - 1)
        BY <2>2, <2>4, <4>1
      <4>3. i + 1 \in DOMAIN q /\ i \in Nat /\ i + 1 # 1
        BY <2>2, <4>2
      <4> QED
        BY <2>2, <3>2, <4>1, <4>2, <4>3
    <3> QED
      BY <3>1, <3>2
  <2>5. \A k \in Host : \A i \in DOMAIN queue'[k] : queue'[k][i] # c
    <3> SUFFICES ASSUME NEW k \in Host, NEW i \in DOMAIN queue'[k], queue'[k][i] = c
                 PROVE  FALSE
      OBVIOUS
    <3>1. PICK j \in DOMAIN queue[k] :
            queue'[k][i] = queue[k][j] /\ (k = h => j # 1)
      BY <2>4
    <3>2. 1 \in DOMAIN queue[h] /\ queue[h][1] = c
      BY <2>2
    <3> HIDE DEF h, q, c
    <3> QED
      BY <1>3, <3>1, <3>2 DEF PlaceInv, QueuedOnce
  <2>6. QueuedOnce'
    <3> SUFFICES ASSUME NEW k \in Host, NEW l \in Host,
                        NEW i \in DOMAIN queue'[k], NEW j \in DOMAIN queue'[l],
                        queue'[k][i] = queue'[l][j]
                 PROVE  k = l /\ i = j
      BY DEF QueuedOnce
    <3> HIDE DEF h, q, c
    <3>1. PICK m \in DOMAIN queue[k] :
            /\ queue'[k][i] = queue[k][m]
            /\ m = IF k = h THEN i + 1 ELSE i
            /\ k = h => i \in Nat
      BY <2>4
    <3>2. PICK n \in DOMAIN queue[l] :
            /\ queue'[l][j] = queue[l][n]
            /\ n = IF l = h THEN j + 1 ELSE j
            /\ l = h => j \in Nat
      BY <2>4
    <3>3. queue[k][m] = queue[l][n]
      BY <3>1, <3>2
    <3>4. k = l /\ m = n
      BY <3>3 DEF PlaceInv, QueuedOnce
    <3> QED
      BY <3>1, <3>2, <3>4
  <2>7. \A x \in Request : Queued(x)' => Queued(x) /\ x # c
    <3> HIDE DEF h, q, c
    <3> QED
      BY <2>4, <2>5 DEF Queued
  <2>8. \A x \in Request : BeingSent(x)' => BeingSent(x) \/ x = c
    BY <2>1 DEF BeingSent, PlaceInv, TypeInv, TypeOK
  <2>9. \A x \in Request : Received(x)' <=> Received(x)
    BY <1>2 DEF Received
  <2>10. ~BeingSent(c) /\ ~Received(c) /\ c \notin answered
    BY <2>3 DEF PlaceInv, PlacesApart
  <2> HIDE DEF c
  <2>11. SentOnce'
    <3>1. \A e \in Device : sending[e] # c
      BY <2>10 DEF BeingSent
    <3> QED
      BY <2>1, <3>1 DEF PlaceInv, SentOnce, TypeInv, TypeOK
  <2>12. ReceivedOnce'
    BY <1>2 DEF PlaceInv, ReceivedOnce
  <2>13. PlacesApart'
    BY <1>2, <2>7, <2>8, <2>9, <2>10 DEF PlaceInv, PlacesApart
  <2>14. IssuedWereQueued'
    <3>1. \A x \in Request : Issued(x)' => Issued(x)
      BY <1>2, <2>3, <2>7, <2>8, <2>9 DEF Issued
    <3> QED
      BY <1>2, <3>1 DEF PlaceInv, IssuedWereQueued
  <2> QED
    BY <1>1, <2>6, <2>11, <2>12, <2>13, <2>14 DEF PlaceInv
<1> QED
  BY <1>4, <1>5

(* What was being sent is at the device, or gone.                          *)
LEMMA WritePlaces ==
  ASSUME PlaceInv, NEW d \in Device, Write(d)
  PROVE  PlaceInv'
<1> DEFINE c == sending[d]
<1>1. TypeInv'
  BY ServeTyped DEF PlaceInv, Serve
<1>2. UNCHANGED <<pc, ask, queue, answered>>
  BY DEF Write, requestVars, trackerVars
<1>3. c \in Request /\ BeingSent(c)
  BY DEF Write, PlaceInv, TypeInv, TypeOK, WritesItsCommand, BeingSent
<1>4. /\ sending' = [sending EXCEPT ![d] = NoRequest]
      /\ inbox' = inbox \/ inbox' = [inbox EXCEPT ![d] = @ \cup {c}]
  BY DEF Write
<1>5. ~Received(c) /\ ~Queued(c) /\ c \notin answered
  BY <1>3 DEF PlaceInv, PlacesApart
<1>6. \A x \in Request : Queued(x)' <=> Queued(x)
  BY <1>2 DEF Queued
<1>7. \A x \in Request : BeingSent(x)' => BeingSent(x) /\ x # c
  BY <1>3, <1>4, NoRequestAssumption DEF BeingSent, PlaceInv, TypeInv, TypeOK, SentOnce
<1>8. \A x \in Request : Received(x)' => Received(x) \/ x = c
  BY <1>4 DEF Received, PlaceInv, TypeInv, TypeOK
<1>9. SentOnce'
  BY <1>4 DEF PlaceInv, TypeInv, TypeOK, SentOnce
<1> HIDE DEF c
<1>10. ReceivedOnce'
  <2>1. \A e \in Device : c \notin inbox[e]
    BY <1>5 DEF Received
  <2>2. \A e \in Device : inbox'[e] \subseteq inbox[e] \cup {c}
                        /\ (e # d => inbox'[e] = inbox[e])
    BY <1>4 DEF PlaceInv, TypeInv, TypeOK
  <2> QED
    BY <2>1, <2>2 DEF PlaceInv, ReceivedOnce
<1>11. QueuedOnce'
  BY <1>2 DEF PlaceInv, QueuedOnce
<1>12. PlacesApart'
  BY <1>2, <1>5, <1>6, <1>7, <1>8 DEF PlaceInv, PlacesApart
<1>13. IssuedWereQueued'
  <2>1. \A x \in Request : Issued(x)' => Issued(x)
    BY <1>2, <1>3, <1>6, <1>7, <1>8 DEF Issued
  <2> QED
    BY <1>2, <2>1 DEF PlaceInv, IssuedWereQueued
<1> QED
  BY <1>1, <1>9, <1>10, <1>11, <1>12, <1>13 DEF PlaceInv

(* A command leaves its device when it is answered and when it is lost.    *)
LEMMA LeavesDevice ==
  ASSUME PlaceInv, TypeInv', NEW d \in Device, NEW r \in inbox[d],
         inbox' = [inbox EXCEPT ![d] = @ \ {r}],
         answered' = answered \/ answered' = answered \cup {r},
         UNCHANGED <<pc, ask, queue, sending>>
  PROVE  PlaceInv'
<1>1. r \in Request /\ Received(r)
  BY DEF PlaceInv, TypeInv, TypeOK, Received
<1>2. ~Queued(r) /\ ~BeingSent(r)
  BY <1>1 DEF PlaceInv, PlacesApart
<1>3. \A e \in Device : /\ inbox'[e] \subseteq inbox[e]
                       /\ r \notin inbox'[e]
  BY <1>1 DEF PlaceInv, TypeInv, TypeOK, ReceivedOnce
<1>4. /\ \A x \in Request : Queued(x)' <=> Queued(x)
      /\ \A x \in Request : BeingSent(x)' <=> BeingSent(x)
      /\ \A x \in Request : Received(x)' => Received(x) /\ x # r
  <2>1. \A x \in Request : Queued(x)' <=> Queued(x)
    BY DEF Queued
  <2>2. \A x \in Request : BeingSent(x)' <=> BeingSent(x)
    BY DEF BeingSent
  <2>3. \A x \in Request : Received(x)' => Received(x) /\ x # r
    BY <1>3 DEF Received
  <2> QED
    BY <2>1, <2>2, <2>3
<1>5. QueuedOnce' /\ SentOnce' /\ ReceivedOnce'
  BY <1>3 DEF PlaceInv, QueuedOnce, SentOnce, ReceivedOnce
<1>6. PlacesApart'
  BY <1>2, <1>4 DEF PlaceInv, PlacesApart
<1>7. \A x \in Request : Issued(x)' => Issued(x)
  BY <1>1, <1>4 DEF Issued
<1>8. IssuedWereQueued'
  BY <1>7 DEF PlaceInv, IssuedWereQueued
<1> QED
  BY <1>5, <1>6, <1>8 DEF PlaceInv

LEMMA ServePlaces ==
  ASSUME PlaceInv, NEW d \in Device, Serve(d)
  PROVE  PlaceInv'
<1>1. TypeInv'
  BY ServeTyped DEF PlaceInv
<1>2. CASE DataRecord(d)
  <2>1. UNCHANGED <<pc, ask, queue, sending, inbox, answered>>
    BY <1>2 DEF DataRecord, requestVars, trackerVars
  <2> QED
    BY <1>1, <2>1, PlacesFrame DEF PlaceInv, IssuedWereQueued
<1>3. ASSUME NEW r \in Request, Answer(d, r)
      PROVE  PlaceInv'
  BY <1>1, <1>3, LeavesDevice DEF Answer, requestVars
<1> QED
  BY <1>2, <1>3, PopPlaces, WritePlaces DEF Serve

LEMMA LosePlaces ==
  ASSUME PlaceInv, NEW d \in Device, NEW r \in Request, Lose(d, r)
  PROVE  PlaceInv'
<1>1. TypeInv'
  BY LoseTyped DEF PlaceInv
<1> QED
  BY <1>1, LeavesDevice DEF Lose, requestVars, trackerVars

LEMMA InitPlaces == Init => PlaceInv
<1> SUFFICES ASSUME Init PROVE PlaceInv
  OBVIOUS
<1>1. TypeInv
  BY InitTyped
<1>2. \A h \in Host : queue[h] = <<>> /\ DOMAIN queue[h] = {}
  BY DEF Init
<1>3. \A r \in Request : ~Issued(r) /\ pc[r] = "idle"
  BY <1>2, NoRequestAssumption DEF Init, Issued, Queued, BeingSent, Received
<1>4. QueuedOnce /\ SentOnce /\ ReceivedOnce
  BY <1>2 DEF Init, QueuedOnce, SentOnce, ReceivedOnce
<1> QED
  BY <1>1, <1>3, <1>4 DEF PlaceInv, PlacesApart, IssuedWereQueued, Issued

LEMMA NextPlaces == PlaceInv /\ [Next]_vars => PlaceInv'
<1> SUFFICES ASSUME PlaceInv, [Next]_vars PROVE PlaceInv'
  OBVIOUS
<1>1. CASE UNCHANGED vars
  <2>1. TypeInv'
    BY NextTyped DEF PlaceInv
  <2>2. UNCHANGED <<pc, ask, queue, sending, inbox, answered>>
    BY <1>1 DEF vars, requestVars, trackerVars, loopVars
  <2> QED
    BY <2>1, <2>2, PlacesFrame DEF PlaceInv, IssuedWereQueued
<1>2. CASE Next
  BY <1>2, ArrivePlaces, HandlePlaces, ServePlaces, LosePlaces DEF Next
<1> QED
  BY <1>1, <1>2

(* The four kinds of place, one by one.                                    *)
LEMMA PlacesOfCommand ==
  ASSUME PlaceInv, NEW r \in Request, NEW p \in Places(r)
  PROVE  \/ \E h \in Host : \E i \in DOMAIN queue[h] :
               p = <<"queue", h, i>> /\ queue[h][i] = r
         \/ \E d \in Device : p = <<"sending", d>> /\ sending[d] = r
         \/ \E d \in Device : p = <<"inbox", d>> /\ r \in inbox[d]
         \/ p = <<"answered">> /\ r \in answered
<1> DEFINE inQueue == {x \in {"queue"} \X Host \X (1..QueueCap) :
                         x[3] \in DOMAIN queue[x[2]] /\ queue[x[2]][x[3]] = r}
           beingSent == {<<"sending", d>> : d \in {e \in Device : sending[e] = r}}
           received == {<<"inbox", d>> : d \in {e \in Device : r \in inbox[e]}}
<1>1. CASE p \in inQueue
  <2>1. PICK h \in Host, i \in 1..QueueCap : p = <<"queue", h, i>>
    BY <1>1
  <2> QED
    BY <1>1, <2>1
<1>2. CASE p \in beingSent
  <2>1. PICK d \in {e \in Device : sending[e] = r} : p = <<"sending", d>>
    BY <1>2
  <2> QED
    BY <2>1
<1>3. CASE p \in received
  <2>1. PICK d \in {e \in Device : r \in inbox[e]} : p = <<"inbox", d>>
    BY <1>3
  <2> QED
    BY <2>1
<1>4. CASE p \in {<<"answered">> : q \in answered \cap {r}}
  BY <1>4
<1> QED
  BY <1>1, <1>2, <1>3, <1>4 DEF Places

(* A command is queued, being sent, at a device or answered, never two of  *)
(* them and never twice, and a request that could not be queued has none   *)
(* anywhere (command_tracker.go:54-65, service/server.go:345-356).         *)
THEOREM OnePlace == Spec => []CommandIsInOnePlace
<1>1. PlaceInv => CommandIsInOnePlace
  <2> SUFFICES ASSUME PlaceInv, NEW r \in Request
               PROVE  /\ \A p, q \in Places(r) : p = q
                      /\ pc[r] \in Unqueued => Places(r) = {}
    BY DEF CommandIsInOnePlace, Unqueued
  <2>1. ASSUME NEW p \in Places(r) PROVE Issued(r)
    BY PlacesOfCommand DEF Issued, Queued, BeingSent, Received
  <2>2. pc[r] \in Unqueued => Places(r) = {}
    BY <2>1 DEF PlaceInv, IssuedWereQueued
  <2>3. ASSUME NEW p \in Places(r), NEW q \in Places(r) PROVE p = q
    <3>1. CASE Queued(r)
      <4>1. ~BeingSent(r) /\ ~Received(r) /\ r \notin answered
        BY <3>1 DEF PlaceInv, PlacesApart
      <4>2. PICK h \in Host : \E i \in DOMAIN queue[h] :
              p = <<"queue", h, i>> /\ queue[h][i] = r
        BY <4>1, PlacesOfCommand DEF BeingSent, Received
      <4>3. PICK k \in Host : \E i \in DOMAIN queue[k] :
              q = <<"queue", k, i>> /\ queue[k][i] = r
        BY <4>1, PlacesOfCommand DEF BeingSent, Received
      <4> QED
        BY <4>2, <4>3 DEF PlaceInv, QueuedOnce
    <3>2. CASE BeingSent(r)
      <4>1. ~Queued(r) /\ ~Received(r) /\ r \notin answered
        BY <3>2 DEF PlaceInv, PlacesApart
      <4>2. PICK d \in Device : p = <<"sending", d>> /\ sending[d] = r
        BY <4>1, PlacesOfCommand DEF Queued, Received
      <4>3. PICK e \in Device : q = <<"sending", e>> /\ sending[e] = r
        BY <4>1, PlacesOfCommand DEF Queued, Received
      <4> QED
        BY <4>2, <4>3, NoRequestAssumption DEF PlaceInv, SentOnce
    <3>3. CASE Received(r)
      <4>1. ~Queued(r) /\ ~BeingSent(r) /\ r \notin answered
        BY <3>3 DEF PlaceInv, PlacesApart
      <4>2. PICK d \in Device : p = <<"inbox", d>> /\ r \in inbox[d]
        BY <4>1, PlacesOfCommand DEF Queued, BeingSent
      <4>3. PICK e \in Device : q = <<"inbox", e>> /\ r \in inbox[e]
        BY <4>1, PlacesOfCommand DEF Queued, BeingSent
      <4> QED
        BY <4>2, <4>3 DEF PlaceInv, ReceivedOnce
    <3>4. CASE r \in answered
      <4>1. ~Queued(r) /\ ~BeingSent(r) /\ ~Received(r)
        BY <3>4 DEF PlaceInv, PlacesApart
      <4>2. p = <<"answered">> /\ q = <<"answered">>
        BY <4>1, PlacesOfCommand DEF Queued, BeingSent, Received
      <4> QED
        BY <4>2
    <3> QED
      BY <2>1, <3>1, <3>2, <3>3, <3>4 DEF Issued
  <2> QED
    BY <2>2, <2>3
<1> QED
  BY <1>1, InitPlaces, NextPlaces, PTL DEF Spec

-----------------------------------------------------------------------------
(* What a handler finds in the tracker.                                    *)

(* The answer to q may be under key k: the key is one of the type of its   *)
(* command and of some register, of its own if that was in place.          *)
FiledUnder(q, k) ==
  \/ ask[q].kind \in MultiKinds /\ k = <<"10", "range">>
  \/ \E g \in Register :
       /\ k \in AnswerKeys(ask[q].kind, g)
       /\ q \in spelled => g = ask[q].register

(* The tracker holds answers, each under a key it may be under.            *)
AnswersStored ==
  \A k \in Keys : tracker[k] # NoRequest =>
    tracker[k] \in answered /\ FiledUnder(tracker[k], k)

(* A handler that polls has what was under the key it polls.               *)
HeldUnderKey ==
  \A r \in Request : ask[r] # NoRequest /\ ask[r].kind # "regall" =>
    \A q \in held[r] : q \in answered /\ FiledUnder(q, WaitKey(ask[r]))

NoneHeldYet ==
  \A r \in Request :
    pc[r] \in {"idle", "queue", "clear", "wait", "copy"} => held[r] = {}

PastAnswers == \A r \in Request : before[r] \subseteq answered

(* Once the entry is cleared nothing old comes back into it.               *)
WaitsForFresh ==
  \A r \in Request : pc[r] = "wait" => tracker[WaitKey(ask[r])] \notin before[r]

(* The inductive invariant.  Freshness rests on OnePlace: a command that   *)
(* has been answered is at no device and cannot be answered again.         *)
AnswerInv ==
  /\ PlaceInv
  /\ AnswersStored
  /\ HeldUnderKey
  /\ NoneHeldYet
  /\ PastAnswers
  /\ WaitsForFresh
  /\ AnswersAreFresh

(* An answer of datalogger d is stored, if it is, under a key of the type  *)
(* of its command and of the register it has in place, where it has one.   *)
LEMMA FilesWhereItSays ==
  ASSUME NEW k, NEW d, NEW a \in Replies, NEW g, NEW x \in Files(k, d, a)
  PROVE  \/ k \in MultiKinds /\ x = <<"10", "range">>
         \/ \E h \in Register :
              /\ x \in AnswerKeys(k, h)
              /\ Spells(k, d, a, g) => h = g
<1>1. CASE k \in MultiKinds
  BY <1>1 DEF Files
<1>2. CASE k \notin MultiKinds
  <2> DEFINE offset == Offset(k, d, a.length)
             h == a.at[36 + offset]
  <2>1. offset = IF d \in Six /\ a.length >= 76 THEN 40 ELSE 0
    BY DEF Offset
  <2>2. a.at \in [{36, 76} -> Register]
    BY ChannelAssumption
  <2>3. h \in Register
    BY <2>1, <2>2
  <2>4. x \in AnswerKeys(k, h)
    BY <1>2 DEF Files
  <2>5. Spells(k, d, a, g) => h = g
    BY <1>2, <2>1 DEF Spells
  <2> QED
    BY <2>3, <2>4, <2>5
<1> QED
  BY <1>1, <1>2

(* A key that is polled is a key of an answer only to a question of the    *)
(* same type about the register of the key or, if it is a write, to a read *)
(* of that register.                                                       *)
LEMMA KeysFit ==
  ASSUME NEW a \in Asks, NEW k \in Kinds, NEW g \in Register,
         a.kind # "regall", k # "regall", WaitKey(a) \in AnswerKeys(k, g)
  PROVE  /\ g = a.register
         /\ k \in {a.kind} \cup (IF a.kind = "invRead" THEN {"invWrite"} ELSE {})
<1>1. a.kind \in Kinds \ {"regall"} /\ a.register \in Register
  BY DEF Asks
<1>2. g # "multiregister"
  BY ChannelAssumption
<1>3. \/ WaitKey(a) = <<Type(k), g>>
      \/ k = "invWrite" /\ WaitKey(a) = <<"05", g>>
  BY DEF AnswerKeys
<1>4. a.kind \notin MultiKinds
  BY <1>2, <1>3 DEF WaitKey
<1>5. WaitKey(a) = <<Type(a.kind), a.register>>
  BY <1>4 DEF WaitKey
<1>6. g = a.register
  BY <1>3, <1>5
<1>7. \/ Type(a.kind) = Type(k)
      \/ k = "invWrite" /\ Type(a.kind) = "05"
  BY <1>3, <1>5
<1>8. a.kind \in {"dlRead", "dlWrite", "invRead", "invWrite"}
  BY <1>1, <1>4 DEF Kinds, InverterKinds, MultiKinds
<1>9. k \in {a.kind} \cup (IF a.kind = "invRead" THEN {"invWrite"} ELSE {})
  BY <1>7, <1>8, SMT DEF Type, Kinds, InverterKinds, MultiKinds
<1> QED
  BY <1>6, <1>9

(* No handler polls the key of the answers for several registers.          *)
LEMMA RangeIsNotPolled ==
  ASSUME NEW a \in Asks
  PROVE  WaitKey(a) # <<"10", "range">>
<1>1. a.register # "range"
  BY ChannelAssumption DEF Asks
<1> QED
  BY <1>1 DEF WaitKey

(* What has been answered was asked, by a request that sent a command.     *)
LEMMA AnsweredAsked ==
  ASSUME PlaceInv, NEW q \in answered
  PROVE  /\ q \in Request /\ q # NoRequest /\ pc[q] \notin Unqueued
         /\ ask[q] \in Asks /\ ask[q] # NoRequest /\ ask[q].kind # "regall"
<1>1. q \in Request /\ Issued(q)
  BY DEF PlaceInv, TypeInv, TypeOK, Issued
<1>2. pc[q] \notin Unqueued /\ ask[q].kind # "regall"
  BY <1>1 DEF PlaceInv, IssuedWereQueued
<1>3. ask[q] \in Asks
  BY <1>1, <1>2, BegunAsks DEF PlaceInv, TypeInv, Unqueued
<1> QED
  BY <1>1, <1>2, <1>3, NoRequestAssumption

(* A step that leaves the requests and the tracker alone.                  *)
LEMMA AnswersKept ==
  ASSUME AnswerInv, PlaceInv',
         UNCHANGED <<pc, ask, held, before, tracker, answered, spelled>>
  PROVE  AnswerInv'
<1>1. AnswersStored' /\ HeldUnderKey'
  BY DEF AnswerInv, AnswersStored, HeldUnderKey, FiledUnder
<1> QED
  BY <1>1 DEF AnswerInv, NoneHeldYet, PastAnswers, WaitsForFresh, AnswersAreFresh

LEMMA AnswersFrame ==
  ASSUME AnswerInv, PlaceInv', UNCHANGED <<requestVars, trackerVars>>
  PROVE  AnswerInv'
BY AnswersKept DEF requestVars, trackerVars

LEMMA ArriveAnswers ==
  ASSUME AnswerInv, NEW r \in Request, NEW d \in Device, NEW g \in Register,
         Arrive(r, d, g)
  PROVE  AnswerInv'
<1>1. PlaceInv'
  BY ArrivePlaces DEF AnswerInv
<1> PICK k \in Kinds : Begin(r, k, d, g)
  BY DEF Arrive, DataloggerGet, DataloggerPut, InverterGet, InverterPut,
         MultiregisterGet, MultiregisterPut, Kinds, InverterKinds
<1>2. /\ UNCHANGED <<held, before, tracker, answered, spelled>>
      /\ pc[r] = "idle" /\ held[r] = {} /\ r \notin answered
  BY AnsweredAsked DEF Begin, trackerVars, AnswerInv, NoneHeldYet, Unqueued
<1>3. \A q \in Request \ {r} : pc'[q] = pc[q] /\ ask'[q] = ask[q]
  BY DEF Begin, Goto, AnswerInv, PlaceInv, TypeInv, TypeOK
<1>4. pc'[r] # "wait"
  BY DEF Begin, Goto, AnswerInv, PlaceInv, TypeInv, TypeOK
<1>5. \A q \in answered : q \in Request \ {r}
  BY <1>2 DEF AnswerInv, PlaceInv, TypeInv, TypeOK
<1>6. \A q \in answered : \A x : FiledUnder(q, x) => FiledUnder(q, x)'
  BY <1>2, <1>3, <1>5 DEF FiledUnder
<1>7. AnswersStored'
  BY <1>2, <1>6 DEF AnswerInv, AnswersStored
<1>8. HeldUnderKey'
  <2> SUFFICES ASSUME NEW x \in Request, ask'[x] # NoRequest, ask'[x].kind # "regall",
                      NEW q \in held[x]
               PROVE  q \in answered /\ FiledUnder(q, WaitKey(ask[x]))'
    BY <1>2 DEF HeldUnderKey
  <2>1. x # r
    BY <1>2
  <2>2. ask'[x] = ask[x]
    BY <1>3, <2>1
  <2>3. q \in answered /\ FiledUnder(q, WaitKey(ask[x]))
    BY <1>2, <2>2 DEF AnswerInv, HeldUnderKey
  <2> QED
    BY <1>6, <2>2, <2>3
<1>9. NoneHeldYet'
  BY <1>2, <1>3 DEF AnswerInv, NoneHeldYet
<1>10. PastAnswers'
  BY <1>2 DEF AnswerInv, PastAnswers
<1>11. WaitsForFresh'
  BY <1>2, <1>3, <1>4 DEF AnswerInv, WaitsForFresh
<1>12. AnswersAreFresh'
  BY <1>2, <1>3 DEF AnswerInv, AnswersAreFresh
<1> QED
  BY <1>1, <1>7, <1>8, <1>9, <1>10, <1>11, <1>12 DEF AnswerInv

LEMMA HandleAnswers ==
  ASSUME AnswerInv, NEW r \in Request, Handle(r)
  PROVE  AnswerInv'
<1>1. PlaceInv'
  BY HandlePlaces DEF AnswerInv
<1>2. UNCHANGED <<ask, answered, spelled>>
  BY DEF Handle, Queue, Clear, Poll, Timeout, Format, Copy, FormatAll, trackerVars
<1>3. pc \in [Request -> Steps] /\ held \in [Request -> SUBSET Request]
      /\ before \in [Request -> SUBSET Request]
      /\ tracker \in [Keys -> Request \cup {NoRequest}]
  BY DEF AnswerInv, PlaceInv, TypeInv, TypeOK
<1>4. CASE Queue(r) \/ Timeout(r) \/ Format(r) \/ FormatAll(r)
  <2>1. UNCHANGED <<held, before, tracker>>
    BY <1>4 DEF Queue, Timeout, Format, FormatAll, trackerVars
  <2>2. PICK p \in {"clear", "refused", "timedout", "panicked", "answered"} :
          pc' = [pc EXCEPT ![r] = p] /\ (p = "clear" => pc[r] = "queue")
    BY <1>4 DEF Queue, Timeout, Format, FormatAll, Goto
  <2>3. pc'[r] = p /\ \A x \in Request \ {r} : pc'[x] = pc[x]
    BY <1>3, <2>2
  <2>4. NoneHeldYet' /\ WaitsForFresh'
    BY <1>2, <2>1, <2>2, <2>3 DEF AnswerInv, NoneHeldYet, WaitsForFresh
  <2>5. AnswersStored' /\ HeldUnderKey'
    BY <1>2, <2>1 DEF AnswerInv, AnswersStored, HeldUnderKey, FiledUnder
  <2> QED
    BY <1>1, <1>2, <2>1, <2>4, <2>5 DEF AnswerInv, PastAnswers, AnswersAreFresh
<1>5. CASE Clear(r)
  <2>1. WaitKey(ask[r]) \in Keys /\ held[r] = {}
    BY <1>5, BegunAsks DEF Clear, AnswerInv, PlaceInv, TypeInv, NoneHeldYet
  <2>2. /\ UNCHANGED held
        /\ tracker'[WaitKey(ask[r])] = NoRequest
        /\ \A k \in Keys : tracker'[k] \in {tracker[k], NoRequest}
    BY <1>3, <1>5, <2>1 DEF Clear
  <2>3. /\ pc'[r] = "wait" /\ before'[r] = answered
        /\ \A x \in Request \ {r} : pc'[x] = pc[x] /\ before'[x] = before[x]
    BY <1>3, <1>5 DEF Clear, Goto
  <2>4. NoRequest \notin answered /\ \A x \in Request : before'[x] \subseteq answered
    BY <2>3, AnsweredAsked DEF AnswerInv, PastAnswers
  <2>5. AnswersStored' /\ HeldUnderKey'
    BY <1>2, <2>2 DEF AnswerInv, AnswersStored, HeldUnderKey, FiledUnder
  <2>6. NoneHeldYet' /\ PastAnswers'
    BY <1>2, <2>1, <2>2, <2>3, <2>4 DEF AnswerInv, NoneHeldYet, PastAnswers
  <2>7. WaitsForFresh'
    <3> SUFFICES ASSUME NEW x \in Request, pc'[x] = "wait"
                 PROVE  tracker'[WaitKey(ask[x])] \notin before'[x]
      BY <1>2 DEF WaitsForFresh
    <3>1. CASE x = r
      BY <2>2, <2>4, <3>1
    <3>2. CASE x # r
      <4>1. pc[x] = "wait" /\ before'[x] = before[x]
        BY <2>3, <3>2
      <4>2. tracker[WaitKey(ask[x])] \notin before[x]
        BY <4>1 DEF AnswerInv, WaitsForFresh
      <4>3. WaitKey(ask[x]) \in Keys
        BY <4>1, BegunAsks DEF AnswerInv, PlaceInv, TypeInv
      <4> QED
        BY <2>2, <2>4, <4>1, <4>2, <4>3
    <3> QED
      BY <3>1, <3>2
  <2>8. AnswersAreFresh'
    BY <1>2, <2>1, <2>2, <2>3 DEF AnswerInv, AnswersAreFresh
  <2> QED
    BY <1>1, <2>5, <2>6, <2>7, <2>8 DEF AnswerInv
<1>6. CASE Poll(r)
  <2> DEFINE q == tracker[WaitKey(ask[r])]
  <2>1. /\ WaitKey(ask[r]) \in Keys /\ q # NoRequest
        /\ UNCHANGED <<before, tracker>>
        /\ pc[r] = "wait"
    BY <1>6, BegunAsks DEF Poll, trackerVars, AnswerInv, PlaceInv, TypeInv
  <2>2. /\ held'[r] = {q} /\ pc'[r] \in {"format", "answered"}
        /\ \A x \in Request \ {r} : pc'[x] = pc[x] /\ held'[x] = held[x]
    BY <1>3, <1>6 DEF Poll, Goto
  <2>3. q \in answered /\ FiledUnder(q, WaitKey(ask[r]))
    BY <2>1 DEF AnswerInv, AnswersStored
  <2>4. q \notin before[r]
    BY <2>1 DEF AnswerInv, WaitsForFresh
  <2> HIDE DEF q
  <2>5. AnswersStored' /\ PastAnswers'
    BY <1>2, <2>1 DEF AnswerInv, AnswersStored, FiledUnder, PastAnswers
  <2>6. HeldUnderKey'
    BY <1>2, <2>2, <2>3 DEF AnswerInv, HeldUnderKey, FiledUnder
  <2>7. NoneHeldYet' /\ WaitsForFresh' /\ AnswersAreFresh'
    BY <1>2, <2>1, <2>2, <2>4 DEF AnswerInv, NoneHeldYet, WaitsForFresh, AnswersAreFresh
  <2> QED
    BY <1>1, <2>5, <2>6, <2>7 DEF AnswerInv
<1>7. CASE Copy(r)
  <2>1. /\ UNCHANGED <<before, tracker>> /\ ask[r].kind = "regall"
        /\ pc'[r] = "formatAll"
        /\ \A x \in Request \ {r} : pc'[x] = pc[x] /\ held'[x] = held[x]
    BY <1>3, <1>7 DEF Copy, Goto, trackerVars, AnswerInv, PlaceInv, IssuedWereQueued
  <2>2. AnswersStored' /\ HeldUnderKey'
    BY <1>2, <2>1 DEF AnswerInv, AnswersStored, HeldUnderKey, FiledUnder
  <2> QED
    BY <1>1, <1>2, <2>1, <2>2
       DEF AnswerInv, NoneHeldYet, PastAnswers, WaitsForFresh, AnswersAreFresh
<1> QED
  BY <1>4, <1>5, <1>6, <1>7 DEF Handle

(* The answer to a command is new to whoever has cleared an entry before.  *)
LEMMA AnswerAnswers ==
  ASSUME AnswerInv, NEW d \in Device, NEW r \in Request, Answer(d, r)
  PROVE  AnswerInv'
<1>1. PlaceInv'
  BY ServePlaces DEF AnswerInv, Serve
<1>2. UNCHANGED <<pc, ask, held, before>>
  BY DEF Answer, requestVars
<1>3. r \notin answered
  BY DEF Answer, AnswerInv, PlaceInv, PlacesApart, Received
<1>4. PICK a \in Replies :
        LET keys == Files(ask[r].kind, d, a)
        IN  IF keys = {} THEN UNCHANGED <<tracker, answered, spelled>>
            ELSE /\ tracker'  = [k \in Keys |-> IF k \in keys THEN r ELSE tracker[k]]
                 /\ answered' = answered \cup {r}
                 /\ spelled'  = IF Spells(ask[r].kind, d, a, ask[r].register)
                                THEN spelled \cup {r} ELSE spelled
  BY DEF Answer
<1> DEFINE keys == Files(ask[r].kind, d, a)
<1>5. CASE keys = {}
  <2>1. UNCHANGED <<tracker, answered, spelled>>
    BY <1>4, <1>5
  <2> QED
    BY <1>1, <1>2, <2>1, AnswersKept
<1>6. CASE keys # {}
  <2>1. /\ \A k \in Keys : tracker'[k] = IF k \in keys THEN r ELSE tracker[k]
        /\ answered' = answered \cup {r}
        /\ spelled' = IF Spells(ask[r].kind, d, a, ask[r].register)
                      THEN spelled \cup {r} ELSE spelled
    BY <1>4, <1>6
  <2>2. \A q \in answered : \A k : FiledUnder(q, k) => FiledUnder(q, k)'
    BY <1>2, <1>3, <2>1 DEF FiledUnder
  <2>3. \A k \in keys : FiledUnder(r, k)'
    <3> SUFFICES ASSUME NEW k \in keys PROVE FiledUnder(r, k)'
      OBVIOUS
    <3>1. \/ ask[r].kind \in MultiKinds /\ k = <<"10", "range">>
          \/ \E h \in Register :
               /\ k \in AnswerKeys(ask[r].kind, h)
               /\ Spells(ask[r].kind, d, a, ask[r].register) => h = ask[r].register
      BY FilesWhereItSays
    <3>2. r \in spelled' => Spells(ask[r].kind, d, a, ask[r].register)
      BY <1>3, <2>1 DEF AnswerInv, PlaceInv, TypeInv, TypeOK
    <3> HIDE DEF keys
    <3> QED
      BY <1>2, <3>1, <3>2 DEF FiledUnder
  <2> HIDE DEF keys
  <2>4. AnswersStored'
    BY <2>1, <2>2, <2>3 DEF AnswerInv, AnswersStored
  <2>5. HeldUnderKey'
    BY <1>2, <2>1, <2>2 DEF AnswerInv, HeldUnderKey
  <2>6. NoneHeldYet' /\ PastAnswers' /\ AnswersAreFresh'
    BY <1>2, <2>1 DEF AnswerInv, NoneHeldYet, PastAnswers, AnswersAreFresh
  <2>7. WaitsForFresh'
    <3> SUFFICES ASSUME NEW x \in Request, pc[x] = "wait"
                 PROVE  tracker'[WaitKey(ask[x])] \notin before[x]
      BY <1>2 DEF WaitsForFresh
    <3>1. WaitKey(ask[x]) \in Keys
      BY BegunAsks DEF AnswerInv, PlaceInv, TypeInv
    <3>2. r \notin before[x] /\ tracker[WaitKey(ask[x])] \notin before[x]
      BY <1>3 DEF AnswerInv, PastAnswers, WaitsForFresh
    <3> QED
      BY <2>1, <3>1, <3>2
  <2> QED
    BY <1>1, <2>4, <2>5, <2>6, <2>7 DEF AnswerInv
<1> QED
  BY <1>5, <1>6

LEMMA InitAnswers == Init => AnswerInv
<1> SUFFICES ASSUME Init PROVE AnswerInv
  OBVIOUS
<1>1. PlaceInv
  BY InitPlaces
<1> QED
  BY <1>1 DEF Init, AnswerInv, AnswersStored, HeldUnderKey, NoneHeldYet, PastAnswers,
              WaitsForFresh, AnswersAreFresh

LEMMA NextAnswers == AnswerInv /\ [Next]_vars => AnswerInv'
<1> SUFFICES ASSUME AnswerInv, [Next]_vars PROVE AnswerInv'
  OBVIOUS
<1>1. PlaceInv'
  BY NextPlaces DEF AnswerInv
<1>2. CASE UNCHANGED vars
  BY <1>1, <1>2, AnswersFrame DEF vars
<1>3. ASSUME NEW d \in Device, Serve(d)
      PROVE  AnswerInv'
  BY <1>1, <1>3, AnswersFrame, AnswerAnswers DEF Serve, DataRecord, Pop, Write
<1>4. ASSUME NEW d \in Device, NEW r \in Request, Lose(d, r)
      PROVE  AnswerInv'
  BY <1>1, <1>4, AnswersFrame DEF Lose
<1>5. CASE Next
  BY <1>3, <1>4, <1>5, ArriveAnswers, HandleAnswers DEF Next
<1> QED
  BY <1>2, <1>5

(* What a handler reports is never an answer that was stored before it     *)
(* cleared the entry, although it clears it after its command has been     *)
(* queued (api/server.go:1137-1139).                                       *)
THEOREM FreshAnswers == Spec => []AnswersAreFresh
<1>1. AnswerInv => AnswersAreFresh
  BY DEF AnswerInv
<1> QED
  BY <1>1, InitAnswers, NextAnswers, PTL DEF Spec

(* What a request that polls is answered with has been sent for a command  *)
(* of its type or, a read, for a write, and is about its register if it    *)
(* has its own in place: 36 bytes on, under protocol 06 76, whatever the   *)
(* lengths of the answers and whatever stands in the other place           *)
(* (command_tracker.go:145-158, 189-205, 234-249, 269-284).                *)
THEOREM FittingAnswers == Spec => []AnswersFit
<1>1. AnswerInv => AnswersFit
  <2> SUFFICES ASSUME AnswerInv, NEW r \in Request, ask[r] # NoRequest,
                      ask[r].kind # "regall", NEW q \in held[r]
               PROVE  /\ ask[q].kind \in {ask[r].kind} \cup
                           (IF ask[r].kind = "invRead" THEN {"invWrite"} ELSE {})
                      /\ q \in spelled => ask[q].register = ask[r].register
    BY DEF AnswersFit
  <2>1. q \in answered /\ FiledUnder(q, WaitKey(ask[r]))
    BY DEF AnswerInv, HeldUnderKey
  <2>2. ask[q].kind \in Kinds \ {"regall"}
    BY <2>1, AnsweredAsked DEF AnswerInv, Asks
  <2>3. ask[r] \in Asks
    BY DEF AnswerInv, PlaceInv, TypeInv, TypeOK
  <2>4. PICK g \in Register : /\ WaitKey(ask[r]) \in AnswerKeys(ask[q].kind, g)
                              /\ q \in spelled => g = ask[q].register
    BY <2>1, <2>3, RangeIsNotPolled DEF FiledUnder
  <2> QED
    BY <2>2, <2>3, <2>4, KeysFit
<1> QED
  BY <1>1, InitAnswers, NextAnswers, PTL DEF Spec

=============================================================================
