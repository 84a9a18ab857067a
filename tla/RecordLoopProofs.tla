-------------------------- MODULE RecordLoopProofs --------------------------
(***************************************************************************)
(* Proofs about RecordLoop and the registry it writes, for any             *)
(* connections, dataloggers, inverters, hosts and searches, and any length *)
(* of what is under way.                                                   *)
(***************************************************************************)
EXTENDS RecordLoop, SequenceTheorems, TLAPS

(* Who inserts an inverter holds the registry's mutex, for the entry it    *)
(* found in what it read.                                                  *)
InsertersHoldMutex ==
  /\ \A c \in Conn : loop[c] = "insert" => inserting = parsed[c].logger
  /\ \A c, d \in Conn : loop[c] = "insert" /\ loop[d] = "insert" => c = d

(* Only an entry has inverters, or is about to get one.                    *)
EntriesHaveInverters ==
  /\ \A l \in Datalogger : inverters[l] # {} => l \in Registered
  /\ inserting # None => inserting \in Registered

(* A search has yet to look wherever its inverter was when it began, and   *)
(* still is.                                                               *)
KnownIsAhead ==
  \A s \in Search : search[s] # Idle =>
    /\ search[s].known \subseteq search[s].todo
    /\ \A l \in search[s].known : search[s].inverter \in inverters[l]

LoopInv == TypeOK /\ InsertersHoldMutex /\ EntriesHaveInverters /\ KnownIsAhead

-----------------------------------------------------------------------------
(* Lemmas about records and searches.                                      *)

(* A record in one piece is typed like its beginning.                      *)
LEMMA WholeItems ==
  ASSUME NEW r \in Items, r.part = "whole"
  PROVE  /\ r \in [part : {"whole", "head"}, type : Sends, seq : 0..1]
         /\ Head8(r) \in Items
<1>1. r \in [part : {"whole", "head"}, type : Sends, seq : 0..1]
  BY DEF Items, Stub, Rest
<1>2. Head8(r) \in [part : {"whole", "head"}, type : Sends, seq : 0..1]
  BY <1>1 DEF Head8
<1> QED
  BY <1>1, <1>2 DEF Items

LEMMA RestIsRest ==
  ASSUME NEW r \in Items, r.part = "rest"
  PROVE  r = Rest
<1>1. CASE r = Stub
  BY <1>1 DEF Stub
<1>2. CASE r \in [part : {"whole", "head"}, type : Sends, seq : 0..1]
  <2>1. r.part \in {"whole", "head"}
    BY <1>2
  <2> QED
    BY <2>1
<1> QED
  BY <1>1, <1>2 DEF Items

LEMMA NewItem ==
  ASSUME NEW t \in Sends, NEW n \in 0..1
  PROVE  Whole(t, n) \in Items
BY DEF Whole, Items

LEMMA NoneIsNoItem == None \notin Items /\ None \notin Sends /\ None \notin Serials
BY NoneAssumption

(* The goroutine's part of the type invariant.                             *)
LoopTypeOK ==
  /\ loop   \in [Conn -> {"read", "answer", "parse", "inverter", "insert", "closed"}]
  /\ data   \in [Conn -> Items \cup {None}]
  /\ \A d \in Conn : data[d] = None <=> loop[d] \in {"read", "closed"}
  /\ parsed \in [Conn -> [logger : Datalogger, inverter : Inverter] \cup {None}]
  /\ \A d \in Conn : parsed[d] = None <=> loop[d] \notin {"inverter", "insert"}

(* What looks for an inverter is not idle.                                 *)
LEMMA SearchesAreNotIdle == Idle \notin SearchRecord
<1> SUFFICES ASSUME Idle \in SearchRecord PROVE FALSE
  OBVIOUS
<1>1. Idle.inverter \in Inverter
  BY DEF SearchRecord
<1> QED
  BY <1>1, RegistryAssumption DEF Idle

(* What a goroutine leaves unread is still a sequence of items.            *)
LEMMA LeftOver ==
  ASSUME NEW q \in Seq(Items), NEW n \in 1..Len(q)
  PROVE  /\ SubSeq(q, n + 1, Len(q)) \in Seq(Items)
         /\ Len(SubSeq(q, n + 1, Len(q))) = Len(q) - n
         /\ <<Rest>> \o SubSeq(q, n + 1, Len(q)) \in Seq(Items)
         /\ Len(<<Rest>> \o SubSeq(q, n + 1, Len(q))) = Len(q) - n + 1
<1> DEFINE t == SubSeq(q, n + 1, Len(q))
<1>0. Len(q) \in Nat /\ n \in Int
  BY LenProperties
<1>1. \A i \in (n + 1)..Len(q) : q[i] \in Items
  BY <1>0, ElementOfSeq
<1>2. t \in Seq(Items) /\ Len(t) = Len(q) - n
  <2>1. /\ t \in Seq(Items)
        /\ Len(t) = IF n + 1 <= Len(q) THEN Len(q) - (n + 1) + 1 ELSE 0
    BY <1>0, <1>1, SubSeqProperties
  <2> QED
    BY <2>1, <1>0
<1>3. <<Rest>> \in Seq(Items) /\ Len(<<Rest>>) = 1
  BY DEF Items
<1>4. <<Rest>> \o t \in Seq(Items) /\ Len(<<Rest>> \o t) = 1 + Len(t)
  BY <1>2, <1>3, ConcatProperties
<1> QED
  BY <1>0, <1>2, <1>4

-----------------------------------------------------------------------------
(* The datalogger's steps.                                                 *)

(* A step that leaves the registry and the goroutines where they are keeps *)
(* what relates them.                                                      *)
LEMMA LoopsAlone ==
  ASSUME LoopInv, UNCHANGED <<loop, parsed, regVars>>
  PROVE  InsertersHoldMutex' /\ EntriesHaveInverters' /\ KnownIsAhead' /\ RegistryTypeOK'
BY DEF LoopInv, TypeOK, InsertersHoldMutex, EntriesHaveInverters, KnownIsAhead,
       RegistryTypeOK, Registered, regVars, registryVars

LEMMA PutTyped ==
  ASSUME TypeOK, NEW c \in Conn, NEW t \in Sends, NEW n \in 0..1, Put(c, t, n)
  PROVE  /\ wire' \in [Conn -> Seq(Items)]
         /\ \A d \in Conn : Len(wire'[d]) <= MaxWire
<1> DEFINE q == Append(wire[c], Whole(t, n))
<1>1. wire[c] \in Seq(Items) /\ Len(wire[c]) < MaxWire /\ Len(wire[c]) \in Nat
  BY LenProperties DEF Put, TypeOK
<1>2. q \in Seq(Items) /\ Len(q) = Len(wire[c]) + 1
  BY <1>1, NewItem
<1>3. wire' = [wire EXCEPT ![c] = q]
  BY DEF Put
<1>4. Len(q) <= MaxWire
  BY <1>1, <1>2, LoopAssumption
<1> QED
  BY <1>2, <1>3, <1>4 DEF TypeOK

LEMMA DatalogKeeps ==
  ASSUME LoopInv, NEW c \in Conn, Datalog(c)
  PROVE  LoopInv'
<1>1. UNCHANGED <<loop, data, parsed, regVars>>
  BY DEF Datalog, Connect, Send, Repeat, Leave, Put, loopVars
<1>2. /\ InsertersHoldMutex' /\ EntriesHaveInverters' /\ KnownIsAhead'
      /\ RegistryTypeOK'
  BY <1>1, LoopsAlone
<1>3. /\ link'    \in [Conn -> {"new", "up", "down"}]
      /\ wire'    \in [Conn -> Seq(Items)]
      /\ \A d \in Conn : Len(wire'[d]) <= MaxWire
      /\ seq'     \in [Conn -> 0..1]
      /\ waiting' \in [Conn -> Sends \cup {None}]
  <2>1. CASE Connect(c)
    BY <2>1 DEF Connect, LoopInv, TypeOK
  <2>2. CASE Leave(c)
    BY <2>2 DEF Leave, LoopInv, TypeOK
  <2>3. ASSUME NEW t \in Sends, Send(c, t)
        PROVE  <1>3
    <3>1. seq[c] \in 0..1 /\ 1 - seq[c] \in 0..1
      BY DEF LoopInv, TypeOK
    <3>2. /\ wire' \in [Conn -> Seq(Items)]
          /\ \A d \in Conn : Len(wire'[d]) <= MaxWire
      BY <2>3, <3>1, PutTyped DEF Send, LoopInv
    <3> QED
      BY <2>3, <3>1, <3>2 DEF Send, Put, LoopInv, TypeOK
  <2>4. CASE Repeat(c)
    <3>1. seq[c] \in 0..1 /\ waiting[c] \in Sends
      BY <2>4 DEF Repeat, LoopInv, TypeOK
    <3>2. /\ wire' \in [Conn -> Seq(Items)]
          /\ \A d \in Conn : Len(wire'[d]) <= MaxWire
      BY <2>4, <3>1, PutTyped DEF Repeat, LoopInv
    <3> QED
      BY <2>4, <3>2 DEF Repeat, Put, LoopInv, TypeOK
  <2> QED
    BY <2>1, <2>2, <2>3, <2>4 DEF Datalog
<1>4. LoopTypeOK'
  BY <1>1 DEF LoopInv, TypeOK, LoopTypeOK
<1> QED
  BY <1>2, <1>3, <1>4 DEF LoopInv, TypeOK, LoopTypeOK

-----------------------------------------------------------------------------
(* Reading and answering.                                                  *)

(* A goroutine that moves between places other than the insertion.         *)
LEMMA NobodyInserts ==
  ASSUME LoopInv, NEW c \in Conn, NEW p, Goto(c, p), p # "insert", UNCHANGED regVars,
         \A d \in Conn \ {c} : parsed'[d] = parsed[d]
  PROVE  InsertersHoldMutex' /\ EntriesHaveInverters' /\ KnownIsAhead' /\ RegistryTypeOK'
<1>1. InsertersHoldMutex'
  BY DEF LoopInv, TypeOK, InsertersHoldMutex, Goto, regVars, registryVars
<1>2. EntriesHaveInverters' /\ KnownIsAhead' /\ RegistryTypeOK'
  BY DEF LoopInv, TypeOK, EntriesHaveInverters, KnownIsAhead, RegistryTypeOK,
         Registered, regVars, registryVars
<1> QED
  BY <1>1, <1>2

LEMMA TakeKeeps ==
  ASSUME LoopInv, NEW c \in Conn, NEW item \in Items, NEW left \in Seq(Items),
         Len(left) <= MaxWire, Take(c, item, left)
  PROVE  LoopInv'
<1>1. Goto(c, "answer") /\ UNCHANGED <<parsed, regVars>>
  BY DEF Take
<1>2. /\ InsertersHoldMutex' /\ EntriesHaveInverters' /\ KnownIsAhead'
      /\ RegistryTypeOK'
  BY <1>1, NobodyInserts
<1>3. /\ link'    \in [Conn -> {"new", "up", "down"}]
      /\ wire'    \in [Conn -> Seq(Items)]
      /\ \A d \in Conn : Len(wire'[d]) <= MaxWire
      /\ seq'     \in [Conn -> 0..1]
      /\ waiting' \in [Conn -> Sends \cup {None}]
  BY DEF LoopInv, TypeOK, Take
<1>4. LoopTypeOK'
  BY <1>1, NoneIsNoItem DEF LoopInv, TypeOK, LoopTypeOK, Take, Goto
<1> QED
  BY <1>2, <1>3, <1>4 DEF LoopInv, TypeOK, LoopTypeOK

LEMMA ReadKeeps ==
  ASSUME LoopInv, NEW c \in Conn, ReadAll(c) \/ ReadSome(c) \/ ReadInto(c)
  PROVE  LoopInv'
<1> DEFINE q == wire[c]
<1>0. /\ q \in Seq(Items) /\ Len(q) <= MaxWire /\ Len(q) \in Nat
      /\ DOMAIN q = 1..Len(q) /\ MaxWire \in Nat
  BY LenProperties, LoopAssumption DEF LoopInv, TypeOK
<1>1. CASE ReadAll(c)
  <2>1. Head(q) \in Items /\ <<>> \in Seq(Items) /\ Len(<<>>) = 0
    BY <1>0, <1>1, HeadTailProperties, EmptySeq DEF ReadAll
  <2>2. Len(<<>>) <= MaxWire
    BY <1>0, <2>1
  <2> QED
    BY <1>1, <2>1, <2>2, TakeKeeps DEF ReadAll
<1>2. CASE ReadSome(c)
  <2>1. PICK n \in 1..(Len(q) - 1) : Take(c, Head(q), SubSeq(q, n + 1, Len(q)))
    BY <1>2 DEF ReadSome
  <2>2. Head(q) \in Items
    BY <1>0, <2>1, HeadTailProperties, EmptySeq
  <2>3. SubSeq(q, n + 1, Len(q)) \in Seq(Items) /\ Len(SubSeq(q, n + 1, Len(q))) = Len(q) - n
    BY <1>0, <2>1, LeftOver
  <2>4. Len(SubSeq(q, n + 1, Len(q))) <= MaxWire
    BY <1>0, <2>1, <2>3
  <2> QED
    BY <2>1, <2>2, <2>3, <2>4, TakeKeeps
<1>3. CASE ReadInto(c)
  <2> DEFINE rest(n) == <<Rest>> \o SubSeq(q, n + 1, Len(q))
  <2>1. PICK n \in 1..Len(q) :
          /\ q[n].part = "whole"
          /\ \E item \in IF n = 1 THEN {Head8(q[1]), Stub} ELSE {Head(q)} :
               Take(c, item, rest(n))
    BY <1>0, <1>3 DEF ReadInto
  <2>2. rest(n) \in Seq(Items) /\ Len(rest(n)) = Len(q) - n + 1
    BY <1>0, <2>1, LeftOver
  <2>3. Len(rest(n)) <= MaxWire
    BY <1>0, <2>1, <2>2
  <2>4. q[n] \in Items /\ Head(q) \in Items
    BY <1>0, <2>1, ElementOfSeq, HeadTailProperties, EmptySeq
  <2>5. Head8(q[n]) \in Items /\ Stub \in Items
    BY <2>1, <2>4, WholeItems DEF Items
  <2>6. PICK item \in Items : Take(c, item, rest(n))
    BY <2>1, <2>4, <2>5
  <2> HIDE DEF rest
  <2> QED
    BY <2>2, <2>3, <2>6, TakeKeeps
<1> QED
  BY <1>1, <1>2, <1>3

LEMMA AnswerKeeps ==
  ASSUME LoopInv, NEW c \in Conn, Answer(c)
  PROVE  LoopInv'
<1>1. /\ Goto(c, "parse") /\ loop[c] = "answer"
      /\ UNCHANGED <<link, wire, seq, data, parsed, regVars>>
  BY DEF Answer
<1>2. /\ InsertersHoldMutex' /\ EntriesHaveInverters' /\ KnownIsAhead'
      /\ RegistryTypeOK'
  BY <1>1, NobodyInserts
<1>3. waiting' \in [Conn -> Sends \cup {None}]
  <2>1. waiting' = waiting \/ waiting' = [waiting EXCEPT ![c] = None]
    BY DEF Answer, Respond
  <2> QED
    BY <2>1 DEF LoopInv, TypeOK
<1>4. LoopTypeOK'
  BY <1>1 DEF LoopInv, TypeOK, LoopTypeOK, Goto
<1> QED
  BY <1>1, <1>2, <1>3, <1>4 DEF LoopInv, TypeOK, LoopTypeOK

(* The end of a connection, and a record that is not parsed.               *)
LEMMA LeaveLoop ==
  ASSUME LoopInv, NEW c \in Conn, ReadError(c) \/ Skip(c)
  PROVE  LoopInv'
<1>1. \/ Goto(c, "closed") /\ UNCHANGED <<data, parsed>> /\ loop[c] = "read"
      \/ Back(c) /\ Goto(c, "read")
  BY DEF ReadError, Skip, Back
<1>2. UNCHANGED <<deviceVars, regVars>>
  BY DEF ReadError, Skip
<1>3. /\ InsertersHoldMutex' /\ EntriesHaveInverters' /\ KnownIsAhead'
      /\ RegistryTypeOK'
  <2>1. \A d \in Conn \ {c} : parsed'[d] = parsed[d]
    BY <1>1 DEF Back, LoopInv, TypeOK
  <2> QED
    BY <1>1, <1>2, <2>1, NobodyInserts
<1>4. LoopTypeOK'
  <2>1. CASE Goto(c, "closed") /\ UNCHANGED <<data, parsed>> /\ loop[c] = "read"
    BY <1>2, <2>1, SMTT(60) DEF LoopInv, TypeOK, LoopTypeOK, Goto, deviceVars
  <2>2. CASE Back(c)
    BY <1>2, <2>2, SMTT(60) DEF LoopInv, TypeOK, LoopTypeOK, Back, Goto, deviceVars
  <2> QED
    BY <1>1, <2>1, <2>2
<1> QED
  BY <1>2, <1>3, <1>4 DEF LoopInv, TypeOK, LoopTypeOK, deviceVars

-----------------------------------------------------------------------------
(* Registering.                                                            *)

LEMMA NamesAreSerials ==
  ASSUME NEW c \in Conn, NEW n \in Names(c)
  PROVE  /\ n \in Serials /\ n # None
         /\ n.logger \in Datalogger /\ n.inverter \in Inverter \cup {None}
<1>1. n \in Serials
  BY DEF Names
<1> QED
  BY <1>1, NoneIsNoItem DEF Serials

(* Either the goroutine is done, or an inverter is left to be registered.  *)
LEMMA RegisterKeeps ==
  ASSUME LoopInv, NEW c \in Conn, Register(c)
  PROVE  LoopInv'
<1> USE DEF LoopInv
<1>1. PICK n \in Names(c) :
        /\ RegisterDatalogger(n.logger, HostOf[c])
        /\ \/ Back(c)
           \/ /\ n.inverter # None
              /\ Goto(c, "inverter") /\ parsed' = [parsed EXCEPT ![c] = n]
              /\ UNCHANGED data
  BY DEF Register
<1>2. /\ loop[c] = "parse" /\ inserting = None
      /\ ip' = [ip EXCEPT ![n.logger] = HostOf[c]]
      /\ UNCHANGED <<deviceVars, inverters, inserting, search, crashed>>
  BY <1>1 DEF Register, RegisterDatalogger, MutexFree
<1>3. n.logger \in Datalogger /\ HostOf[c] \in Host /\ HostOf[c] # None
  BY LoopAssumption, RegistryAssumption, NamesAreSerials
<1>4. RegistryTypeOK' /\ Registered \subseteq Registered'
  BY <1>2, <1>3 DEF TypeOK, RegistryTypeOK, Registered
<1>5. InsertersHoldMutex'
  <2>1. \A d \in Conn : loop'[d] = "insert" => loop[d] = "insert" /\ parsed'[d] = parsed[d]
    BY <1>1, <1>2 DEF TypeOK, Goto, Back
  <2> QED
    BY <1>2, <2>1 DEF InsertersHoldMutex
<1>6. EntriesHaveInverters' /\ KnownIsAhead'
  BY <1>2, <1>4 DEF EntriesHaveInverters, KnownIsAhead
<1>7. LoopTypeOK'
  <2>1. n \in Serials /\ n # None
    BY NamesAreSerials
  <2>2. CASE Back(c)
    BY <1>2, <2>2 DEF TypeOK, LoopTypeOK, Goto, Back
  <2>3. CASE /\ n.inverter # None
             /\ Goto(c, "inverter") /\ parsed' = [parsed EXCEPT ![c] = n]
             /\ UNCHANGED data
    <3>1. n \in [logger : Datalogger, inverter : Inverter]
      BY <2>1, <2>3 DEF Serials
    <3> QED
      BY <1>2, <2>1, <2>3, <3>1 DEF TypeOK, LoopTypeOK, Goto
  <2> QED
    BY <1>1, <2>2, <2>3
<1> QED
  BY <1>2, <1>4, <1>5, <1>6, <1>7 DEF TypeOK, LoopTypeOK, deviceVars

(* The three steps of RegisterInverter.                                    *)
LEMMA AddInverterKeeps ==
  ASSUME LoopInv, NEW c \in Conn, AddInverter(c)
  PROVE  LoopInv'
<1> USE DEF LoopInv
<1> DEFINE l == parsed[c].logger
           v == parsed[c].inverter
<1>1. loop[c] \in {"inverter", "insert"} /\ UNCHANGED <<deviceVars, search, crashed>>
  BY DEF AddInverter
<1>2. l \in Datalogger /\ l # None /\ v \in Inverter
  <2>1. parsed[c] \in [logger : Datalogger, inverter : Inverter]
    BY <1>1 DEF TypeOK
  <2> QED
    BY <2>1, RegistryAssumption
<1>3. \/ /\ loop[c] = "inverter" /\ RefreshInverter(l, v) /\ Back(c)
      \/ /\ loop[c] = "inverter" /\ InsertBegins(l, v)
         /\ Goto(c, "insert") /\ UNCHANGED <<data, parsed>>
      \/ /\ loop[c] = "insert" /\ InsertEnds(l, v) /\ Back(c)
  BY DEF AddInverter
<1>4. LoopTypeOK'
  <2>1. CASE Back(c)
    BY <1>1, <2>1, SMTT(60) DEF TypeOK, LoopTypeOK, Goto, Back, deviceVars
  <2>2. CASE loop[c] = "inverter" /\ Goto(c, "insert") /\ UNCHANGED <<data, parsed>>
    BY <1>1, <2>2, SMTT(60) DEF TypeOK, LoopTypeOK, Goto, deviceVars
  <2> QED
    BY <1>3, <2>1, <2>2
<1>5. /\ InsertersHoldMutex' /\ EntriesHaveInverters' /\ KnownIsAhead'
      /\ RegistryTypeOK'
  <2>0. ASSUME Back(c) PROVE \A d \in Conn \ {c} : parsed'[d] = parsed[d]
    BY <2>0 DEF Back, TypeOK
  <2>1. CASE RefreshInverter(l, v) /\ Back(c)
    BY <1>1, <2>0, <2>1, NobodyInserts DEF RefreshInverter, Back, regVars
  <2>2. CASE InsertBegins(l, v) /\ Goto(c, "insert") /\ UNCHANGED parsed
    <3>1. /\ inserting = None /\ inserting' = l /\ l \in Registered
          /\ UNCHANGED <<ip, inverters>>
      BY <2>2 DEF InsertBegins, MutexFree
    <3>2. RegistryTypeOK'
      BY <1>1, <1>2, <3>1 DEF TypeOK, RegistryTypeOK
    <3>3. \A d \in Conn : loop[d] # "insert"
      <4> SUFFICES ASSUME NEW d \in Conn, loop[d] = "insert" PROVE FALSE
        OBVIOUS
      <4>1. /\ parsed[d] \in [logger : Datalogger, inverter : Inverter]
            /\ inserting = parsed[d].logger
        BY DEF TypeOK, InsertersHoldMutex
      <4> QED
        BY <3>1, <4>1, RegistryAssumption
    <3>4. InsertersHoldMutex'
      BY <2>2, <3>1, <3>3 DEF InsertersHoldMutex, Goto, TypeOK
    <3>5. EntriesHaveInverters' /\ KnownIsAhead'
      BY <1>1, <3>1 DEF EntriesHaveInverters, KnownIsAhead, Registered
    <3> QED
      BY <3>2, <3>4, <3>5
  <2>3. CASE loop[c] = "insert" /\ InsertEnds(l, v) /\ Back(c)
    <3>1. /\ inserting = l /\ inserting' = None /\ UNCHANGED ip
          /\ inverters' = [inverters EXCEPT ![l] = @ \cup {v}]
      BY <2>3 DEF InsertEnds
    <3>2. RegistryTypeOK'
      BY <1>1, <1>2, <3>1 DEF TypeOK, RegistryTypeOK
    <3>3. InsertersHoldMutex'
      BY <2>3 DEF InsertersHoldMutex, Back, Goto, TypeOK
    <3>4. \A m \in Datalogger : /\ inverters[m] \subseteq inverters'[m]
                                /\ m # l => inverters'[m] = inverters[m]
      BY <3>1 DEF TypeOK, RegistryTypeOK
    <3>5. l \in Registered
      BY <1>2, <3>1 DEF EntriesHaveInverters
    <3>6. EntriesHaveInverters'
      BY <3>1, <3>4, <3>5 DEF EntriesHaveInverters, Registered
    <3>7. KnownIsAhead'
      <4> SUFFICES ASSUME NEW s \in Search, search[s] # Idle
                   PROVE  /\ search[s].known \subseteq search[s].todo
                          /\ \A m \in search[s].known : search[s].inverter \in inverters'[m]
        BY <1>1 DEF KnownIsAhead
      <4>1. search[s].known \subseteq Datalogger
        BY DEF TypeOK, RegistryTypeOK, SearchRecord
      <4> QED
        BY <3>4, <4>1 DEF KnownIsAhead
    <3> QED
      BY <3>2, <3>3, <3>6, <3>7
  <2> QED
    BY <1>3, <2>1, <2>2, <2>3
<1> QED
  BY <1>1, <1>4, <1>5 DEF TypeOK, LoopTypeOK, deviceVars

-----------------------------------------------------------------------------
(* Searching.                                                              *)

(* A search begins with every entry ahead of it, and an entry it leaves    *)
(* behind did not have the inverter.                                       *)
LEMMA SearchKeeps ==
  ASSUME LoopInv, NEW s \in Search, SearchRegistry(s)
  PROVE  LoopInv'
<1> USE DEF LoopInv
<1>1. UNCHANGED <<deviceVars, loopVars, registryVars>>
  BY DEF SearchRegistry, SearchStep, Begin, Visit, GiveUp
<1>2. /\ search' \in [Search -> SearchRecord \cup {Idle}]
      /\ crashed' \in BOOLEAN
      /\ KnownIsAhead'
  <2> USE DEF TypeOK, RegistryTypeOK
  <2>0. /\ UNCHANGED inverters
        /\ \A e \in Search \ {s} : search'[e] = search[e]
    BY <1>1 DEF SearchRegistry, SearchStep, Begin, Visit, GiveUp, registryVars
  <2> DEFINE Fine == /\ search' \in [Search -> SearchRecord \cup {Idle}]
                     /\ crashed' \in BOOLEAN
                     /\ search'[s] # Idle =>
                          /\ search'[s].known \subseteq search'[s].todo
                          /\ \A l \in search'[s].known :
                               search'[s].inverter \in inverters[l]
  <2>1. SUFFICES Fine
    BY <2>0 DEF KnownIsAhead
  <2>2. ASSUME NEW v \in Inverter, Begin(s, v)
        PROVE  Fine
    <3> DEFINE r == [inverter |-> v, todo |-> Registered,
                     known |-> {l \in Datalogger : v \in inverters[l]}]
    <3>1. search' = [search EXCEPT ![s] = r] /\ UNCHANGED crashed
      BY <2>2 DEF Begin
    <3>2. r \in SearchRecord
      BY DEF SearchRecord, Registered
    <3>3. r.known \subseteq r.todo /\ \A l \in r.known : r.inverter \in inverters[l]
      BY DEF EntriesHaveInverters
    <3> QED
      BY <3>1, <3>2, <3>3
  <2>3. ASSUME NEW l \in Datalogger, Visit(s, l)
        PROVE  Fine
    <3> DEFINE r == search[s]
               n == [r EXCEPT !.todo = @ \ {l}]
    <3>1. r \in SearchRecord /\ r # Idle
      BY <2>3 DEF Visit
    <3>2. CASE UNCHANGED search /\ crashed' = TRUE
      BY <3>1, <3>2 DEF KnownIsAhead
    <3>3. CASE UNCHANGED crashed /\ search' = [search EXCEPT ![s] = Idle]
      BY <3>3
    <3>4. CASE /\ r.inverter \notin inverters[l] /\ UNCHANGED crashed
               /\ search' = [search EXCEPT ![s] = n]
      <4>1. /\ n \in SearchRecord
            /\ n.todo = r.todo \ {l} /\ n.known = r.known /\ n.inverter = r.inverter
        BY <3>1 DEF SearchRecord
      <4>2. l \notin r.known
        BY <3>1, <3>4 DEF KnownIsAhead
      <4>3. /\ n.known \subseteq n.todo
            /\ \A m \in n.known : n.inverter \in inverters[m]
        BY <3>1, <4>1, <4>2 DEF KnownIsAhead
      <4>4. search'[s] = n /\ search' \in [Search -> SearchRecord \cup {Idle}]
        BY <3>4, <4>1
      <4> HIDE DEF n
      <4> QED
        BY <3>4, <4>3, <4>4
    <3>5. \/ UNCHANGED search /\ crashed' = TRUE
          \/ /\ UNCHANGED crashed
             /\ search' = [search EXCEPT ![s] =
                             IF r.inverter \in inverters[l] THEN Idle ELSE n]
      BY <2>3 DEF Visit
    <3> HIDE DEF n
    <3> QED
      BY <3>2, <3>3, <3>4, <3>5
  <2>4. CASE GiveUp(s)
    BY <2>4 DEF GiveUp
  <2> QED
    BY <2>2, <2>3, <2>4 DEF SearchRegistry, SearchStep
<1>3. RegistryTypeOK'
  BY <1>1, <1>2 DEF TypeOK, RegistryTypeOK, registryVars
<1>4. InsertersHoldMutex' /\ EntriesHaveInverters'
  BY <1>1 DEF InsertersHoldMutex, EntriesHaveInverters, Registered, registryVars, loopVars
<1> QED
  BY <1>1, <1>2, <1>3, <1>4 DEF TypeOK, deviceVars, loopVars

-----------------------------------------------------------------------------

LEMMA InitLoop == Init => LoopInv
<1> SUFFICES ASSUME Init PROVE LoopInv
  OBVIOUS
<1>1. RegistryTypeOK
  BY DEF Init, RegistryInit, RegistryTypeOK
<1>2. TypeOK
  BY <1>1, EmptySeq, LoopAssumption DEF Init, TypeOK
<1> QED
  BY <1>2 DEF Init, RegistryInit, LoopInv, InsertersHoldMutex, EntriesHaveInverters,
              KnownIsAhead

LEMMA NextLoop == LoopInv /\ [Next]_vars => LoopInv'
<1> SUFFICES ASSUME LoopInv, [Next]_vars PROVE LoopInv'
  OBVIOUS
<1>1. CASE UNCHANGED vars
  <2>1. UNCHANGED <<deviceVars, loop, data, parsed, regVars>>
    BY <1>1 DEF vars, loopVars
  <2> QED
    BY <2>1, LoopsAlone DEF LoopInv, TypeOK, deviceVars
<1>2. ASSUME NEW c \in Conn, Loop(c) \/ Datalog(c)
      PROVE  LoopInv'
  BY <1>2, DatalogKeeps, ReadKeeps, AnswerKeeps, LeaveLoop, RegisterKeeps,
     AddInverterKeeps DEF Loop
<1>3. ASSUME NEW s \in Search, SearchRegistry(s)
      PROVE  LoopInv'
  BY <1>3, SearchKeeps
<1> QED
  BY <1>1, <1>2, <1>3 DEF Next, Crashed

LEMMA LoopInvariance == Spec => []LoopInv
BY InitLoop, NextLoop, PTL DEF Spec

-----------------------------------------------------------------------------

(* Every variable of the loop and of the registry keeps its type: there is *)
(* something to answer exactly while a goroutine is at work, and no more   *)
(* is under way than was sent, in whatever pieces it is read               *)
(* (service/server.go:285-360).                                            *)
THEOREM LoopTyping == Spec => []TypeOK
<1>1. LoopInv => TypeOK
  BY DEF LoopInv
<1> QED
  BY <1>1, LoopInvariance, PTL

(* A search that finds nothing is right about the inverters that were      *)
(* registered when it began, for any number of searches, dataloggers and   *)
(* goroutines registering (domain/registry.go:40-46,                       *)
(* api/server.go:780-790).                                                 *)
THEOREM KnownFound == Spec => []KnownInvertersAreFound
<1>1. LoopInv => KnownInvertersAreFound
  <2> SUFFICES ASSUME LoopInv, NEW s \in Search, search[s] # Idle, search[s].todo = {}
               PROVE  search[s].known = {}
    BY DEF KnownInvertersAreFound
  <2> QED
    BY DEF LoopInv, KnownIsAhead
<1> QED
  BY <1>1, LoopInvariance, PTL

(* Two goroutines are never in the middle of RegisterInverter at once: the *)
(* maps of inverters are written by one at a time, and what ends the       *)
(* program can only be a search (domain/registry.go:62-63).                *)
THEOREM OneInserter == Spec => []InsertersHoldMutex
<1>1. LoopInv => InsertersHoldMutex
  BY DEF LoopInv
<1> QED
  BY <1>1, LoopInvariance, PTL

-----------------------------------------------------------------------------
(* What the registry holds.                                                *)

(* Nothing is ever removed from the registry: no entry, and no inverter of *)
(* one.                                                                    *)
RegistryGrows ==
  \A l \in Datalogger : /\ l \in Registered => l \in Registered'
                        /\ inverters[l] \subseteq inverters'[l]

(* What a goroutine registers was found in what it has read.               *)
ParsedIsNamed ==
  \A c \in Conn : loop[c] \in {"inverter", "insert"} => parsed[c] \in Names(c)

(* An entry gets an address only from the goroutine of a connection from   *)
(* that address, and an inverter only from a goroutine: of the             *)
(* datalogger's own, or of one that has taken the middle of a record for a *)
(* record.  The inverter is the datalogger's own unless it comes from      *)
(* there, or from the answer to a command.                                 *)
EntriesAreOwn ==
  \A l \in Datalogger :
    /\ ip'[l] # ip[l] => \E c \in Conn : /\ HostOf[c] = ip'[l]
                                         /\ LoggerOf[c] = l \/ data[c] = Rest
    /\ \A v \in inverters'[l] \ inverters[l] :
         \E c \in Conn : \/ data[c] = Rest
                         \/ LoggerOf[c] = l /\ InverterOf[c] = v
                         \/ LoggerOf[c] = l /\ data[c].type \in Commands

(* The steps that write the registry, for one connection.                  *)
LEMMA RegistrySteps ==
  ASSUME LoopInv, [Next]_vars
  PROVE  \/ \E c \in Conn :
              \/ /\ loop[c] = "parse" /\ UNCHANGED inverters
                 /\ \E n \in Names(c) : ip' = [ip EXCEPT ![n.logger] = HostOf[c]]
              \/ /\ loop[c] = "insert" /\ UNCHANGED ip
                 /\ inverters' = [inverters EXCEPT ![parsed[c].logger] =
                                                   @ \cup {parsed[c].inverter}]
         \/ UNCHANGED <<ip, inverters>>
<1>1. CASE UNCHANGED vars
  BY <1>1 DEF vars, regVars, registryVars
<1>2. ASSUME NEW c \in Conn, Loop(c) \/ Datalog(c), ~Register(c), ~AddInverter(c)
      PROVE  UNCHANGED <<ip, inverters>>
  BY <1>2 DEF Loop, Datalog, ReadAll, ReadSome, ReadInto, Take, ReadError, Answer,
              Skip, Connect, Send, Repeat, Put, Leave, regVars, registryVars
<1>3. ASSUME NEW c \in Conn, Register(c)
      PROVE  /\ loop[c] = "parse" /\ UNCHANGED inverters
             /\ \E n \in Names(c) : ip' = [ip EXCEPT ![n.logger] = HostOf[c]]
  BY <1>3 DEF Register, RegisterDatalogger
<1>4. ASSUME NEW c \in Conn, AddInverter(c)
      PROVE  \/ UNCHANGED <<ip, inverters>>
             \/ /\ loop[c] = "insert" /\ UNCHANGED ip
                /\ inverters' = [inverters EXCEPT ![parsed[c].logger] =
                                                  @ \cup {parsed[c].inverter}]
  BY <1>4 DEF AddInverter, RefreshInverter, InsertBegins, InsertEnds, registryVars
<1>5. ASSUME NEW s \in Search, SearchRegistry(s)
      PROVE  UNCHANGED <<ip, inverters>>
  BY <1>5 DEF SearchRegistry, SearchStep, Begin, Visit, GiveUp, registryVars
<1> QED
  BY <1>1, <1>2, <1>3, <1>4, <1>5 DEF Next, Crashed

(* A datalogger that registers again, from wherever it is and by whatever  *)
(* old goroutine, keeps its entry and its inverters                        *)
(* (domain/registry.go:40-46).                                             *)
THEOREM NothingForgotten == Spec => [][RegistryGrows]_vars
<1>1. LoopInv /\ [Next]_vars => RegistryGrows
  <2> SUFFICES ASSUME LoopInv, [Next]_vars PROVE RegistryGrows
    OBVIOUS
  <2>1. ip \in [Datalogger -> Host \cup {None}] /\ inverters \in [Datalogger -> SUBSET Inverter]
    BY DEF LoopInv, TypeOK, RegistryTypeOK
  <2>2. \A c \in Conn : HostOf[c] # None
    BY LoopAssumption, RegistryAssumption
  <2>3. /\ \A c \in Conn : \A n \in Names(c) : n.logger \in Datalogger
        /\ \A c \in Conn : loop[c] = "insert" => parsed[c].logger \in Datalogger
    BY NamesAreSerials DEF LoopInv, TypeOK
  <2> QED
    BY <2>1, <2>2, <2>3, RegistrySteps DEF RegistryGrows, Registered
<1> QED
  BY <1>1, LoopInvariance, PTL DEF Spec

LEMMA NamedKeeps ==
  ASSUME LoopInv, ParsedIsNamed, [Next]_vars
  PROVE  ParsedIsNamed'
<1> SUFFICES ASSUME NEW d \in Conn, loop'[d] \in {"inverter", "insert"}
             PROVE  parsed'[d] \in Names(d)'
  BY DEF ParsedIsNamed
<1> USE DEF LoopInv, TypeOK, ParsedIsNamed
<1>1. ASSUME loop'[d] = loop[d], parsed'[d] = parsed[d], data'[d] = data[d]
      PROVE  parsed'[d] \in Names(d)'
  BY <1>1 DEF Names
<1>2. ASSUME NEW c \in Conn,
             ReadAll(c) \/ ReadSome(c) \/ ReadInto(c) \/ ReadError(c) \/ Answer(c) \/ Skip(c)
      PROVE  parsed'[d] \in Names(d)'
  <2>1. /\ d # c
        /\ loop'[d] = loop[d] /\ data'[d] = data[d] /\ parsed'[d] = parsed[d]
    BY <1>2 DEF ReadAll, ReadSome, ReadInto, Take, ReadError, Answer, Skip, Back, Goto
  <2> QED
    BY <1>1, <2>1
<1>3. ASSUME NEW c \in Conn, Register(c) PROVE parsed'[d] \in Names(d)'
  <2>1. CASE d # c
    <3>1. loop'[d] = loop[d] /\ data'[d] = data[d] /\ parsed'[d] = parsed[d]
      BY <1>3, <2>1 DEF Register, Back, Goto
    <3> QED
      BY <1>1, <3>1
  <2>2. CASE d = c
    <3>1. /\ UNCHANGED data
          /\ \E n \in Names(d) : parsed' = [parsed EXCEPT ![d] = n]
      BY <1>3, <2>2 DEF Register, Back, Goto
    <3> QED
      BY <3>1 DEF Names
  <2> QED
    BY <2>1, <2>2
<1>4. ASSUME NEW c \in Conn, AddInverter(c) PROVE parsed'[d] \in Names(d)'
  <2>1. data'[d] = data[d] /\ parsed'[d] = parsed[d] /\ loop[d] \in {"inverter", "insert"}
    BY <1>4 DEF AddInverter, Back, Goto
  <2> QED
    BY <2>1 DEF Names
<1>5. ASSUME \/ \E c \in Conn : Datalog(c)
             \/ \E s \in Search : SearchRegistry(s)
             \/ UNCHANGED vars
      PROVE  parsed'[d] \in Names(d)'
  <2>1. UNCHANGED loopVars
    BY <1>5 DEF Datalog, Connect, Send, Repeat, Put, Leave, SearchRegistry, vars
  <2> QED
    BY <1>1, <2>1 DEF loopVars
<1> QED
  BY <1>2, <1>3, <1>4, <1>5 DEF Next, Crashed, Loop

(* However the records are cut, glued together or repeated, and whichever  *)
(* goroutine comes late: an entry gets a foreign address, or a foreign     *)
(* inverter, only where the middle of a record is taken for a record or an *)
(* answer to a command for data (parser.go:227, service/server.go:455-     *)
(* 465).                                                                   *)
THEOREM OwnEntries == Spec => [][EntriesAreOwn]_vars
<1>1. Init => ParsedIsNamed
  BY DEF Init, ParsedIsNamed
<1>2. LoopInv /\ ParsedIsNamed /\ [Next]_vars => ParsedIsNamed'
  BY NamedKeeps
<1>3. LoopInv /\ ParsedIsNamed /\ [Next]_vars => EntriesAreOwn
  <2> SUFFICES ASSUME LoopInv, ParsedIsNamed, [Next]_vars, NEW l \in Datalogger
               PROVE  /\ ip'[l] # ip[l] =>
                           \E c \in Conn : /\ HostOf[c] = ip'[l]
                                           /\ LoggerOf[c] = l \/ data[c] = Rest
                      /\ \A v \in inverters'[l] \ inverters[l] :
                           \E c \in Conn : \/ data[c] = Rest
                                           \/ LoggerOf[c] = l /\ InverterOf[c] = v
                                           \/ LoggerOf[c] = l /\ data[c].type \in Commands
    BY DEF EntriesAreOwn
  <2>1. ip \in [Datalogger -> Host \cup {None}] /\ inverters \in [Datalogger -> SUBSET Inverter]
    BY DEF LoopInv, TypeOK, RegistryTypeOK
  <2>2. ASSUME NEW c \in Conn, data[c] # None, NEW n \in Names(c)
        PROVE  \/ data[c] = Rest
               \/ n.logger = LoggerOf[c] /\ data[c].type \in Commands
               \/ n.logger = LoggerOf[c] /\ n.inverter \in {InverterOf[c], None}
    <3>0. data[c] \in Items
      BY <2>2 DEF LoopInv, TypeOK
    <3>1. data[c].part = "rest" => data[c] = Rest
      BY <3>0, RestIsRest
    <3> QED
      BY <2>2, <3>1 DEF Names
  <2>3. ASSUME NEW c \in Conn, loop[c] = "parse", UNCHANGED inverters,
               NEW n \in Names(c), ip' = [ip EXCEPT ![n.logger] = HostOf[c]], ip'[l] # ip[l]
        PROVE  HostOf[c] = ip'[l] /\ (LoggerOf[c] = l \/ data[c] = Rest)
    <3>1. n.logger = l /\ data[c] # None
      BY <2>1, <2>3 DEF LoopInv, TypeOK
    <3> QED
      BY <2>1, <2>2, <2>3, <3>1
  <2>4. ASSUME NEW c \in Conn, loop[c] = "insert",
               inverters' = [inverters EXCEPT ![parsed[c].logger] = @ \cup {parsed[c].inverter}],
               NEW v \in inverters'[l] \ inverters[l]
        PROVE  \/ data[c] = Rest
               \/ LoggerOf[c] = l /\ InverterOf[c] = v
               \/ LoggerOf[c] = l /\ data[c].type \in Commands
    <3>1. /\ parsed[c].logger = l /\ parsed[c].inverter = v
          /\ data[c] # None /\ parsed[c] \in Names(c)
      BY <2>1, <2>4 DEF LoopInv, TypeOK, ParsedIsNamed
    <3>2. v # None
      BY <2>4, <3>1, RegistryAssumption DEF LoopInv, TypeOK
    <3> QED
      BY <2>2, <3>1, <3>2
  <2>5. ASSUME ip'[l] # ip[l]
        PROVE  \E c \in Conn : HostOf[c] = ip'[l] /\ (LoggerOf[c] = l \/ data[c] = Rest)
    <3>1. PICK c \in Conn : /\ loop[c] = "parse" /\ UNCHANGED inverters
                            /\ \E n \in Names(c) : ip' = [ip EXCEPT ![n.logger] = HostOf[c]]
      BY <2>5, RegistrySteps
    <3> QED
      BY <2>3, <2>5, <3>1
  <2>6. ASSUME NEW v \in inverters'[l] \ inverters[l]
        PROVE  \E c \in Conn : \/ data[c] = Rest
                               \/ LoggerOf[c] = l /\ InverterOf[c] = v
                               \/ LoggerOf[c] = l /\ data[c].type \in Commands
    <3>1. PICK c \in Conn :
            /\ loop[c] = "insert"
            /\ inverters' = [inverters EXCEPT ![parsed[c].logger] = @ \cup {parsed[c].inverter}]
      BY <2>6, RegistrySteps
    <3> QED
      BY <2>4, <2>6, <3>1
  <2> QED
    BY <2>5, <2>6
<1> QED
  BY <1>1, <1>2, <1>3, LoopInvariance, PTL DEF Spec

=============================================================================
