------------------------ MODULE MqttPublisherProofs ------------------------
(***************************************************************************)
(* Proofs about MqttPublisher, for any goroutines that publish, any        *)
(* inverters and sensors, with or without rediscovery, and any number of   *)
(* connections of the client and restarts of Home Assistant.               *)
(***************************************************************************)
EXTENDS MqttPublisher, TLAPS

(* A goroutine that publishes does so for an inverter; past the setup the  *)
(* discovery is set up for one, and what it marks is a topic.              *)
WorkInv ==
  \A w \in Worker :
    /\ pc[w] # "idle" => of[w] \in Inverter
    /\ pc[w] \in {"generate", "announce", "mark"} => haDiscovery \in Inverter
    /\ pc[w] = "mark" => sent[w] \in Topic

(* One birth message for each restart.                                     *)
BirthsOfRestarts == births <= restarts

TypeInv == TypeOK /\ WorkInv /\ BirthsOfRestarts

(* Who is about to set birthSubscribed has been told so by the broker.     *)
SubscribeInv ==
  /\ FlaggedIsSubscribed
  /\ \A x \in Callers : caller[x] = "flag" => subscribed

(* Close sets stopReconnect before anything else.                          *)
ConnectedInv ==
  /\ UpIsNoticed
  /\ closing # "no" => stopReconnect

-----------------------------------------------------------------------------
(* Typing.                                                                 *)

LEMMA InitTyped == Init => TypeInv
<1> SUFFICES ASSUME Init PROVE TypeInv
  OBVIOUS
<1>1. ups \in 0..MaxUps /\ restarts \in 0..MaxRestarts /\ births \in 0..MaxRestarts
  BY PublisherAssumption DEF Init
<1>2. TypeOK
  BY <1>1 DEF Init, TypeOK
<1>3. WorkInv /\ BirthsOfRestarts
  BY DEF Init, WorkInv, BirthsOfRestarts
<1> QED
  BY <1>2, <1>3 DEF TypeInv

LEMMA ZeroIsCaller == 0 \in Callers
BY PublisherAssumption DEF Callers

(* What leaves the goroutines that publish alone keeps what is known of    *)
(* them.                                                                   *)
LEMMA WorkAlone ==
  ASSUME WorkInv, UNCHANGED <<workVars, haDiscovery>>
  PROVE  WorkInv'
BY DEF WorkInv, workVars

(* The client's steps and callbacks.                                       *)
LEMMA ClientTyped ==
  ASSUME TypeInv,
         ConnectOk \/ ConnectFails \/ Reconnect \/ Lose \/ OnConnectionLost
  PROVE  TypeInv'
<1> USE DEF TypeInv
<1>1. UNCHANGED <<workVars, haDiscovery, homeVars>>
  BY DEF ConnectOk, ConnectFails, Reconnect, Lose, OnConnectionLost
<1>2. WorkInv' /\ BirthsOfRestarts'
  BY <1>1, WorkAlone DEF BirthsOfRestarts, homeVars
<1>3. CASE ConnectOk \/ Reconnect
  <2>1. /\ Up /\ UNCHANGED <<flagVars, stopReconnect, closing, lost, overtaken,
                            subscribed>>
    BY <1>3 DEF ConnectOk, Reconnect
  <2>2. ups' \in 0..MaxUps /\ client' = "up"
    BY <2>1, PublisherAssumption DEF Up, TypeOK
  <2>3. caller' \in [Callers -> {"none", "waiting", "begin", "subscribe", "flag", "done"}]
    BY <2>1 DEF Up, TypeOK
  <2>4. retry' \in {"off", "check", "backoff", "connecting"}
    BY <2>1 DEF Up, TypeOK
  <2> QED
    BY <1>1, <1>2, <2>1, <2>2, <2>3, <2>4 DEF TypeOK, flagVars, workVars, homeVars
<1>4. CASE ConnectFails
  BY <1>1, <1>2, <1>4, ZenonT(60) DEF ConnectFails, TypeOK, flagVars, workVars, homeVars
<1>5. CASE Lose
  <2>1. ups \in Callers
    BY PublisherAssumption DEF TypeOK, Callers
  <2> QED
    BY <1>1, <1>2, <1>5, <2>1 DEF Lose, TypeOK, flagVars, callVars, workVars, homeVars
<1>6. CASE OnConnectionLost
  <2>1. /\ lost' \in SUBSET Callers /\ connected' = FALSE /\ birthSubscribed' = FALSE
        /\ overtaken' \in BOOLEAN
    BY <1>6 DEF OnConnectionLost, TypeOK
  <2>2. UNCHANGED <<discovered, lastDiscovery, stopReconnect, callVars, client, ups,
                    subscribed>>
    BY <1>6 DEF OnConnectionLost
  <2>3. TypeOK'
    BY <1>1, <2>1, <2>2, ZenonT(60) DEF TypeOK, callVars, workVars, homeVars
  <2> QED
    BY <1>2, <2>3
<1> QED
  BY <1>3, <1>4, <1>5, <1>6

(* The steps of Connect, onConnect, the background retry and Close.        *)
LEMMA CallTyped ==
  ASSUME TypeInv,
         \/ Connect \/ ConnectTimeout \/ RetryCheck \/ RetryConnect
         \/ \E x \in Callers : Call(x)
         \/ Close \/ CloseRead \/ CloseDisconnect \/ CloseFlag
  PROVE  TypeInv'
<1> USE DEF TypeInv
<1>1. UNCHANGED <<workVars, haDiscovery, homeVars, ups, lost>>
  BY DEF Connect, ConnectTimeout, RetryCheck, RetryConnect, Call, Begin, Subscribe,
         FlagSubscribed, Close, CloseRead, CloseDisconnect, CloseFlag, clientVars
<1>2. WorkInv' /\ BirthsOfRestarts'
  BY <1>1, WorkAlone DEF BirthsOfRestarts, homeVars
<1>3. CASE Connect \/ ConnectTimeout
  BY <1>1, <1>2, <1>3, ZeroIsCaller
     DEF Connect, ConnectTimeout, Goto, TypeOK, flagVars, workVars, clientVars, homeVars
<1>4. CASE RetryCheck \/ RetryConnect
  BY <1>1, <1>2, <1>4
     DEF RetryCheck, RetryConnect, TypeOK, flagVars, workVars, clientVars, homeVars
<1>5. ASSUME NEW x \in Callers, Call(x)
      PROVE  TypeOK'
  <2>1. CASE Begin(x)
    <3>1. /\ connected' \in BOOLEAN /\ birthSubscribed' \in BOOLEAN
          /\ discovered' \in SUBSET Topic
          /\ lastDiscovery' \in {"zero", "recent", "old"}
      <4>1. CASE x = 0
        BY <2>1, <4>1 DEF Begin, TypeOK
      <4>2. CASE x # 0
        BY <2>1, <4>2 DEF Begin, TypeOK
      <4> QED
        BY <4>1, <4>2
    <3>2. /\ Goto(x, "subscribe")
          /\ overtaken' = FALSE
          /\ UNCHANGED <<stopReconnect, retry, closing, client, subscribed>>
      BY <2>1 DEF Begin
    <3> QED
      BY <1>1, <3>1, <3>2 DEF Goto, TypeOK, workVars, homeVars
  <2>2. CASE Subscribe(x)
    <3>1. subscribed' \in BOOLEAN
      BY <2>2 DEF Subscribe, TypeOK
    <3>2. /\ Goto(x, "done") \/ Goto(x, "flag")
          /\ UNCHANGED <<flagVars, stopReconnect, retry, closing, client, overtaken>>
      BY <2>2 DEF Subscribe
    <3> QED
      BY <1>1, <3>1, <3>2 DEF Goto, TypeOK, flagVars, workVars, homeVars
  <2>3. CASE FlagSubscribed(x)
    BY <1>1, <2>3 DEF FlagSubscribed, Goto, TypeOK, workVars, clientVars, homeVars
  <2> QED
    BY <1>5, <2>1, <2>2, <2>3 DEF Call
<1>6. CASE Close
  BY <1>1, <1>2, <1>6 DEF Close, TypeOK, flagVars, workVars, clientVars, homeVars
<1>7. CASE CloseRead
  BY <1>1, <1>2, <1>7 DEF CloseRead, TypeOK, flagVars, workVars, clientVars, homeVars
<1>8. CASE CloseDisconnect
  BY <1>1, <1>2, <1>8 DEF CloseDisconnect, TypeOK, flagVars, workVars, homeVars
<1>9. CASE CloseFlag
  BY <1>1, <1>2, <1>9, ZenonT(60) DEF CloseFlag, TypeOK, workVars, clientVars, homeVars
<1> QED
  BY <1>2, <1>3, <1>4, <1>5, <1>6, <1>7, <1>8, <1>9

(* Home Assistant and the clock.                                           *)
LEMMA HomeTyped ==
  ASSUME TypeInv, GrowOld \/ Restart \/ Birth
  PROVE  TypeInv'
<1> USE DEF TypeInv
<1>1. UNCHANGED <<connected, birthSubscribed, haDiscovery, stopReconnect, callVars,
                  workVars, clientVars>>
  BY DEF GrowOld, Restart, Birth, flagVars
<1>2. /\ discovered' \in SUBSET Topic
      /\ lastDiscovery' \in {"zero", "recent", "old"}
      /\ known' \in SUBSET Topic
  BY DEF GrowOld, Restart, Birth, flagVars, homeVars, TypeOK
<1>3. /\ restarts' \in 0..MaxRestarts /\ births' \in 0..MaxRestarts
      /\ births' <= restarts'
  BY PublisherAssumption DEF GrowOld, Restart, Birth, homeVars, TypeOK, BirthsOfRestarts
<1> QED
  BY <1>1, <1>2, <1>3, WorkAlone
     DEF TypeOK, BirthsOfRestarts, callVars, workVars, clientVars

(* The goroutines that publish: one goes on at a time, and only Setup      *)
(* touches what the discovery is set up for, always with an inverter.      *)
LEMMA WorkTyped ==
  ASSUME TypeInv, NEW w \in Worker, Work(w)
  PROVE  TypeInv'
<1> USE DEF TypeInv
<1>1. UNCHANGED <<connected, birthSubscribed, stopReconnect, callVars, clientVars,
                  restarts, births>>
  BY DEF Work, Publish, Setup, Generate, AnnounceFails, Mark, Finish, Skip, Announce,
         flagVars, homeVars
<1> DEFINE Places == {"idle", "setup", "generate", "announce", "mark"}
           Worked == /\ discovered' \in SUBSET Topic /\ known' \in SUBSET Topic
                     /\ lastDiscovery' \in {"zero", "recent", "old"}
                     /\ haDiscovery' \in Inverter \cup {None}
                     /\ pc' \in [Worker -> Places]
                     /\ of' \in [Worker -> Inverter \cup {None}]
                     /\ again' \in [Worker -> BOOLEAN]
                     /\ todo' \in [Worker -> SUBSET Topic]
                     /\ sent' \in [Worker -> Topic \cup {NoTopic}]
                     /\ WorkInv'
<1>2. ASSUME NEW v \in Inverter, Publish(w, v) PROVE Worked
  BY <1>2 DEF Publish, Step, TypeOK, WorkInv, flagVars, homeVars
<1>3. ASSUME Setup(w) PROVE Worked
  <2>1. of[w] \in Inverter
    BY <1>3 DEF Setup, WorkInv
  <2> QED
    BY <1>3, <2>1 DEF Setup, Step, TypeOK, WorkInv, flagVars, homeVars
<1>4. ASSUME Generate(w) PROVE Worked
  <2>1. haDiscovery \in Inverter /\ {haDiscovery} \X Sensor \in SUBSET Topic
    BY <1>4 DEF Generate, WorkInv, Topic
  <2>2. ShouldRediscover \in BOOLEAN
    BY PublisherAssumption DEF ShouldRediscover
  <2> QED
    BY <1>4, <2>1, <2>2 DEF Generate, Step, TypeOK, WorkInv, flagVars, homeVars
<1>5. ASSUME NEW t \in Topic, Skip(w, t) PROVE Worked
  BY <1>5 DEF Skip, TypeOK, WorkInv, flagVars, homeVars
<1>6. ASSUME NEW t \in Topic, Announce(w, t) PROVE Worked
  BY <1>6 DEF Announce, Step, TypeOK, WorkInv, flagVars
<1>7. ASSUME AnnounceFails(w) PROVE Worked
  BY <1>7 DEF AnnounceFails, Return, Step, TypeOK, WorkInv, flagVars, homeVars
<1>8. ASSUME Mark(w) PROVE Worked
  <2>1. sent[w] \in Topic
    BY <1>8 DEF Mark, WorkInv
  <2> QED
    BY <1>8, <2>1 DEF Mark, Step, TypeOK, WorkInv, homeVars
<1>9. ASSUME Finish(w) PROVE Worked
  BY <1>9 DEF Finish, Return, Step, TypeOK, WorkInv, homeVars
<1>10. Worked
  BY <1>2, <1>3, <1>4, <1>5, <1>6, <1>7, <1>8, <1>9 DEF Work
<1>11. TypeOK'
  BY <1>1, <1>10 DEF TypeOK, callVars, clientVars
<1>12. BirthsOfRestarts'
  BY <1>1 DEF BirthsOfRestarts
<1> QED
  BY <1>10, <1>11, <1>12

LEMMA NextTyped == TypeInv /\ [Next]_vars => TypeInv'
<1> SUFFICES ASSUME TypeInv, [Next]_vars PROVE TypeInv'
  OBVIOUS
<1>1. CASE UNCHANGED vars
  <2>1. TypeOK'
    BY <1>1 DEF TypeInv, TypeOK, vars, flagVars, callVars, workVars, clientVars, homeVars
  <2>2. WorkInv' /\ BirthsOfRestarts'
    BY <1>1, WorkAlone DEF TypeInv, vars, BirthsOfRestarts, homeVars
  <2> QED
    BY <2>1, <2>2 DEF TypeInv
<1>2. CASE Next
  BY <1>2, ClientTyped, CallTyped, HomeTyped, WorkTyped DEF Next
<1> QED
  BY <1>1, <1>2

LEMMA TypeInvariance == Spec => []TypeInv
BY InitTyped, NextTyped, PTL DEF Spec

-----------------------------------------------------------------------------
(* The flags.                                                              *)

(* What neither the client, nor Connect and onConnect, nor the retry, nor  *)
(* Close does leaves the flags of the connection alone.                    *)
LEMMA FlagsAlone ==
  ASSUME \/ \E w \in Worker : Work(w)
         \/ GrowOld \/ Restart \/ Birth \/ UNCHANGED vars
  PROVE  UNCHANGED <<connected, birthSubscribed, stopReconnect, callVars, clientVars>>
BY DEF Work, Publish, Setup, Generate, AnnounceFails, Mark, Finish, Skip, Announce,
       GrowOld, Restart, Birth, flagVars, vars

LEMMA InitFlags == Init => SubscribeInv /\ ConnectedInv
<1> SUFFICES ASSUME Init PROVE SubscribeInv /\ ConnectedInv
  OBVIOUS
<1>1. SubscribeInv
  BY DEF Init, SubscribeInv, FlaggedIsSubscribed
<1>2. ConnectedInv
  BY DEF Init, ConnectedInv, UpIsNoticed
<1> QED
  BY <1>1, <1>2

(* The broker forgets no subscription, and nobody comes to set the flag    *)
(* but by a subscription.                                                  *)
LEMMA NextSubscribed == TypeInv /\ SubscribeInv /\ [Next]_vars => SubscribeInv'
<1> SUFFICES ASSUME TypeInv, SubscribeInv, [Next]_vars PROVE SubscribeInv'
  OBVIOUS
<1> USE DEF SubscribeInv, FlaggedIsSubscribed
<1>0. caller \in [Callers -> {"none", "waiting", "begin", "subscribe", "flag", "done"}]
  BY DEF TypeInv, TypeOK
<1>1. ASSUME UNCHANGED <<birthSubscribed, subscribed, caller>> PROVE SubscribeInv'
  BY <1>1
<1>2. CASE ConnectOk \/ Reconnect
  BY <1>0, <1>2 DEF ConnectOk, Reconnect, Up, flagVars
<1>3. CASE ConnectFails
  BY <1>0, <1>3 DEF ConnectFails, flagVars
<1>4. CASE Lose
  BY <1>1, <1>4 DEF Lose, flagVars, callVars
<1>5. CASE OnConnectionLost
  BY <1>5 DEF OnConnectionLost, callVars
<1>6. CASE Connect \/ ConnectTimeout
  BY <1>0, <1>6 DEF Connect, ConnectTimeout, Goto, flagVars, clientVars
<1>7. ASSUME NEW x \in Callers, Begin(x) PROVE SubscribeInv'
  <2>1. /\ birthSubscribed' => birthSubscribed
        /\ caller' = [caller EXCEPT ![x] = "subscribe"]
        /\ UNCHANGED subscribed
    BY <1>7 DEF Begin, Goto, clientVars
  <2> QED
    BY <1>0, <2>1
<1>8. ASSUME NEW x \in Callers, Subscribe(x) PROVE SubscribeInv'
  BY <1>0, <1>8 DEF Subscribe, Goto, flagVars
<1>9. ASSUME NEW x \in Callers, FlagSubscribed(x) PROVE SubscribeInv'
  BY <1>0, <1>9 DEF FlagSubscribed, Goto, clientVars
<1>10. CASE RetryCheck \/ RetryConnect \/ Close \/ CloseRead \/ CloseDisconnect \/ CloseFlag
  BY <1>1, <1>10 DEF RetryCheck, RetryConnect, Close, CloseRead, CloseDisconnect,
                     CloseFlag, flagVars, clientVars
<1>11. CASE \/ \E w \in Worker : Work(w)
            \/ GrowOld \/ Restart \/ Birth \/ UNCHANGED vars
  BY <1>1, <1>11, FlagsAlone DEF callVars, clientVars
<1> QED
  BY <1>2, <1>3, <1>4, <1>5, <1>6, <1>7, <1>8, <1>9, <1>10, <1>11 DEF Next, Call

(* A new connection has a callback that has yet to begin, a callback that  *)
(* has begun has set the flag, and OnConnectionLost, which takes it down,  *)
(* either finds the client not connected or is overtaken.                  *)
LEMMA NextConnected == TypeInv /\ ConnectedInv /\ [Next]_vars => ConnectedInv'
<1> SUFFICES ASSUME TypeInv, ConnectedInv, [Next]_vars PROVE ConnectedInv'
  OBVIOUS
<1> USE DEF ConnectedInv, UpIsNoticed
<1>0. caller \in [Callers -> {"none", "waiting", "begin", "subscribe", "flag", "done"}]
  BY DEF TypeInv, TypeOK
<1>1. ASSUME UNCHANGED <<connected, stopReconnect, callVars, clientVars>>
      PROVE  ConnectedInv'
  BY <1>1 DEF callVars, clientVars
<1>2. CASE ConnectOk \/ Reconnect
  <2>1. Up /\ UNCHANGED <<stopReconnect, closing>>
    BY <1>2 DEF ConnectOk, Reconnect
  <2>2. ups + 1 \in Callers
    <3>1. ups \in 0..MaxUps /\ ups < MaxUps
      BY <2>1 DEF Up, TypeInv, TypeOK
    <3> QED
      BY <3>1, PublisherAssumption DEF Callers
  <2>3. caller'[ups + 1] = "begin"
    BY <2>1, <2>2 DEF Up
  <2> QED
    BY <2>1, <2>2, <2>3
<1>3. CASE ConnectFails \/ Lose \/ Connect
  <2>1. client' # "up" /\ UNCHANGED <<stopReconnect, closing>>
    BY <1>3 DEF ConnectFails, Lose, Connect, callVars
  <2> QED
    BY <2>1
<1>4. CASE OnConnectionLost
  <2>1. /\ overtaken' = (client = "up")
        /\ UNCHANGED <<client, stopReconnect, closing>>
    BY <1>4 DEF OnConnectionLost, callVars
  <2> QED
    BY <2>1
<1>5. CASE ConnectTimeout
  <2>1. /\ caller[0] = "waiting" /\ caller' = [caller EXCEPT ![0] = "done"]
        /\ UNCHANGED <<connected, stopReconnect, closing, client, overtaken>>
    BY <1>5 DEF ConnectTimeout, Goto, flagVars, clientVars
  <2>2. \A x \in Callers : caller'[x] # "begin" => caller[x] # "begin"
    BY <1>0, <2>1
  <2> QED
    BY <2>1, <2>2
<1>6. ASSUME NEW x \in Callers, Begin(x) PROVE ConnectedInv'
  <2>1. connected' = TRUE /\ UNCHANGED <<stopReconnect, closing>>
    BY <1>6 DEF Begin
  <2> QED
    BY <2>1
<1>7. ASSUME NEW x \in Callers, Subscribe(x) \/ FlagSubscribed(x) PROVE ConnectedInv'
  <2>1. /\ caller[x] \in {"subscribe", "flag"}
        /\ \E p \in {"flag", "done"} : caller' = [caller EXCEPT ![x] = p]
        /\ UNCHANGED <<connected, stopReconnect, closing, client, overtaken>>
    BY <1>7 DEF Subscribe, FlagSubscribed, Goto, flagVars, clientVars
  <2>2. \A y \in Callers : caller'[y] # "begin" => caller[y] # "begin"
    BY <1>0, <2>1
  <2> QED
    BY <2>1, <2>2
<1>8. CASE RetryCheck \/ RetryConnect
  <2>1. /\ client' = client \/ client' = "connecting"
        /\ UNCHANGED <<connected, stopReconnect, closing, overtaken, caller>>
    BY <1>8 DEF RetryCheck, RetryConnect, flagVars, clientVars
  <2> QED
    BY <2>1
<1>9. CASE Close \/ CloseRead \/ CloseDisconnect \/ CloseFlag
  <2>1. stopReconnect'
    BY <1>9 DEF Close, CloseRead, CloseDisconnect, CloseFlag
  <2> QED
    BY <2>1
<1>10. CASE \/ \E w \in Worker : Work(w)
            \/ GrowOld \/ Restart \/ Birth \/ UNCHANGED vars
  BY <1>1, <1>10, FlagsAlone
<1> QED
  BY <1>2, <1>3, <1>4, <1>5, <1>6, <1>7, <1>8, <1>9, <1>10 DEF Next, Call

LEMMA FlagsInvariance == Spec => [](SubscribeInv /\ ConnectedInv)
<1>1. Init => TypeInv /\ SubscribeInv /\ ConnectedInv
  BY InitTyped, InitFlags
<1>2. TypeInv /\ SubscribeInv /\ ConnectedInv /\ [Next]_vars
        => (TypeInv /\ SubscribeInv /\ ConnectedInv)'
  BY NextTyped, NextSubscribed, NextConnected
<1> QED
  BY <1>1, <1>2, PTL DEF Spec

-----------------------------------------------------------------------------

(* Every variable of the publisher keeps its type: what is announced and   *)
(* marked is a topic of an inverter, although the discovery is set up by   *)
(* whichever goroutine comes first (pubsub/mqtt.go:399-560).               *)
THEOREM PublisherTyping == Spec => []TypeOK
<1>1. TypeInv => TypeOK
  BY DEF TypeInv
<1> QED
  BY <1>1, TypeInvariance, PTL

(* However often the connection is lost and made, and in whatever order    *)
(* the callbacks and Connect go on, a client that is connected is known to *)
(* be once every onConnect has begun, until Close - unless an              *)
(* OnConnectionLost was overtaken by the next connection                   *)
(* (pubsub/mqtt.go:270-307): no other order of them hides a connection.    *)
THEOREM UpNoticed == Spec => []UpIsNoticed
<1>1. ConnectedInv => UpIsNoticed
  BY DEF ConnectedInv
<1> QED
  BY <1>1, FlagsInvariance, PTL

(* The flag that keeps everyone from subscribing again is only set when    *)
(* the broker holds the subscription (pubsub/mqtt.go:337-351).             *)
THEOREM FlaggedSubscribed == Spec => []FlaggedIsSubscribed
<1>1. SubscribeInv => FlaggedIsSubscribed
  BY DEF SubscribeInv
<1> QED
  BY <1>1, FlagsInvariance, PTL

(* Where all records are of one device nothing is announced under another  *)
(* ID (pubsub/mqtt.go:506-521): only with a second device does it matter   *)
(* that the discovery is set up once, for the device of the first record.  *)
THEOREM OneDeviceOwnId ==
  ASSUME \A u, v \in Inverter : u = v
  PROVE  Spec => []AnnouncedUnderOwnId
<1> DEFINE Busy == \A w \in Worker : todo[w] # {} => pc[w] # "idle"
<1>1. Init => Busy
  BY DEF Init
<1>2. TypeInv /\ Busy /\ [Next]_vars => Busy'
  <2> SUFFICES ASSUME TypeInv, Busy, [Next]_vars PROVE Busy'
    OBVIOUS
  <2> USE DEF TypeInv, TypeOK
  <2>1. ASSUME UNCHANGED workVars PROVE Busy'
    BY <2>1 DEF workVars
  <2>2. ASSUME NEW w \in Worker, Work(w) PROVE Busy'
    <3>1. ASSUME NEW v \in Inverter, Publish(w, v) PROVE Busy'
      BY <3>1 DEF Publish, Step
    <3>2. CASE Setup(w) \/ Generate(w) \/ Mark(w)
      BY <3>2 DEF Setup, Generate, Mark, Step
    <3>3. CASE AnnounceFails(w) \/ Finish(w)
      BY <3>3 DEF AnnounceFails, Finish, Return, Step
    <3>4. ASSUME NEW t \in Topic, Skip(w, t) \/ Announce(w, t) PROVE Busy'
      BY <3>4 DEF Skip, Announce, Step
    <3> QED
      BY <2>2, <3>1, <3>2, <3>3, <3>4 DEF Work
  <2>3. CASE \/ ConnectOk \/ ConnectFails \/ Reconnect \/ Lose \/ OnConnectionLost
             \/ Connect \/ ConnectTimeout \/ RetryCheck \/ RetryConnect
             \/ \E x \in Callers : Call(x)
             \/ GrowOld \/ Restart \/ Birth
             \/ Close \/ CloseRead \/ CloseDisconnect \/ CloseFlag \/ UNCHANGED vars
    BY <2>1, <2>3 DEF ConnectOk, ConnectFails, Reconnect, Lose, OnConnectionLost, Connect,
       ConnectTimeout, RetryCheck, RetryConnect, Call, Begin, Subscribe, FlagSubscribed,
       GrowOld, Restart, Birth, Close, CloseRead, CloseDisconnect, CloseFlag, vars
  <2> QED
    BY <2>2, <2>3 DEF Next
<1>3. TypeInv /\ Busy => AnnouncedUnderOwnId
  <2> SUFFICES ASSUME TypeInv, Busy, NEW w \in Worker, NEW t \in todo[w]
               PROVE  t[1] = of[w]
    BY DEF AnnouncedUnderOwnId
  <2>1. t \in Inverter \X Sensor
    BY DEF TypeInv, TypeOK, Topic
  <2>2. t[1] \in Inverter /\ of[w] \in Inverter
    BY <2>1 DEF TypeInv, WorkInv
  <2> QED
    BY <2>2
<1> QED
  BY <1>1, <1>2, <1>3, TypeInvariance, PTL DEF Spec

=============================================================================
