---------------------------- MODULE MqttPublisher ----------------------------
(***************************************************************************)
(* The MQTT publisher of internal/pubsub/mqtt.go: its connection flag      *)
(* against the state of the MQTT client, the background retry, the cache   *)
(* of sensors that were announced to Home Assistant, and Close.            *)
(*                                                                         *)
(* The flags and the cache are guarded by p.mu, but every operation takes  *)
(* it several times: each critical section is one step.  The connection    *)
(* goroutines of the server (Worker) publish concurrently; the callbacks   *)
(* of the MQTT client run in goroutines of their own, which nothing orders:*)
(* OnConnectionLost of one connection may run after onConnect of the next. *)
(*                                                                         *)
(* The client, the broker and Home Assistant are external: the client      *)
(* connects again by itself after a loss and drops what is published in    *)
(* between; the broker keeps the session, subscription included (the code  *)
(* sets CleanSession to false); Home Assistant forgets what is not         *)
(* retained when it restarts and then says "online".                       *)
(***************************************************************************)
EXTENDS Naturals

CONSTANTS
  Worker,       \* goroutines that call Publish
  Inverter,     \* inverter serials (with their device type)
  Sensor,       \* the fields Home Assistant has a sensor for
  Periodic,     \* RediscoveryInterval > 0
  MaxUps,       \* bound: connections the client makes
  MaxRestarts,  \* bound: restarts of Home Assistant
  None

ASSUME PublisherAssumption ==
  /\ Periodic \in BOOLEAN
  /\ MaxUps \in Nat \ {0} /\ MaxRestarts \in Nat
  /\ None \notin Inverter

VARIABLES
  connected, birthSubscribed, discovered, lastDiscovery, haDiscovery,
  stopReconnect,
  caller,      \* Connect (0) and onConnect of each connection: where it is
  retry,       \* startBackgroundReconnect
  closing,     \* Close
  pc,          \* publishInverterDataWithDiscovery of a worker
  of,          \* the inverter it publishes for
  again,       \* its shouldRediscover
  todo,        \* the discovery messages it has still to look at
  sent,        \* the one it has published and not yet marked
  client,      \* the MQTT client
  ups,         \* the connections it has made
  lost,        \* the connections whose OnConnectionLost has still to run
  overtaken,   \* history: one ran when the client was connected again, and
               \* no onConnect has begun since
  subscribed,  \* the broker holds the subscription to birth messages
  known,       \* the sensors Home Assistant knows
  restarts, births

flagVars   == <<connected, birthSubscribed, discovered, lastDiscovery>>
callVars   == <<caller, retry, closing>>
workVars   == <<pc, of, again, todo, sent>>
clientVars == <<client, ups, lost, overtaken, subscribed>>
homeVars   == <<known, restarts, births>>
vars == <<flagVars, haDiscovery, stopReconnect, callVars, workVars, clientVars,
          homeVars>>

Callers == 0..MaxUps

(* A discovery topic names a device and a field.                           *)
Topic == Inverter \X Sensor

NoTopic == <<None, None>>

-----------------------------------------------------------------------------

Init ==
  /\ connected = FALSE /\ birthSubscribed = FALSE
  /\ discovered = {} /\ lastDiscovery = "zero"
  /\ haDiscovery = None /\ stopReconnect = FALSE
  /\ caller = [x \in Callers |-> "none"]
  /\ retry = "off" /\ closing = "no"
  /\ pc    = [w \in Worker |-> "idle"]
  /\ of    = [w \in Worker |-> None]
  /\ again = [w \in Worker |-> FALSE]
  /\ todo  = [w \in Worker |-> {}]
  /\ sent  = [w \in Worker |-> NoTopic]
  /\ client = "down" /\ ups = 0 /\ lost = {} /\ overtaken = FALSE
  /\ subscribed = FALSE
  /\ known = {} /\ restarts = 0 /\ births = 0

-----------------------------------------------------------------------------
(* The MQTT client.                                                        *)

(* A connection is made: OnConnect is started, the tokens of Connect are   *)
(* done.                                                                   *)
Up ==
  /\ ups < MaxUps
  /\ client' = "up"
  /\ ups' = ups + 1
  /\ caller' = [x \in Callers |-> IF x = ups + 1 \/ (x = 0 /\ caller[0] = "waiting")
                                  THEN "begin" ELSE caller[x]]
  /\ retry' = IF retry = "connecting" THEN "off" ELSE retry

ConnectOk ==
  /\ client = "connecting"
  /\ Up
  /\ UNCHANGED <<flagVars, haDiscovery, stopReconnect, closing, workVars, lost,
                 overtaken, subscribed, homeVars>>

ConnectFails ==
  /\ client = "connecting"
  /\ client' = "down"
  /\ caller' = [caller EXCEPT ![0] = IF @ = "waiting" THEN "done" ELSE @]
  /\ retry'  = IF caller[0] = "waiting" \/ retry = "connecting" THEN "check" ELSE retry
  /\ UNCHANGED <<flagVars, haDiscovery, stopReconnect, closing, workVars, ups,
                 lost, overtaken, subscribed, homeVars>>

(* AutoReconnect.                                                          *)
Reconnect ==
  /\ client = "retrying"
  /\ Up
  /\ UNCHANGED <<flagVars, haDiscovery, stopReconnect, closing, workVars, lost,
                 overtaken, subscribed, homeVars>>

Lose ==
  /\ client = "up" /\ ups < MaxUps
  /\ client' = "retrying"
  /\ lost' = lost \cup {ups}
  /\ UNCHANGED <<flagVars, haDiscovery, stopReconnect, callVars, workVars, ups,
                 overtaken, subscribed, homeVars>>

OnConnectionLost ==
  /\ \E u \in lost : lost' = lost \ {u}
  /\ connected' = FALSE
  /\ birthSubscribed' = FALSE
  /\ overtaken' = (client = "up")
  /\ UNCHANGED <<discovered, lastDiscovery, haDiscovery, stopReconnect, callVars,
                 workVars, client, ups, subscribed, homeVars>>

-----------------------------------------------------------------------------
(* Connect, onConnect and subscribeToBirthMessage.                         *)

Goto(x, p) == caller' = [caller EXCEPT ![x] = p]

Connect ==
  /\ caller[0] = "none"
  /\ Goto(0, "waiting")
  /\ client' = "connecting"
  /\ UNCHANGED <<flagVars, haDiscovery, stopReconnect, retry, closing, workVars,
                 ups, lost, overtaken, subscribed, homeVars>>

(* Ten seconds pass without an answer from the broker.                     *)
ConnectTimeout ==
  /\ caller[0] = "waiting"
  /\ Goto(0, "done")
  /\ retry' = "check"
  /\ UNCHANGED <<flagVars, haDiscovery, stopReconnect, closing, workVars,
                 clientVars, homeVars>>

(* Mutant: onConnect resets the cache only and forgets the flag.           *)
BeginUnflagged(x) ==
  /\ caller[x] = "begin"
  /\ connected' = (connected \/ x = 0)
  /\ IF x = 0
     THEN UNCHANGED <<birthSubscribed, discovered, lastDiscovery>>
     ELSE birthSubscribed' = FALSE /\ discovered' = {} /\ lastDiscovery' = "zero"
  /\ overtaken' = FALSE
  /\ Goto(x, "subscribe")
  /\ UNCHANGED <<haDiscovery, stopReconnect, retry, closing, workVars, client, ups,
                 lost, subscribed, homeVars>>

(* Connect only sets the flag, onConnect also clears the cache.            *)
Begin(x) ==
  /\ caller[x] = "begin"
  /\ connected' = TRUE
  /\ IF x = 0
     THEN UNCHANGED <<birthSubscribed, discovered, lastDiscovery>>
     ELSE birthSubscribed' = FALSE /\ discovered' = {} /\ lastDiscovery' = "zero"
  /\ overtaken' = FALSE
  /\ Goto(x, "subscribe")
  /\ UNCHANGED <<haDiscovery, stopReconnect, retry, closing, workVars, client, ups,
                 lost, subscribed, homeVars>>

(* Mutant: an error of Subscribe is taken for success.                     *)
SubscribeUnchecked(x) ==
  /\ caller[x] = "subscribe"
  /\ IF birthSubscribed \/ ~connected
     THEN Goto(x, "done") /\ UNCHANGED subscribed
     ELSE /\ Goto(x, "flag")
          /\ subscribed' \in {subscribed, subscribed \/ client = "up"}
  /\ UNCHANGED <<flagVars, haDiscovery, stopReconnect, retry, closing, workVars,
                 client, ups, lost, overtaken, homeVars>>

Subscribe(x) ==
  /\ caller[x] = "subscribe"
  /\ \/ Goto(x, "done") /\ UNCHANGED subscribed
     \/ /\ ~birthSubscribed /\ connected
        /\ client = "up"
        /\ subscribed' = TRUE
        /\ Goto(x, "flag")
  /\ UNCHANGED <<flagVars, haDiscovery, stopReconnect, retry, closing, workVars,
                 client, ups, lost, overtaken, homeVars>>

FlagSubscribed(x) ==
  /\ caller[x] = "flag"
  /\ birthSubscribed' = TRUE
  /\ Goto(x, "done")
  /\ UNCHANGED <<connected, discovered, lastDiscovery, haDiscovery, stopReconnect,
                 retry, closing, workVars, clientVars, homeVars>>

Call(x) == Begin(x) \/ Subscribe(x) \/ FlagSubscribed(x)

-----------------------------------------------------------------------------
(* startBackgroundReconnect.                                               *)

RetryCheck ==
  /\ retry = "check"
  /\ retry' = IF stopReconnect \/ connected THEN "off" ELSE "backoff"
  /\ UNCHANGED <<flagVars, haDiscovery, stopReconnect, caller, closing, workVars,
                 clientVars, homeVars>>

(* After the backoff, or when stopReconnect is closed.  The client takes a *)
(* Connect for done when it is connected or reconnecting, and refuses it   *)
(* while an earlier one is under way.                                      *)
RetryConnect ==
  /\ retry = "backoff"
  /\ \/ stopReconnect /\ retry' = "off" /\ UNCHANGED client
     \/ client \in {"up", "retrying"} /\ retry' = "off" /\ UNCHANGED client
     \/ client = "connecting" /\ retry' = "check" /\ UNCHANGED client
     \/ client = "down" /\ retry' = "connecting" /\ client' = "connecting"
  /\ UNCHANGED <<flagVars, haDiscovery, stopReconnect, caller, closing, workVars,
                 ups, lost, overtaken, subscribed, homeVars>>

-----------------------------------------------------------------------------
(* Publish.                                                                *)

Step(w, p) == pc' = [pc EXCEPT ![w] = p]

Return(w) ==
  /\ Step(w, "idle")
  /\ of'    = [of EXCEPT ![w] = None]
  /\ again' = [again EXCEPT ![w] = FALSE]
  /\ todo'  = [todo EXCEPT ![w] = {}]
  /\ UNCHANGED sent

(* Mutant: nobody looks whether the discovery was set up.                  *)
PublishUnprepared(w, v) ==
  /\ pc[w] = "idle"
  /\ connected
  /\ of' = [of EXCEPT ![w] = v]
  /\ Step(w, "generate")
  /\ UNCHANGED <<flagVars, haDiscovery, stopReconnect, callVars, again, todo,
                 sent, clientVars, homeVars>>

(* A record that passes the startup filter; without a connection it is     *)
(* dropped.  haDiscovery is looked at without the mutex.                   *)
Publish(w, v) ==
  /\ pc[w] = "idle"
  /\ connected
  /\ of' = [of EXCEPT ![w] = v]
  /\ Step(w, IF haDiscovery = None THEN "setup" ELSE "generate")
  /\ UNCHANGED <<flagVars, haDiscovery, stopReconnect, callVars, again, todo,
                 sent, clientVars, homeVars>>

(* setupHomeAssistantDiscovery: for the device of this record.             *)
Setup(w) ==
  /\ pc[w] = "setup"
  /\ haDiscovery' = of[w]
  /\ Step(w, "generate")
  /\ UNCHANGED <<flagVars, stopReconnect, callVars, of, again, todo, sent,
                 clientVars, homeVars>>

(* Mutant: no rediscovery before the first one.                            *)
RediscoverNotFirst == Periodic /\ lastDiscovery = "old"

ShouldRediscover == Periodic /\ lastDiscovery # "recent"

(* shouldRediscover, then GenerateDiscoveryMessages of whatever device     *)
(* haDiscovery was set up for.                                             *)
Generate(w) ==
  /\ pc[w] = "generate"
  /\ again' = [again EXCEPT ![w] = ShouldRediscover]
  /\ todo'  = [todo EXCEPT ![w] = {haDiscovery} \X Sensor]
  /\ Step(w, "announce")
  /\ UNCHANGED <<flagVars, haDiscovery, stopReconnect, callVars, of, sent,
                 clientVars, homeVars>>

Needed(w, t) == t \notin discovered \/ again[w]

Skip(w, t) ==
  /\ pc[w] = "announce" /\ t \in todo[w]
  /\ ~Needed(w, t)
  /\ todo' = [todo EXCEPT ![w] = @ \ {t}]
  /\ UNCHANGED <<flagVars, haDiscovery, stopReconnect, callVars, pc, of, again,
                 sent, clientVars, homeVars>>

(* The token is done without an error: Home Assistant has the message if   *)
(* the client was connected, else it is dropped.                           *)
Announce(w, t) ==
  /\ pc[w] = "announce" /\ t \in todo[w]
  /\ Needed(w, t)
  /\ client \in {"up", "retrying"}
  /\ known' = IF client = "up" THEN known \cup {t} ELSE known
  /\ todo' = [todo EXCEPT ![w] = @ \ {t}]
  /\ sent' = [sent EXCEPT ![w] = t]
  /\ Step(w, "mark")
  /\ UNCHANGED <<flagVars, haDiscovery, stopReconnect, callVars, of, again,
                 clientVars, restarts, births>>

(* The token has an error, and so has Publish.                             *)
AnnounceFails(w) ==
  /\ pc[w] = "announce"
  /\ \E t \in todo[w] : Needed(w, t)
  /\ Return(w)
  /\ UNCHANGED <<flagVars, haDiscovery, stopReconnect, callVars, clientVars, homeVars>>

Mark(w) ==
  /\ pc[w] = "mark"
  /\ discovered' = discovered \cup {sent[w]}
  /\ sent' = [sent EXCEPT ![w] = NoTopic]
  /\ Step(w, "announce")
  /\ UNCHANGED <<connected, birthSubscribed, lastDiscovery, haDiscovery,
                 stopReconnect, callVars, of, again, todo, clientVars, homeVars>>

(* lastDiscoveryTime is set; the availability message and the record       *)
(* itself leave no trace in the publisher.                                 *)
Finish(w) ==
  /\ pc[w] = "announce" /\ todo[w] = {}
  /\ lastDiscovery' = IF again[w] THEN "recent" ELSE lastDiscovery
  /\ Return(w)
  /\ UNCHANGED <<connected, birthSubscribed, discovered, haDiscovery,
                 stopReconnect, callVars, clientVars, homeVars>>

(* RediscoveryInterval hours have passed since.                            *)
GrowOld ==
  /\ lastDiscovery = "recent"
  /\ lastDiscovery' = "old"
  /\ UNCHANGED <<connected, birthSubscribed, discovered, haDiscovery,
                 stopReconnect, callVars, workVars, clientVars, homeVars>>

Work(w) ==
  \/ \E v \in Inverter : Publish(w, v)
  \/ Setup(w) \/ Generate(w) \/ AnnounceFails(w) \/ Mark(w) \/ Finish(w)
  \/ \E t \in Topic : Skip(w, t) \/ Announce(w, t)

-----------------------------------------------------------------------------
(* Home Assistant.                                                         *)

Restart ==
  /\ restarts < MaxRestarts
  /\ restarts' = restarts + 1
  /\ known' = {}
  /\ births' = births + 1
  /\ UNCHANGED <<flagVars, haDiscovery, stopReconnect, callVars, workVars, clientVars>>

(* handleBirthMessage, if the message gets here.                           *)
Birth ==
  /\ births > 0
  /\ births' = births - 1
  /\ IF client = "up" /\ subscribed
     THEN discovered' = {} /\ lastDiscovery' = "zero"
     ELSE UNCHANGED <<discovered, lastDiscovery>>
  /\ UNCHANGED <<connected, birthSubscribed, haDiscovery, stopReconnect, callVars,
                 workVars, clientVars, known, restarts>>

-----------------------------------------------------------------------------
(* Close, called once, after Connect has returned.                         *)

Close ==
  /\ closing = "no" /\ caller[0] = "done"
  /\ stopReconnect' = TRUE
  /\ closing' = "read"
  /\ UNCHANGED <<flagVars, haDiscovery, caller, retry, workVars, clientVars, homeVars>>

CloseRead ==
  /\ closing = "read"
  /\ closing' = IF connected THEN "disconnect" ELSE "closed"
  /\ UNCHANGED <<flagVars, haDiscovery, stopReconnect, caller, retry, workVars,
                 clientVars, homeVars>>

CloseDisconnect ==
  /\ closing = "disconnect"
  /\ client'  = "down"
  /\ retry'   = IF retry = "connecting" THEN "check" ELSE retry
  /\ closing' = "flag"
  /\ UNCHANGED <<flagVars, haDiscovery, stopReconnect, caller, workVars, ups, lost,
                 overtaken, subscribed, homeVars>>

CloseFlag ==
  /\ closing = "flag"
  /\ connected' = FALSE
  /\ closing' = "closed"
  /\ UNCHANGED <<birthSubscribed, discovered, lastDiscovery, haDiscovery,
                 stopReconnect, caller, retry, workVars, clientVars, homeVars>>

-----------------------------------------------------------------------------

Next ==
  \/ ConnectOk \/ ConnectFails \/ Reconnect \/ Lose \/ OnConnectionLost
  \/ Connect \/ ConnectTimeout
  \/ \E x \in Callers : Call(x)
  \/ RetryCheck \/ RetryConnect
  \/ \E w \in Worker : Work(w)
  \/ GrowOld \/ Restart \/ Birth
  \/ Close \/ CloseRead \/ CloseDisconnect \/ CloseFlag

Spec == Init /\ [][Next]_vars

(* The broker does not refuse for ever; records keep coming in and the     *)
(* publication of each discovery message succeeds again and again if it is *)
(* tried again and again; time passes.  Home Assistant and the network     *)
(* need never do anything, nor must Close be called.                       *)
Fairness ==
  /\ SF_vars(ConnectOk) /\ WF_vars(Reconnect) /\ WF_vars(OnConnectionLost)
  /\ WF_vars(Connect)
  /\ \A x \in Callers : WF_vars(Call(x))
  /\ WF_vars(RetryCheck) /\ WF_vars(RetryConnect)
  /\ \A w \in Worker : WF_vars(Work(w))
  /\ \A w \in Worker, t \in Topic : SF_vars(Announce(w, t))
  /\ WF_vars(GrowOld)

FairSpec == Spec /\ Fairness

-----------------------------------------------------------------------------
(* Properties.                                                             *)

TypeOK ==
  /\ connected \in BOOLEAN /\ birthSubscribed \in BOOLEAN
  /\ discovered \in SUBSET Topic
  /\ lastDiscovery \in {"zero", "recent", "old"}
  /\ haDiscovery \in Inverter \cup {None}
  /\ stopReconnect \in BOOLEAN
  /\ caller \in [Callers -> {"none", "waiting", "begin", "subscribe", "flag", "done"}]
  /\ retry \in {"off", "check", "backoff", "connecting"}
  /\ closing \in {"no", "read", "disconnect", "flag", "closed"}
  /\ pc \in [Worker -> {"idle", "setup", "generate", "announce", "mark"}]
  /\ of \in [Worker -> Inverter \cup {None}]
  /\ again \in [Worker -> BOOLEAN]
  /\ todo \in [Worker -> SUBSET Topic]
  /\ sent \in [Worker -> Topic \cup {NoTopic}]
  /\ client \in {"down", "connecting", "up", "retrying"}
  /\ ups \in 0..MaxUps
  /\ lost \in SUBSET Callers
  /\ overtaken \in BOOLEAN /\ subscribed \in BOOLEAN
  /\ known \in SUBSET Topic
  /\ restarts \in 0..MaxRestarts /\ births \in 0..MaxRestarts

(* When every onConnect has begun and the publisher has not been closed, a *)
(* client that is connected is known to be: otherwise every record would   *)
(* be dropped (mqtt.go:399) until the next loss of the connection.  One    *)
(* order of the callbacks breaks this, and no other: an OnConnectionLost   *)
(* (mqtt.go:300-307) that comes after the onConnect of the next connection *)
(* takes down the flag of that connection, and nothing puts it up again.   *)
UpIsNoticed ==
  client = "up" /\ ~stopReconnect /\ (\A x \in Callers : caller[x] # "begin")
    => connected \/ overtaken

(* birthSubscribed, which keeps everyone from subscribing again, is only   *)
(* set when the broker holds the subscription (mqtt.go:337-351).           *)
FlaggedIsSubscribed ==
  birthSubscribed => subscribed

(* Whatever a restart of Home Assistant, a loss of the connection or a     *)
(* birth message falls between, in the end it knows every sensor: what the *)
(* cache wrongly takes for announced is announced again by the periodic    *)
(* rediscovery.  Unless the last OnConnectionLost was overtaken: then      *)
(* nothing is published any more.                                          *)
SensorsBecomeKnown ==
  <>[]( \/ stopReconnect \/ overtaken
        \/ \A s \in Sensor : \E v \in Inverter : <<v, s>> \in known )

-----------------------------------------------------------------------------
(* What the code says of itself and does not keep.                         *)

(* "Generate device ID from PVSerial and device type to avoid conflicts"   *)
(* (mqtt.go:506): the sensors of a record are announced under the ID of    *)
(* the device the record is about.                                         *)
AnnouncedUnderOwnId ==
  \A w \in Worker : \A t \in todo[w] : t[1] = of[w]

=============================================================================
