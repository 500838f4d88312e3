------------------------ MODULE MonitorManagerProofs ------------------------
(***************************************************************************)
(* Proofs about the registration of clients, for any finite set of monitor *)
(* objects and any set of clients.                                         *)
(***************************************************************************)
EXTENDS MonitorManager, FiniteSetTheorems, TLAPS

(***************************************************************************)
(* Counting                                                                *)
(***************************************************************************)
\* What handlers rely on; that counts are natural numbers is part of it.
CountInv ==
  /\ exported \subseteq Objects
  /\ registered \in [Objects -> SUBSET Clients]
  /\ refcount \in [Objects -> Nat]
  /\ watchers \in [Clients -> Nat]
  /\ \A o \in Objects : IsFiniteSet(registered[o])
  /\ WatcherPerRegistration
  /\ CountCoversClients

\* The monitor objects of a client can be counted.
LEMMA ObjectsOfFinite ==
  ASSUME NEW c
  PROVE  IsFiniteSet(ObjectsOf(c)) /\ Cardinality(ObjectsOf(c)) \in Nat
<1>1. ObjectsOf(c) \in SUBSET Objects
  BY DEF ObjectsOf
<1>2. IsFiniteSet(ObjectsOf(c))
  BY <1>1, FS_Subset, MonitorAssumption
<1> QED BY <1>2, FS_CardinalityType

\* A registration adds one to the set, to the count and to the watcher.
LEMMA RegisterCounts ==
  ASSUME CountInv, NEW o \in Objects, NEW c \in Clients, RegisterClient(o, c)
  PROVE  CountInv'
<1>1. CASE c \in registered[o]
  BY <1>1 DEF RegisterClient, monitorVars, CountInv, WatcherPerRegistration,
              CountCoversClients, ObjectsOf
<1>2. CASE c \notin registered[o]
  <2>1. /\ registered' = [registered EXCEPT ![o] = @ \cup {c}]
        /\ refcount' = [refcount EXCEPT ![o] = @ + 1]
        /\ watchers' = [watchers EXCEPT ![c] = @ + 1]
        /\ exported' = exported
    BY <1>2 DEF RegisterClient
  <2>2. /\ exported' \subseteq Objects
        /\ registered' \in [Objects -> SUBSET Clients]
        /\ refcount' \in [Objects -> Nat]
        /\ watchers' \in [Clients -> Nat]
    BY <2>1 DEF CountInv
  <2>3. /\ registered'[o] = registered[o] \cup {c}
        /\ \A x \in Objects \ {o} : registered'[x] = registered[x]
        /\ refcount'[o] = refcount[o] + 1
        /\ \A x \in Objects \ {o} : refcount'[x] = refcount[x]
        /\ watchers'[c] = watchers[c] + 1
        /\ \A x \in Clients \ {c} : watchers'[x] = watchers[x]
    BY <2>1 DEF CountInv
  <2>4. /\ IsFiniteSet(registered[o])
        /\ Cardinality(registered[o]) \in Nat
        /\ IsFiniteSet(registered'[o])
        /\ Cardinality(registered'[o]) = Cardinality(registered[o]) + 1
    BY <1>2, <2>3, FS_AddElement, FS_CardinalityType DEF CountInv
  <2>5. \A x \in Objects : IsFiniteSet(registered'[x])
    BY <2>3, <2>4 DEF CountInv
  <2>6. CountCoversClients'
    BY <2>2, <2>3, <2>4 DEF CountInv, CountCoversClients
  <2>7. WatcherPerRegistration'
    <3>1. o \notin ObjectsOf(c) /\ ObjectsOf(c)' = ObjectsOf(c) \cup {o}
      BY <1>2, <2>3 DEF ObjectsOf
    <3>2. Cardinality(ObjectsOf(c)') = Cardinality(ObjectsOf(c)) + 1
      BY <3>1, FS_AddElement, ObjectsOfFinite
    <3>3. \A x \in Clients \ {c} : ObjectsOf(x)' = ObjectsOf(x)
      BY <2>3 DEF ObjectsOf
    <3> QED BY <2>3, <3>2, <3>3 DEF CountInv, WatcherPerRegistration
  <2> QED BY <2>2, <2>5, <2>6, <2>7 DEF CountInv
<1> QED BY <1>1, <1>2

\* Unregistration takes one from each; the count cannot become negative as
\* the client was among those it covers.
LEMMA UnregisterCounts ==
  ASSUME CountInv, NEW o \in Objects, NEW c \in Clients, UnregisterClient(o, c)
  PROVE  CountInv'
<1>1. CASE c \notin registered[o]
  BY <1>1 DEF UnregisterClient, monitorVars, CountInv, WatcherPerRegistration,
              CountCoversClients, ObjectsOf
<1>2. CASE c \in registered[o]
  <2>1. /\ IsFiniteSet(registered[o])
        /\ Cardinality(registered[o]) \in Nat
        /\ Cardinality(registered[o]) # 0
    BY <1>2, FS_CardinalityType, FS_EmptySet DEF CountInv
  <2>2. refcount[o] \in Nat \ {0}
    BY <2>1 DEF CountInv, CountCoversClients
  <2>3. o \in ObjectsOf(c)
    BY <1>2 DEF ObjectsOf
  <2>4. watchers[c] = Cardinality(ObjectsOf(c)) /\ watchers[c] \in Nat \ {0}
    BY <2>3, ObjectsOfFinite, FS_EmptySet DEF CountInv, WatcherPerRegistration
  <2>5. /\ registered' = [registered EXCEPT ![o] = @ \ {c}]
        /\ refcount' = [refcount EXCEPT ![o] = @ - 1]
        /\ watchers' = [watchers EXCEPT ![c] = IF @ = 0 THEN 0 ELSE @ - 1]
        /\ exported' = exported
    BY <1>2 DEF UnregisterClient
  <2>6. /\ registered'[o] = registered[o] \ {c}
        /\ \A x \in Objects \ {o} : registered'[x] = registered[x]
        /\ refcount'[o] = refcount[o] - 1
        /\ \A x \in Objects \ {o} : refcount'[x] = refcount[x]
        /\ watchers'[c] = watchers[c] - 1
        /\ \A x \in Clients \ {c} : watchers'[x] = watchers[x]
    BY <2>4, <2>5 DEF CountInv
  <2>7. /\ exported' \subseteq Objects
        /\ registered' \in [Objects -> SUBSET Clients]
        /\ refcount' \in [Objects -> Nat]
        /\ watchers' \in [Clients -> Nat]
    BY <2>2, <2>4, <2>5 DEF CountInv
  <2>8. /\ IsFiniteSet(registered'[o])
        /\ Cardinality(registered'[o]) = Cardinality(registered[o]) - 1
    <3>1. /\ IsFiniteSet(registered[o] \ {c})
          /\ Cardinality(registered[o] \ {c}) = Cardinality(registered[o]) - 1
      BY <1>2, <2>1, FS_RemoveElement
    <3> QED BY <2>6, <3>1, Zenon
  <2>9. \A x \in Objects : IsFiniteSet(registered'[x])
    BY <2>6, <2>8 DEF CountInv
  <2>10. CountCoversClients'
    <3> SUFFICES ASSUME NEW x \in Objects
                 PROVE  refcount'[x] >= Cardinality(registered'[x])
      BY DEF CountCoversClients
    <3>1. CASE x = o
      <4>1. refcount[o] >= Cardinality(registered[o])
        BY DEF CountInv, CountCoversClients
      <4>2. refcount[o] - 1 >= Cardinality(registered[o]) - 1
        BY <2>1, <2>2, <4>1
      <4>3. refcount'[o] >= Cardinality(registered'[o])
        BY <2>6, <2>8, <4>2
      <4> QED BY <3>1, <4>3
    <3>2. CASE x # o
      <4>1. registered'[x] = registered[x] /\ refcount'[x] = refcount[x]
        BY <2>6, <3>2
      <4> QED BY <4>1 DEF CountInv, CountCoversClients
    <3> QED BY <3>1, <3>2
  <2>11. WatcherPerRegistration'
    <3>1. ObjectsOf(c)' = ObjectsOf(c) \ {o}
      BY <2>6 DEF ObjectsOf
    <3>2. Cardinality(ObjectsOf(c)') = Cardinality(ObjectsOf(c)) - 1
      BY <2>3, <3>1, FS_RemoveElement, ObjectsOfFinite
    <3>3. \A x \in Clients \ {c} : ObjectsOf(x)' = ObjectsOf(x)
      BY <2>6 DEF ObjectsOf
    <3> QED BY <2>4, <2>6, <3>2, <3>3 DEF CountInv, WatcherPerRegistration
  <2> QED BY <2>7, <2>9, <2>10, <2>11 DEF CountInv
<1> QED BY <1>1, <1>2

\* When a client has died, the sets shrink while the counts stay.
LEMMA VanishCounts ==
  ASSUME CountInv, NEW c \in Clients, PeerVanished(c)
  PROVE  CountInv'
<1>1. /\ exported' \subseteq Objects
      /\ registered' \in [Objects -> SUBSET Clients]
      /\ refcount' \in [Objects -> Nat]
      /\ watchers' \in [Clients -> Nat]
  BY DEF PeerVanished, CountInv
<1>2. /\ \A o \in Objects : registered'[o] = registered[o] \ {c} /\ refcount'[o] = refcount[o]
      /\ watchers'[c] = 0
      /\ \A x \in Clients \ {c} : watchers'[x] = watchers[x]
  BY DEF PeerVanished, CountInv
<1>3. \A o \in Objects : /\ IsFiniteSet(registered'[o])
                         /\ Cardinality(registered'[o]) <= Cardinality(registered[o])
                         /\ Cardinality(registered'[o]) \in Nat
                         /\ Cardinality(registered[o]) \in Nat
  <2> SUFFICES ASSUME NEW o \in Objects
               PROVE  /\ IsFiniteSet(registered'[o])
                      /\ Cardinality(registered'[o]) <= Cardinality(registered[o])
                      /\ Cardinality(registered'[o]) \in Nat
                      /\ Cardinality(registered[o]) \in Nat
    OBVIOUS
  <2>1. IsFiniteSet(registered[o]) /\ registered'[o] \in SUBSET registered[o]
    BY <1>2 DEF CountInv
  <2> QED BY <2>1, FS_Subset, FS_CardinalityType
<1>4. CountCoversClients'
  BY <1>1, <1>2, <1>3 DEF CountInv, CountCoversClients
<1>5. WatcherPerRegistration'
  <2>1. ObjectsOf(c)' = {}
    BY <1>2 DEF ObjectsOf
  <2>2. \A x \in Clients \ {c} : ObjectsOf(x)' = ObjectsOf(x)
    BY <1>2 DEF ObjectsOf
  <2> QED BY <1>2, <2>1, <2>2, FS_EmptySet DEF CountInv, WatcherPerRegistration
<1> QED BY <1>1, <1>3, <1>4, <1>5 DEF CountInv

(***************************************************************************)
(* The bus                                                                 *)
(***************************************************************************)
\* Behind anything that comes from a dead client is the news of its death.
VanishedIsLast ==
  \A i \in 1..Len(bus) :
    bus[i].from \notin alive =>
      \E j \in i..Len(bus) : bus[j] = Vanished(bus[i].from)

MonitorInv ==
  /\ CountInv
  /\ alive \subseteq Clients
  /\ bus \in Seq(Message)
  /\ VanishedIsLast
  /\ DeadClientsAreBeingNoticed

\* What is in the bus's queue after a message was put behind the others.
LEMMA SentBehind ==
  ASSUME bus \in Seq(Message), NEW m \in Message, Send(m)
  PROVE  /\ bus' \in Seq(Message)
         /\ Len(bus) \in Nat
         /\ Len(bus') = Len(bus) + 1
         /\ \A i \in 1..Len(bus) : bus'[i] = bus[i]
         /\ bus'[Len(bus')] = m
BY DEF Send

\* What is left of it when the first message was taken.
LEMMA TakenFromFront ==
  ASSUME bus \in Seq(Message), bus # <<>>, bus' = Tail(bus)
  PROVE  /\ bus' \in Seq(Message)
         /\ Len(bus) \in Nat \ {0}
         /\ Len(bus') = Len(bus) - 1
         /\ \A i \in 1..Len(bus') : bus'[i] = bus[i + 1]
         /\ Head(bus) = bus[1]
         /\ Head(bus) \in Message
OBVIOUS

\* Each message is the call of a client or the news of its disappearance.
LEMMA MessageKinds ==
  ASSUME NEW m \in Message
  PROVE  /\ m.from \in Clients
         /\ \/ m.type = "Register" /\ m.object \in Objects /\ m # Vanished(m.from)
            \/ m.type = "Unregister" /\ m.object \in Objects /\ m # Vanished(m.from)
            \/ m.type = "Get" /\ m # Vanished(m.from)
            \/ m.type = "Vanished" /\ m = Vanished(m.from)
<1>1. CASE m \in Call
  <2>1. m.type # "Vanished" /\ m.from \in Clients /\ m.object \in Objects
    BY <1>1 DEF Call, CallTypes
  <2>2. m # Vanished(m.from)
    BY <2>1 DEF Vanished
  <2> QED BY <1>1, <2>1, <2>2 DEF Call, CallTypes
<1>2. CASE m \in {Vanished(c) : c \in Clients}
  BY <1>2 DEF Vanished
<1> QED BY <1>1, <1>2 DEF Message

\* Handling a message keeps the counts, and what it does to watchers concerns
\* its sender alone; the news of its disappearance leaves it without one.
LEMMA DispatchCounts ==
  ASSUME CountInv, NEW m \in Message, Dispatch(m)
  PROVE  /\ CountInv'
         /\ \A c \in Clients : c # m.from => watchers'[c] = watchers[c]
         /\ m = Vanished(m.from) => watchers'[m.from] = 0
<1> USE MessageKinds
<1>1. CASE m.type = "Register"
  <2>1. RegisterClient(m.object, m.from) /\ m # Vanished(m.from)
    BY <1>1 DEF Dispatch
  <2>2. CountInv'
    BY <1>1, <2>1, RegisterCounts
  <2>3. \A c \in Clients : c # m.from => watchers'[c] = watchers[c]
    BY <2>1 DEF RegisterClient, monitorVars, CountInv
  <2> QED BY <2>1, <2>2, <2>3
<1>2. CASE m.type = "Unregister"
  <2>1. UnregisterClient(m.object, m.from) /\ m # Vanished(m.from)
    BY <1>2 DEF Dispatch
  <2>2. CountInv'
    BY <1>2, <2>1, UnregisterCounts
  <2>3. \A c \in Clients : c # m.from => watchers'[c] = watchers[c]
    BY <2>1 DEF UnregisterClient, monitorVars, CountInv
  <2> QED BY <2>1, <2>2, <2>3
<1>3. CASE m.type = "Vanished"
  <2>1. CASE watchers[m.from] > 0
    <3>1. PeerVanished(m.from)
      BY <1>3, <2>1 DEF Dispatch
    <3>2. CountInv'
      BY <3>1, VanishCounts
    <3> QED BY <3>1, <3>2 DEF PeerVanished, CountInv
  <2>2. CASE ~(watchers[m.from] > 0)
    <3>1. UNCHANGED monitorVars
      BY <1>3, <2>2 DEF Dispatch
    <3>2. CountInv'
      BY <3>1 DEF monitorVars, CountInv, WatcherPerRegistration, CountCoversClients, ObjectsOf
    <3> QED BY <2>2, <3>1, <3>2 DEF monitorVars, CountInv
  <2> QED BY <2>1, <2>2
<1>4. CASE m.type = "Get"
  <2>1. UNCHANGED monitorVars /\ m # Vanished(m.from)
    BY <1>4 DEF Dispatch
  <2>2. CountInv'
    BY <2>1 DEF monitorVars, CountInv, WatcherPerRegistration, CountCoversClients, ObjectsOf
  <2> QED BY <2>1, <2>2 DEF monitorVars
<1> QED BY <1>1, <1>2, <1>3, <1>4

LEMMA MonitorInit == Init => MonitorInv
<1> SUFFICES ASSUME Init PROVE MonitorInv
  OBVIOUS
<1>1. \A c : ObjectsOf(c) = {}
  BY DEF Init, ObjectsOf
<1>2. CountInv
  <2>1. IsFiniteSet({}) /\ Cardinality({}) = 0
    BY FS_EmptySet
  <2>2. WatcherPerRegistration
    BY <1>1, <2>1 DEF Init, WatcherPerRegistration
  <2>3. \A o \in Objects : registered[o] = {} /\ refcount[o] = 0
    BY DEF Init
  <2>4. CountCoversClients
    BY <2>1, <2>3 DEF CountCoversClients
  <2> QED BY <2>1, <2>2, <2>3, <2>4 DEF Init, CountInv
<1>3. alive \subseteq Clients /\ bus \in Seq(Message) /\ VanishedIsLast
  BY DEF Init, VanishedIsLast
<1>4. DeadClientsAreBeingNoticed
  BY DEF Init, DeadClientsAreBeingNoticed
<1> QED BY <1>2, <1>3, <1>4 DEF MonitorInv

\* Putting a message behind the others when no living client gets lost, or
\* when the message says so.
LEMMA SendKeepsNews ==
  ASSUME MonitorInv, NEW m \in Message, Send(m),
         alive' = alive \/ (alive' = alive \ {m.from} /\ m = Vanished(m.from)),
         m.from \in alive, UNCHANGED monitorVars
  PROVE  MonitorInv'
<1>1. CountInv'
  BY DEF MonitorInv, monitorVars, CountInv, WatcherPerRegistration, CountCoversClients, ObjectsOf
<1>2. /\ bus' \in Seq(Message)
      /\ Len(bus) \in Nat
      /\ Len(bus') = Len(bus) + 1
      /\ \A i \in 1..Len(bus) : bus'[i] = bus[i]
      /\ bus'[Len(bus')] = m
  BY SentBehind DEF MonitorInv
<1>3. alive' \subseteq Clients
  BY DEF MonitorInv
<1>4. VanishedIsLast'
  <2> SUFFICES ASSUME NEW i \in 1..Len(bus'), bus'[i].from \notin alive'
               PROVE  \E j \in i..Len(bus') : bus'[j] = Vanished(bus'[i].from)
    BY DEF VanishedIsLast, Vanished
  <2>1. CASE bus'[i].from \notin alive
    <3>1. i \in 1..Len(bus) /\ bus'[i] = bus[i]
      BY <1>2, <2>1
    <3>2. PICK j \in i..Len(bus) : bus[j] = Vanished(bus[i].from)
      BY <2>1, <3>1 DEF MonitorInv, VanishedIsLast
    <3>3. j \in 1..Len(bus) /\ j \in i..Len(bus')
      BY <1>2, <3>1, <3>2
    <3> QED BY <1>2, <3>1, <3>2, <3>3
  <2>2. CASE bus'[i].from \in alive
    <3>1. bus'[i].from = m.from /\ m = Vanished(m.from)
      BY <2>2
    <3>2. Len(bus') \in i..Len(bus')
      BY <1>2
    <3> QED BY <1>2, <3>1, <3>2
  <2> QED BY <2>1, <2>2
<1>5. DeadClientsAreBeingNoticed'
  <2> SUFFICES ASSUME NEW c \in Clients \ alive', watchers'[c] > 0
               PROVE  \E i \in 1..Len(bus') : bus'[i] = Vanished(c)
    BY DEF DeadClientsAreBeingNoticed, Vanished
  <2>1. CASE c \notin alive
    <3>1. PICK i \in 1..Len(bus) : bus[i] = Vanished(c)
      BY <2>1 DEF MonitorInv, DeadClientsAreBeingNoticed, monitorVars
    <3> QED BY <1>2, <3>1
  <2>2. CASE c \in alive
    <3>1. c = m.from /\ m = Vanished(m.from)
      BY <2>2
    <3> QED BY <1>2, <3>1
  <2> QED BY <2>1, <2>2
<1> QED BY <1>1, <1>2, <1>3, <1>4, <1>5 DEF MonitorInv

\* The news of a death is behind the calls which came before it, so it is
\* still in the queue when one of those has been handled.
LEMMA HandleKeepsNews ==
  ASSUME MonitorInv, Handle
  PROVE  MonitorInv'
<1>1. /\ bus' \in Seq(Message)
      /\ Len(bus) \in Nat \ {0}
      /\ Len(bus') = Len(bus) - 1
      /\ \A i \in 1..Len(bus') : bus'[i] = bus[i + 1]
      /\ Head(bus) = bus[1]
      /\ Head(bus) \in Message
  BY TakenFromFront DEF MonitorInv, Handle
<1>2. /\ CountInv'
      /\ \A c \in Clients : c # Head(bus).from => watchers'[c] = watchers[c]
      /\ Head(bus) = Vanished(Head(bus).from) => watchers'[Head(bus).from] = 0
  BY <1>1, DispatchCounts DEF MonitorInv, Handle
<1>3. alive' = alive
  BY DEF Handle
<1>4. VanishedIsLast'
  <2> SUFFICES ASSUME NEW i \in 1..Len(bus'), bus'[i].from \notin alive'
               PROVE  \E j \in i..Len(bus') : bus'[j] = Vanished(bus'[i].from)
    BY DEF VanishedIsLast, Vanished
  <2>1. i + 1 \in 1..Len(bus) /\ bus'[i] = bus[i + 1]
    BY <1>1
  <2>2. PICK j \in i + 1..Len(bus) : bus[j] = Vanished(bus[i + 1].from)
    BY <1>3, <2>1 DEF MonitorInv, VanishedIsLast
  <2>3. /\ j - 1 \in i..Len(bus')
        /\ j - 1 \in 1..Len(bus')
        /\ (j - 1) + 1 = j
    BY <1>1, <2>1, <2>2
  <2>4. bus'[j - 1] = bus[j]
    BY <1>1, <2>3
  <2> QED BY <2>1, <2>2, <2>3, <2>4
<1>5. DeadClientsAreBeingNoticed'
  <2> SUFFICES ASSUME NEW c \in Clients \ alive, watchers'[c] > 0
               PROVE  \E i \in 1..Len(bus') : bus'[i] = Vanished(c)
    BY <1>3 DEF DeadClientsAreBeingNoticed, Vanished
  <2>1. PICK i \in 1..Len(bus) : bus[i] = Vanished(c)
    <3>1. CASE c = Head(bus).from
      <4>1. 1 \in 1..Len(bus) /\ bus[1].from = c
        BY <1>1, <3>1
      <4> QED BY <4>1 DEF MonitorInv, VanishedIsLast
    <3>2. CASE c # Head(bus).from
      BY <1>2, <3>2 DEF MonitorInv, DeadClientsAreBeingNoticed
    <3> QED BY <3>1, <3>2
  <2>2. i # 1
    <3> SUFFICES ASSUME i = 1 PROVE FALSE
      OBVIOUS
    <3>1. Head(bus) = Vanished(c) /\ Head(bus).from = c
      BY <1>1, <2>1 DEF Vanished
    <3>2. watchers'[c] = 0
      BY <1>2, <3>1
    <3> QED BY <3>2
  <2>3. i - 1 \in 1..Len(bus') /\ (i - 1) + 1 = i
    BY <1>1, <2>1, <2>2
  <2> QED BY <1>1, <2>1, <2>3
<1> QED BY <1>1, <1>2, <1>3, <1>4, <1>5 DEF MonitorInv, Handle

LEMMA MonitorStep == MonitorInv /\ [Next]_vars => MonitorInv'
<1> SUFFICES ASSUME MonitorInv, [Next]_vars PROVE MonitorInv'
  OBVIOUS
<1>1. ASSUME NEW o \in Objects, Export(o) PROVE MonitorInv'
  BY <1>1 DEF MonitorInv, Export, MakeRegistrationInterface, CountInv, WatcherPerRegistration,
              CountCoversClients, ObjectsOf, VanishedIsLast, DeadClientsAreBeingNoticed, Vanished
<1>2. ASSUME NEW c \in Clients, NEW o \in Objects, NEW type \in CallTypes,
             CallMonitor(c, type, o)
      PROVE MonitorInv'
  <2> DEFINE m == [type |-> type, from |-> c, object |-> o]
  <2>1. m \in Message /\ m.from \in alive
    BY <1>2 DEF Message, Call, CallMonitor
  <2>2. Send(m) /\ alive' = alive /\ UNCHANGED monitorVars
    BY <1>2 DEF CallMonitor
  <2> HIDE DEF m
  <2> QED BY <2>1, <2>2, SendKeepsNews
<1>3. ASSUME NEW c \in Clients, Die(c) PROVE MonitorInv'
  <2>1. Vanished(c) \in Message /\ Vanished(c).from = c
    BY DEF Message, Vanished
  <2> QED BY <1>3, <2>1, SendKeepsNews DEF Die
<1>4. ASSUME Handle PROVE MonitorInv'
  BY <1>4, HandleKeepsNews
<1>5. ASSUME UNCHANGED vars PROVE MonitorInv'
  BY <1>5 DEF MonitorInv, vars, monitorVars, CountInv, WatcherPerRegistration,
              CountCoversClients, ObjectsOf, VanishedIsLast, DeadClientsAreBeingNoticed, Vanished
<1> QED BY <1>1, <1>2, <1>3, <1>4, <1>5 DEF Next

(***************************************************************************)
(* Theorems                                                                *)
(***************************************************************************)
\* The sets of clients, the counts of the plugins and the use counts of the
\* watchers are what the code takes them for, whatever clients do.
THEOREM MonitorTypeCorrect == Spec => []TypeOK
<1>1. MonitorInv => TypeOK
  BY DEF MonitorInv, CountInv, TypeOK
<1> QED BY <1>1, MonitorInit, MonitorStep, PTL DEF Spec

\* The watcher of a client is used once per registration of that client.
THEOREM WatchersExact == Spec => []WatcherPerRegistration
<1>1. MonitorInv => WatcherPerRegistration
  BY DEF MonitorInv, CountInv
<1> QED BY <1>1, MonitorInit, MonitorStep, PTL DEF Spec

\* The reference count of a plugin covers its clients and does not wrap.
THEOREM CountsSuffice == Spec => []CountCoversClients
<1>1. MonitorInv => CountCoversClients
  BY DEF MonitorInv, CountInv
<1> QED BY <1>1, MonitorInit, MonitorStep, PTL DEF Spec

\* As long as a dead client has a watcher, the news of its death is coming.
THEOREM DeathIsComing == Spec => []DeadClientsAreBeingNoticed
<1>1. MonitorInv => DeadClientsAreBeingNoticed
  BY DEF MonitorInv
<1> QED BY <1>1, MonitorInit, MonitorStep, PTL DEF Spec
=============================================================================
