--------------------------- MODULE MonitorManager ---------------------------
(***************************************************************************)
(* Registration of D-Bus clients with the monitor objects of AuPaD         *)
(* (src/src/monitor_manager.cc) and the count of clients kept by the       *)
(* plugin behind each object (src/src/client_plugin.hh).                   *)
(*                                                                         *)
(* Clients are identified by their unique bus names, which the bus never   *)
(* gives out twice.  The bus delivers what it has for AuPaD in one order:  *)
(* the calls of a client in the order they were made, and the news of its  *)
(* disappearance behind its last call.  AuPaD handles one message at a     *)
(* time in its main loop.                                                  *)
(***************************************************************************)
EXTENDS Naturals, Sequences, FiniteSets

CONSTANTS
  Objects,     \* paths of monitor objects, each the view of one plugin
  Clients,     \* unique names of clients on the bus
  MaxPending   \* bound on the messages the bus holds for AuPaD

ASSUME MonitorAssumption ==
  /\ IsFiniteSet(Objects)
  /\ MaxPending \in Nat \ {0}

VARIABLES
  exported,    \* the paths in MonitorManager::plugins_
  registered,  \* the set of clients in the entry of each path
  refcount,    \* Plugin::reference_count_ of the plugin in that entry
  watchers,    \* use count of each client's PeerWatcher, 0 if it has none
  alive,       \* clients connected to the bus
  bus          \* messages the bus has yet to deliver to AuPaD

monitorVars == <<exported, registered, refcount, watchers>>
vars == <<monitorVars, alive, bus>>

\* Get stands for the calls which the plugin behind the object answers.
CallTypes == {"Register", "Unregister", "Get"}
Call == [type: CallTypes, from: Clients, object: Objects]
Vanished(c) == [type |-> "Vanished", from |-> c]
Message == Call \cup {Vanished(c) : c \in Clients}

ObjectsOf(c) == {o \in Objects : c \in registered[o]}

Init ==
  /\ exported = {}
  /\ registered = [o \in Objects |-> {}]
  /\ refcount = [o \in Objects |-> 0]
  /\ watchers = [c \in Clients |-> 0]
  /\ alive = Clients
  /\ bus = <<>>

(***************************************************************************)
(* Handlers                                                                *)
(***************************************************************************)
\* A path which is exported already is left alone.
MakeRegistrationInterface(o) ==
  /\ o \notin exported
  /\ exported' = exported \cup {o}
  /\ UNCHANGED <<registered, refcount, watchers>>

\* Seeded fault: a second registration does not count for the watcher.
RegisterClientOnce(o, c) ==
  IF c \in registered[o]
  THEN UNCHANGED monitorVars
  ELSE /\ registered' = [registered EXCEPT ![o] = @ \cup {c}]
       /\ refcount' = [refcount EXCEPT ![o] = @ + 1]
       /\ watchers' = [watchers EXCEPT ![c] = 1]
       /\ UNCHANGED exported

RegisterClient(o, c) ==
  IF c \in registered[o]
  THEN UNCHANGED monitorVars
  ELSE /\ registered' = [registered EXCEPT ![o] = @ \cup {c}]
       /\ refcount' = [refcount EXCEPT ![o] = @ + 1]
       /\ watchers' = [watchers EXCEPT ![c] = @ + 1]
       /\ UNCHANGED exported

\* Seeded fault: a watcher that goes with the first registration.
UnregisterAndUnwatch(o, c) ==
  IF c \notin registered[o]
  THEN UNCHANGED monitorVars
  ELSE /\ registered' = [registered EXCEPT ![o] = @ \ {c}]
       /\ refcount' = [refcount EXCEPT ![o] = @ - 1]
       /\ watchers' = [watchers EXCEPT ![c] = 0]
       /\ UNCHANGED exported

\* The last registration of a client takes its watcher with it.
UnregisterClient(o, c) ==
  IF c \notin registered[o]
  THEN UNCHANGED monitorVars
  ELSE /\ registered' = [registered EXCEPT ![o] = @ \ {c}]
       /\ refcount' = [refcount EXCEPT ![o] = @ - 1]
       /\ watchers' = [watchers EXCEPT ![c] = IF @ = 0 THEN 0 ELSE @ - 1]
       /\ UNCHANGED exported

\* Seeded faults: all plugins lose a client, and a watcher that is kept.
PeerVanishedFromAll(c) ==
  /\ registered' = [o \in Objects |-> registered[o] \ {c}]
  /\ refcount' = [o \in Objects |-> IF refcount[o] = 0 THEN 0 ELSE refcount[o] - 1]
  /\ watchers' = [watchers EXCEPT ![c] = 0]
  /\ UNCHANGED exported
PeerVanishedButWatched(c) ==
  /\ registered' = [o \in Objects |-> registered[o] \ {c}]
  /\ UNCHANGED <<exported, refcount, watchers>>

\* The watcher's callback: all registrations of the client are forgotten,
\* the counts in the plugins are not touched.
PeerVanished(c) ==
  /\ registered' = [o \in Objects |-> registered[o] \ {c}]
  /\ watchers' = [watchers EXCEPT ![c] = 0]
  /\ UNCHANGED <<exported, refcount>>

\* Seeded fault: off by one.
HasSeveralClients(o) == refcount[o] > 1

\* Plugin::has_clients()
HasClients(o) == refcount[o] > 0

(***************************************************************************)
(* The bus                                                                 *)
(***************************************************************************)
Send(m) == Len(bus) < MaxPending /\ bus' = Append(bus, m)

\* Calls reach AuPaD on exported paths only; all others fail on the bus.
CallMonitor(c, type, o) ==
  /\ c \in alive
  /\ o \in exported
  /\ Send([type |-> type, from |-> c, object |-> o])
  /\ UNCHANGED <<monitorVars, alive>>

Die(c) ==
  /\ c \in alive
  /\ alive' = alive \ {c}
  /\ Send(Vanished(c))
  /\ UNCHANGED monitorVars

Export(o) ==
  /\ MakeRegistrationInterface(o)
  /\ UNCHANGED <<alive, bus>>

\* Without a watcher there is nobody to notice that a client is gone.
Dispatch(m) ==
  CASE m.type = "Register"   -> RegisterClient(m.object, m.from)
    [] m.type = "Unregister" -> UnregisterClient(m.object, m.from)
    [] m.type = "Get"        -> UNCHANGED monitorVars
    [] m.type = "Vanished"   -> IF watchers[m.from] > 0
                                THEN PeerVanished(m.from)
                                ELSE UNCHANGED monitorVars

Handle ==
  /\ bus # <<>>
  /\ Dispatch(Head(bus))
  /\ bus' = Tail(bus)
  /\ UNCHANGED alive

Next ==
  \/ \E o \in Objects : Export(o)
  \/ \E c \in Clients, o \in Objects, type \in CallTypes :
       CallMonitor(c, type, o)
  \/ \E c \in Clients : Die(c)
  \/ Handle

Spec == Init /\ [][Next]_vars

\* The main loop runs while there is something for it to do.
FairSpec == Spec /\ WF_vars(Handle)

-----------------------------------------------------------------------------
\* Type invariant of the registrations and of the bus.
TypeOK ==
  /\ exported \subseteq Objects
  /\ registered \in [Objects -> SUBSET Clients]
  /\ refcount \in [Objects -> Nat]
  /\ watchers \in [Clients -> Nat]
  /\ alive \subseteq Clients
  /\ bus \in Seq(Message)

\* A watcher is counted exactly once per registration of its client, so that
\* it lives as long as the client is registered anywhere, and no longer.
WatcherPerRegistration ==
  \A c \in Clients : watchers[c] = Cardinality(ObjectsOf(c))

\* The unsigned count of a plugin never drops below the number of its
\* clients: it cannot wrap around, and reports are sent while anybody listens.
CountCoversClients ==
  \A o \in Objects : refcount[o] >= Cardinality(registered[o])

\* A registered client that is dead is still going to be noticed.
DeadClientsAreBeingNoticed ==
  \A c \in Clients \ alive :
    watchers[c] > 0 => \E i \in 1..Len(bus) : bus[i] = Vanished(c)

\* A dead client is forgotten by all monitor objects for good.
DeadClientsAreForgotten ==
  \A c \in Clients : c \notin alive ~> [](ObjectsOf(c) = {} /\ watchers[c] = 0)

\* README, "Filter plugins and monitor objects": changes are sent as long as
\* there is at least one client registered.
ReportsStopWithTheLastClient ==
  \A o \in Objects : HasClients(o) => registered[o] # {}
=============================================================================
