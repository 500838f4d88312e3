---------------------------- MODULE RoonReporting ----------------------------
(***************************************************************************)
(* How clients of the Roon monitor object learn about the active audio     *)
(* path: updates from DCPD (src/src/aupad.cc) change the configuration     *)
(* store; ClientPlugin::PluginManager has the Roon plugin report them      *)
(* while it has clients; the plugin (src/src/report_roon.cc) suppresses a  *)
(* report equal to the one it computed last, no matter whether that one    *)
(* was emitted as a signal or returned to some client by Get.              *)
(*                                                                         *)
(* The path found in the store is a member of Paths or NoPath; how it is   *)
(* computed is left to other modules.  Registration is composed in from    *)
(* MonitorManager, which this module refines.                              *)
(***************************************************************************)
EXTENDS Naturals, Sequences, FiniteSets

CONSTANTS
  Roon,        \* the object path /de/tahifi/AuPaD/Roon
  Clients,     \* unique names of clients on the bus
  Paths,       \* non-empty reports that can be computed from the store
  NoPath,      \* JSON null: no active path in the store, or no report yet
  Empty,       \* "[]": what is sent in place of null
  Unknown,     \* a client has not learned anything yet
  MaxPending,  \* bound on the calls the bus holds for AuPaD
  MaxInbox     \* bound on the signals the bus holds for each client; replies
               \* need none, as a client has one call under way at a time

ASSUME RoonAssumption ==
  /\ NoPath \notin Paths /\ Empty \notin Paths /\ Unknown \notin Paths
  /\ NoPath # Empty /\ Unknown # Empty
  /\ MaxPending \in Nat \ {0} /\ MaxInbox \in Nat \ {0}

Objects == {Roon}

VARIABLES
  exported, registered, refcount, watchers, \* see MonitorManager
  alive,     \* clients connected to the bus
  bus,       \* calls and news the bus has yet to deliver to AuPaD
  path,      \* what compute_sorted_result() finds in the store
  previous,  \* Roon::previous_roon_report_
  stale,     \* history: the store was cleared, and no change followed yet
  unnoticed, \* history: the path was changed by a batch nothing was extracted
             \* of, and there has been no signal since
  phase,     \* how far each client is with registration and initialization
  inbox,     \* replies and signals on their way to each client
  view       \* the path each client believes to be active

monitorVars == <<exported, registered, refcount, watchers>>
historyVars == <<stale, unnoticed>>
roonVars == <<path, previous, historyVars>>
clientVars == <<phase, view>>
vars == <<monitorVars, alive, bus, roonVars, clientVars, inbox>>

Registration == INSTANCE MonitorManager

Waiting == {"joining", "asked", "leaving"}
Joined == {"joined", "asked", "ready"}

Init ==
  /\ exported = {}
  /\ registered = [o \in Objects |-> {}]
  /\ refcount = [o \in Objects |-> 0]
  /\ watchers = [c \in Clients |-> 0]
  /\ alive = Clients
  /\ bus = <<>>
  /\ path = NoPath
  /\ previous = NoPath
  /\ stale = FALSE
  /\ unnoticed = FALSE
  /\ phase = [c \in Clients |-> "out"]
  /\ inbox = [c \in Clients |-> <<>>]
  /\ view = [c \in Clients |-> Unknown]

(***************************************************************************)
(* Reports                                                                 *)
(***************************************************************************)
AsReport(p) == IF p = NoPath THEN Empty ELSE p

\* Seeded fault: an empty report is taken for known if one was sent before.
IsNewsAsReport(p) == AsReport(p) # previous

\* Roon::full_report(): is the report for path p news, and what it leaves in
\* previous_roon_report_.
IsNews(p) == p # previous
FullReport(p) == previous' = IF IsNews(p) THEN AsReport(p) ELSE previous

Reply(type, r) == [type |-> type, report |-> r]
Signal(r) == [type |-> "Signal", report |-> r]

HasRoom(c) == Len(inbox[c]) < MaxInbox

\* The bus drops what is sent to a client that is gone.
Posted(C, m) ==
  [c \in Clients |-> IF c \in C /\ c \in alive THEN Append(inbox[c], m)
                                               ELSE inbox[c]]

\* A batch of changes from DCPD has been applied to the store, which now
\* has the active path p; changed is the result of extract_changes(), which
\* may come out empty although the path is another one: a connection that is
\* made again and cut in one batch leaves nothing in the log.  The signal
\* reaches everybody on the bus who listens.
HandleBatch(p, changed) ==
  LET listeners == {c \in Clients : phase[c] # "out"}
      reporting == changed /\ Registration!HasClients(Roon)
  IN /\ \A c \in listeners : HasRoom(c)
     /\ path' = p
     /\ IF reporting THEN FullReport(p) ELSE UNCHANGED previous
     /\ inbox' = IF reporting /\ IsNews(p)
                 THEN Posted(listeners, Signal(AsReport(p)))
                 ELSE inbox
     /\ stale' = (stale /\ ~changed /\ p = path)
     /\ unnoticed' = (/\ Registration!HasClients(Roon) /\ ~(reporting /\ IsNews(p))
                      /\ unnoticed \/ (p # path /\ ~changed))
     /\ UNCHANGED <<monitorVars, alive, bus, clientVars>>

\* DCPD has left the bus: the store is cleared, and nobody is told.
LoseDcpd ==
  /\ path' = NoPath
  /\ stale' = TRUE
  /\ UNCHANGED <<monitorVars, alive, bus, previous, unnoticed, clientVars, inbox>>

(***************************************************************************)
(* Messages from the bus                                                   *)
(***************************************************************************)
\* Seeded fault: a report that is not news is not sent.
HandleGetQuietly(c) ==
  /\ FullReport(path)
  /\ inbox' = IF IsNews(path) THEN Posted({c}, Reply("Get", AsReport(path)))
              ELSE inbox
  /\ UNCHANGED <<monitorVars, path, historyVars>>

\* get_full_roon_audio_path(): no news is answered by an empty report.
HandleGet(c) ==
  /\ FullReport(path)
  /\ inbox' = Posted({c}, Reply("Get", IF IsNews(path) THEN AsReport(path)
                                                       ELSE Empty))
  /\ UNCHANGED <<monitorVars, path, historyVars>>

\* Seeded fault: the call is answered, but nothing is done.
HandleRegistrationIdly(m) ==
  /\ inbox' = IF m.type = "Vanished" THEN inbox
              ELSE Posted({m.from}, Reply(m.type, Empty))
  /\ UNCHANGED <<monitorVars, roonVars>>

HandleRegistration(m) ==
  /\ Registration!Dispatch(m)
  /\ inbox' = IF m.type = "Vanished" THEN inbox
              ELSE Posted({m.from}, Reply(m.type, Empty))
  /\ UNCHANGED roonVars

Handle ==
  /\ bus # <<>>
  /\ IF Head(bus).type = "Get" THEN HandleGet(Head(bus).from)
     ELSE HandleRegistration(Head(bus))
  /\ bus' = Tail(bus)
  /\ UNCHANGED <<alive, clientVars>>

Export ==
  /\ Registration!MakeRegistrationInterface(Roon)
  /\ UNCHANGED <<alive, bus, roonVars, clientVars, inbox>>

(***************************************************************************)
(* Clients, as README asks them to behave, except that they pay attention  *)
(* to signals from the moment they are registered, and that an empty reply *)
(* to Get means to them that nothing is known yet.                         *)
(***************************************************************************)
Send(c, type) ==
  /\ Len(bus) < MaxPending
  /\ bus' = Append(bus, [type |-> type, from |-> c, object |-> Roon])

Request(c, type, from, to) ==
  /\ c \in alive
  /\ phase[c] \in from
  /\ phase' = [phase EXCEPT ![c] = to]
  /\ Send(c, type)
  /\ UNCHANGED <<monitorVars, alive, roonVars, inbox>>

Join(c) ==
  /\ Roon \in exported
  /\ Request(c, "Register", {"out"}, "joining")
  /\ UNCHANGED view

Ask(c) ==
  /\ Request(c, "Get", {"joined"}, "asked")
  /\ UNCHANGED view

Leave(c) ==
  /\ Request(c, "Unregister", {"joined", "ready"}, "leaving")
  /\ view' = [view EXCEPT ![c] = Unknown]

Receive(c) ==
  LET m == Head(inbox[c])
      learns == \/ m.type = "Signal" /\ phase[c] \in Joined
                \/ m.type = "Get" /\ m.report # Empty
  IN /\ inbox[c] # <<>>
     /\ inbox' = [inbox EXCEPT ![c] = Tail(@)]
     /\ phase' = [phase EXCEPT ![c] =
                    CASE m.type = "Register"   -> "joined"
                      [] m.type = "Get"        -> "ready"
                      [] m.type = "Unregister" -> "out"
                      [] m.type = "Signal"     -> @]
     /\ view' = IF learns THEN [view EXCEPT ![c] = m.report] ELSE view
     /\ UNCHANGED <<monitorVars, alive, bus, roonVars>>

Die(c) ==
  /\ c \in alive
  /\ alive' = alive \ {c}
  /\ Len(bus) < MaxPending
  /\ bus' = Append(bus, Registration!Vanished(c))
  /\ phase' = [phase EXCEPT ![c] = "out"]
  /\ inbox' = [inbox EXCEPT ![c] = <<>>]
  /\ view' = [view EXCEPT ![c] = Unknown]
  /\ UNCHANGED <<monitorVars, roonVars>>

Next ==
  \/ Export
  \/ \E p \in Paths \cup {NoPath}, changed \in BOOLEAN : HandleBatch(p, changed)
  \/ LoseDcpd
  \/ Handle
  \/ \E c \in Clients : Join(c) \/ Ask(c) \/ Leave(c) \/ Receive(c) \/ Die(c)

Spec == Init /\ [][Next]_vars

\* AuPaD's main loop and the bus keep going.
FairSpec == Spec /\ WF_vars(Handle) /\ \A c \in Clients : WF_vars(Receive(c))

-----------------------------------------------------------------------------
Reports == Paths \cup {Empty}

\* Type invariant: what is sent is a report, never null.
TypeOK ==
  /\ path \in Paths \cup {NoPath}
  /\ previous \in Reports \cup {NoPath}
  /\ stale \in BOOLEAN /\ unnoticed \in BOOLEAN
  /\ phase \in [Clients -> Waiting \cup {"out", "joined", "ready"}]
  /\ view \in [Clients -> Reports \cup {Unknown}]
  /\ inbox \in [Clients -> Seq([type: {"Signal", "Register", "Unregister", "Get"},
                                report: Reports])]

\* A registered client that has read all its messages either has not been
\* told any path or knows the active one: no change gets lost between
\* registration, suppressed reports, Get calls of others and a loss of DCPD
\* that is followed by changes.  There are two exceptions.  Between the loss and
\* the first change after it, clients believe in the path they were told last
\* (see ClientsHearOfTheLoss).  After a batch that changed the path but left
\* no change in the log (the run store_lost_connection shows one), nothing is
\* promised until the next signal: a Get of one client can even make the report
\* known, so that a later batch does not send it to the others.  That a reply to
\* Get may tell less than is known is not a matter of this property (see
\* GetReturnsFullInformation).
ClientsAreNeverMisled ==
  \A c \in alive :
    phase[c] \in Joined /\ inbox[c] = <<>> /\ ~stale /\ ~unnoticed
      => view[c] \in {Unknown, AsReport(path)}

\* A client that registered and was told so is counted by the plugin until
\* AuPaD has handled its departure.
JoinedClientsAreRegistered ==
  \A c \in alive :
    phase[c] \in Joined => c \in registered[Roon] /\ Registration!HasClients(Roon)

\* Registration works here as specified in MonitorManager.
ImplementsRegistration == Registration!Spec

\* Each call of a client is answered (unless the client dies waiting).
CallsAreAnswered ==
  \A c \in Clients : phase[c] \in Waiting ~> phase[c] \notin Waiting

-----------------------------------------------------------------------------
(* Statements of the README that the code contradicts.                     *)

\* "Initialization": any change information sent before returning full
\* information is incorporated in what the initialization call returns.
GetReturnsFullInformation ==
  [][\A c \in Clients :
       inbox'[c] # inbox[c] /\ inbox'[c] # <<>>
         /\ inbox'[c][Len(inbox'[c])].type = "Get"
         /\ Len(inbox'[c]) > Len(inbox[c])
       => inbox'[c][Len(inbox'[c])].report = AsReport(path)]_vars

\* "Updates from the appliance": on any audio path changes, signals are
\* emitted on each monitor object with at least one registered client; so a
\* client hears that there is no path left when DCPD is gone.  (Batches that
\* change the path and leave no change in the log are a matter of their own.)
ClientsHearOfTheLoss ==
  \A c \in alive :
    phase[c] \in Joined /\ inbox[c] = <<>> /\ ~unnoticed
      => view[c] \in {Unknown, AsReport(path)}
=============================================================================
