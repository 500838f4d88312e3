---------------------------- MODULE DcpdConnection ----------------------------
(***************************************************************************)
(* How AuPaD follows DCPD as it comes and goes (src/src/aupad.cc,          *)
(* listen_to_dcpd_audio_path_updates() and dcpd_appeared()).               *)
(*                                                                         *)
(* When DCPD appears on the bus, AuPaD starts to connect two proxies: one  *)
(* to request the full audio path, which it does as soon as that proxy is  *)
(* connected, and one for the signals with updates, to which a handler is  *)
(* attached as soon as that proxy is connected.  Nothing orders the two.   *)
(* When DCPD vanishes, the store is cleared.                               *)
(*                                                                         *)
(* What there is to know is a set of facts.  DCPD emits a signal for each  *)
(* fact that changes, and one with all facts when it is asked.  The bus    *)
(* delivers the signals of DCPD and the news about it in one order.  What  *)
(* is emitted while there is no handler is dropped; calls which are made   *)
(* while DCPD is not there fail, and nobody looks at the result.           *)
(*                                                                         *)
(* A batch may turn out to be malformed anywhere: what comes before stays  *)
(* applied, the rest is dropped, and nobody asks for it again.             *)
(***************************************************************************)
EXTENDS Naturals, Sequences

CONSTANTS
  Facts,     \* what may be known about the audio paths of the appliance
  MaxQueue,  \* bound on the messages on their way to AuPaD
  MaxLives   \* bound on the number of times DCPD is started

ASSUME DcpdAssumption == MaxQueue \in Nat /\ MaxLives \in Nat

VARIABLES
  content,    \* what DCPD knows
  running,    \* DCPD is on the bus
  lives,      \* number of times DCPD was started
  request,    \* a request for the full audio path is on its way to DCPD
  queue,      \* messages on their way to AuPaD
  requests,   \* the proxy for requests: none, connecting, or connected
  updates,    \* the proxy for updates
  store,      \* ConfigStore::Settings
  complete,   \* history: all facts, and all changes to them, were applied
  failed      \* history: a batch failed since the store was last cleared or complete

dcpdVars == <<content, running, lives>>
proxyVars == <<requests, updates>>
storeVars == <<store, complete, failed>>
vars == <<dcpdVars, request, queue, proxyVars, storeVars>>

Appeared == [type |-> "Appeared"]
Vanished == [type |-> "Vanished"]
All(S) == [type |-> "All", facts |-> S]
Change(f, isSet) == [type |-> "Change", fact |-> f, set |-> isSet]

Init ==
  /\ content = {}
  /\ running = FALSE
  /\ lives = 0
  /\ request = FALSE
  /\ queue = <<>>
  /\ requests = "none"
  /\ updates = "none"
  /\ store = {}
  /\ complete = FALSE
  /\ failed = FALSE

Queue(m) == Len(queue) < MaxQueue /\ queue' = Append(queue, m)

\* Signals nobody listens to are dropped where they would be received.
Emit(m) == IF updates = "connected" THEN Queue(m) ELSE UNCHANGED queue

(***************************************************************************)
(* DCPD                                                                    *)
(***************************************************************************)
StartDcpd ==
  /\ ~running /\ lives < MaxLives
  /\ running' = TRUE
  /\ lives' = lives + 1
  /\ content' \in SUBSET Facts
  /\ Queue(Appeared)
  /\ UNCHANGED <<request, proxyVars, storeVars>>

StopDcpd ==
  /\ running
  /\ running' = FALSE
  /\ content' = {}
  /\ request' = FALSE
  /\ Queue(Vanished)
  /\ UNCHANGED <<lives, proxyVars, storeVars>>

ChangeFact(f) ==
  /\ running
  /\ content' = IF f \in content THEN content \ {f} ELSE content \cup {f}
  /\ Emit(Change(f, f \notin content))
  /\ UNCHANGED <<running, lives, request, proxyVars, storeVars>>

AnswerRequest ==
  /\ request
  /\ request' = FALSE
  /\ Emit(All(content))
  /\ UNCHANGED <<dcpdVars, proxyVars, storeVars>>

(***************************************************************************)
(* AuPaD                                                                   *)
(***************************************************************************)
\* dcpd_appeared(); proxies that are connected are connected again.
DcpdAppeared ==
  /\ requests' = "connecting"
  /\ updates' = IF updates = "connected" THEN updates ELSE "connecting"
  /\ UNCHANGED storeVars

\* Seeded fault: the store is left alone.
DcpdVanishedQuietly ==
  /\ complete' = FALSE
  /\ failed' = FALSE
  /\ UNCHANGED <<proxyVars, store>>

\* The watcher's second callback: Settings::clear()
DcpdVanished ==
  /\ store' = {}
  /\ complete' = FALSE
  /\ failed' = FALSE
  /\ UNCHANGED proxyVars

\* Seeded fault: facts that are gone are not removed.
ProcessUpdateAdding(m) ==
  /\ store' = IF m.type = "All" THEN m.facts ELSE store \cup {m.fact}
  /\ complete' = (complete \/ m.type = "All")
  /\ failed' = (failed /\ m.type # "All")
  /\ UNCHANGED proxyVars

\* process_dcpd_audio_path_update()
ProcessUpdate(m) ==
  /\ store' = CASE m.type = "All" -> m.facts
                [] m.type = "Change" /\ m.set -> store \cup {m.fact}
                [] m.type = "Change" /\ ~m.set -> store \ {m.fact}
  /\ complete' = (complete \/ m.type = "All")
  /\ failed' = (failed /\ m.type # "All")
  /\ UNCHANGED proxyVars

\* Settings::update() catches the exception.  All facts start with the removal
\* of everything there was.
FailToUpdate(m) ==
  /\ IF m.type = "All" THEN store' \in SUBSET m.facts ELSE store' = store
  /\ complete' = FALSE
  /\ failed' = TRUE
  /\ UNCHANGED proxyVars

Handle ==
  /\ queue # <<>>
  /\ queue' = Tail(queue)
  /\ CASE Head(queue) = Appeared -> DcpdAppeared
       [] Head(queue) = Vanished -> DcpdVanished
       [] OTHER -> ProcessUpdate(Head(queue)) \/ FailToUpdate(Head(queue))
  /\ UNCHANGED <<dcpdVars, request>>

\* Seeded fault: the request is only made for the first proxy.
RequestsConnectedOnce(succeeded) ==
  /\ requests = "connecting"
  /\ requests' = IF succeeded THEN "connected" ELSE "none"
  /\ request' = (request \/ (succeeded /\ running /\ lives = 1))
  /\ UNCHANGED <<dcpdVars, queue, updates, storeVars>>

\* The callback of connect_proxy() with the outcome; the request is made if
\* it succeeds, and reaches DCPD if that is still there.
RequestsConnected(succeeded) ==
  /\ requests = "connecting"
  /\ requests' = IF succeeded THEN "connected" ELSE "none"
  /\ request' = (request \/ (succeeded /\ running))
  /\ UNCHANGED <<dcpdVars, queue, updates, storeVars>>

UpdatesConnected(succeeded) ==
  /\ updates = "connecting"
  /\ updates' = IF succeeded THEN "connected" ELSE "none"
  /\ UNCHANGED <<dcpdVars, request, queue, requests, storeVars>>

Next ==
  \/ StartDcpd
  \/ StopDcpd
  \/ \E f \in Facts : ChangeFact(f)
  \/ AnswerRequest
  \/ Handle
  \/ \E succeeded \in BOOLEAN : RequestsConnected(succeeded) \/ UpdatesConnected(succeeded)

Spec == Init /\ [][Next]_vars

\* The main loop handles what arrives and calls back, and DCPD answers; that
\* there may be no room for the answer is a bound of this model.
FairSpec ==
  /\ Spec
  /\ WF_vars(Handle)
  /\ WF_vars(\E succeeded \in BOOLEAN : RequestsConnected(succeeded))
  /\ SF_vars(AnswerRequest)

-----------------------------------------------------------------------------
\* Type invariant.
TypeOK ==
  /\ content \subseteq Facts
  /\ running \in BOOLEAN
  /\ lives \in 0..MaxLives
  /\ request \in BOOLEAN
  /\ queue \in Seq({Appeared, Vanished} \cup {All(S) : S \in SUBSET Facts}
                   \cup {Change(f, b) : f \in Facts, b \in BOOLEAN})
  /\ requests \in {"none", "connecting", "connected"}
  /\ updates \in {"none", "connecting", "connected"}
  /\ store \subseteq Facts
  /\ complete \in BOOLEAN
  /\ failed \in BOOLEAN

\* From the time all facts were received, the store follows DCPD through all
\* changes, until DCPD vanishes or a batch fails; nothing of an earlier life of
\* DCPD, or of a batch that failed before, gets in.
CompleteStoreFollowsDcpd ==
  complete /\ queue = <<>> => running /\ store = content

\* After AuPaD has been told that DCPD has vanished, it knows nothing, like
\* after startup (README, "Initialization").
NothingIsKnownWithoutDcpd ==
  ~running /\ queue = <<>> => store = {} /\ ~complete /\ ~failed

\* When DCPD is gone for long enough, AuPaD forgets what it knew, whatever was
\* on its way (listen_to_dcpd_audio_path_updates()).
LossIsNoticed == ~running ~> (running \/ store = {})

\* When DCPD comes back, AuPaD asks for everything there is to know, and gets
\* it, unless DCPD goes again, or there are errors (dcpd_appeared()).
RestartIsCaughtUpWith ==
  /\ running /\ requests = "connecting" /\ updates = "connected"
  ~> complete \/ failed \/ ~running \/ requests = "none"

-----------------------------------------------------------------------------
(* Statements of the README that the code contradicts.                     *)

\* "AuPaD maintains current information about audio paths": when AuPaD is
\* connected to DCPD, and nothing is under way, its store is that of DCPD.
InformationIsCurrent ==
  /\ running /\ queue = <<>> /\ ~request
  /\ requests = "connected" /\ updates = "connected"
  => store = content

\* A batch that has failed is made up for while DCPD stays.
FailedBatchesAreMadeUpFor == failed ~> complete \/ ~running
=============================================================================
