-------------------------- MODULE ConfigStoreProofs --------------------------
(***************************************************************************)
(* Proofs about the configuration store, for any sets of device instances, *)
(* device IDs, elements, controls, values, sinks and inputs.               *)
(***************************************************************************)
EXTENDS ConfigStore, TLAPS

(***************************************************************************)
(* The change log                                                          *)
(***************************************************************************)
\* Adding well-formed entries to a well-formed log gives such a log.
LEMMA LoggedType ==
  ASSUME NEW Keys, NEW States, NEW old, NEW new,
         IsLog(old, Keys, States), IsLog(new, Keys, States)
  PROVE  IsLog(Logged(old, new), Keys, States)
BY DEF IsLog, Logged

\* A log without entries is well-formed, whatever it is about.
LEMMA EmptyLogType ==
  ASSUME NEW Keys, NEW States
  PROVE  IsLog(EmptyLog, Keys, States)
BY DEF IsLog, EmptyLog

\* Entries for things that came or went are well-formed.
LEMMA PresenceType ==
  ASSUME NEW Keys, NEW S \in SUBSET Keys
  PROVE  IsLog(Appeared(S), Keys, BOOLEAN) /\ IsLog(Vanished(S), Keys, BOOLEAN)
BY DEF IsLog, Appeared, Vanished

\* The entries for forgotten values are under full names, with old values.
LEMMA ForgottenType ==
  ASSUME TypeOK, NEW S \in SUBSET Slot
  PROVE  IsLog(ForgottenEntries(S), ValueKey, Values \cup {Void})
BY DEF IsLog, ForgottenEntries, Reset, Held, TypeOK, ValueKey

(***************************************************************************)
(* Type correctness                                                        *)
(***************************************************************************)
\* Forgetting values leaves a well-formed store.
LEMMA ForgetType ==
  ASSUME TypeOK, NEW S
  PROVE  /\ Forget(S) \in [Slot -> Values \cup {Void}]
         /\ FloatAfter(S) \in [Names -> [Elems -> Choices \cup {Floating}]]
BY DEF Forget, FloatAfter, TypeOK

\* Detaching a device leaves well-formed connections, values and logs.
LEMMA DetachType ==
  ASSUME TypeOK, NEW n \in Names, Detach(n)
  PROVE  /\ conns' \subseteq Connection
         /\ value' \in [Slot -> Values \cup {Void}]
         /\ selected' \in [Names -> [Elems -> Choices \cup {Floating}]]
         /\ IsLog(connLog', Connection, BOOLEAN)
         /\ IsLog(valueLog', ValueKey, Values \cup {Void})
<1>1. Touching(n) \in SUBSET Connection
  BY DEF Touching, TypeOK
<1>2. IsLog(connLog', Connection, BOOLEAN)
  BY <1>1, LoggedType, PresenceType DEF Detach, TypeOK
<1>3. IsLog(valueLog', ValueKey, Values \cup {Void})
  BY LoggedType, ForgottenType DEF Detach, TypeOK
<1>4. conns' \subseteq Connection
  BY DEF Detach, TypeOK
<1>5. value' \in [Slot -> Values \cup {Void}]
  BY ForgetType DEF Detach
<1>6. selected' \in [Names -> [Elems -> Choices \cup {Floating}]]
  BY ForgetType DEF Detach
<1> QED BY <1>2, <1>3, <1>4, <1>5, <1>6

\* The empty store with its empty log is well-formed.
LEMMA InitType == Init => TypeOK
<1> SUFFICES ASSUME Init PROVE TypeOK
  OBVIOUS
<1>1. /\ IsLog(deviceLog, Names, BOOLEAN)
      /\ IsLog(connLog, Connection, BOOLEAN)
      /\ IsLog(valueLog, ValueKey, Values \cup {Void})
  BY EmptyLogType DEF Init
<1> QED BY <1>1 DEF Init, TypeOK

\* "add_instance" keeps store and log well-formed, whether or not it
\* replaces a device.
LEMMA AddInstanceType ==
  ASSUME TypeOK, NEW n \in Names, NEW id \in Ids, AddInstance(n, id)
  PROVE  TypeOK'
<1>1. device' \in [Names -> Ids \cup {None}]
  BY DEF AddInstance, TypeOK
<1>2. IsLog(deviceLog', Names, BOOLEAN)
  <2>1. IsLog(Logged(deviceLog, Vanished({n})), Names, BOOLEAN)
    BY LoggedType, PresenceType DEF TypeOK
  <2> QED BY <2>1, LoggedType, PresenceType DEF AddInstance, TypeOK
<1>3. CASE Known(n)
  <2>1. Detach(n)
    BY <1>3 DEF AddInstance
  <2> QED BY <1>1, <1>2, <2>1, DetachType DEF AddInstance, TypeOK
<1>4. CASE ~Known(n)
  BY <1>1, <1>2, <1>4 DEF AddInstance, TypeOK
<1> QED BY <1>3, <1>4

\* "rm_instance" keeps store and log well-formed.
LEMMA RemoveInstanceType ==
  ASSUME TypeOK, NEW n \in Names, RemoveInstance(n)
  PROVE  TypeOK'
<1>1. device' \in [Names -> Ids \cup {None}]
  BY DEF RemoveInstance, TypeOK
<1>2. IsLog(deviceLog', Names, BOOLEAN)
  BY LoggedType, PresenceType DEF RemoveInstance, TypeOK
<1> QED BY <1>1, <1>2, DetachType DEF RemoveInstance, TypeOK

\* "clear_instances" keeps store and log well-formed.
LEMMA ClearInstancesType ==
  ASSUME TypeOK, ClearInstances
  PROVE  TypeOK'
<1>1. IsLog(deviceLog', Names, BOOLEAN)
  BY LoggedType, PresenceType DEF ClearInstances, TypeOK
<1> QED BY <1>1 DEF ClearInstances, TypeOK

\* "set" and "update" keep store and log well-formed: what gets into the store
\* is well-typed, and what selects a path is in range.
LEMMA SetElementValuesType ==
  ASSUME TypeOK, NEW d \in Names, NEW e \in Elems, NEW kv \in ValueMaps,
         NEW r \in BOOLEAN, SetElementValues(d, e, kv, r)
  PROVE  TypeOK'
<1> DEFINE reset == IF r THEN Held(SlotsOf(d, e)) ELSE {}
           given == {s \in SlotsOf(d, e) : /\ s.param \in DOMAIN kv
                                           /\ kv[s.param] # Malformed}
           kept == Forget(reset)
           floated == FloatAfter(reset)
           chosen == {s \in given : IsSelector(s) /\ kv[s.param] \in Choices}
           resetEntries == [k \in {UnqualifiedKey(s) : s \in reset} |->
                         [orig |-> value[[dev |-> d, elem |-> e, param |-> k.param]],
                          cur  |-> Void]]
           givenEntries == [s \in given |-> [orig |-> kept[s], cur |-> kv[s.param]]]
<1>1. /\ kept \in [Slot -> Values \cup {Void}]
      /\ floated \in [Names -> [Elems -> Choices \cup {Floating}]]
  BY ForgetType
<1>2. given \subseteq Slot /\ reset \subseteq Slot
  BY DEF SlotsOf, Held
<1>3. \A s \in given : kv[s.param] \in Values
  BY DEF ValueMaps
<1>4. value' \in [Slot -> Values \cup {Void}]
  BY <1>1, <1>3 DEF SetElementValues
<1>5. selected' \in [Names -> [Elems -> Choices \cup {Floating}]]
  <2>1. CASE chosen = {}
    BY <1>1, <2>1 DEF SetElementValues
  <2>2. CASE chosen # {}
    <3>1. PICK s \in chosen : TRUE
      BY <2>2
    <3>2. kv[SelectorOf[device[d]][e]] \in Choices
      <4>1. /\ s.dev = d /\ s.elem = e /\ kv[s.param] \in Choices
            /\ SelectorOf[device[s.dev]][s.elem] = s.param
        BY <3>1 DEF IsSelector, SlotsOf
      <4> QED BY <4>1
    <3>3. selected' = [floated EXCEPT ![d][e] = kv[SelectorOf[device[d]][e]]]
      BY <2>2 DEF SetElementValues
    <3> HIDE DEF floated, chosen
    <3> QED BY <1>1, <3>2, <3>3
  <2> QED BY <2>1, <2>2
<1>6. IsLog(resetEntries, ValueKey, Values \cup {Void})
  <2> DEFINE Keys == {UnqualifiedKey(s) : s \in reset}
  <2>1. Keys \subseteq [elem: Elems, param: Params]
    BY <1>2 DEF UnqualifiedKey, Slot
  <2>2. \A k \in Keys : value[[dev |-> d, elem |-> e, param |-> k.param]]
                          \in Values \cup {Void}
    BY <2>1 DEF Slot, TypeOK
  <2> HIDE DEF Keys
  <2>3. [k \in Keys |-> [orig |-> value[[dev |-> d, elem |-> e, param |-> k.param]],
                         cur |-> Void]]
          \in [Keys -> [orig: Values \cup {Void}, cur: Values \cup {Void}]]
    BY <2>2
  <2> QED BY <2>1, <2>3 DEF IsLog, ValueKey, Keys
<1>7. IsLog(givenEntries, ValueKey, Values \cup {Void})
  <2> HIDE DEF given, kept
  <2> QED BY <1>1, <1>2, <1>3 DEF IsLog, ValueKey
<1>8. IsLog(valueLog', ValueKey, Values \cup {Void})
  <2>1. valueLog' = Logged(Logged(valueLog, resetEntries), givenEntries)
    BY DEF SetElementValues
  <2>2. IsLog(valueLog, ValueKey, Values \cup {Void})
    BY DEF TypeOK
  <2> HIDE DEF resetEntries, givenEntries
  <2>3. IsLog(Logged(valueLog, resetEntries), ValueKey, Values \cup {Void})
    BY <1>6, <2>2, LoggedType
  <2> QED BY <1>7, <2>1, <2>3, LoggedType
<1>9. UNCHANGED <<device, conns, deviceLog, connLog, status, base>>
  BY DEF SetElementValues
<1> QED BY <1>4, <1>5, <1>8, <1>9 DEF TypeOK

\* "unset" keeps store and log well-formed.
LEMMA ClearElementValueType ==
  ASSUME TypeOK, NEW d \in Names, NEW e \in Elems, NEW p \in Params,
         ClearElementValue(d, e, p)
  PROVE  TypeOK'
<1> DEFINE s == [dev |-> d, elem |-> e, param |-> p]
           cleared == Reset([k \in {ElementKey(s)} |-> value[s]])
<1>1. IsLog(cleared, ValueKey, Values \cup {Void})
  <2>1. ElementKey(s) \in ValueKey
    BY DEF ElementKey, ValueKey
  <2>2. value[s] \in Values \cup {Void}
    BY DEF TypeOK, Slot
  <2> HIDE DEF s
  <2> QED BY <2>1, <2>2 DEF IsLog, Reset
<1>2. IsLog(valueLog', ValueKey, Values \cup {Void})
  BY <1>1, LoggedType DEF ClearElementValue, TypeOK
<1> QED BY <1>2, ForgetType DEF ClearElementValue, TypeOK

\* "unset_all" keeps store and log well-formed.
LEMMA ClearElementValuesType ==
  ASSUME TypeOK, NEW d \in Names, NEW e \in Elems, ClearElementValues(d, e)
  PROVE  TypeOK'
<1>1. SlotsOf(d, e) \in SUBSET Slot
  BY DEF SlotsOf
<1>2. IsLog(valueLog', ValueKey, Values \cup {Void})
  BY <1>1, LoggedType, ForgottenType DEF ClearElementValues, TypeOK
<1> QED BY <1>2, ForgetType DEF ClearElementValues, TypeOK

\* "connect" keeps store and log well-formed.
LEMMA AddConnectionType ==
  ASSUME TypeOK, NEW c \in Connection, AddConnection(c)
  PROVE  TypeOK'
<1>1. IsLog(connLog', Connection, BOOLEAN)
  BY LoggedType, PresenceType DEF AddConnection, TypeOK
<1> QED BY <1>1 DEF AddConnection, TypeOK

\* "disconnect" keeps store and log well-formed, for any filter.
LEMMA RemoveConnectionsType ==
  ASSUME TypeOK, NEW f \in Filter, RemoveConnections(f)
  PROVE  TypeOK'
<1>1. Doomed(f) \in SUBSET Connection
  BY DEF Doomed, TypeOK
<1>2. IsLog(connLog', Connection, BOOLEAN)
  BY <1>1, LoggedType, PresenceType DEF RemoveConnections, TypeOK
<1> QED BY <1>2 DEF RemoveConnections, TypeOK

\* Begin, failure and end of a batch, and the loss of DCPD, keep store and
\* log well-formed.
LEMMA BatchType ==
  ASSUME TypeOK, BeginUpdate \/ Fail \/ ExtractChanges \/ Clear
  PROVE  TypeOK'
<1>1. CASE BeginUpdate
  BY <1>1 DEF BeginUpdate, TypeOK, store, log
<1>2. CASE Fail
  BY <1>2 DEF Fail, TypeOK, store, log
<1>3. CASE ExtractChanges
  BY <1>3, EmptyLogType DEF ExtractChanges, TypeOK, store
<1>4. CASE Clear
  BY <1>4 DEF Clear, TypeOK, log
<1> QED BY <1>1, <1>2, <1>3, <1>4

\* Every operation keeps the store and its log well-formed, whatever the
\* batches contain.
THEOREM TypeCorrect == Spec => []TypeOK
<1>1. TypeOK /\ [Next]_vars => TypeOK'
  <2> SUFFICES ASSUME TypeOK, [Next]_vars PROVE TypeOK'
    OBVIOUS
  <2>1. CASE BeginUpdate \/ MalformedChange \/ ExtractChanges \/ Clear
    BY <2>1, BatchType DEF MalformedChange
  <2>2. CASE InstanceStep
    <3>1. CASE ClearInstances
      BY <3>1, ClearInstancesType
    <3>2. CASE \E n \in Names, id \in Ids : AddInstance(n, id)
      BY <3>2, AddInstanceType
    <3>3. CASE \E n \in Names : RemoveInstance(n) \/ RemoveUnknownInstance(n)
      BY <3>3, RemoveInstanceType, BatchType DEF RemoveUnknownInstance
    <3> QED BY <2>2, <3>1, <3>2, <3>3 DEF InstanceStep
  <2>3. CASE ValueStep
    <3> PICK d \in Names, e \in Elems :
          \/ \E kv \in ValueMaps, r \in BOOLEAN : SetElementValues(d, e, kv, r)
          \/ \E p \in Params : ClearElementValue(d, e, p) \/ ClearAbsentValue(d, e, p)
          \/ ClearElementValues(d, e)
          \/ ValuesOfUnknownDevice(d)
      BY <2>3 DEF ValueStep
    <3>1. CASE \E kv \in ValueMaps, r \in BOOLEAN : SetElementValues(d, e, kv, r)
      BY <3>1, SetElementValuesType
    <3>2. CASE \E p \in Params : ClearElementValue(d, e, p)
      BY <3>2, ClearElementValueType
    <3>3. CASE ClearElementValues(d, e)
      BY <3>3, ClearElementValuesType
    <3>4. CASE (\E p \in Params : ClearAbsentValue(d, e, p)) \/ ValuesOfUnknownDevice(d)
      BY <3>4, BatchType DEF ClearAbsentValue, ValuesOfUnknownDevice
    <3> QED BY <3>1, <3>2, <3>3, <3>4
  <2>4. CASE ConnectionStep
    <3>1. CASE \E c \in Connection : AddConnection(c)
      BY <3>1, AddConnectionType
    <3>2. CASE \E f \in Filter : RemoveConnections(f)
      BY <3>2, RemoveConnectionsType
    <3>3. CASE \/ \E c \in Connection : AddUnknownConnection(c)
               \/ \E f \in Filter : RemoveUnknownConnections(f)
      BY <3>3, BatchType DEF AddUnknownConnection, RemoveUnknownConnections
    <3> QED BY <2>4, <3>1, <3>2, <3>3 DEF ConnectionStep
  <2>5. CASE UNCHANGED vars
    BY <2>5 DEF vars, store, log, TypeOK
  <2> QED BY <2>1, <2>2, <2>3, <2>4, <2>5 DEF Next
<1> QED BY <1>1, InitType, PTL DEF Spec

(***************************************************************************)
(* Connections                                                             *)
(***************************************************************************)
\* Steps that neither touch the devices nor make a connection.
LEMMA FewerConnections ==
  ASSUME NoDanglingConnections, conns' \subseteq conns, UNCHANGED device
  PROVE  NoDanglingConnections'
BY DEF NoDanglingConnections, Known

\* When a device goes, its connections in both directions go with it.
LEMMA DetachKeepsEnds ==
  ASSUME TypeOK, NoDanglingConnections, NEW n \in Names, NEW id \in Ids \cup {None},
         Detach(n), device' = [device EXCEPT ![n] = id]
  PROVE  NoDanglingConnections'
<1> SUFFICES ASSUME NEW c \in conns' PROVE device'[c.from] # None /\ device'[c.to] # None
  BY DEF NoDanglingConnections, Known
<1>1. c \in conns /\ c.from # n /\ c.to # n
  BY DEF Detach, Touching
<1>2. c.from \in Names /\ c.to \in Names
  BY <1>1 DEF TypeOK, Connection
<1>3. device[c.from] # None /\ device[c.to] # None
  BY <1>1 DEF NoDanglingConnections, Known
<1> QED BY <1>1, <1>2, <1>3 DEF TypeOK

\* Adding, replacing and removing devices leaves no connection without ends.
LEMMA InstanceStepKeepsEnds ==
  ASSUME TypeOK, NoDanglingConnections, InstanceStep
  PROVE  NoDanglingConnections'
<1>1. CASE ClearInstances
  BY <1>1 DEF ClearInstances, NoDanglingConnections
<1>2. ASSUME NEW n \in Names, NEW id \in Ids, AddInstance(n, id)
      PROVE  NoDanglingConnections'
  <2>1. CASE Known(n)
    BY <1>2, <2>1, DetachKeepsEnds DEF AddInstance
  <2>2. CASE ~Known(n)
    <3>1. conns' = conns /\ device' = [device EXCEPT ![n] = id]
      BY <1>2, <2>2 DEF AddInstance
    <3>2. id # None
      BY ConstantsAssumption
    <3> QED BY <3>1, <3>2 DEF NoDanglingConnections, Known, TypeOK, Connection
  <2> QED BY <2>1, <2>2
<1>3. ASSUME NEW n \in Names, RemoveInstance(n)
      PROVE  NoDanglingConnections'
  BY <1>3, DetachKeepsEnds DEF RemoveInstance
<1>4. ASSUME NEW n \in Names, RemoveUnknownInstance(n)
      PROVE  NoDanglingConnections'
  BY <1>4, FewerConnections DEF RemoveUnknownInstance, Fail, store
<1> QED BY <1>1, <1>2, <1>3, <1>4 DEF InstanceStep

\* Connections are made between known devices only.
LEMMA ConnectionStepKeepsEnds ==
  ASSUME TypeOK, NoDanglingConnections, ConnectionStep
  PROVE  NoDanglingConnections'
<1>1. ASSUME NEW c \in Connection, AddConnection(c)
      PROVE  NoDanglingConnections'
  BY <1>1 DEF AddConnection, NoDanglingConnections, Known
<1>2. ASSUME NEW f \in Filter, RemoveConnections(f)
      PROVE  NoDanglingConnections'
  BY <1>2, FewerConnections DEF RemoveConnections
<1>3. ASSUME Fail PROVE NoDanglingConnections'
  BY <1>3, FewerConnections DEF Fail, store
<1> QED BY <1>1, <1>2, <1>3
        DEF ConnectionStep, AddUnknownConnection, RemoveUnknownConnections

\* Operations on values touch neither devices nor connections.
LEMMA ValueStepKeepsConnections ==
  ASSUME ValueStep
  PROVE  UNCHANGED <<conns, device>>
<1> PICK d \in Names, e \in Elems :
      \/ \E kv \in ValueMaps, r \in BOOLEAN : SetElementValues(d, e, kv, r)
      \/ \E p \in Params : ClearElementValue(d, e, p) \/ ClearAbsentValue(d, e, p)
      \/ ClearElementValues(d, e)
      \/ ValuesOfUnknownDevice(d)
  BY DEF ValueStep
<1>1. ASSUME NEW kv, NEW r, SetElementValues(d, e, kv, r)
      PROVE  UNCHANGED <<conns, device>>
  BY <1>1 DEF SetElementValues
<1>2. ASSUME NEW p, ClearElementValue(d, e, p)
      PROVE  UNCHANGED <<conns, device>>
  BY <1>2 DEF ClearElementValue
<1>3. ASSUME ClearElementValues(d, e) PROVE UNCHANGED <<conns, device>>
  BY <1>3 DEF ClearElementValues
<1>4. ASSUME Fail PROVE UNCHANGED <<conns, device>>
  BY <1>4 DEF Fail, store
<1> QED BY <1>1, <1>2, <1>3, <1>4 DEF ClearAbsentValue, ValuesOfUnknownDevice

\* No sequence of batches, failed or not, leaves a connection behind whose
\* device is gone: the assumption under which compound signal paths are
\* followed from device to device.
THEOREM ConnectionsHaveEnds == Spec => []NoDanglingConnections
<1>1. Init => NoDanglingConnections
  BY DEF Init, NoDanglingConnections
<1>2. TypeOK /\ NoDanglingConnections /\ [Next]_vars => NoDanglingConnections'
  <2> SUFFICES ASSUME TypeOK, NoDanglingConnections, [Next]_vars
               PROVE  NoDanglingConnections'
    OBVIOUS
  <2>1. CASE BeginUpdate \/ MalformedChange \/ ExtractChanges
    BY <2>1, FewerConnections DEF BeginUpdate, MalformedChange, Fail, ExtractChanges, store
  <2>2. CASE Clear
    BY <2>2 DEF Clear, NoDanglingConnections
  <2>3. CASE InstanceStep
    BY <2>3, InstanceStepKeepsEnds
  <2>4. CASE ValueStep
    BY <2>4, ValueStepKeepsConnections, FewerConnections
  <2>5. CASE ConnectionStep
    BY <2>5, ConnectionStepKeepsEnds
  <2>6. CASE UNCHANGED vars
    BY <2>6, FewerConnections DEF vars, store
  <2> QED BY <2>1, <2>2, <2>3, <2>4, <2>5, <2>6 DEF Next
<1> QED BY <1>1, <1>2, TypeCorrect, PTL DEF Spec

(***************************************************************************)
(* Values and positions of selectors                                       *)
(***************************************************************************)
StoreIsConsistent ==
  /\ NoLeftovers
  /\ TrackerFollowsValues
  /\ OnlySelectorsArePositioned

\* Forgetting any values keeps the positions of selectors in step with the
\* values that are left.
LEMMA ForgetFollows ==
  ASSUME TypeOK, StoreIsConsistent, NEW S \in SUBSET Slot, NEW s \in Slot, IsSelector(s)
  PROVE  /\ Forget(S)[s] = Void => FloatAfter(S)[s.dev][s.elem] = Floating
         /\ Forget(S)[s] \in Choices => FloatAfter(S)[s.dev][s.elem] = Forget(S)[s]
<1>1. s.dev \in Names /\ s.elem \in Elems /\ Void \notin Choices
  BY ConstantsAssumption DEF Slot
<1>2. CASE s \in Held(S)
  <2>1. Forget(S)[s] = Void /\ FloatAfter(S)[s.dev][s.elem] = Floating
    BY <1>1, <1>2 DEF Forget, FloatAfter, Held
  <2> QED BY <2>1, <1>1
<1>3. CASE s \notin Held(S)
  <2>1. Forget(S)[s] = value[s]
    BY <1>3 DEF Forget, Held
  <2>2. \A t \in Held(S) : ~(t.dev = s.dev /\ t.elem = s.elem /\ IsSelector(t))
    <3> SUFFICES ASSUME NEW t \in Held(S), t.dev = s.dev, t.elem = s.elem, IsSelector(t)
                 PROVE  t = s
      BY <1>3
    <3>1. t.param = s.param
      BY DEF IsSelector
    <3> QED BY <3>1 DEF Held, Slot
  <2>3. FloatAfter(S)[s.dev][s.elem] = selected[s.dev][s.elem]
    BY <1>1, <2>2 DEF FloatAfter
  <2> QED BY <2>1, <2>3 DEF StoreIsConsistent, TrackerFollowsValues
<1> QED BY <1>2, <1>3

\* "unset" and "unset_all" forget values, and nothing else.
LEMMA ForgetKeepsConsistency ==
  ASSUME TypeOK, StoreIsConsistent, NEW S \in SUBSET Slot,
         value' = Forget(S), selected' = FloatAfter(S), UNCHANGED device
  PROVE  StoreIsConsistent'
<1>1. NoLeftovers'
  BY DEF StoreIsConsistent, NoLeftovers, Forget, FloatAfter, Known, Slot
<1>2. TrackerFollowsValues'
  BY ForgetFollows DEF TrackerFollowsValues, IsSelector, Known
<1>3. OnlySelectorsArePositioned'
  BY DEF StoreIsConsistent, OnlySelectorsArePositioned, FloatAfter, IsSelector, Known
<1> QED BY <1>1, <1>2, <1>3 DEF StoreIsConsistent

\* A store which knows no values and no positions is consistent, whatever
\* devices there are.
LEMMA NothingKnownIsConsistent ==
  ASSUME value' = [s \in Slot |-> Void],
         selected' = [n \in Names |-> [e \in Elems |-> Floating]]
  PROVE  StoreIsConsistent'
<1>1. Void \notin Choices
  BY ConstantsAssumption
<1>2. \A s \in Slot : s.dev \in Names /\ s.elem \in Elems
  BY DEF Slot
<1> QED BY <1>1, <1>2 DEF StoreIsConsistent, NoLeftovers, TrackerFollowsValues,
                          OnlySelectorsArePositioned

\* As all values are forgotten with a device, all selectors float.
LEMMA DetachFloatsAll ==
  ASSUME TypeOK, StoreIsConsistent, NEW n \in Names, Detach(n)
  PROVE  /\ value' = [s \in Slot |-> Void]
         /\ selected' = [d \in Names |-> [e \in Elems |-> Floating]]
<1>1. value' = [s \in Slot |-> Void]
  BY DEF Detach, Forget
<1>2. ASSUME NEW d \in Names, NEW e \in Elems
      PROVE  FloatAfter(Slot)[d][e] = Floating
  <2>1. CASE selected[d][e] = Floating
    BY <2>1 DEF FloatAfter
  <2>2. CASE selected[d][e] # Floating
    <3>1. PICK p \in Params : IsSelector([dev |-> d, elem |-> e, param |-> p])
      BY <2>2 DEF StoreIsConsistent, OnlySelectorsArePositioned
    <3> DEFINE s == [dev |-> d, elem |-> e, param |-> p]
    <3>2. s \in Slot /\ s.dev = d /\ s.elem = e
      BY DEF Slot
    <3>3. value[s] # Void
      BY <2>2, <3>1, <3>2 DEF StoreIsConsistent, TrackerFollowsValues
    <3>4. s \in Held(Slot)
      BY <3>2, <3>3 DEF Held
    <3> HIDE DEF s
    <3> QED BY <3>1, <3>2, <3>4 DEF FloatAfter, s
  <2> QED BY <2>1, <2>2
<1>3. selected' = [d \in Names |-> [e \in Elems |-> Floating]]
  <2>1. selected' = [FloatAfter(Slot) EXCEPT ![n] = [e \in Elems |-> Floating]]
    BY DEF Detach
  <2>2. FloatAfter(Slot) = [d \in Names |-> [e \in Elems |-> Floating]]
    BY <1>2 DEF FloatAfter
  <2> QED BY <2>1, <2>2
<1> QED BY <1>1, <1>3

\* Devices come and go without leftovers.
LEMMA InstanceStepKeepsConsistency ==
  ASSUME TypeOK, StoreIsConsistent, InstanceStep
  PROVE  StoreIsConsistent'
<1>1. CASE ClearInstances
  BY <1>1, NothingKnownIsConsistent DEF ClearInstances
<1>2. ASSUME NEW n \in Names, NEW id \in Ids, AddInstance(n, id)
      PROVE  StoreIsConsistent'
  <2>1. CASE Known(n)
    BY <1>2, <2>1, DetachFloatsAll, NothingKnownIsConsistent DEF AddInstance
  <2>2. CASE ~Known(n)
    <3>1. UNCHANGED <<value, selected>> /\ device' = [device EXCEPT ![n] = id]
      BY <1>2, <2>2 DEF AddInstance
    <3>2. id # None /\ Void \notin Choices
      BY ConstantsAssumption
    <3>3. \A d \in Names : d # n => device'[d] = device[d]
      BY <3>1 DEF TypeOK
    <3>4. device'[n] = id
      BY <3>1 DEF TypeOK
    <3>5. \A s \in Slot : s.dev \in Names /\ s.elem \in Elems
      BY DEF Slot
    <3>6. \A s \in Slot : s.dev = n => value[s] = Void /\ selected[n][s.elem] = Floating
      BY <2>2 DEF StoreIsConsistent, NoLeftovers
    <3>7. NoLeftovers'
      BY <3>1, <3>2, <3>3, <3>4, <3>5 DEF StoreIsConsistent, NoLeftovers, Known
    <3>8. TrackerFollowsValues'
      <4> SUFFICES ASSUME NEW s \in Slot, IsSelector(s)'
                   PROVE  /\ value[s] = Void => selected[s.dev][s.elem] = Floating
                          /\ value[s] \in Choices => selected[s.dev][s.elem] = value[s]
        BY <3>1 DEF TrackerFollowsValues
      <4>1. CASE s.dev = n
        BY <4>1, <3>2, <3>6
      <4>2. CASE s.dev # n
        BY <4>2, <3>3, <3>5 DEF StoreIsConsistent, TrackerFollowsValues, IsSelector, Known
      <4> QED BY <4>1, <4>2
    <3>9. OnlySelectorsArePositioned'
      <4> SUFFICES ASSUME NEW d \in Names, NEW e \in Elems, selected[d][e] # Floating
                   PROVE  \E p \in Params : IsSelector([dev |-> d, elem |-> e, param |-> p])'
        BY <3>1 DEF OnlySelectorsArePositioned
      <4>1. PICK p \in Params : IsSelector([dev |-> d, elem |-> e, param |-> p])
        BY DEF StoreIsConsistent, OnlySelectorsArePositioned
      <4>2. d # n
        BY <2>2, <4>1 DEF IsSelector
      <4> QED BY <4>1, <4>2, <3>3 DEF IsSelector, Known
    <3> QED BY <3>7, <3>8, <3>9 DEF StoreIsConsistent
  <2> QED BY <2>1, <2>2
<1>3. ASSUME NEW n \in Names, RemoveInstance(n)
      PROVE  StoreIsConsistent'
  BY <1>3, DetachFloatsAll, NothingKnownIsConsistent DEF RemoveInstance
<1>4. ASSUME Fail PROVE StoreIsConsistent'
  BY <1>4 DEF Fail, store, StoreIsConsistent, NoLeftovers, TrackerFollowsValues,
              OnlySelectorsArePositioned, IsSelector, Known
<1> QED BY <1>1, <1>2, <1>3, <1>4 DEF InstanceStep, RemoveUnknownInstance

\* "set" and "update": the position of a selector changes with its value if
\* the new value is in range, and the other elements are left alone.
LEMMA SetElementValuesKeepsConsistency ==
  ASSUME TypeOK, StoreIsConsistent, NEW d \in Names, NEW e \in Elems,
         NEW kv \in ValueMaps, NEW r \in BOOLEAN, SetElementValues(d, e, kv, r)
  PROVE  StoreIsConsistent'
<1> DEFINE reset == IF r THEN Held(SlotsOf(d, e)) ELSE {}
           given == {s \in SlotsOf(d, e) : /\ s.param \in DOMAIN kv
                                           /\ kv[s.param] # Malformed}
           kept == Forget(reset)
           floated == FloatAfter(reset)
           chosen == {s \in given : IsSelector(s) /\ kv[s.param] \in Choices}
           position == kv[SelectorOf[device[d]][e]]
<1>1. /\ value' = [s \in Slot |-> IF s \in given THEN kv[s.param] ELSE kept[s]]
      /\ selected' = IF chosen = {} THEN floated ELSE [floated EXCEPT ![d][e] = position]
      /\ Known(d)
      /\ UNCHANGED device
  BY DEF SetElementValues
<1>2. \A s \in given : /\ s \in Slot /\ s.dev = d /\ s.elem = e
                       /\ kv[s.param] \in Values
  BY DEF ValueMaps, SlotsOf
<1>3. reset \in SUBSET Slot
  BY DEF SlotsOf, Held
<1>4. floated \in [Names -> [Elems -> Choices \cup {Floating}]]
  BY ForgetType
<1>5. /\ Void \notin Values /\ Choices \subseteq Values
      /\ \A s \in Slot : s.dev \in Names /\ s.elem \in Elems
  BY ConstantsAssumption DEF Slot
<1>6. \A s \in chosen : position = kv[s.param] /\ IsSelector(s)
  BY <1>2 DEF IsSelector
<1>7. \A s \in Slot : IsSelector(s) => /\ kept[s] = Void => floated[s.dev][s.elem] = Floating
                                       /\ kept[s] \in Choices => floated[s.dev][s.elem] = kept[s]
  BY <1>3, ForgetFollows
<1>8. \A x \in Names, y \in Elems :
        floated[x][y] # Floating => selected[x][y] # Floating
  BY DEF FloatAfter
<1>9. \A x \in Names, y \in Elems :
        (x # d \/ y # e \/ chosen = {}) => selected'[x][y] = floated[x][y]
  <2> HIDE DEF floated, chosen, position
  <2> QED BY <1>1, <1>4
<1>10. chosen # {} => selected'[d][e] = position
  <2> HIDE DEF floated, chosen, position
  <2> QED BY <1>1, <1>4
<1>11. NoLeftovers'
  <2> SUFFICES ASSUME NEW s \in Slot, ~Known(s.dev)
               PROVE  value'[s] = Void /\ selected'[s.dev][s.elem] = Floating
    BY <1>1 DEF NoLeftovers, Known
  <2>1. s.dev # d /\ s \notin given
    BY <1>1, <1>2
  <2>2. value[s] = Void /\ selected[s.dev][s.elem] = Floating
    BY DEF StoreIsConsistent, NoLeftovers
  <2>3. value'[s] = Void
    BY <1>1, <2>1, <2>2 DEF Forget
  <2> HIDE DEF floated
  <2> QED BY <1>5, <1>8, <1>9, <2>1, <2>2, <2>3
<1>12. TrackerFollowsValues'
  <2> SUFFICES ASSUME NEW s \in Slot, IsSelector(s)
               PROVE  /\ value'[s] = Void => selected'[s.dev][s.elem] = Floating
                      /\ value'[s] \in Choices => selected'[s.dev][s.elem] = value'[s]
    BY <1>1 DEF TrackerFollowsValues, IsSelector, Known
  <2>1. CASE s \in given
    <3>1. value'[s] = kv[s.param] /\ value'[s] # Void
      BY <1>1, <1>2, <1>5, <2>1
    <3>2. kv[s.param] \in Choices => s \in chosen
      BY <2>1
    <3> HIDE DEF chosen, position, given
    <3> QED BY <1>2, <1>6, <1>10, <2>1, <3>1, <3>2
  <2>2. CASE s \notin given
    <3>1. value'[s] = kept[s]
      BY <1>1, <2>2
    <3>2. s.dev # d \/ s.elem # e \/ chosen = {}
      <4> SUFFICES ASSUME s.dev = d, s.elem = e, NEW t \in chosen PROVE FALSE
        OBVIOUS
      <4>1. t \in given /\ t \in Slot /\ t.dev = d /\ t.elem = e /\ IsSelector(t)
        BY <1>2
      <4>2. t.param = s.param
        BY <4>1 DEF IsSelector
      <4>3. t = s
        BY <4>1, <4>2 DEF Slot
      <4> QED BY <2>2, <4>1, <4>3
    <3> HIDE DEF chosen, floated, kept, given
    <3> QED BY <1>5, <1>7, <1>9, <3>1, <3>2
  <2> QED BY <2>1, <2>2
<1>13. OnlySelectorsArePositioned'
  <2> SUFFICES ASSUME NEW x \in Names, NEW y \in Elems, selected'[x][y] # Floating
               PROVE  \E p \in Params : IsSelector([dev |-> x, elem |-> y, param |-> p])
    BY <1>1 DEF OnlySelectorsArePositioned, IsSelector, Known
  <2>1. CASE x # d \/ y # e \/ chosen = {}
    <3>1. selected[x][y] # Floating
      BY <1>8, <1>9, <2>1
    <3> QED BY <3>1 DEF StoreIsConsistent, OnlySelectorsArePositioned
  <2>2. CASE x = d /\ y = e /\ chosen # {}
    <3>1. PICK s \in chosen : TRUE
      BY <2>2
    <3>2. s \in Slot /\ s.dev = d /\ s.elem = e /\ IsSelector(s)
      BY <1>2, <3>1
    <3>3. s.param \in Params /\ s = [dev |-> x, elem |-> y, param |-> s.param]
      BY <2>2, <3>2 DEF Slot
    <3> QED BY <3>2, <3>3
  <2> QED BY <2>1, <2>2
<1> QED BY <1>11, <1>12, <1>13 DEF StoreIsConsistent

\* Operations on values keep values and positions together.
LEMMA ValueStepKeepsConsistency ==
  ASSUME TypeOK, StoreIsConsistent, ValueStep
  PROVE  StoreIsConsistent'
<1> PICK d \in Names, e \in Elems :
      \/ \E kv \in ValueMaps, r \in BOOLEAN : SetElementValues(d, e, kv, r)
      \/ \E p \in Params : ClearElementValue(d, e, p) \/ ClearAbsentValue(d, e, p)
      \/ ClearElementValues(d, e)
      \/ ValuesOfUnknownDevice(d)
  BY DEF ValueStep
<1>1. CASE \E kv \in ValueMaps, r \in BOOLEAN : SetElementValues(d, e, kv, r)
  BY <1>1, SetElementValuesKeepsConsistency
<1>2. ASSUME NEW p \in Params, ClearElementValue(d, e, p)
      PROVE  StoreIsConsistent'
  <2>1. {[dev |-> d, elem |-> e, param |-> p]} \in SUBSET Slot
    BY DEF Slot
  <2> QED BY <1>2, <2>1, ForgetKeepsConsistency DEF ClearElementValue
<1>3. CASE ClearElementValues(d, e)
  <2>1. SlotsOf(d, e) \in SUBSET Slot
    BY DEF SlotsOf
  <2> QED BY <1>3, <2>1, ForgetKeepsConsistency DEF ClearElementValues
<1>4. ASSUME Fail PROVE StoreIsConsistent'
  BY <1>4 DEF Fail, store, StoreIsConsistent, NoLeftovers, TrackerFollowsValues,
              OnlySelectorsArePositioned, IsSelector, Known
<1> QED BY <1>1, <1>2, <1>3, <1>4 DEF ClearAbsentValue, ValuesOfUnknownDevice

\* The positions of the selectors, by which active signal paths are found,
\* agree with the stored values (short of values out of range), and nothing
\* is left of a device that has gone, after any sequence of batches.
THEOREM ConsistentStore == Spec => []StoreIsConsistent
<1>1. Init => StoreIsConsistent
  <2> SUFFICES ASSUME Init PROVE StoreIsConsistent
    OBVIOUS
  <2>1. Void \notin Choices
    BY ConstantsAssumption
  <2>2. \A s \in Slot : s.dev \in Names /\ s.elem \in Elems
    BY DEF Slot
  <2> QED BY <2>1, <2>2 DEF Init, StoreIsConsistent, NoLeftovers,
                            TrackerFollowsValues, OnlySelectorsArePositioned
<1>2. TypeOK /\ StoreIsConsistent /\ [Next]_vars => StoreIsConsistent'
  <2> SUFFICES ASSUME TypeOK, StoreIsConsistent, [Next]_vars
               PROVE  StoreIsConsistent'
    OBVIOUS
  <2>1. CASE UNCHANGED store
    BY <2>1 DEF store, StoreIsConsistent, NoLeftovers, TrackerFollowsValues,
                OnlySelectorsArePositioned, IsSelector, Known
  <2>2. CASE BeginUpdate \/ MalformedChange \/ ExtractChanges \/ UNCHANGED vars
    BY <2>1, <2>2 DEF BeginUpdate, MalformedChange, Fail, ExtractChanges, vars
  <2>3. CASE Clear
    BY <2>3, NothingKnownIsConsistent DEF Clear
  <2>4. CASE InstanceStep
    BY <2>4, InstanceStepKeepsConsistency
  <2>5. CASE ValueStep
    BY <2>5, ValueStepKeepsConsistency
  <2>6. CASE ConnectionStep
    <3>1. UNCHANGED store \/ UNCHANGED <<device, value, selected>>
      BY <2>6 DEF ConnectionStep, AddConnection, AddUnknownConnection,
                  RemoveConnections, RemoveUnknownConnections, Fail
    <3> QED BY <2>1, <3>1 DEF StoreIsConsistent, NoLeftovers, TrackerFollowsValues,
                OnlySelectorsArePositioned, IsSelector, Known
  <2> QED BY <2>2, <2>3, <2>4, <2>5, <2>6 DEF Next
<1> QED BY <1>1, <1>2, TypeCorrect, PTL DEF Spec

\* Nothing is left of a device that has gone: neither a value nor the
\* position of a selector waits for the next device of that name.
THEOREM NothingIsLeft == Spec => []NoLeftovers
<1>1. StoreIsConsistent => NoLeftovers
  BY DEF StoreIsConsistent
<1> QED BY <1>1, ConsistentStore, PTL

\* Each selector is where its value says, or floats if there is no value.
THEOREM TrackersFollow == Spec => []TrackerFollowsValues
<1>1. StoreIsConsistent => TrackerFollowsValues
  BY DEF StoreIsConsistent
<1> QED BY <1>1, ConsistentStore, PTL

\* Whatever models devices have, had, or lost by being replaced, only the
\* selectors of the present models have positions.
THEOREM SelectorsArePositioned == Spec => []OnlySelectorsArePositioned
<1>1. StoreIsConsistent => OnlySelectorsArePositioned
  BY DEF StoreIsConsistent
<1> QED BY <1>1, ConsistentStore, PTL

-----------------------------------------------------------------------------
(***************************************************************************)
(* The rest is about the change log: what the configuration store reports  *)
(* of devices, connections and values is what has become of them in the    *)
(* batch.                                                                  *)
(***************************************************************************)

(***************************************************************************)
(* Entries                                                                 *)
(***************************************************************************)
\* A log remembers the original state of each name from its first entry, and
\* the current state from its last one.
LEMMA LoggedEntries ==
  ASSUME NEW old, NEW new
  PROVE  /\ DOMAIN Logged(old, new) = DOMAIN old \cup DOMAIN new
         /\ \A k \in DOMAIN old : Logged(old, new)[k].orig = old[k].orig
         /\ \A k \in DOMAIN new \ DOMAIN old : Logged(old, new)[k].orig = new[k].orig
         /\ \A k \in DOMAIN new : Logged(old, new)[k].cur = new[k].cur
         /\ \A k \in DOMAIN old \ DOMAIN new : Logged(old, new)[k].cur = old[k].cur
BY DEF Logged

\* A log after new entries have been added to it.
IsMerged(old, new, merged) ==
  /\ DOMAIN merged = DOMAIN old \cup DOMAIN new
  /\ \A k \in DOMAIN old : merged[k].orig = old[k].orig
  /\ \A k \in DOMAIN new \ DOMAIN old : merged[k].orig = new[k].orig
  /\ \A k \in DOMAIN new : merged[k].cur = new[k].cur
  /\ \A k \in DOMAIN old \ DOMAIN new : merged[k].cur = old[k].cur

LEMMA LoggedIsMerged ==
  ASSUME NEW old, NEW new
  PROVE  IsMerged(old, new, Logged(old, new))
BY LoggedEntries DEF IsMerged

\* What has become of a log when the things in S have come, or have gone.
AddsEntries(old, S, come, new) ==
  /\ DOMAIN new = DOMAIN old \cup S
  /\ \A k \in DOMAIN old : new[k].orig = old[k].orig
  /\ \A k \in DOMAIN old \ S : new[k].cur = old[k].cur
  /\ \A k \in S \ DOMAIN old : new[k].orig <=> ~come
  /\ \A k \in S : new[k].cur <=> come

\* Logging that things have come.
LEMMA LoggedAppeared ==
  ASSUME NEW old, NEW S
  PROVE  AddsEntries(old, S, TRUE, Logged(old, Appeared(S)))
<1> DEFINE entries == Appeared(S)
           new == Logged(old, entries)
<1>1. /\ DOMAIN entries = S
      /\ \A k \in S : ~entries[k].orig /\ entries[k].cur
  BY DEF Appeared
<1>2. /\ DOMAIN new = DOMAIN old \cup DOMAIN entries
      /\ \A k \in DOMAIN old : new[k].orig = old[k].orig
      /\ \A k \in DOMAIN entries \ DOMAIN old : new[k].orig = entries[k].orig
      /\ \A k \in DOMAIN entries : new[k].cur = entries[k].cur
      /\ \A k \in DOMAIN old \ DOMAIN entries : new[k].cur = old[k].cur
  BY LoggedEntries
<1> HIDE DEF entries, new
<1>3. /\ \A k \in S \ DOMAIN old : ~new[k].orig
      /\ \A k \in S : new[k].cur
  BY <1>1, <1>2
<1>4. AddsEntries(old, S, TRUE, new)
  BY <1>1, <1>2, <1>3 DEF AddsEntries
<1> QED BY <1>4 DEF new, entries

\* Logging that things have gone.
LEMMA LoggedVanished ==
  ASSUME NEW old, NEW S
  PROVE  AddsEntries(old, S, FALSE, Logged(old, Vanished(S)))
<1> DEFINE entries == Vanished(S)
           new == Logged(old, entries)
<1>1. /\ DOMAIN entries = S
      /\ \A k \in S : entries[k].orig /\ ~entries[k].cur
  BY DEF Vanished
<1>2. /\ DOMAIN new = DOMAIN old \cup DOMAIN entries
      /\ \A k \in DOMAIN old : new[k].orig = old[k].orig
      /\ \A k \in DOMAIN entries \ DOMAIN old : new[k].orig = entries[k].orig
      /\ \A k \in DOMAIN entries : new[k].cur = entries[k].cur
      /\ \A k \in DOMAIN old \ DOMAIN entries : new[k].cur = old[k].cur
  BY LoggedEntries
<1> HIDE DEF entries, new
<1>3. /\ \A k \in S \ DOMAIN old : new[k].orig
      /\ \A k \in S : ~new[k].cur
  BY <1>1, <1>2
<1>4. AddsEntries(old, S, FALSE, new)
  BY <1>1, <1>2, <1>3 DEF AddsEntries
<1> QED BY <1>4 DEF new, entries

(***************************************************************************)
(* Devices                                                                 *)
(***************************************************************************)
\* Entries are left behind neither by a batch nor by the loss of DCPD.
LogsEmptyWhenIdle ==
  status = "idle" => /\ DOMAIN deviceLog = {}
                     /\ DOMAIN connLog = {}
                     /\ DOMAIN valueLog = {}

DeviceLogInv == LogsEmptyWhenIdle /\ DeviceLogIsExact

\* An empty log has no entries.
LEMMA EmptyLogIsEmpty == DOMAIN EmptyLog = {}
BY DEF EmptyLog

\* Steps of a batch which leave the devices alone.
LEMMA SameDevices ==
  ASSUME DeviceLogInv, status # "idle", status' # "idle",
         UNCHANGED <<device, deviceLog, base>>
  PROVE  DeviceLogInv'
BY DEF DeviceLogInv, LogsEmptyWhenIdle, DeviceLogIsExact, Known

\* A device that comes is logged as present, one that was replaced as such.
LEMMA AddInstanceIsLogged ==
  ASSUME TypeOK, DeviceLogInv, NEW n \in Names, NEW id \in Ids, AddInstance(n, id)
  PROVE  DeviceLogInv'
<1>1. status = "updating" /\ status' = "updating" /\ base' = base
  BY DEF AddInstance
<1>2. id # None
  BY ConstantsAssumption
<1>3. device' = [device EXCEPT ![n] = id]
  BY DEF AddInstance
<1>5. /\ DOMAIN deviceLog' = DOMAIN deviceLog \cup {n}
      /\ \A m \in DOMAIN deviceLog : deviceLog'[m].orig = deviceLog[m].orig
      /\ \A m \in DOMAIN deviceLog \ {n} : deviceLog'[m].cur = deviceLog[m].cur
      /\ n \notin DOMAIN deviceLog => (deviceLog'[n].orig <=> Known(n))
      /\ deviceLog'[n].cur
  <2>1. CASE Known(n)
    <3> DEFINE gone == Logged(deviceLog, Vanished({n}))
    <3>1. AddsEntries(deviceLog, {n}, FALSE, gone)
      BY LoggedVanished
    <3>2. AddsEntries(gone, {n}, TRUE, deviceLog')
      BY <2>1, LoggedAppeared DEF AddInstance
    <3> HIDE DEF gone
    <3> QED BY <2>1, <3>1, <3>2 DEF AddsEntries
  <2>2. CASE ~Known(n)
    <3>1. AddsEntries(deviceLog, {n}, TRUE, deviceLog')
      BY <2>2, LoggedAppeared DEF AddInstance
    <3> QED BY <2>2, <3>1 DEF AddsEntries
  <2> QED BY <2>1, <2>2
<1>6. deviceLog'[n].orig <=> base.device[n] # None
  BY <1>5 DEF DeviceLogInv, DeviceLogIsExact, Known
<1>7. device'[n] = id /\ \A m \in Names \ {n} : device'[m] = device[m]
  BY <1>3 DEF TypeOK
<1>8. DeviceLogIsExact'
  BY <1>1, <1>2, <1>5, <1>6, <1>7 DEF DeviceLogInv, DeviceLogIsExact, Known
<1> QED BY <1>1, <1>8 DEF DeviceLogInv, LogsEmptyWhenIdle

\* Devices that go are logged as gone, one by one or all at once.
LEMMA RemovalIsLogged ==
  ASSUME TypeOK, DeviceLogInv, NEW S \in SUBSET {n \in Names : Known(n)},
         status # "idle", UNCHANGED <<status, base>>,
         deviceLog' = Logged(deviceLog, Vanished(S)),
         device' = [n \in Names |-> IF n \in S THEN None ELSE device[n]]
  PROVE  DeviceLogInv'
<1>1. ASSUME NEW m \in Names, m \notin S
      PROVE  /\ m \in DOMAIN deviceLog' <=> m \in DOMAIN deviceLog
             /\ m \in DOMAIN deviceLog => /\ deviceLog'[m].orig = deviceLog[m].orig
                                          /\ deviceLog'[m].cur = deviceLog[m].cur
             /\ device'[m] = device[m]
  BY <1>1 DEF Logged, Vanished
<1>2. ASSUME NEW m \in S
      PROVE  /\ m \in DOMAIN deviceLog'
             /\ deviceLog'[m].cur = FALSE
             /\ deviceLog'[m].orig = IF m \in DOMAIN deviceLog THEN deviceLog[m].orig ELSE TRUE
             /\ device'[m] = None
             /\ device[m] # None
  BY DEF Logged, Vanished, Known
<1>3. ASSUME NEW m \in Names
      PROVE  IF m \in DOMAIN deviceLog
             THEN /\ deviceLog[m].orig <=> base.device[m] # None
                  /\ deviceLog[m].cur <=> device[m] # None
             ELSE device[m] = base.device[m]
  BY DEF DeviceLogInv, DeviceLogIsExact, Known
<1>4. ASSUME NEW m \in Names
      PROVE  IF m \in DOMAIN deviceLog'
             THEN /\ deviceLog'[m].orig <=> base.device[m] # None
                  /\ deviceLog'[m].cur <=> device'[m] # None
             ELSE device'[m] = base.device[m]
  <2>1. CASE m \in S
    BY <1>2, <1>3, <2>1
  <2>2. CASE m \notin S
    BY <1>1, <1>3, <2>2
  <2> QED BY <2>1, <2>2
<1>5. DeviceLogIsExact'
  BY <1>4 DEF DeviceLogIsExact, Known
<1> QED BY <1>5 DEF DeviceLogInv, LogsEmptyWhenIdle

\* The log of devices stays exact whatever happens to devices.
LEMMA InstanceStepIsLogged ==
  ASSUME TypeOK, DeviceLogInv, InstanceStep
  PROVE  DeviceLogInv'
<1>1. CASE ClearInstances
  <2>1. device' = [n \in Names |-> IF n \in {m \in Names : Known(m)} THEN None ELSE device[n]]
    BY <1>1 DEF ClearInstances, Known
  <2> QED BY <1>1, <2>1, RemovalIsLogged DEF ClearInstances
<1>2. ASSUME NEW n \in Names, NEW id \in Ids, AddInstance(n, id)
      PROVE  DeviceLogInv'
  BY <1>2, AddInstanceIsLogged
<1>3. ASSUME NEW n \in Names, RemoveInstance(n)
      PROVE  DeviceLogInv'
  <2>1. device' = [m \in Names |-> IF m \in {n} THEN None ELSE device[m]]
    BY <1>3 DEF RemoveInstance, TypeOK
  <2> QED BY <1>3, <2>1, RemovalIsLogged DEF RemoveInstance
<1>4. ASSUME Fail PROVE DeviceLogInv'
  BY <1>4, SameDevices DEF Fail, store, log
<1> QED BY <1>1, <1>2, <1>3, <1>4 DEF InstanceStep, RemoveUnknownInstance

\* Operations on values leave devices and connections and their logs alone.
LEMMA ValueStepFrame ==
  ASSUME ValueStep
  PROVE  /\ status = "updating" /\ status' \in {"updating", "failed"}
         /\ UNCHANGED <<device, conns, deviceLog, connLog, base>>
<1> PICK d \in Names, e \in Elems :
      \/ \E kv \in ValueMaps, r \in BOOLEAN : SetElementValues(d, e, kv, r)
      \/ \E p \in Params : ClearElementValue(d, e, p) \/ ClearAbsentValue(d, e, p)
      \/ ClearElementValues(d, e)
      \/ ValuesOfUnknownDevice(d)
  BY DEF ValueStep
<1>1. ASSUME NEW kv, NEW r, SetElementValues(d, e, kv, r)
      PROVE  /\ status = "updating" /\ status' = "updating"
             /\ UNCHANGED <<device, conns, deviceLog, connLog, base>>
  BY <1>1 DEF SetElementValues
<1>2. ASSUME NEW p, ClearElementValue(d, e, p)
      PROVE  /\ status = "updating" /\ status' = "updating"
             /\ UNCHANGED <<device, conns, deviceLog, connLog, base>>
  BY <1>2 DEF ClearElementValue
<1>3. ASSUME ClearElementValues(d, e)
      PROVE  /\ status = "updating" /\ status' = "updating"
             /\ UNCHANGED <<device, conns, deviceLog, connLog, base>>
  BY <1>3 DEF ClearElementValues
<1>4. ASSUME Fail
      PROVE  /\ status = "updating" /\ status' = "failed"
             /\ UNCHANGED <<device, conns, deviceLog, connLog, base>>
  BY <1>4 DEF Fail, store, log
<1> QED BY <1>1, <1>2, <1>3, <1>4 DEF ClearAbsentValue, ValuesOfUnknownDevice

\* What is logged of a device is true, and every device that came or went is
\* in the log, for batches of any length, complete or not.
THEOREM DeviceLogCorrect == Spec => []DeviceLogInv
<1>1. Init => DeviceLogInv
  BY EmptyLogIsEmpty DEF Init, DeviceLogInv, LogsEmptyWhenIdle, DeviceLogIsExact
<1>2. TypeOK /\ DeviceLogInv /\ [Next]_vars => DeviceLogInv'
  <2> SUFFICES ASSUME TypeOK, DeviceLogInv, [Next]_vars PROVE DeviceLogInv'
    OBVIOUS
  <2>1. CASE BeginUpdate
    BY <2>1 DEF BeginUpdate, store, log, DeviceLogInv, LogsEmptyWhenIdle,
                DeviceLogIsExact, Known
  <2>2. CASE MalformedChange
    BY <2>2, SameDevices DEF MalformedChange, Fail, store, log
  <2>3. CASE ExtractChanges
    BY <2>3, EmptyLogIsEmpty DEF ExtractChanges, store, DeviceLogInv,
                LogsEmptyWhenIdle, DeviceLogIsExact
  <2>4. CASE Clear
    BY <2>4 DEF Clear, log, DeviceLogInv, LogsEmptyWhenIdle, DeviceLogIsExact
  <2>5. CASE InstanceStep
    BY <2>5, InstanceStepIsLogged
  <2>6. CASE ValueStep
    BY <2>6, ValueStepFrame, SameDevices
  <2>7. CASE ConnectionStep
    <3>1. /\ status = "updating" /\ status' \in {"updating", "failed"}
          /\ UNCHANGED <<device, deviceLog, base>>
      BY <2>7 DEF ConnectionStep, AddConnection, AddUnknownConnection,
                  RemoveConnections, RemoveUnknownConnections, Fail, store, log
    <3> QED BY <3>1, SameDevices
  <2>8. CASE UNCHANGED vars
    BY <2>8 DEF vars, store, log, DeviceLogInv, LogsEmptyWhenIdle,
                DeviceLogIsExact, Known
  <2> QED BY <2>1, <2>2, <2>3, <2>4, <2>5, <2>6, <2>7, <2>8 DEF Next
<1> QED BY <1>1, <1>2, TypeCorrect, PTL DEF Spec

\* The log of devices is exact: it says of each device in it whether it was
\* there before the batch and is there now; no other device has changed.
THEOREM DeviceLogExact == Spec => []DeviceLogIsExact
<1>1. DeviceLogInv => DeviceLogIsExact
  BY DEF DeviceLogInv
<1> QED BY <1>1, DeviceLogCorrect, PTL

\* The plugins hear of every device that came, went, or was replaced.
THEOREM DeviceChangesReported == Spec => []DeviceChangesAreReported
<1>1. DeviceLogInv /\ TypeOK => DeviceChangesAreReported
  <2> SUFFICES ASSUME DeviceLogInv, TypeOK, NEW n \in Names, device[n] # base.device[n]
               PROVE  /\ n \in DOMAIN Report.devices
                      /\ Report.devices[n].cur <=> Known(n)
    BY DEF DeviceChangesAreReported
  <2>1. /\ n \in DOMAIN deviceLog
        /\ deviceLog[n].orig <=> base.device[n] # None
        /\ deviceLog[n].cur <=> device[n] # None
    BY DEF DeviceLogInv, DeviceLogIsExact, Known
  <2>2. deviceLog[n].orig \in BOOLEAN /\ deviceLog[n].cur \in BOOLEAN
    BY <2>1 DEF TypeOK, IsLog
  <2>3. ~(IsNop(deviceLog[n]) /\ ~deviceLog[n].orig)
    BY <2>1, <2>2 DEF IsNop
  <2>4. n \in DOMAIN OptimizedDevices /\ OptimizedDevices[n] = deviceLog[n]
    BY <2>1, <2>3 DEF OptimizedDevices, Without
  <2> QED BY <2>1, <2>4 DEF Report, Known
<1> QED BY <1>1, DeviceLogCorrect, TypeCorrect, PTL

\* No batch reports anything that another one has logged.
THEOREM NothingToReportWhenIdle == Spec => []LogsOnlyInBatches
<1>1. DeviceLogInv => LogsOnlyInBatches
  <2> SUFFICES ASSUME DeviceLogInv, status = "idle" PROVE ~HasChanges
    BY DEF LogsOnlyInBatches
  <2>1. DOMAIN deviceLog = {} /\ DOMAIN connLog = {} /\ DOMAIN valueLog = {}
    BY DEF DeviceLogInv, LogsEmptyWhenIdle
  <2>2. DOMAIN OptimizedDevices = {}
    BY <2>1 DEF OptimizedDevices, Without
  <2>3. DOMAIN Optimized(connLog) = {} /\ DOMAIN Optimized(valueLog) = {}
    BY <2>1 DEF Optimized, Without
  <2> QED BY <2>2, <2>3 DEF HasChanges, Report
<1> QED BY <1>1, DeviceLogCorrect, PTL

(***************************************************************************)
(* Connections                                                             *)
(***************************************************************************)
\* Before the batch, too, connections had devices at both ends.
BaseHasEnds ==
  \A c \in base.conns : base.device[c.from] # None /\ base.device[c.to] # None

\* A connection that is new in this batch is logged as present.
NewConnectionsAreLogged ==
  \A c \in conns \ base.conns : c \in DOMAIN connLog /\ connLog[c].cur

\* A connection that is lost is logged as gone, or a device at its end is
\* logged that was there before the batch, and hence is reported.
LostConnectionsInLog ==
  \A c \in base.conns \ conns :
    \/ c \in DOMAIN connLog /\ ~connLog[c].cur
    \/ Ends(c) \cap DOMAIN deviceLog # {}

ConnectionLogInv ==
  /\ BaseHasEnds
  /\ NewConnectionsAreLogged
  /\ LostConnectionsInLog
  /\ ConnectionLogIsSound

\* Steps of a batch which leave the connections alone, and at most add to the
\* log of devices.
LEMMA SameConnections ==
  ASSUME ConnectionLogInv, UNCHANGED <<conns, connLog, base>>,
         DOMAIN deviceLog \subseteq DOMAIN deviceLog'
  PROVE  ConnectionLogInv'
<1>1. BaseHasEnds' /\ NewConnectionsAreLogged'
  BY DEF ConnectionLogInv, BaseHasEnds, NewConnectionsAreLogged
<1>2. LostConnectionsInLog'
  BY DEF ConnectionLogInv, LostConnectionsInLog, Ends
<1>3. ConnectionLogIsSound'
  BY DEF ConnectionLogInv, ConnectionLogIsSound, Ends
<1> QED BY <1>1, <1>2, <1>3 DEF ConnectionLogInv

\* Connections that are cut are logged, whether they are cut on their own or
\* together with a device.
LEMMA CuttingIsLogged ==
  ASSUME ConnectionLogInv, NEW S \in SUBSET conns,
         conns' = conns \ S, connLog' = Logged(connLog, Vanished(S)),
         UNCHANGED base, DOMAIN deviceLog \subseteq DOMAIN deviceLog'
  PROVE  ConnectionLogInv'
<1>1. AddsEntries(connLog, S, FALSE, connLog')
  BY LoggedVanished
<1>2. BaseHasEnds'
  BY DEF ConnectionLogInv, BaseHasEnds
<1>3. NewConnectionsAreLogged'
  BY <1>1 DEF ConnectionLogInv, NewConnectionsAreLogged, AddsEntries
<1>4. LostConnectionsInLog'
  <2> SUFFICES ASSUME NEW c \in base.conns \ conns'
               PROVE  \/ c \in DOMAIN connLog' /\ ~connLog'[c].cur
                      \/ Ends(c) \cap DOMAIN deviceLog' # {}
    BY DEF LostConnectionsInLog
  <2>1. CASE c \in S
    BY <1>1, <2>1 DEF AddsEntries
  <2>2. CASE c \notin S
    <3>1. c \in base.conns \ conns
      BY <2>2
    <3>2. CASE c \in DOMAIN connLog /\ ~connLog[c].cur
      BY <1>1, <2>2, <3>2 DEF AddsEntries
    <3>3. CASE Ends(c) \cap DOMAIN deviceLog # {}
      BY <3>3
    <3> QED BY <3>1, <3>2, <3>3 DEF ConnectionLogInv, LostConnectionsInLog
  <2> QED BY <2>1, <2>2
<1>5. ConnectionLogIsSound'
  <2> SUFFICES ASSUME NEW c \in DOMAIN connLog'
               PROVE  /\ connLog'[c].orig => c \in base.conns
                      /\ ~connLog'[c].cur => c \notin conns'
                      /\ connLog'[c].cur => \/ c \in conns'
                                            \/ Ends(c) \cap DOMAIN deviceLog' # {}
    BY DEF ConnectionLogIsSound, Ends
  <2>1. connLog'[c].orig => c \in base.conns
    <3>1. CASE c \in DOMAIN connLog
      BY <1>1, <3>1 DEF AddsEntries, ConnectionLogInv, ConnectionLogIsSound
    <3>2. CASE c \in S \ DOMAIN connLog
      BY <3>2 DEF ConnectionLogInv, NewConnectionsAreLogged
    <3> QED BY <1>1, <3>1, <3>2 DEF AddsEntries
  <2>2. CASE c \in S
    BY <1>1, <2>1, <2>2 DEF AddsEntries
  <2>3. CASE c \in DOMAIN connLog \ S
    <3>1. connLog'[c].cur = connLog[c].cur
      BY <1>1, <2>3 DEF AddsEntries
    <3>2. /\ ~connLog[c].cur => c \notin conns
          /\ connLog[c].cur => c \in conns \/ Ends(c) \cap DOMAIN deviceLog # {}
      BY <2>3 DEF ConnectionLogInv, ConnectionLogIsSound
    <3> QED BY <2>1, <2>3, <3>1, <3>2
  <2> QED BY <1>1, <2>2, <2>3 DEF AddsEntries
<1> QED BY <1>2, <1>3, <1>4, <1>5 DEF ConnectionLogInv

\* A connection that is made is logged, even if it existed already.
LEMMA MakingIsLogged ==
  ASSUME ConnectionLogInv, NEW c \in Connection, AddConnection(c)
  PROVE  ConnectionLogInv'
<1>1. /\ conns' = conns \cup {c}
      /\ AddsEntries(connLog, {c}, TRUE, connLog')
      /\ UNCHANGED <<deviceLog, base>>
  BY LoggedAppeared DEF AddConnection
<1>2. BaseHasEnds'
  BY <1>1 DEF ConnectionLogInv, BaseHasEnds
<1>3. NewConnectionsAreLogged'
  BY <1>1 DEF ConnectionLogInv, NewConnectionsAreLogged, AddsEntries
<1>4. LostConnectionsInLog'
  <2> SUFFICES ASSUME NEW k \in base.conns \ conns'
               PROVE  \/ k \in DOMAIN connLog' /\ ~connLog'[k].cur
                      \/ Ends(k) \cap DOMAIN deviceLog # {}
    BY <1>1 DEF LostConnectionsInLog
  <2>1. k \in base.conns \ conns /\ k # c
    BY <1>1
  <2>2. CASE k \in DOMAIN connLog /\ ~connLog[k].cur
    BY <1>1, <2>1, <2>2 DEF AddsEntries
  <2>3. CASE Ends(k) \cap DOMAIN deviceLog # {}
    BY <2>3
  <2> QED BY <2>1, <2>2, <2>3 DEF ConnectionLogInv, LostConnectionsInLog
<1>5. ConnectionLogIsSound'
  <2> SUFFICES ASSUME NEW k \in DOMAIN connLog'
               PROVE  /\ connLog'[k].orig => k \in base.conns
                      /\ ~connLog'[k].cur => k \notin conns'
                      /\ connLog'[k].cur => \/ k \in conns'
                                            \/ Ends(k) \cap DOMAIN deviceLog # {}
    BY <1>1 DEF ConnectionLogIsSound, Ends
  <2>1. connLog'[k].orig => k \in base.conns
    <3>1. CASE k \in DOMAIN connLog
      BY <1>1, <3>1 DEF AddsEntries, ConnectionLogInv, ConnectionLogIsSound
    <3>2. CASE k \notin DOMAIN connLog
      BY <1>1, <3>2 DEF AddsEntries
    <3> QED BY <3>1, <3>2
  <2>2. CASE k = c
    BY <1>1, <2>1, <2>2 DEF AddsEntries
  <2>3. CASE k # c
    <3>1. k \in DOMAIN connLog /\ connLog'[k].cur = connLog[k].cur
      BY <1>1, <2>3 DEF AddsEntries
    <3>2. /\ ~connLog[k].cur => k \notin conns
          /\ connLog[k].cur => k \in conns \/ Ends(k) \cap DOMAIN deviceLog # {}
      BY <3>1 DEF ConnectionLogInv, ConnectionLogIsSound
    <3> QED BY <1>1, <2>1, <2>3, <3>1, <3>2
  <2> QED BY <2>2, <2>3
<1> QED BY <1>2, <1>3, <1>4, <1>5 DEF ConnectionLogInv

\* "clear_instances" does not log the connections it removes, but it logs the
\* devices at their ends.
LEMMA ClearingIsLogged ==
  ASSUME TypeOK, NoDanglingConnections, ConnectionLogInv, ClearInstances
  PROVE  ConnectionLogInv'
<1>1. /\ conns' = {}
      /\ AddsEntries(deviceLog, {n \in Names : Known(n)}, FALSE, deviceLog')
      /\ UNCHANGED <<connLog, base>>
  BY LoggedVanished DEF ClearInstances
<1>2. DOMAIN deviceLog' = DOMAIN deviceLog \cup {n \in Names : Known(n)}
  BY <1>1 DEF AddsEntries
<1>3. \A c \in conns : Ends(c) \cap DOMAIN deviceLog' # {}
  <2> SUFFICES ASSUME NEW c \in conns PROVE c.from \in DOMAIN deviceLog'
    BY DEF Ends
  <2> QED BY <1>2 DEF TypeOK, Connection, NoDanglingConnections
<1>4. \A c : Ends(c) \cap DOMAIN deviceLog # {} => Ends(c) \cap DOMAIN deviceLog' # {}
  BY <1>2
<1>5. BaseHasEnds' /\ NewConnectionsAreLogged'
  BY <1>1 DEF ConnectionLogInv, BaseHasEnds, NewConnectionsAreLogged
<1>6. LostConnectionsInLog'
  BY <1>1, <1>3, <1>4 DEF ConnectionLogInv, LostConnectionsInLog, Ends
<1>7. ConnectionLogIsSound'
  BY <1>1, <1>3, <1>4 DEF ConnectionLogInv, ConnectionLogIsSound, Ends
<1> QED BY <1>5, <1>6, <1>7 DEF ConnectionLogInv

\* What becomes of devices is logged such that the log of connections stays
\* right.
LEMMA InstanceStepLogsConnections ==
  ASSUME TypeOK, NoDanglingConnections, ConnectionLogInv, InstanceStep
  PROVE  ConnectionLogInv'
<1>1. ASSUME NEW n \in Names, Detach(n), UNCHANGED base,
             DOMAIN deviceLog \subseteq DOMAIN deviceLog'
      PROVE  ConnectionLogInv'
  <2>1. Touching(n) \in SUBSET conns
    BY DEF Touching
  <2> QED BY <1>1, <2>1, CuttingIsLogged DEF Detach
<1>2. ASSUME NEW n \in Names, NEW id \in Ids, AddInstance(n, id)
      PROVE  ConnectionLogInv'
  <2>1. DOMAIN deviceLog \subseteq DOMAIN deviceLog' /\ base' = base
    <3>1. \A old, new : DOMAIN old \subseteq DOMAIN Logged(old, new)
      BY LoggedEntries
    <3>2. \/ deviceLog' = Logged(Logged(deviceLog, Vanished({n})), Appeared({n}))
          \/ deviceLog' = Logged(deviceLog, Appeared({n}))
      BY <1>2 DEF AddInstance
    <3>3. base' = base
      BY <1>2 DEF AddInstance
    <3> QED BY <3>1, <3>2, <3>3
  <2>2. CASE Known(n)
    BY <1>1, <1>2, <2>1, <2>2 DEF AddInstance
  <2>3. CASE ~Known(n)
    BY <1>2, <2>1, <2>3, SameConnections DEF AddInstance
  <2> QED BY <2>2, <2>3
<1>3. ASSUME NEW n \in Names, RemoveInstance(n)
      PROVE  ConnectionLogInv'
  <2>1. DOMAIN deviceLog \subseteq DOMAIN deviceLog' /\ base' = base
    BY <1>3, LoggedEntries DEF RemoveInstance
  <2> QED BY <1>1, <1>3, <2>1 DEF RemoveInstance
<1>4. ASSUME Fail PROVE ConnectionLogInv'
  BY <1>4, SameConnections DEF Fail, store, log
<1> QED BY <1>2, <1>3, <1>4, ClearingIsLogged DEF InstanceStep, RemoveUnknownInstance

\* Making and cutting connections.
LEMMA ConnectionStepIsLogged ==
  ASSUME ConnectionLogInv, ConnectionStep
  PROVE  ConnectionLogInv'
<1>1. ASSUME NEW f \in Filter, RemoveConnections(f)
      PROVE  ConnectionLogInv'
  <2>1. Doomed(f) \in SUBSET conns
    BY DEF Doomed
  <2> QED BY <1>1, <2>1, CuttingIsLogged DEF RemoveConnections
<1>2. ASSUME Fail PROVE ConnectionLogInv'
  BY <1>2, SameConnections DEF Fail, store, log
<1> QED BY <1>1, <1>2, MakingIsLogged
        DEF ConnectionStep, AddUnknownConnection, RemoveUnknownConnections

\* The log of connections is right after any part of a batch.
THEOREM ConnectionLogCorrect == Spec => []ConnectionLogInv
<1>1. Init => ConnectionLogInv
  BY EmptyLogIsEmpty DEF Init, ConnectionLogInv, BaseHasEnds, NewConnectionsAreLogged,
     LostConnectionsInLog, ConnectionLogIsSound
<1>2. TypeOK /\ NoDanglingConnections /\ DeviceLogInv /\ ConnectionLogInv /\ [Next]_vars
        => ConnectionLogInv'
  <2> SUFFICES ASSUME TypeOK, NoDanglingConnections, DeviceLogInv,
                      ConnectionLogInv, [Next]_vars
               PROVE  ConnectionLogInv'
    OBVIOUS
  <2>1. CASE BeginUpdate \/ MalformedChange \/ UNCHANGED vars
    BY <2>1, SameConnections DEF BeginUpdate, MalformedChange, Fail, vars, store, log
  <2>2. CASE ExtractChanges
    BY <2>2, EmptyLogIsEmpty DEF ExtractChanges, store, ConnectionLogInv, BaseHasEnds,
       NewConnectionsAreLogged, LostConnectionsInLog, ConnectionLogIsSound,
       NoDanglingConnections, Known
  <2>3. CASE Clear
    <3>1. DOMAIN connLog' = {} /\ conns' = {} /\ base'.conns = {}
      BY <2>3 DEF Clear, log, DeviceLogInv, LogsEmptyWhenIdle
    <3> QED BY <3>1 DEF ConnectionLogInv, BaseHasEnds, NewConnectionsAreLogged,
            LostConnectionsInLog, ConnectionLogIsSound
  <2>4. CASE InstanceStep
    BY <2>4, InstanceStepLogsConnections
  <2>5. CASE ValueStep
    BY <2>5, ValueStepFrame, SameConnections
  <2>6. CASE ConnectionStep
    BY <2>6, ConnectionStepIsLogged
  <2> QED BY <2>1, <2>2, <2>3, <2>4, <2>5, <2>6 DEF Next
<1> QED BY <1>1, <1>2, TypeCorrect, ConnectionsHaveEnds, DeviceLogCorrect, PTL DEF Spec

\* What the log says of connections is true.
THEOREM ConnectionLogSound == Spec => []ConnectionLogIsSound
<1>1. ConnectionLogInv => ConnectionLogIsSound
  BY DEF ConnectionLogInv
<1> QED BY <1>1, ConnectionLogCorrect, PTL

\* No connection gets lost without an entry of its own, or a report of one of
\* its devices.
THEOREM LostConnectionsLogged == Spec => []LostConnectionsAreLogged
<1>1. DeviceLogInv /\ ConnectionLogInv /\ TypeOK => LostConnectionsAreLogged
  <2> SUFFICES ASSUME DeviceLogInv, ConnectionLogInv, TypeOK, NEW c \in base.conns \ conns,
                      NEW n \in Ends(c) \cap DOMAIN deviceLog
               PROVE  n \in DOMAIN Report.devices
    BY DEF LostConnectionsAreLogged, ConnectionLogInv, LostConnectionsInLog
  <2>1. base.device[n] # None
    BY DEF ConnectionLogInv, BaseHasEnds, Ends
  <2>2. n \in Names
    BY DEF TypeOK, IsLog
  <2>3. deviceLog[n].orig
    BY <2>1, <2>2 DEF DeviceLogInv, DeviceLogIsExact
  <2>4. n \in DOMAIN OptimizedDevices
    BY <2>3 DEF OptimizedDevices, Without
  <2> QED BY <2>4 DEF Report
<1> QED BY <1>1, ConnectionLogCorrect, DeviceLogCorrect, TypeCorrect, PTL

\* The plugins hear of every connection that is new.
THEOREM NewConnectionsReported == Spec => []NewConnectionsAreReported
<1>1. ConnectionLogInv /\ TypeOK => NewConnectionsAreReported
  <2> SUFFICES ASSUME ConnectionLogInv, TypeOK, NEW c \in conns \ base.conns
               PROVE  c \in DOMAIN Report.conns /\ Report.conns[c].cur
    BY DEF NewConnectionsAreReported
  <2>1. c \in DOMAIN connLog /\ connLog[c].cur
    BY DEF ConnectionLogInv, NewConnectionsAreLogged
  <2>2. ~connLog[c].orig
    BY <2>1 DEF ConnectionLogInv, ConnectionLogIsSound
  <2>3. ~IsNop(connLog[c])
    BY <2>1, <2>2 DEF IsNop
  <2>4. c \in DOMAIN Optimized(connLog) /\ Optimized(connLog)[c] = connLog[c]
    BY <2>1, <2>3 DEF Optimized, Without
  <2> QED BY <2>1, <2>4 DEF Report
<1> QED BY <1>1, ConnectionLogCorrect, TypeCorrect, PTL

(***************************************************************************)
(* Values                                                                  *)
(***************************************************************************)
\* Before the batch, too, devices which were not there had no values.
BaseHasNoLeftovers ==
  \A s \in Slot : base.device[s.dev] = None => base.value[s] = Void

\* Incomplete names are logged for values that are lost, and for nothing else.
IncompleteNamesAreLosses ==
  \A k \in DOMAIN valueLog \ Slot : valueLog[k].orig # Void /\ valueLog[k].cur = Void

\* A value is as its log says, or it was logged under an incomplete name, or
\* its device is logged.
IsLogged(s) ==
  IF s \in DOMAIN valueLog
  THEN valueLog[s].orig = base.value[s] /\ valueLog[s].cur = value[s]
  ELSE value[s] = base.value[s]

ValuesAreLogged ==
  \A s \in Slot :
    \/ {ElementKey(s), UnqualifiedKey(s)} \cap DOMAIN valueLog # {}
    \/ s.dev \in DOMAIN deviceLog
    \/ IsLogged(s)

ValueLogInv == BaseHasNoLeftovers /\ IncompleteNamesAreLosses /\ ValuesAreLogged

\* Incomplete names are not the name of any value.
LEMMA IncompleteNames ==
  ASSUME NEW s \in Slot
  PROVE  ElementKey(s) \notin Slot /\ UnqualifiedKey(s) \notin Slot
<1>1. \A t \in Slot : DOMAIN t = {"dev", "elem", "param"}
  BY DEF Slot
<1>2. /\ DOMAIN ElementKey(s) = {"dev", "elem"}
      /\ DOMAIN UnqualifiedKey(s) = {"elem", "param"}
  BY DEF ElementKey, UnqualifiedKey
<1>3. "param" \notin {"dev", "elem"} /\ "dev" \notin {"elem", "param"}
  OBVIOUS
<1> QED BY <1>1, <1>2, <1>3

\* Steps that leave the values alone.
LEMMA SameValues ==
  ASSUME ValueLogInv, UNCHANGED <<value, valueLog, base>>,
         DOMAIN deviceLog \subseteq DOMAIN deviceLog'
  PROVE  ValueLogInv'
BY DEF ValueLogInv, BaseHasNoLeftovers, IncompleteNamesAreLosses, ValuesAreLogged, IsLogged

\* A step of a batch whose entries are for complete names, each with the value
\* before the step and that after it, and which changes no other value.
LEMMA EntriesAreLogged ==
  ASSUME ValueLogInv, NEW new, DOMAIN new \subseteq Slot,
         valueLog' = Logged(valueLog, new),
         \A s \in DOMAIN new : new[s].orig = value[s] /\ new[s].cur = value'[s],
         \A s \in Slot \ DOMAIN new : value'[s] = value[s],
         UNCHANGED base, DOMAIN deviceLog \subseteq DOMAIN deviceLog'
  PROVE  ValueLogInv'
<1>0. IsMerged(valueLog, new, valueLog')
  BY LoggedIsMerged
<1>1. /\ DOMAIN valueLog' = DOMAIN valueLog \cup DOMAIN new
      /\ \A k \in DOMAIN valueLog : valueLog'[k].orig = valueLog[k].orig
      /\ \A k \in DOMAIN new \ DOMAIN valueLog : valueLog'[k].orig = new[k].orig
      /\ \A k \in DOMAIN new : valueLog'[k].cur = new[k].cur
      /\ \A k \in DOMAIN valueLog \ DOMAIN new : valueLog'[k].cur = valueLog[k].cur
  BY <1>0 DEF IsMerged
<1>2. BaseHasNoLeftovers'
  BY DEF ValueLogInv, BaseHasNoLeftovers
<1>3. IncompleteNamesAreLosses'
  BY <1>1 DEF ValueLogInv, IncompleteNamesAreLosses
<1>4. ASSUME NEW s \in Slot, IsLogged(s)
      PROVE  IsLogged(s)'
  <2>1. CASE s \in DOMAIN new
    BY <1>1, <1>4, <2>1 DEF IsLogged
  <2>2. CASE s \notin DOMAIN new
    BY <1>1, <1>4, <2>2 DEF IsLogged
  <2> QED BY <2>1, <2>2
<1>5. ValuesAreLogged'
  BY <1>1, <1>4 DEF ValueLogInv, ValuesAreLogged
<1> QED BY <1>2, <1>3, <1>5 DEF ValueLogInv

\* Values that are forgotten.
LEMMA ForgettingIsLogged ==
  ASSUME ValueLogInv, NEW S \in SUBSET Slot,
         value' = Forget(S), valueLog' = Logged(valueLog, ForgottenEntries(S)),
         UNCHANGED base, DOMAIN deviceLog \subseteq DOMAIN deviceLog'
  PROVE  ValueLogInv'
<1> DEFINE new == ForgottenEntries(S)
<1>1. /\ DOMAIN new = Held(S)
      /\ \A s \in Held(S) : new[s].orig = value[s] /\ new[s].cur = Void
  BY DEF ForgottenEntries, Reset
<1>2. Held(S) \subseteq Slot /\ Held(S) \subseteq S
  BY DEF Held
<1>3. /\ \A s \in Held(S) : value'[s] = Void
      /\ \A s \in Slot \ Held(S) : value'[s] = value[s]
  BY <1>2 DEF Forget, Held
<1>4. valueLog' = Logged(valueLog, new)
  OBVIOUS
<1> HIDE DEF new
<1> QED BY <1>1, <1>2, <1>3, <1>4, EntriesAreLogged

\* A value or several that are lost, logged under an incomplete name.
LEMMA LossIsLogged ==
  ASSUME ValueLogInv, NEW S \in SUBSET Slot, NEW new,
         valueLog' = Logged(valueLog, new),
         DOMAIN new \cap Slot = {},
         \A k \in DOMAIN new : new[k].orig # Void /\ new[k].cur = Void,
         \A s \in S : {ElementKey(s), UnqualifiedKey(s)} \cap DOMAIN new # {},
         \A s \in Slot \ S : value'[s] = value[s],
         UNCHANGED <<deviceLog, base>>
  PROVE  ValueLogInv'
<1>0. IsMerged(valueLog, new, valueLog')
  BY LoggedIsMerged
<1>1. /\ DOMAIN valueLog' = DOMAIN valueLog \cup DOMAIN new
      /\ \A k \in DOMAIN valueLog : valueLog'[k].orig = valueLog[k].orig
      /\ \A k \in DOMAIN new \ DOMAIN valueLog : valueLog'[k].orig = new[k].orig
      /\ \A k \in DOMAIN new : valueLog'[k].cur = new[k].cur
      /\ \A k \in DOMAIN valueLog \ DOMAIN new : valueLog'[k].cur = valueLog[k].cur
  BY <1>0 DEF IsMerged
<1>2. BaseHasNoLeftovers'
  BY DEF ValueLogInv, BaseHasNoLeftovers
<1>3. IncompleteNamesAreLosses'
  BY <1>1 DEF ValueLogInv, IncompleteNamesAreLosses
<1>4. ASSUME NEW s \in Slot \ S, IsLogged(s)
      PROVE  IsLogged(s)'
  BY <1>1, <1>4 DEF IsLogged
<1>5. ValuesAreLogged'
  <2> SUFFICES ASSUME NEW s \in Slot
               PROVE  \/ {ElementKey(s), UnqualifiedKey(s)} \cap DOMAIN valueLog' # {}
                      \/ s.dev \in DOMAIN deviceLog'
                      \/ IsLogged(s)'
    BY DEF ValuesAreLogged, ElementKey, UnqualifiedKey
  <2>1. CASE s \in S
    BY <1>1, <2>1
  <2>2. CASE s \notin S
    BY <1>1, <1>4, <2>2 DEF ValueLogInv, ValuesAreLogged
  <2> QED BY <2>1, <2>2
<1> QED BY <1>2, <1>3, <1>5 DEF ValueLogInv

\* "set" and "update": what is reset is logged under incomplete names before
\* the values given are logged under complete ones.
LEMMA SetElementValuesIsLogged ==
  ASSUME TypeOK, ValueLogInv, NEW d \in Names, NEW e \in Elems, NEW kv, NEW r,
         SetElementValues(d, e, kv, r)
  PROVE  ValueLogInv'
<1> DEFINE reset == IF r THEN Held(SlotsOf(d, e)) ELSE {}
           given == {s \in SlotsOf(d, e) : /\ s.param \in DOMAIN kv
                                           /\ kv[s.param] # Malformed}
           kept == Forget(reset)
           resetEntries == [k \in {UnqualifiedKey(s) : s \in reset} |->
                         [orig |-> value[[dev |-> d, elem |-> e, param |-> k.param]],
                          cur  |-> Void]]
           givenEntries == [s \in given |-> [orig |-> kept[s], cur |-> kv[s.param]]]
<1>1. /\ value' = [s \in Slot |-> IF s \in given THEN kv[s.param] ELSE kept[s]]
      /\ valueLog' = Logged(Logged(valueLog, resetEntries), givenEntries)
      /\ UNCHANGED <<deviceLog, base>>
  BY DEF SetElementValues
<1>2. /\ given \subseteq Slot /\ reset \subseteq Slot
      /\ \A s \in reset : value[s] # Void /\ s.dev = d /\ s.elem = e
  BY DEF SlotsOf, Held
<1>3. /\ DOMAIN resetEntries = {UnqualifiedKey(s) : s \in reset}
      /\ \A s \in reset : /\ resetEntries[UnqualifiedKey(s)].orig = value[s]
                          /\ resetEntries[UnqualifiedKey(s)].cur = Void
  <2>1. ASSUME NEW s \in reset
        PROVE  [dev |-> d, elem |-> e, param |-> UnqualifiedKey(s).param] = s
    BY <1>2 DEF UnqualifiedKey, Slot
  <2> QED BY <2>1
<1>4. /\ DOMAIN givenEntries = given
      /\ \A s \in given : givenEntries[s].orig = kept[s] /\ givenEntries[s].cur = kv[s.param]
  OBVIOUS
<1>5. \A s \in Slot \ reset : kept[s] = value[s]
  BY DEF Forget
<1>6. /\ \A s \in given : value'[s] = kv[s.param]
      /\ \A s \in Slot \ given : value'[s] = kept[s]
  BY <1>1, <1>2
<1> DEFINE between == Logged(valueLog, resetEntries)
<1>7. IsMerged(valueLog, resetEntries, between) /\ IsMerged(between, givenEntries, valueLog')
  BY <1>1, LoggedIsMerged
<1> HIDE DEF reset, given, kept, resetEntries, givenEntries, between
<1>8. /\ DOMAIN valueLog' = DOMAIN between \cup given
      /\ \A k \in DOMAIN between : valueLog'[k].orig = between[k].orig
      /\ \A k \in given \ DOMAIN between : valueLog'[k].orig = givenEntries[k].orig
      /\ \A k \in given : valueLog'[k].cur = givenEntries[k].cur
      /\ \A k \in DOMAIN between \ given : valueLog'[k].cur = between[k].cur
  BY <1>4, <1>7 DEF IsMerged
<1>9. DOMAIN resetEntries \cap Slot = {}
  BY <1>2, <1>3, IncompleteNames
<1>10. BaseHasNoLeftovers'
  BY <1>1 DEF ValueLogInv, BaseHasNoLeftovers
<1>11. IncompleteNamesAreLosses'
  <2> SUFFICES ASSUME NEW k \in DOMAIN valueLog' \ Slot
               PROVE  valueLog'[k].orig # Void /\ valueLog'[k].cur = Void
    BY DEF IncompleteNamesAreLosses, Slot
  <2>1. k \in DOMAIN between /\ k \notin given
    BY <1>2, <1>8
  <2>2. valueLog'[k].orig = between[k].orig /\ valueLog'[k].cur = between[k].cur
    BY <1>8, <2>1
  <2>3. k \in DOMAIN valueLog => valueLog[k].orig # Void /\ valueLog[k].cur = Void
    BY DEF ValueLogInv, IncompleteNamesAreLosses
  <2>4. k \in DOMAIN resetEntries => resetEntries[k].orig # Void /\ resetEntries[k].cur = Void
    BY <1>2, <1>3
  <2> QED BY <1>7, <2>1, <2>2, <2>3, <2>4 DEF IsMerged
<1>12. ValuesAreLogged'
  <2> SUFFICES ASSUME NEW s \in Slot
               PROVE  \/ {ElementKey(s), UnqualifiedKey(s)} \cap DOMAIN valueLog' # {}
                      \/ s.dev \in DOMAIN deviceLog'
                      \/ IsLogged(s)'
    BY DEF ValuesAreLogged, ElementKey, UnqualifiedKey, Slot
  <2>1. CASE s \in reset
    BY <1>3, <1>7, <1>8, <2>1 DEF IsMerged
  <2>2. CASE {ElementKey(s), UnqualifiedKey(s)} \cap DOMAIN valueLog # {}
    BY <1>7, <1>8, <2>2 DEF IsMerged
  <2>3. CASE s.dev \in DOMAIN deviceLog
    BY <1>1, <2>3
  <2>4. CASE s \notin reset /\ IsLogged(s)
    <3>1. s \notin DOMAIN resetEntries /\ kept[s] = value[s]
      BY <1>5, <1>9, <2>4
    <3>2. /\ s \in DOMAIN between <=> s \in DOMAIN valueLog
          /\ s \in DOMAIN valueLog => between[s].orig = valueLog[s].orig
                                      /\ between[s].cur = valueLog[s].cur
      BY <1>7, <3>1 DEF IsMerged
    <3>3. CASE s \in given
      BY <1>1, <1>4, <1>6, <1>8, <2>4, <3>1, <3>2, <3>3 DEF IsLogged
    <3>4. CASE s \notin given
      BY <1>1, <1>6, <1>8, <2>4, <3>1, <3>2, <3>4 DEF IsLogged
    <3> QED BY <3>3, <3>4
  <2> QED BY <2>1, <2>2, <2>3, <2>4 DEF ValueLogInv, ValuesAreLogged
<1> QED BY <1>10, <1>11, <1>12 DEF ValueLogInv

\* Operations on values.
LEMMA ValueStepIsLogged ==
  ASSUME TypeOK, ValueLogInv, ValueStep
  PROVE  ValueLogInv'
<1> PICK d \in Names, e \in Elems :
      \/ \E kv \in ValueMaps, r \in BOOLEAN : SetElementValues(d, e, kv, r)
      \/ \E p \in Params : ClearElementValue(d, e, p) \/ ClearAbsentValue(d, e, p)
      \/ ClearElementValues(d, e)
      \/ ValuesOfUnknownDevice(d)
  BY DEF ValueStep
<1>1. ASSUME NEW p \in Params, ClearElementValue(d, e, p)
      PROVE  ValueLogInv'
  <2> DEFINE s == [dev |-> d, elem |-> e, param |-> p]
             new == Reset([k \in {ElementKey(s)} |-> value[s]])
  <2>1. s \in Slot
    BY DEF Slot
  <2>2. /\ value[s] # Void /\ value' = Forget({s})
        /\ valueLog' = Logged(valueLog, new) /\ UNCHANGED <<deviceLog, base>>
    BY <1>1 DEF ClearElementValue
  <2>3. /\ DOMAIN new = {ElementKey(s)}
        /\ new[ElementKey(s)].orig = value[s] /\ new[ElementKey(s)].cur = Void
    BY DEF Reset
  <2> HIDE DEF s, new
  <2>4. \A t \in Slot \ {s} : value'[t] = value[t]
    BY <2>2 DEF Forget
  <2>5. DOMAIN new \cap Slot = {}
    BY <2>1, <2>3, IncompleteNames
  <2>6. \A t \in {s} : {ElementKey(t), UnqualifiedKey(t)} \cap DOMAIN new # {}
    BY <2>3
  <2>7. {s} \in SUBSET Slot
    BY <2>1
  <2> QED BY <2>2, <2>3, <2>4, <2>5, <2>6, <2>7, LossIsLogged
<1>2. ASSUME ClearElementValues(d, e)
      PROVE  ValueLogInv'
  <2>1. SlotsOf(d, e) \in SUBSET Slot
    BY DEF SlotsOf
  <2> QED BY <1>2, <2>1, ForgettingIsLogged DEF ClearElementValues
<1>3. ASSUME Fail
      PROVE  ValueLogInv'
  BY <1>3, SameValues DEF Fail, store, log
<1> QED BY <1>1, <1>2, <1>3, SetElementValuesIsLogged DEF ClearAbsentValue, ValuesOfUnknownDevice

\* What becomes of devices.
LEMMA InstanceStepLogsValues ==
  ASSUME TypeOK, NoLeftovers, ValueLogInv, InstanceStep
  PROVE  ValueLogInv'
<1>1. ASSUME NEW n \in Names, Detach(n), UNCHANGED base,
             DOMAIN deviceLog \subseteq DOMAIN deviceLog'
      PROVE  ValueLogInv'
  <2>1. Slot \in SUBSET Slot
    OBVIOUS
  <2> QED BY <1>1, <2>1, ForgettingIsLogged DEF Detach
<1>2. ASSUME NEW n \in Names, NEW id \in Ids, AddInstance(n, id)
      PROVE  ValueLogInv'
  <2>1. DOMAIN deviceLog \subseteq DOMAIN deviceLog' /\ base' = base
    <3>1. \A old, new : DOMAIN old \subseteq DOMAIN Logged(old, new)
      BY LoggedEntries
    <3>2. \/ deviceLog' = Logged(Logged(deviceLog, Vanished({n})), Appeared({n}))
          \/ deviceLog' = Logged(deviceLog, Appeared({n}))
      BY <1>2 DEF AddInstance
    <3>3. base' = base
      BY <1>2 DEF AddInstance
    <3> QED BY <3>1, <3>2, <3>3
  <2>2. CASE Known(n)
    BY <1>1, <1>2, <2>1, <2>2 DEF AddInstance
  <2>3. CASE ~Known(n)
    BY <1>2, <2>1, <2>3, SameValues DEF AddInstance
  <2> QED BY <2>2, <2>3
<1>3. ASSUME NEW n \in Names, RemoveInstance(n)
      PROVE  ValueLogInv'
  <2>1. DOMAIN deviceLog \subseteq DOMAIN deviceLog' /\ base' = base
    BY <1>3, LoggedEntries DEF RemoveInstance
  <2> QED BY <1>1, <1>3, <2>1 DEF RemoveInstance
<1>4. ASSUME ClearInstances
      PROVE  ValueLogInv'
  <2>1. /\ value' = [s \in Slot |-> Void] /\ UNCHANGED <<valueLog, base>>
        /\ AddsEntries(deviceLog, {n \in Names : Known(n)}, FALSE, deviceLog')
    BY <1>4, LoggedVanished DEF ClearInstances
  <2>2. DOMAIN deviceLog' = DOMAIN deviceLog \cup {n \in Names : Known(n)}
    BY <2>1 DEF AddsEntries
  <2>3. \A s \in Slot : s.dev \in DOMAIN deviceLog' \/ value'[s] = value[s]
    <3>1. \A s \in Slot : s.dev \in Names
      BY DEF Slot
    <3> QED BY <2>1, <2>2, <3>1 DEF NoLeftovers
  <2> QED BY <2>1, <2>2, <2>3 DEF ValueLogInv, BaseHasNoLeftovers, IncompleteNamesAreLosses,
          ValuesAreLogged, IsLogged
<1>5. ASSUME Fail PROVE ValueLogInv'
  BY <1>5, SameValues DEF Fail, store, log
<1> QED BY <1>2, <1>3, <1>4, <1>5 DEF InstanceStep, RemoveUnknownInstance

\* The log of values is right after any part of a batch.
THEOREM ValueLogCorrect == Spec => []ValueLogInv
<1>1. Init => ValueLogInv
  BY EmptyLogIsEmpty DEF Init, ValueLogInv, BaseHasNoLeftovers, IncompleteNamesAreLosses,
     ValuesAreLogged, IsLogged
<1>2. TypeOK /\ NoLeftovers /\ DeviceLogInv /\ ValueLogInv /\ [Next]_vars => ValueLogInv'
  <2> SUFFICES ASSUME TypeOK, NoLeftovers, DeviceLogInv, ValueLogInv, [Next]_vars
               PROVE  ValueLogInv'
    OBVIOUS
  <2>1. CASE BeginUpdate \/ MalformedChange \/ UNCHANGED vars
    BY <2>1, SameValues DEF BeginUpdate, MalformedChange, Fail, vars, store, log
  <2>2. CASE ExtractChanges
    BY <2>2, EmptyLogIsEmpty DEF ExtractChanges, store, ValueLogInv, BaseHasNoLeftovers,
       IncompleteNamesAreLosses, ValuesAreLogged, IsLogged, NoLeftovers, Known
  <2>3. CASE Clear
    <3>1. DOMAIN valueLog' = {} /\ value' = [s \in Slot |-> Void] /\ base'.value = value'
      BY <2>3 DEF Clear, log, DeviceLogInv, LogsEmptyWhenIdle
    <3> QED BY <3>1 DEF ValueLogInv, BaseHasNoLeftovers, IncompleteNamesAreLosses,
            ValuesAreLogged, IsLogged
  <2>4. CASE InstanceStep
    BY <2>4, InstanceStepLogsValues
  <2>5. CASE ValueStep
    BY <2>5, ValueStepIsLogged
  <2>6. CASE ConnectionStep
    <3>1. UNCHANGED <<value, valueLog, deviceLog, base>>
      BY <2>6 DEF ConnectionStep, AddConnection, AddUnknownConnection,
                  RemoveConnections, RemoveUnknownConnections, Fail, store, log
    <3> QED BY <3>1, SameValues
  <2> QED BY <2>1, <2>2, <2>3, <2>4, <2>5, <2>6 DEF Next
<1> QED BY <1>1, <1>2, TypeCorrect, NothingIsLeft, DeviceLogCorrect, PTL DEF Spec

\* The plugins hear of every value that is not what it was before the batch:
\* under its own name, under an incomplete one, or through its device.
THEOREM ChangedValuesReported == Spec => []ChangedValuesAreReported
<1>1. TypeOK /\ NoLeftovers /\ DeviceLogInv /\ DeviceChangesAreReported /\ ValueLogInv
        => ChangedValuesAreReported
  <2> SUFFICES ASSUME TypeOK, NoLeftovers, DeviceLogInv, DeviceChangesAreReported, ValueLogInv,
                      NEW s \in Slot, value[s] # base.value[s]
               PROVE  \/ {s, ElementKey(s), UnqualifiedKey(s)} \cap DOMAIN Report.values # {}
                      \/ s.dev \in DOMAIN Report.devices
    BY DEF ChangedValuesAreReported
  <2>1. \A k \in DOMAIN valueLog : valueLog[k].orig # valueLog[k].cur => k \in DOMAIN Report.values
    BY DEF Report, Optimized, Without, IsNop
  <2>2. CASE {ElementKey(s), UnqualifiedKey(s)} \cap DOMAIN valueLog # {}
    BY <2>1, <2>2, IncompleteNames DEF ValueLogInv, IncompleteNamesAreLosses
  <2>3. CASE s.dev \in DOMAIN deviceLog
    <3>1. s.dev \in Names
      BY DEF Slot
    <3>2. CASE base.device[s.dev] # None
      <4>1. deviceLog[s.dev].orig
        BY <2>3, <3>1, <3>2 DEF DeviceLogInv, DeviceLogIsExact
      <4> QED BY <2>3, <4>1 DEF Report, OptimizedDevices, Without
    <3>3. CASE base.device[s.dev] = None
      <4>1. value[s] # Void
        BY <3>3 DEF ValueLogInv, BaseHasNoLeftovers
      <4>2. device[s.dev] # None
        BY <4>1 DEF NoLeftovers, Known
      <4> QED BY <3>1, <3>3, <4>2 DEF DeviceChangesAreReported
    <3> QED BY <3>2, <3>3
  <2>4. CASE IsLogged(s)
    BY <2>1, <2>4 DEF IsLogged
  <2> QED BY <2>2, <2>3, <2>4 DEF ValueLogInv, ValuesAreLogged
<1> QED BY <1>1, ValueLogCorrect, DeviceLogCorrect, DeviceChangesReported, TypeCorrect,
        NothingIsLeft, PTL
=============================================================================
