-------------------------- MODULE DeviceModelsProofs --------------------------
(***************************************************************************)
(* Proofs that flattening resolves the copies of each device, for any      *)
(* database and any order in which devices and properties are visited, and *)
(* that selectors and mappings of the models made of it go together.       *)
(***************************************************************************)
EXTENDS DeviceModels, FiniteSetTheorems, SequenceTheorems, TLAPS

Calls == [device : DOMAIN original, pending : SUBSET Names]

\* Devices do not change before they are flat.
ShapeInv ==
  /\ original \in Databases
  /\ DOMAIN devices = DOMAIN original
  /\ todo \subseteq DOMAIN original
  /\ frames \in Seq(Calls)
  /\ \A d \in DOMAIN devices : HasCopies(d) \/ original[d].copy = None => devices[d] = original[d]

\* Active calls are for different devices, none of which is flat.  Each source
\* a call has been at is flat, except for the one the next call is for.
CallsInv ==
  \A i \in 1..Len(frames) :
    /\ HasCopies(frames[i].device)
    /\ \A j \in 1..Len(frames) : frames[j].device = frames[i].device => j = i
    /\ \A s \in SourcesIn(devices[frames[i].device].copy) \ frames[i].pending :
         /\ s \in DOMAIN devices
         /\ HasCopies(s) => i < Len(frames) /\ frames[i + 1].device = s

FlattenInv == ShapeInv /\ CallsInv /\ FlatDevicesAreResolved

(***************************************************************************)
(* The stack of calls                                                      *)
(***************************************************************************)
LEMMA Popped ==
  ASSUME NEW S, NEW s \in Seq(S), s # <<>>
  PROVE  LET r == SubSeq(s, 1, Len(s) - 1)
         IN /\ Len(s) \in Nat \ {0} /\ s[Len(s)] \in S
            /\ r \in Seq(S)
            /\ Len(r) = Len(s) - 1
            /\ \A i \in 1..Len(s) - 1 : r[i] = s[i] /\ s[i] \in S
<1>1. Len(s) \in Nat /\ Len(s) # 0 /\ \A i \in 1..Len(s) : s[i] \in S
  OBVIOUS
<1>2. \A i \in 1..Len(s) - 1 : i \in 1..Len(s)
  BY <1>1
<1> DEFINE n == Len(s) - 1
           r == SubSeq(s, 1, n)
<1>3. n \in Int /\ n \in Nat /\ \A i \in 1..n : s[i] \in S
  BY <1>1, <1>2
<1> HIDE DEF n
<1>4. r \in Seq(S) /\ Len(r) = (IF 1 <= n THEN n - 1 + 1 ELSE 0)
      /\ \A i \in 1..n - 1 + 1 : r[i] = s[1 + i - 1]
  <2>1. 1 \in Int
    OBVIOUS
  <2> QED BY <1>3, <2>1, SubSeqProperties
<1> HIDE DEF r
<1>5. Len(r) = n
  BY <1>3, <1>4
<1>6. \A i \in 1..n : r[i] = s[i]
  BY <1>3, <1>4
<1> QED BY <1>1, <1>3, <1>4, <1>5, <1>6 DEF n, r

LEMMA Pushed ==
  ASSUME NEW S, NEW s \in Seq(S), NEW e \in S
  PROVE  /\ Append(s, e) \in Seq(S) /\ Len(s) \in Nat
         /\ Len(Append(s, e)) = Len(s) + 1
         /\ Append(s, e)[Len(s) + 1] = e
         /\ \A i \in 1..Len(s) : Append(s, e)[i] = s[i]
OBVIOUS

\* What a device copies from has a name.
LEMMA SourcesHaveNames ==
  ASSUME ShapeInv, NEW d \in DOMAIN devices, HasCopies(d)
  PROVE  SourcesIn(devices[d].copy) \subseteq Names
<1>1. devices[d] = original[d] /\ d \in DOMAIN original /\ original \in Databases
  BY DEF ShapeInv
<1>2. original[d].copy # None
  BY <1>1 DEF HasCopies
<1> QED BY <1>1, <1>2, DatabaseAssumption DEF SourcesIn

\* The first call of all.
LEMMA VisitDeviceKeepsInv ==
  ASSUME FlattenInv, NEW d \in Names, VisitDevice(d)
  PROVE  FlattenInv'
<1>1. /\ frames = <<>> /\ d \in todo /\ todo' \subseteq todo
      /\ UNCHANGED <<original, devices>>
  BY DEF VisitDevice, CallFlatten, Terminate
<1>2. FlatDevicesAreResolved'
  BY <1>1 DEF FlattenInv, FlatDevicesAreResolved, HasCopies, Copied, CopiedFrom
<1>3. d \in DOMAIN devices /\ ShapeInv
  BY <1>1 DEF FlattenInv, ShapeInv
<1>4. CASE frames' = frames
  BY <1>1, <1>2, <1>4 DEF FlattenInv, ShapeInv, CallsInv, Calls, HasCopies
<1>5. CASE frames' # frames
  <2> DEFINE call == [device |-> d, pending |-> SourcesIn(devices[d].copy)]
  <2>1. HasCopies(d) /\ frames' = Append(<<>>, call)
    BY <1>5 DEF VisitDevice, CallFlatten, Terminate
  <2>2. call \in Calls
    BY <1>3, <2>1, SourcesHaveNames DEF Calls, ShapeInv
  <2>3. call.device = d /\ call.pending = SourcesIn(devices[d].copy)
    OBVIOUS
  <2> HIDE DEF call
  <2>4. frames' \in Seq(Calls) /\ Len(frames') = 1 /\ frames'[1] = call
    BY <2>1, <2>2
  <2>5. ShapeInv'
    BY <1>1, <1>3, <2>4 DEF ShapeInv, Calls, HasCopies
  <2>6. CallsInv'
    BY <1>1, <2>1, <2>3, <2>4 DEF CallsInv, HasCopies
  <2> QED BY <1>2, <2>5, <2>6 DEF FlattenInv
<1> QED BY <1>4, <1>5
\* The stack with one more source visited.
LEMMA SourceVisited ==
  ASSUME ShapeInv, frames # <<>>, NEW d
  PROVE  LET rest == Append(Below, [Top EXCEPT !.pending = @ \ {d}])
         IN /\ rest \in Seq(Calls)
            /\ Len(frames) \in Nat \ {0} /\ Len(rest) = Len(frames)
            /\ \A i \in 1..Len(frames) :
                 /\ frames[i] \in Calls
                 /\ rest[i].device = frames[i].device
                 /\ rest[i].pending = IF i = Len(frames) THEN frames[i].pending \ {d}
                                      ELSE frames[i].pending
<1> DEFINE top == [Top EXCEPT !.pending = @ \ {d}]
<1>1. frames \in Seq(Calls)
  BY DEF ShapeInv
<1>2. /\ Len(frames) \in Nat \ {0} /\ Top \in Calls
      /\ Below \in Seq(Calls) /\ Len(Below) = Len(frames) - 1
      /\ \A i \in 1..Len(frames) - 1 : Below[i] = frames[i] /\ frames[i] \in Calls
  BY <1>1, Popped DEF Top, Below
<1>3. top \in Calls /\ top.device = Top.device /\ top.pending = Top.pending \ {d}
  BY <1>2 DEF Calls
<1> HIDE DEF top
<1>4. /\ Append(Below, top) \in Seq(Calls)
      /\ Len(Append(Below, top)) = Len(Below) + 1
      /\ Append(Below, top)[Len(Below) + 1] = top
      /\ \A i \in 1..Len(Below) : Append(Below, top)[i] = Below[i]
  BY <1>2, <1>3, Pushed
<1>5. ASSUME NEW i \in 1..Len(frames)
      PROVE  /\ frames[i] \in Calls
             /\ Append(Below, top)[i].device = frames[i].device
             /\ Append(Below, top)[i].pending = IF i = Len(frames) THEN frames[i].pending \ {d}
                                                ELSE frames[i].pending
  <2>1. CASE i = Len(frames)
    BY <2>1, <1>2, <1>3, <1>4 DEF Top
  <2>2. CASE i # Len(frames)
    <3>1. i \in 1..Len(frames) - 1 /\ i \in 1..Len(Below)
      BY <1>2, <2>2
    <3> QED BY <2>2, <3>1, <1>2, <1>4
  <2> QED BY <2>1, <2>2
<1>6. Len(Append(Below, top)) = Len(frames)
  BY <1>2, <1>4
<1> QED BY <1>2, <1>4, <1>5, <1>6 DEF top

\* A source is flat, or a call for it begins, or the program ends.
LEMMA VisitSourceKeepsInv ==
  ASSUME FlattenInv, NEW d \in Names, VisitCopySource(d)
  PROVE  FlattenInv'
<1> DEFINE rest == Append(Below, [Top EXCEPT !.pending = @ \ {d}])
           call == [device |-> d, pending |-> SourcesIn(devices[d].copy)]
<1>1. /\ frames # <<>> /\ UNCHANGED <<original, devices, todo>>
      /\ \/ frames' = frames
         \/ d \notin Seen /\ d \in DOMAIN devices /\ HasCopies(d) /\ frames' = Append(rest, call)
         \/ d \in DOMAIN devices /\ ~HasCopies(d) /\ frames' = rest
  BY DEF VisitCopySource, CallFlatten, Terminate
<1>2. ShapeInv /\ CallsInv
  BY DEF FlattenInv
<1>3. FlatDevicesAreResolved'
  BY <1>1 DEF FlattenInv, FlatDevicesAreResolved, HasCopies, Copied, CopiedFrom
<1>4. /\ rest \in Seq(Calls)
      /\ Len(frames) \in Nat \ {0} /\ Len(rest) = Len(frames)
      /\ \A i \in 1..Len(frames) :
           /\ frames[i] \in Calls
           /\ rest[i].device = frames[i].device
           /\ rest[i].pending = IF i = Len(frames) THEN frames[i].pending \ {d}
                                ELSE frames[i].pending
  BY <1>1, <1>2, SourceVisited
<1>5. call.device = d /\ call.pending = SourcesIn(devices[d].copy)
  OBVIOUS
<1>6. HasCopies(d) /\ d \in DOMAIN devices => call \in Calls
  BY <1>2, SourcesHaveNames DEF Calls, ShapeInv
<1> HIDE DEF rest, call
<1>7. \A i \in 1..Len(frames) :
        /\ HasCopies(frames[i].device)
        /\ \A j \in 1..Len(frames) : frames[j].device = frames[i].device => j = i
        /\ \A s \in SourcesIn(devices[frames[i].device].copy) \ frames[i].pending :
             s \in DOMAIN devices /\ (HasCopies(s) => i < Len(frames) /\ frames[i + 1].device = s)
  BY <1>2 DEF CallsInv
<1>8. CASE frames' = frames
  BY <1>1, <1>2, <1>3, <1>8 DEF FlattenInv, ShapeInv, CallsInv, Calls, HasCopies
<1>9. CASE d \in DOMAIN devices /\ ~HasCopies(d) /\ frames' = rest
  <2>1. ShapeInv'
    BY <1>1, <1>2, <1>4, <1>9 DEF ShapeInv, Calls, HasCopies
  <2>2. ASSUME NEW i \in 1..Len(rest)
        PROVE  /\ HasCopies(rest[i].device)
               /\ \A j \in 1..Len(rest) : rest[j].device = rest[i].device => j = i
               /\ \A s \in SourcesIn(devices[rest[i].device].copy) \ rest[i].pending :
                    s \in DOMAIN devices /\ (HasCopies(s) => i < Len(rest) /\ rest[i + 1].device = s)
    <3>1. i \in 1..Len(frames) /\ HasCopies(rest[i].device)
          /\ \A j \in 1..Len(rest) : rest[j].device = rest[i].device => j = i
      BY <1>4, <1>7
    <3>2. ASSUME NEW s \in SourcesIn(devices[rest[i].device].copy) \ rest[i].pending, s # d
          PROVE  s \in DOMAIN devices /\ (HasCopies(s) => i < Len(rest) /\ rest[i + 1].device = s)
      <4>1. s \in SourcesIn(devices[frames[i].device].copy) \ frames[i].pending
        BY <1>4, <3>1, <3>2
      <4>2. i < Len(frames) => i + 1 \in 1..Len(frames)
        BY <1>4, <3>1
      <4> QED BY <1>4, <1>7, <3>1, <4>1, <4>2
    <3> QED BY <1>9, <3>1, <3>2
  <2>3. CallsInv'
    BY <1>1, <1>9, <2>2 DEF CallsInv, HasCopies
  <2> QED BY <1>3, <2>1, <2>3 DEF FlattenInv
<1>10. CASE d \notin Seen /\ d \in DOMAIN devices /\ HasCopies(d) /\ frames' = Append(rest, call)
  <2>1. /\ frames' \in Seq(Calls) /\ Len(frames') = Len(frames) + 1
        /\ frames'[Len(frames) + 1] = call
        /\ \A i \in 1..Len(frames) : frames'[i] = rest[i]
    BY <1>4, <1>6, <1>10, Pushed
  <2>2. ShapeInv'
    BY <1>1, <1>2, <2>1 DEF ShapeInv, Calls, HasCopies
  <2>3. \A i \in 1..Len(frames) : frames[i].device # d
    BY <1>2, <1>10 DEF Seen, ShapeInv
  <2>4. ASSUME NEW i \in 1..Len(frames')
        PROVE  /\ HasCopies(frames'[i].device)
               /\ \A j \in 1..Len(frames') : frames'[j].device = frames'[i].device => j = i
               /\ \A s \in SourcesIn(devices[frames'[i].device].copy) \ frames'[i].pending :
                    s \in DOMAIN devices /\ (HasCopies(s) => i < Len(frames') /\ frames'[i + 1].device = s)
    <3>0. \A j \in 1..Len(frames') : j \in 1..Len(frames) \/ j = Len(frames) + 1
      BY <1>4, <2>1
    <3>1. CASE i = Len(frames) + 1
      <4>1. frames'[i].device = d /\ SourcesIn(devices[frames'[i].device].copy) \ frames'[i].pending = {}
        BY <1>5, <2>1, <3>1
      <4>2. \A j \in 1..Len(frames) : frames'[j].device # d
        BY <1>4, <2>1, <2>3
      <4> QED BY <1>10, <3>0, <3>1, <4>1, <4>2
    <3>2. CASE i \in 1..Len(frames)
      <4>1. frames'[i].device = frames[i].device /\ frames'[i] = rest[i]
        BY <1>4, <2>1, <3>2
      <4>2. ASSUME NEW j \in 1..Len(frames'), frames'[j].device = frames'[i].device
            PROVE  j = i
        <5>1. j # Len(frames) + 1
          BY <1>5, <2>1, <2>3, <3>2, <4>1, <4>2
        <5>2. j \in 1..Len(frames) /\ frames'[j] = rest[j] /\ rest[j].device = frames[j].device
          BY <1>4, <2>1, <3>0, <5>1
        <5>3. frames[j].device = frames[i].device
          BY <4>1, <4>2, <5>2
        <5> QED BY <1>7, <3>2, <5>2, <5>3
      <4>3. ASSUME NEW s \in SourcesIn(devices[frames'[i].device].copy) \ frames'[i].pending
            PROVE  s \in DOMAIN devices /\ (HasCopies(s) => i < Len(frames') /\ frames'[i + 1].device = s)
        <5>1. CASE s \in SourcesIn(devices[frames[i].device].copy) \ frames[i].pending
          <6>1. s \in DOMAIN devices /\ (HasCopies(s) => i < Len(frames) /\ frames[i + 1].device = s)
            BY <1>7, <3>2, <5>1
          <6>2. i < Len(frames) => i + 1 \in 1..Len(frames) /\ i < Len(frames')
            BY <1>4, <2>1, <3>2
          <6> QED BY <1>4, <2>1, <6>1, <6>2
        <5>2. CASE s \notin SourcesIn(devices[frames[i].device].copy) \ frames[i].pending
          <6>1. i = Len(frames) /\ s = d
            BY <1>4, <3>2, <4>1, <4>3, <5>2
          <6> QED BY <1>4, <1>5, <1>10, <2>1, <6>1
        <5> QED BY <5>1, <5>2
      <4> QED BY <1>7, <3>2, <4>1, <4>2, <4>3
    <3> QED BY <3>0, <3>1, <3>2
  <2>5. CallsInv'
    BY <1>1, <2>4 DEF CallsInv, HasCopies
  <2> QED BY <1>3, <2>2, <2>5 DEF FlattenInv
<1> QED BY <1>1, <1>8, <1>9, <1>10

\* The last source has been visited: the device of the call becomes flat, its
\* sources are all flat and are not changed any more.
LEMMA CopyPropertiesKeepsInv ==
  ASSUME FlattenInv, CopyProperties
  PROVE  FlattenInv'
<1>0. PICK d, copy, over : /\ d = Top.device /\ copy = devices[d].copy
                           /\ over = CopiedOver(devices[d].props, copy)
  OBVIOUS
<1>1. CASE UNCHANGED <<original, devices, todo, frames>>
  BY <1>1 DEF FlattenInv, ShapeInv, CallsInv, Calls, FlatDevicesAreResolved, HasCopies,
              Copied, CopiedFrom
<1>2. CASE /\ devices' = [devices EXCEPT ![d] = [props |-> over, copy |-> None]]
           /\ CopiesAll(d) \/ \A key \in DOMAIN copy : key \in DOMAIN devices[copy[key]].props
           /\ frames' = Below
           /\ UNCHANGED <<original, todo>>
  <2>1. frames # <<>> /\ Top.pending = {} /\ ShapeInv /\ CallsInv /\ FlatDevicesAreResolved
    BY DEF CopyProperties, FlattenInv
  <2>2. /\ Len(frames) \in Nat \ {0} /\ Top \in Calls
        /\ Below \in Seq(Calls) /\ Len(Below) = Len(frames) - 1
        /\ \A i \in 1..Len(frames) - 1 : Below[i] = frames[i]
    BY <2>1, Popped DEF ShapeInv, Top, Below
  <2>3. Len(frames) \in 1..Len(frames) /\ \A i \in 1..Len(frames) - 1 : i \in 1..Len(frames)
    BY <2>2
  <2>4. /\ d \in DOMAIN devices /\ d \in DOMAIN original /\ HasCopies(d)
        /\ devices[d] = original[d] /\ original[d].copy # None
    BY <1>0, <2>1, <2>2, <2>3 DEF ShapeInv, CallsInv, Calls, Top, HasCopies
  <2>5. \A s \in SourcesIn(copy) : s \in DOMAIN devices /\ ~HasCopies(s) /\ s # d
    BY <1>0, <2>1, <2>2, <2>3, <2>4 DEF CallsInv, Top
  <2>6. \A i \in 1..Len(frames) - 1 : frames[i].device # d
    BY <1>0, <2>1, <2>2, <2>3 DEF CallsInv, Top
  <2>7. DOMAIN devices' = DOMAIN devices
        /\ devices'[d] = [props |-> over, copy |-> None]
        /\ \A e \in DOMAIN devices \ {d} : devices'[e] = devices[e]
    BY <1>2, <2>4
  <2>8. devices'[d].props = over /\ devices'[d].copy = None
    BY <2>7
  <2>9. ShapeInv'
    BY <1>2, <2>1, <2>2, <2>4, <2>7, <2>8 DEF ShapeInv, Calls, HasCopies
  <2>10. CallsInv'
    <3>1. ASSUME NEW i \in 1..Len(frames')
          PROVE  /\ devices'[frames'[i].device].copy # None
                 /\ \A j \in 1..Len(frames') : frames'[j].device = frames'[i].device => j = i
                 /\ \A s \in SourcesIn(devices'[frames'[i].device].copy) \ frames'[i].pending :
                      /\ s \in DOMAIN devices'
                      /\ HasCopies(s)' => i < Len(frames') /\ frames'[i + 1].device = s
      <4>1. /\ i \in 1..Len(frames) - 1 /\ i \in 1..Len(frames)
            /\ frames'[i] = frames[i] /\ frames[i].device # d
        BY <1>2, <2>2, <2>3, <2>6
      <4>2. frames[i].device \in DOMAIN devices
        <5>1. frames[i] \in Calls
          BY <2>1, <4>1 DEF ShapeInv
        <5> QED BY <2>1, <5>1 DEF ShapeInv, Calls
      <4>3. devices'[frames'[i].device] = devices[frames[i].device]
        BY <2>7, <4>1, <4>2
      <4>4. HasCopies(frames[i].device) /\ devices'[frames'[i].device].copy # None
        BY <2>1, <4>1, <4>3 DEF CallsInv, HasCopies
      <4>5. ASSUME NEW j \in 1..Len(frames'), frames'[j].device = frames'[i].device
            PROVE  j = i
        <5>1. j \in 1..Len(frames) /\ frames'[j] = frames[j]
          BY <1>2, <2>2, <2>3
        <5> QED BY <2>1, <4>1, <4>5, <5>1 DEF CallsInv
      <4>6. ASSUME NEW s \in SourcesIn(devices'[frames'[i].device].copy) \ frames'[i].pending
            PROVE  /\ s \in DOMAIN devices'
                   /\ HasCopies(s)' => i < Len(frames') /\ frames'[i + 1].device = s
        <5>1. s \in DOMAIN devices
              /\ (HasCopies(s) => i < Len(frames) /\ frames[i + 1].device = s)
          BY <2>1, <4>1, <4>3, <4>6 DEF CallsInv
        <5>2. ASSUME HasCopies(s)'
              PROVE  i < Len(frames') /\ frames'[i + 1].device = s
          <6>1. s # d /\ HasCopies(s)
            BY <2>7, <2>8, <5>1, <5>2 DEF HasCopies
          <6>2. i + 1 # Len(frames)
            BY <1>0, <5>1, <6>1 DEF Top
          <6>3. i + 1 \in 1..Len(frames) - 1
            BY <2>2, <4>1, <6>2
          <6> QED BY <1>2, <2>2, <5>1, <6>1, <6>3
        <5> QED BY <2>7, <5>1, <5>2
      <4> QED BY <4>4, <4>5, <4>6
    <3> QED BY <3>1 DEF CallsInv, HasCopies
  <2>11. FlatDevicesAreResolved'
    <3>1. /\ SourcesIn(original[d].copy) \subseteq DOMAIN devices'
          /\ \A s \in SourcesIn(original[d].copy) : ~HasCopies(s)'
          /\ \A s \in SourcesIn(original[d].copy) : devices'[s] = devices[s]
      BY <1>0, <2>4, <2>5, <2>7 DEF HasCopies
    <3>2. /\ DOMAIN devices'[d].props = DOMAIN original[d].props \cup Copied(original[d].copy)'
          /\ \A key \in DOMAIN devices'[d].props :
               devices'[d].props[key] =
                 IF key \in Copied(original[d].copy)'
                 THEN devices'[CopiedFrom(original[d].copy, key)].props[key]
                 ELSE original[d].props[key]
      <4>1. CASE All \in DOMAIN copy
        <5>1. copy[All] \in SourcesIn(copy) /\ copy = original[d].copy
          BY <1>0, <2>4, <4>1 DEF SourcesIn
        <5>2. over = Merge(devices[copy[All]].props, original[d].props)
          BY <1>0, <2>4, <4>1 DEF CopiedOver
        <5>3. devices'[copy[All]] = devices[copy[All]]
          BY <3>1, <5>1
        <5>4. Copied(original[d].copy)' = DOMAIN devices[copy[All]].props
          BY <1>2, <4>1, <5>1, <5>3 DEF Copied
        <5>5. \A key : CopiedFrom(original[d].copy, key) = copy[All]
          BY <4>1, <5>1 DEF CopiedFrom
        <5> QED BY <2>8, <5>2, <5>3, <5>4, <5>5 DEF Merge
      <4>2. CASE All \notin DOMAIN copy
        <5>1. copy = original[d].copy /\ \A key \in DOMAIN copy : copy[key] \in SourcesIn(copy)
          BY <1>0, <2>4, <4>2 DEF SourcesIn
        <5>2. over = Merge([key \in DOMAIN copy |-> devices[copy[key]].props[key]], original[d].props)
          BY <1>0, <2>4, <4>2 DEF CopiedOver
        <5>3. \A key \in DOMAIN copy : devices'[copy[key]] = devices[copy[key]]
          BY <3>1, <5>1
        <5> DEFINE copied == [key \in DOMAIN copy |-> devices[copy[key]].props[key]]
        <5>4. Copied(original[d].copy)' = DOMAIN copy
          BY <1>2, <4>2, <5>1 DEF Copied
        <5>5. \A key : CopiedFrom(original[d].copy, key) = copy[key]
          BY <4>2, <5>1 DEF CopiedFrom
        <5>6. DOMAIN copied = DOMAIN copy
              /\ \A key \in DOMAIN copy : copied[key] = devices'[copy[key]].props[key]
          BY <5>3
        <5>7. devices'[d].props = Merge(copied, original[d].props)
          BY <2>8, <5>2
        <5> HIDE DEF copied
        <5> QED BY <5>4, <5>5, <5>6, <5>7 DEF Merge
      <4> QED BY <4>1, <4>2
    <3>3. ASSUME NEW e \in DOMAIN devices \ {d}, ~HasCopies(e), original[e].copy # None
          PROVE  /\ SourcesIn(original[e].copy) \subseteq DOMAIN devices'
                 /\ \A s \in SourcesIn(original[e].copy) : ~HasCopies(s)'
                 /\ DOMAIN devices'[e].props = DOMAIN original[e].props \cup Copied(original[e].copy)'
                 /\ \A key \in DOMAIN devices'[e].props :
                      devices'[e].props[key] =
                        IF key \in Copied(original[e].copy)'
                        THEN devices'[CopiedFrom(original[e].copy, key)].props[key]
                        ELSE original[e].props[key]
      <4> DEFINE copyOfE == original[e].copy
      <4>1. /\ SourcesIn(copyOfE) \subseteq DOMAIN devices
            /\ \A s \in SourcesIn(copyOfE) : ~HasCopies(s)
            /\ DOMAIN devices[e].props = DOMAIN original[e].props \cup Copied(copyOfE)
            /\ \A key \in DOMAIN devices[e].props :
                 devices[e].props[key] = IF key \in Copied(copyOfE)
                                         THEN devices[CopiedFrom(copyOfE, key)].props[key]
                                         ELSE original[e].props[key]
        BY <2>1, <3>3 DEF FlatDevicesAreResolved
      <4>2. \A s \in SourcesIn(copyOfE) : devices'[s] = devices[s] /\ ~HasCopies(s)'
        BY <2>4, <2>7, <4>1 DEF HasCopies
      <4>3. All \in DOMAIN copyOfE => copyOfE[All] \in SourcesIn(copyOfE)
        BY DEF SourcesIn
      <4>4. Copied(copyOfE)' = Copied(copyOfE)
        BY <1>2, <4>2, <4>3 DEF Copied
      <4>5. \A key \in Copied(copyOfE) : CopiedFrom(copyOfE, key) \in SourcesIn(copyOfE)
        BY <4>3 DEF Copied, CopiedFrom, SourcesIn
      <4>6. devices'[e] = devices[e] /\ original' = original /\ DOMAIN devices' = DOMAIN devices
        BY <1>2, <2>7
      <4>7. \A key : CopiedFrom(copyOfE, key)' = CopiedFrom(copyOfE, key)
        BY <4>6 DEF CopiedFrom
      <4> HIDE DEF copyOfE
      <4>8. /\ SourcesIn(copyOfE) \subseteq DOMAIN devices'
            /\ \A s \in SourcesIn(copyOfE) : ~HasCopies(s)'
            /\ DOMAIN devices'[e].props = DOMAIN original[e].props \cup Copied(copyOfE)
            /\ \A key \in DOMAIN devices'[e].props :
                 devices'[e].props[key] = IF key \in Copied(copyOfE)
                                          THEN devices'[CopiedFrom(copyOfE, key)].props[key]
                                          ELSE original[e].props[key]
        BY <4>1, <4>2, <4>5, <4>6
      <4> QED BY <4>4, <4>7, <4>8 DEF copyOfE
    <3> QED BY <1>2, <2>1, <2>4, <2>7, <2>8, <3>1, <3>2, <3>3
            DEF FlatDevicesAreResolved, HasCopies, CopiedFrom
  <2> QED BY <2>9, <2>10, <2>11 DEF FlattenInv
<1> QED BY <1>0, <1>1, <1>2 DEF CopyProperties, Terminate

\* Nothing is copied by any other step.
LEMMA OtherStepsKeepInv ==
  ASSUME FlattenInv, UNCHANGED <<original, devices, todo, frames>>
  PROVE  FlattenInv'
BY DEF FlattenInv, ShapeInv, CallsInv, Calls, FlatDevicesAreResolved, HasCopies, Copied, CopiedFrom

LEMMA InitFlattenInv == Init => FlattenInv
<1> SUFFICES ASSUME Init PROVE FlattenInv
  OBVIOUS
<1>1. original \in Databases /\ devices = original /\ todo = DOMAIN original /\ frames = <<>>
  BY DEF Init
<1>2. frames \in Seq(Calls) /\ Len(frames) = 0
  BY <1>1
<1>3. ShapeInv
  BY <1>1, <1>2 DEF ShapeInv
<1>4. CallsInv
  BY <1>2 DEF CallsInv
<1>5. FlatDevicesAreResolved
  BY <1>1 DEF FlatDevicesAreResolved, HasCopies
<1> QED BY <1>3, <1>4, <1>5 DEF FlattenInv

LEMMA NextKeepsFlattenInv ==
  ASSUME FlattenInv, [Next]_vars
  PROVE  FlattenInv'
<1>1. CASE \E d \in Names : VisitDevice(d)
  BY <1>1, VisitDeviceKeepsInv
<1>2. CASE \E d \in Names : VisitCopySource(d)
  BY <1>2, VisitSourceKeepsInv
<1>3. CASE CopyProperties
  BY <1>3, CopyPropertiesKeepsInv
<1>4. CASE EndFlatten \/ (\E d \in Names : GetDeviceModel(d)) \/ Clear \/ UNCHANGED vars
  BY <1>4, OtherStepsKeepInv DEF EndFlatten, GetDeviceModel, Clear, vars
<1> QED BY <1>1, <1>2, <1>3, <1>4 DEF Next, Flatten

(***************************************************************************)
(* Which databases survive: what is known of them from the devices which   *)
(* are flat already, and from the stack.                                   *)
(***************************************************************************)
\* "all" goes with nothing else.
IsPure(copy) == All \in DOMAIN copy => DOMAIN copy = {All}

\* Flattening has yet to come to a device, or is at it.  Each call is for a
\* source of the call below it.
StackInv ==
  /\ \A d \in DOMAIN devices : HasCopies(d) => d \in todo \cup Seen
  /\ \A i \in 1..Len(frames) :
       LET copy == original[frames[i].device].copy
       IN /\ frames[i].pending \subseteq SourcesIn(copy)
          /\ i < Len(frames) => frames[i + 1].device \in SourcesIn(copy)
          /\ IsPure(copy)

\* Devices which copy from each other in a cycle never become flat.  Those
\* which are flat have what is asked of them.
IsCycle(S) ==
  S \subseteq Copiers(original) /\ \A d \in S : SourcesIn(original[d].copy) \cap S # {}

FlatInv ==
  /\ \A S : IsCycle(S) => \A d \in S : HasCopies(d)
  /\ \A d \in Copiers(original) : ~HasCopies(d) =>
       /\ IsPure(original[d].copy)
       /\ \A key \in CopiedKeys(original, d) :
            key \in DOMAIN devices[original[d].copy[key]].props
  /\ \A d \in DOMAIN devices : ~HasCopies(d) =>
       \A key \in DOMAIN devices[d].props : Has(original, d, key)

SoundInv == StackInv /\ FlatInv /\ OnlySoundDatabasesAreServed

\* The device a call is for is as it was in the beginning.
LEMMA CallsAreOriginal ==
  ASSUME FlattenInv, NEW i \in 1..Len(frames)
  PROVE  /\ frames[i].device \in DOMAIN original /\ frames[i].device \in Copiers(original)
         /\ HasCopies(frames[i].device) /\ devices[frames[i].device] = original[frames[i].device]
<1>1. frames \in Seq(Calls) /\ frames[i] \in Calls
  BY DEF FlattenInv, ShapeInv
<1>2. HasCopies(frames[i].device)
  BY DEF FlattenInv, CallsInv
<1>3. frames[i].device \in DOMAIN original
  BY <1>1 DEF Calls
<1> QED BY <1>2, <1>3 DEF FlattenInv, ShapeInv, HasCopies, Copiers

\* A device which is found on the stack again closes a cycle.
LEMMA StackClosesCycle ==
  ASSUME FlattenInv, StackInv, frames # <<>>, NEW d \in Top.pending, d \in Seen
  PROVE  IsCyclic(original)
<1>1. Len(frames) \in Nat \ {0} /\ Top = frames[Len(frames)]
  BY DEF FlattenInv, ShapeInv, Top
<1>2. PICK i \in 1..Len(frames) : frames[i].device = d
  BY <1>1 DEF Seen, FlattenInv, ShapeInv
<1> DEFINE S == {frames[k].device : k \in i..Len(frames)}
<1>3. ASSUME NEW k \in i..Len(frames)
      PROVE  SourcesIn(original[frames[k].device].copy) \cap S # {}
  <2>1. k \in 1..Len(frames)
    BY <1>1, <1>2
  <2>2. CASE k = Len(frames)
    <3>1. d \in SourcesIn(original[frames[k].device].copy)
      BY <1>1, <2>1, <2>2 DEF StackInv
    <3>2. i \in i..Len(frames) /\ d \in S
      BY <1>1, <1>2
    <3> QED BY <3>1, <3>2
  <2>3. CASE k # Len(frames)
    <3>1. k + 1 \in i..Len(frames) /\ k < Len(frames)
      BY <1>1, <1>2, <2>1, <2>3
    <3>2. frames[k + 1].device \in SourcesIn(original[frames[k].device].copy)
      BY <2>1, <3>1 DEF StackInv
    <3> QED BY <3>1, <3>2
  <2> QED BY <2>2, <2>3
<1>4. S \subseteq Copiers(original)
  <2>1. \A k \in i..Len(frames) : k \in 1..Len(frames)
    BY <1>1, <1>2
  <2> QED BY <2>1, CallsAreOriginal
<1>5. d \in S
  <2>1. i \in i..Len(frames)
    BY <1>1, <1>2
  <2> QED BY <1>2, <2>1
<1>6. \A x \in S : SourcesIn(original[x].copy) \cap S # {}
  BY <1>3
<1> HIDE DEF S
<1> QED BY <1>4, <1>5, <1>6 DEF IsCyclic

\* A property is missing for good if the device to copy it from is flat and
\* does not have it.
LEMMA MissingPropertiesAreLacking ==
  ASSUME FlattenInv, FlatInv, NEW key, NEW s \in DOMAIN devices,
         ~HasCopies(s), key \notin DOMAIN devices[s].props
  PROVE  ~Has(original, s, key)
<1> DEFINE S == {x \in DOMAIN original : ~HasCopies(x) /\ key \notin DOMAIN devices[x].props}
<1>1. DOMAIN devices = DOMAIN original /\ FlatDevicesAreResolved
  BY DEF FlattenInv, ShapeInv
<1>2. s \in S /\ S \subseteq DOMAIN original
  BY <1>1
<1>3. ASSUME NEW x \in S, x \in Copiers(original), All \in DOMAIN original[x].copy
      PROVE  original[x].copy[All] \in S
  <2> DEFINE a == original[x].copy[All]
  <2>1. x \in DOMAIN devices /\ ~HasCopies(x) /\ original[x].copy # None
        /\ a \in SourcesIn(original[x].copy)
    BY <1>1, <1>3 DEF Copiers, SourcesIn
  <2>2. /\ a \in DOMAIN devices /\ ~HasCopies(a)
        /\ DOMAIN devices[x].props = DOMAIN original[x].props \cup Copied(original[x].copy)
    BY <1>1, <2>1 DEF FlatDevicesAreResolved
  <2>3. Copied(original[x].copy) = DOMAIN devices[a].props
    BY <1>3 DEF Copied
  <2> QED BY <1>1, <2>2, <2>3
<1>4. ASSUME NEW x \in S
      PROVE  key \notin DOMAIN original[x].props \cup CopiedKeys(original, x)
  <2>1. x \in DOMAIN devices /\ ~HasCopies(x) /\ key \notin DOMAIN devices[x].props
    BY <1>1
  <2>2. CASE x \notin Copiers(original)
    <3>1. original[x].copy = None /\ devices[x] = original[x]
      BY <1>1, <2>2 DEF Copiers, FlattenInv, ShapeInv
    <3> QED BY <2>1, <2>2, <3>1 DEF CopiedKeys
  <2>3. CASE x \in Copiers(original)
    <3>1. DOMAIN devices[x].props = DOMAIN original[x].props \cup Copied(original[x].copy)
      BY <1>1, <2>1, <2>3 DEF FlatDevicesAreResolved, Copiers
    <3>2. IsPure(original[x].copy)
      BY <2>1, <2>3 DEF FlatInv
    <3>3. key \notin CopiedKeys(original, x)
      BY <2>1, <2>3, <3>1, <3>2 DEF CopiedKeys, Copied, IsPure
    <3> QED BY <2>1, <3>1, <3>3
  <2> QED BY <2>2, <2>3
<1> HIDE DEF S
<1>5. S \in SUBSET DOMAIN original
  BY <1>2
<1>6. \A x \in S \cap Copiers(original) : All \in DOMAIN original[x].copy => original[x].copy[All] \in S
  BY <1>3
<1> QED BY <1>2, <1>4, <1>5, <1>6 DEF Has

LEMMA VisitDeviceKeepsSound ==
  ASSUME FlattenInv, SoundInv, NEW d \in Names, VisitDevice(d)
  PROVE  SoundInv'
<1>1. /\ frames = <<>> /\ d \in todo /\ phase = "flattening"
      /\ UNCHANGED <<original, devices>>
      /\ d \in DOMAIN devices /\ d \in DOMAIN original
  BY DEF VisitDevice, CallFlatten, Terminate, FlattenInv, ShapeInv
<1>2. FlatInv'
  BY <1>1 DEF SoundInv, FlatInv, IsCycle, HasCopies
<1>3. Seen = {} /\ Len(frames) = 0
  BY <1>1 DEF Seen
<1>4. CASE ~HasCopies(d)
  <2>1. frames' = frames /\ todo' = todo \ {d} /\ phase' = phase
    BY <1>1, <1>4 DEF VisitDevice
  <2> QED BY <1>1, <1>2, <1>4, <2>1
          DEF SoundInv, StackInv, Seen, HasCopies, OnlySoundDatabasesAreServed
<1>5. CASE HasCopies(d) /\ Terminate
  <2>1. phase' = "terminated" /\ todo' = todo /\ frames' = frames
    BY <1>5 DEF VisitDevice, Terminate
  <2>2. CopiesAll(d) /\ DOMAIN devices[d].copy # {All}
    <3>1. phase' # phase
      BY <1>1, <2>1
    <3> QED BY <1>5, <3>1 DEF VisitDevice, CallFlatten
  <2>3. devices[d] = original[d] /\ original[d].copy # None
    BY <1>1, <1>5 DEF FlattenInv, ShapeInv, HasCopies
  <2>4. ~IsSound(original)
    BY <1>1, <2>2, <2>3 DEF IsSound, MixesAll, Copiers, CopiesAll
  <2> QED BY <1>1, <1>2, <2>1, <2>4
          DEF SoundInv, StackInv, Seen, HasCopies, OnlySoundDatabasesAreServed
<1>6. CASE HasCopies(d) /\ ~Terminate
  <2> DEFINE call == [device |-> d, pending |-> SourcesIn(devices[d].copy)]
  <2>1. /\ frames' = Append(<<>>, call) /\ phase' = phase
        /\ IsPure(devices[d].copy)
    BY <1>6 DEF VisitDevice, CallFlatten, CopiesAll, IsPure
  <2>2. todo' = todo \ {d}
    BY <1>1, <2>1 DEF VisitDevice
  <2>3. call.device = d /\ call.pending = SourcesIn(devices[d].copy)
    OBVIOUS
  <2> HIDE DEF call
  <2>4. Len(frames') = 1 /\ frames'[1] = call
    BY <2>1
  <2>5. d \in Seen'
    BY <2>1, <2>3 DEF Seen
  <2>6. devices[d] = original[d]
    BY <1>1, <1>6 DEF FlattenInv, ShapeInv
  <2>7. StackInv'
    BY <1>1, <1>3, <2>1, <2>2, <2>3, <2>4, <2>5, <2>6 DEF SoundInv, StackInv, HasCopies
  <2> QED BY <1>1, <1>2, <2>1, <2>7 DEF SoundInv, OnlySoundDatabasesAreServed
<1> QED BY <1>4, <1>5, <1>6

LEMMA VisitSourceKeepsSound ==
  ASSUME FlattenInv, SoundInv, NEW d \in Names, VisitCopySource(d)
  PROVE  SoundInv'
<1> DEFINE rest == Append(Below, [Top EXCEPT !.pending = @ \ {d}])
           call == [device |-> d, pending |-> SourcesIn(devices[d].copy)]
<1>1. /\ frames # <<>> /\ d \in Top.pending /\ phase = "flattening"
      /\ UNCHANGED <<original, devices, todo>>
      /\ \/ d \in Seen /\ Terminate
         \/ d \notin DOMAIN devices /\ Terminate
         \/ d \in DOMAIN devices /\ HasCopies(d) /\ ~IsPure(devices[d].copy) /\ Terminate
         \/ /\ d \in DOMAIN devices /\ HasCopies(d) /\ IsPure(devices[d].copy)
            /\ frames' = Append(rest, call) /\ phase' = phase
         \/ frames' = rest /\ phase' = phase
  BY DEF VisitCopySource, CallFlatten, Terminate, IsPure, CopiesAll
<1>2. FlatInv'
  BY <1>1 DEF SoundInv, FlatInv, IsCycle, HasCopies
<1>3. ShapeInv /\ StackInv /\ DOMAIN devices = DOMAIN original
  BY DEF FlattenInv, ShapeInv, SoundInv
<1>4. /\ rest \in Seq(Calls)
      /\ Len(frames) \in Nat \ {0} /\ Len(rest) = Len(frames)
      /\ \A i \in 1..Len(frames) :
           /\ frames[i] \in Calls
           /\ rest[i].device = frames[i].device
           /\ rest[i].pending = IF i = Len(frames) THEN frames[i].pending \ {d}
                                ELSE frames[i].pending
  BY <1>1, <1>3, SourceVisited
<1>5. call.device = d /\ call.pending = SourcesIn(devices[d].copy)
  OBVIOUS
<1>6. HasCopies(d) /\ d \in DOMAIN devices =>
        /\ call \in Calls /\ devices[d] = original[d] /\ d \in Copiers(original)
  BY <1>3, SourcesHaveNames DEF Calls, ShapeInv, Copiers, HasCopies
<1> HIDE DEF rest, call
<1>7. Len(frames) \in 1..Len(frames) /\ Top = frames[Len(frames)]
  BY <1>4 DEF Top
<1>8. d \in SourcesIn(original[Top.device].copy) /\ Top.device \in Copiers(original)
  BY <1>1, <1>3, <1>7, CallsAreOriginal DEF StackInv
<1>9. CASE Terminate
  <2>1. phase' = "terminated" /\ frames' = frames
    BY <1>9 DEF Terminate
  <2>2. ~IsSound(original)
    <3>1. CASE d \in Seen
      BY <1>1, <1>3, <3>1, StackClosesCycle DEF IsSound
    <3>2. CASE d \notin DOMAIN devices
      BY <1>3, <1>8, <3>2 DEF IsSound, LacksDevices
    <3>3. CASE d \in DOMAIN devices /\ HasCopies(d) /\ ~IsPure(devices[d].copy)
      BY <1>6, <3>3 DEF IsSound, MixesAll, IsPure
    <3>4. phase' # phase
      BY <1>1, <2>1
    <3> QED BY <1>1, <3>1, <3>2, <3>3, <3>4
  <2> QED BY <1>1, <1>2, <1>3, <2>1, <2>2
          DEF SoundInv, StackInv, Seen, HasCopies, OnlySoundDatabasesAreServed
<1>10. CASE frames' = rest /\ phase' = phase
  <2>1. Seen' = Seen
    <3>1. DOMAIN frames = 1..Len(frames) /\ DOMAIN rest = 1..Len(frames)
      BY <1>3, <1>4 DEF ShapeInv
    <3> QED BY <1>4, <1>10, <3>1 DEF Seen
  <2>2. ASSUME NEW i \in 1..Len(rest)
        PROVE  LET copy == original[rest[i].device].copy
               IN /\ rest[i].pending \subseteq SourcesIn(copy)
                  /\ i < Len(rest) => rest[i + 1].device \in SourcesIn(copy)
                  /\ IsPure(copy)
    <3>1. i \in 1..Len(frames) /\ (i < Len(rest) => i + 1 \in 1..Len(frames))
      BY <1>4
    <3> QED BY <1>3, <1>4, <3>1 DEF StackInv
  <2>3. StackInv'
    BY <1>1, <1>3, <1>10, <2>1, <2>2 DEF StackInv, HasCopies
  <2> QED BY <1>1, <1>2, <1>10, <2>3 DEF SoundInv, OnlySoundDatabasesAreServed
<1>11. CASE /\ d \in DOMAIN devices /\ HasCopies(d) /\ IsPure(devices[d].copy)
            /\ frames' = Append(rest, call) /\ phase' = phase
  <2>1. /\ frames' \in Seq(Calls) /\ Len(frames') = Len(frames) + 1
        /\ frames'[Len(frames) + 1] = call
        /\ \A i \in 1..Len(frames) : frames'[i] = rest[i]
    BY <1>4, <1>6, <1>11, Pushed
  <2>2. Seen \subseteq Seen'
    <3>1. DOMAIN frames = 1..Len(frames) /\ DOMAIN frames' = 1..Len(frames) + 1
      BY <1>3, <2>1 DEF ShapeInv
    <3>2. ASSUME NEW i \in 1..Len(frames)
          PROVE  i \in 1..Len(frames) + 1 /\ frames'[i].device = frames[i].device
      <4>1. frames'[i] = rest[i]
        BY <2>1
      <4>2. rest[i].device = frames[i].device
        BY <1>4
      <4>3. i \in 1..Len(frames) + 1
        BY <1>4
      <4> QED BY <4>1, <4>2, <4>3
    <3> QED BY <3>1, <3>2 DEF Seen
  <2>3. ASSUME NEW i \in 1..Len(frames')
        PROVE  LET copy == original[frames'[i].device].copy
               IN /\ frames'[i].pending \subseteq SourcesIn(copy)
                  /\ i < Len(frames') => frames'[i + 1].device \in SourcesIn(copy)
                  /\ IsPure(copy)
    <3>1. CASE i = Len(frames) + 1
      BY <1>5, <1>6, <1>11, <2>1, <3>1
    <3>2. CASE i = Len(frames)
      <4>1. /\ frames'[i].device = Top.device /\ frames'[i].pending \subseteq Top.pending
            /\ frames'[i + 1].device = d
        BY <1>4, <1>5, <1>7, <2>1, <3>2
      <4> QED BY <1>3, <1>7, <1>8, <4>1 DEF StackInv
    <3>3. CASE i \in 1..Len(frames) - 1
      <4>1. i \in 1..Len(frames) /\ i + 1 \in 1..Len(frames) /\ i < Len(frames)
        BY <1>4, <3>3
      <4> QED BY <1>3, <1>4, <2>1, <4>1 DEF StackInv
    <3> QED BY <1>4, <2>1, <3>1, <3>2, <3>3
  <2>4. StackInv'
    BY <1>1, <1>3, <2>2, <2>3 DEF StackInv, HasCopies
  <2> QED BY <1>1, <1>2, <1>11, <2>4 DEF SoundInv, OnlySoundDatabasesAreServed
<1> QED BY <1>1, <1>9, <1>10, <1>11

\* A device has become flat, or a single property is missing.
LEMMA CopyPropertiesKeepsSound ==
  ASSUME FlattenInv, SoundInv, CopyProperties, FlattenInv'
  PROVE  SoundInv'
<1>0. PICK d, copy : d = Top.device /\ copy = devices[d].copy
  OBVIOUS
<1>1. /\ frames # <<>> /\ Top.pending = {} /\ phase = "flattening"
      /\ UNCHANGED <<original, todo>>
  BY DEF CopyProperties, Terminate
<1>2. /\ Len(frames) \in Nat \ {0} /\ Top = frames[Len(frames)] /\ Len(frames) \in 1..Len(frames)
      /\ Below \in Seq(Calls) /\ Len(Below) = Len(frames) - 1
      /\ \A i \in 1..Len(frames) - 1 : Below[i] = frames[i] /\ i \in 1..Len(frames)
  BY <1>1, Popped DEF FlattenInv, ShapeInv, Top, Below
<1>3. /\ d \in DOMAIN original /\ d \in Copiers(original) /\ HasCopies(d)
      /\ devices[d] = original[d] /\ copy = original[d].copy
      /\ DOMAIN devices = DOMAIN original /\ frames \in Seq(Calls)
  BY <1>0, <1>2, CallsAreOriginal DEF FlattenInv, ShapeInv
<1>4. \A s \in SourcesIn(copy) : s \in DOMAIN devices /\ ~HasCopies(s) /\ s # d
  <2>1. PICK n : n = Len(frames) /\ n \in 1..n /\ frames[n].device = d /\ frames[n].pending = {}
    BY <1>0, <1>1, <1>2
  <2>2. /\ \A s \in SourcesIn(devices[d].copy) : s \in DOMAIN devices
        /\ \A s \in SourcesIn(devices[d].copy) : ~HasCopies(s)
    <3>1. /\ frames[n].device = d /\ SourcesIn(devices[d].copy) \ frames[n].pending = SourcesIn(devices[d].copy)
          /\ ~(n < n)
      BY <1>2, <2>1
    <3> QED BY <2>1, <3>1 DEF FlattenInv, CallsInv
  <2> QED BY <1>0, <1>3, <2>2
<1>5. IsPure(copy)
  BY <1>0, <1>2, <1>3 DEF SoundInv, StackInv
<1>6. CASE /\ ~CopiesAll(d) /\ \E key \in DOMAIN copy : key \notin DOMAIN devices[copy[key]].props
           /\ Terminate
  <2>1. PICK key \in DOMAIN copy : key \notin DOMAIN devices[copy[key]].props
    BY <1>6
  <2>2. copy[key] \in SourcesIn(copy) /\ key # All
    BY <1>0, <1>6, <2>1 DEF SourcesIn, CopiesAll
  <2>3. ~Has(original, copy[key], key)
    BY <1>4, <2>1, <2>2, MissingPropertiesAreLacking DEF SoundInv
  <2>4. key \in CopiedKeys(original, d)
    BY <1>3, <2>2 DEF CopiedKeys
  <2>5. ~IsSound(original)
    BY <1>3, <2>3, <2>4 DEF IsSound, LacksProperties
  <2>6. UNCHANGED <<original, devices, todo, frames>> /\ phase' = "terminated"
    BY <1>6 DEF Terminate
  <2> QED BY <2>5, <2>6 DEF SoundInv, StackInv, FlatInv, IsCycle, Seen, HasCopies,
                            OnlySoundDatabasesAreServed
<1>7. CASE /\ devices' = [devices EXCEPT ![d] = [props |-> CopiedOver(@.props, copy), copy  |-> None]]
           /\ CopiesAll(d) \/ \A key \in DOMAIN copy : key \in DOMAIN devices[copy[key]].props
           /\ frames' = Below /\ phase' = phase
  <2>1. /\ DOMAIN devices' = DOMAIN devices /\ devices'[d].copy = None
        /\ \A e \in DOMAIN devices \ {d} : devices'[e] = devices[e]
    <3> DEFINE flat == [props |-> CopiedOver(devices[d].props, copy), copy |-> None]
    <3>1. devices' = [devices EXCEPT ![d] = flat] /\ flat.copy = None
      BY <1>7
    <3> HIDE DEF flat
    <3> QED BY <1>3, <3>1
  <2>2. /\ ~HasCopies(d)'
        /\ \A e \in DOMAIN devices \ {d} : HasCopies(e)' <=> HasCopies(e)
    BY <2>1 DEF HasCopies
  <2>3. StackInv'
    <3>1. \A e \in Seen : e = d \/ e \in Seen'
      <4>1. DOMAIN frames = 1..Len(frames) /\ DOMAIN Below = 1..Len(frames) - 1
        BY <1>2, <1>3
      <4>2. \A i \in DOMAIN frames : i = Len(frames) \/ (i \in DOMAIN Below /\ Below[i] = frames[i])
        BY <1>2, <4>1
      <4> QED BY <1>0, <1>2, <1>7, <4>2 DEF Seen
    <3>2. ASSUME NEW i \in 1..Len(Below)
          PROVE  LET c == original[Below[i].device].copy
                 IN /\ Below[i].pending \subseteq SourcesIn(c)
                    /\ i < Len(Below) => Below[i + 1].device \in SourcesIn(c)
                    /\ IsPure(c)
      <4>1. i \in 1..Len(frames) /\ Below[i] = frames[i] /\ i < Len(frames)
            /\ (i < Len(Below) => Below[i + 1] = frames[i + 1])
        BY <1>2
      <4> QED BY <4>1 DEF SoundInv, StackInv
    <3>3. \A e \in DOMAIN devices' : HasCopies(e)' => e \in todo' \cup Seen'
      BY <1>1, <2>1, <2>2, <3>1 DEF SoundInv, StackInv
    <3> QED BY <1>1, <1>7, <3>2, <3>3 DEF StackInv
  <2>4. ASSUME NEW S, IsCycle(S)'
        PROVE  \A e \in S : HasCopies(e)'
    <3>1. IsCycle(S)
      BY <1>1, <2>4 DEF IsCycle
    <3>2. \A e \in S : HasCopies(e) /\ e \in DOMAIN devices
      BY <1>3, <3>1 DEF SoundInv, FlatInv, IsCycle, Copiers
    <3>3. d \notin S
      BY <1>3, <1>4, <3>1, <3>2 DEF IsCycle
    <3> QED BY <2>2, <3>2, <3>3
  <2>5. ASSUME NEW e \in Copiers(original), ~HasCopies(e)'
        PROVE  /\ IsPure(original[e].copy)
               /\ \A key \in CopiedKeys(original, e) :
                    key \in DOMAIN devices'[original[e].copy[key]].props
    <3>1. CASE e = d
      <4>1. CopiesAll(d) => CopiedKeys(original, d) = {}
        BY <1>0, <1>3, <1>5 DEF CopiesAll, IsPure, CopiedKeys
      <4>2. ASSUME NEW key \in CopiedKeys(original, d)
            PROVE  key \in DOMAIN devices'[copy[key]].props
        <5>1. key \in DOMAIN copy /\ copy[key] \in SourcesIn(copy)
          BY <1>3, <4>2 DEF CopiedKeys, SourcesIn
        <5>2. key \in DOMAIN devices[copy[key]].props
          BY <1>7, <4>1, <5>1
        <5> QED BY <1>4, <2>1, <5>1, <5>2
      <4> QED BY <1>3, <1>5, <3>1, <4>2
    <3>2. CASE e # d
      <4>1. e \in DOMAIN devices /\ ~HasCopies(e) /\ original[e].copy # None
        BY <1>3, <2>2, <2>5, <3>2 DEF Copiers
      <4>2. /\ SourcesIn(original[e].copy) \subseteq DOMAIN devices
            /\ \A s \in SourcesIn(original[e].copy) : ~HasCopies(s)
        BY <4>1 DEF FlattenInv, FlatDevicesAreResolved
      <4>3. ASSUME NEW key \in CopiedKeys(original, e)
            PROVE  key \in DOMAIN devices'[original[e].copy[key]].props
        <5>1. original[e].copy[key] \in SourcesIn(original[e].copy)
          BY <2>5, <4>3 DEF CopiedKeys, SourcesIn
        <5>2. devices'[original[e].copy[key]] = devices[original[e].copy[key]]
          BY <1>3, <2>1, <4>2, <5>1
        <5> QED BY <4>1, <5>2 DEF SoundInv, FlatInv
      <4> QED BY <4>1, <4>3 DEF SoundInv, FlatInv
    <3> QED BY <3>1, <3>2
  <2>6. ASSUME NEW e \in DOMAIN devices', ~HasCopies(e)', NEW key \in DOMAIN devices'[e].props
        PROVE  Has(original, e, key)
    <3>1. CASE e # d
      BY <2>1, <2>2, <2>6, <3>1 DEF SoundInv, FlatInv
    <3>2. CASE e = d
      <4>1. DOMAIN devices'[d].props = DOMAIN original[d].props \cup Copied(copy)'
        BY <1>1, <1>3, <2>1, <2>2 DEF FlattenInv, FlatDevicesAreResolved, Copiers
      <4>2. CASE key \in DOMAIN original[d].props
        BY <1>3, <3>2, <4>2 DEF Has
      <4>3. CASE key \in DOMAIN copy \ {All}
        BY <1>3, <3>2, <4>3 DEF Has, CopiedKeys
      <4>4. CASE All \in DOMAIN copy /\ key \in DOMAIN devices'[copy[All]].props
        <5>1. copy[All] \in SourcesIn(copy)
          BY <4>4 DEF SourcesIn
        <5>2. Has(original, copy[All], key)
          BY <1>4, <2>1, <4>4, <5>1 DEF SoundInv, FlatInv
        <5> QED BY <1>3, <3>2, <4>4, <5>2 DEF Has
      <4>5. All \in DOMAIN copy \/ key \in DOMAIN original[d].props \/ key \in DOMAIN copy \ {All}
        BY <2>6, <3>2, <4>1 DEF Copied
      <4>6. CASE All \in DOMAIN copy
        BY <2>6, <3>2, <4>1, <4>2, <4>4, <4>6 DEF Copied
      <4> QED BY <4>2, <4>3, <4>5, <4>6
    <3> QED BY <3>1, <3>2
  <2>7. FlatInv'
    BY <1>1, <2>4, <2>5, <2>6 DEF FlatInv
  <2> QED BY <1>1, <1>7, <2>3, <2>7 DEF SoundInv, OnlySoundDatabasesAreServed
<1> QED BY <1>0, <1>6, <1>7 DEF CopyProperties

\* When all devices are flat, nothing is wrong with any of them.
LEMMA EndFlattenKeepsSound ==
  ASSUME FlattenInv, SoundInv, EndFlatten
  PROVE  SoundInv'
<1>1. /\ UNCHANGED <<original, devices, todo, frames>>
      /\ frames = <<>> /\ todo = {} /\ phase' = "ready"
      /\ DOMAIN devices = DOMAIN original
  BY DEF EndFlatten, FlattenInv, ShapeInv
<1>2. \A d \in DOMAIN original : ~HasCopies(d)
  <2>1. Seen = {}
    BY <1>1 DEF Seen
  <2> QED BY <1>1, <2>1 DEF SoundInv, StackInv
<1>3. ~IsCyclic(original)
  <2> SUFFICES ASSUME NEW S \in (SUBSET Copiers(original)) \ {{}},
                      \A d \in S : SourcesIn(original[d].copy) \cap S # {}
               PROVE  FALSE
    BY DEF IsCyclic
  <2>1. S # {} /\ S \subseteq Copiers(original)
    OBVIOUS
  <2>2. \A d \in Copiers(original) : d \in DOMAIN original
    BY DEF Copiers
  <2>3. IsCycle(S)
    BY <2>1 DEF IsCycle
  <2> QED BY <1>2, <2>1, <2>2, <2>3 DEF SoundInv, FlatInv
<1>4. \A d \in Copiers(original) :
        /\ SourcesIn(original[d].copy) \subseteq DOMAIN original
        /\ \A s \in SourcesIn(original[d].copy) : ~HasCopies(s)
  BY <1>1, <1>2 DEF FlattenInv, FlatDevicesAreResolved, Copiers
<1>5. ~LacksDevices(original)
  BY <1>4 DEF LacksDevices
<1>6. \A d \in Copiers(original) :
        /\ IsPure(original[d].copy)
        /\ \A key \in CopiedKeys(original, d) :
             key \in DOMAIN devices[original[d].copy[key]].props
  BY <1>2 DEF SoundInv, FlatInv, Copiers
<1>7. ~MixesAll(original)
  BY <1>6 DEF MixesAll, IsPure
<1>8. ~LacksProperties(original)
  <2> SUFFICES ASSUME NEW d \in Copiers(original), NEW key \in CopiedKeys(original, d)
               PROVE  Has(original, original[d].copy[key], key)
    BY DEF LacksProperties
  <2>1. original[d].copy[key] \in SourcesIn(original[d].copy)
    BY DEF CopiedKeys, SourcesIn
  <2>2. original[d].copy[key] \in DOMAIN devices /\ ~HasCopies(original[d].copy[key])
    BY <1>1, <1>4, <2>1
  <2> QED BY <1>6, <2>2 DEF SoundInv, FlatInv
<1>9. IsSound(original)
  BY <1>3, <1>5, <1>7, <1>8 DEF IsSound
<1> QED BY <1>1, <1>9 DEF SoundInv, StackInv, FlatInv, IsCycle, Seen, HasCopies,
                          OnlySoundDatabasesAreServed

LEMMA OtherStepsKeepSound ==
  ASSUME SoundInv, UNCHANGED <<original, devices, phase, todo, frames>>
  PROVE  SoundInv'
BY DEF SoundInv, StackInv, FlatInv, IsCycle, Seen, HasCopies, OnlySoundDatabasesAreServed

LEMMA InitSoundInv == Init => SoundInv
<1> SUFFICES ASSUME Init PROVE SoundInv
  OBVIOUS
<1>1. /\ devices = original /\ todo = DOMAIN original /\ frames = <<>>
      /\ phase = "flattening" /\ Len(frames) = 0
  BY DEF Init
<1>2. StackInv
  BY <1>1 DEF StackInv
<1>3. \A S : IsCycle(S) => \A d \in S : HasCopies(d)
  BY <1>1 DEF IsCycle, Copiers, HasCopies
<1>4. \A d \in Copiers(original) : HasCopies(d)
  BY <1>1 DEF Copiers, HasCopies
<1>5. \A d \in DOMAIN devices : \A key \in DOMAIN devices[d].props : Has(original, d, key)
  BY <1>1 DEF Has
<1>6. OnlySoundDatabasesAreServed
  BY <1>1 DEF OnlySoundDatabasesAreServed
<1> QED BY <1>2, <1>3, <1>4, <1>5, <1>6 DEF SoundInv, FlatInv

LEMMA NextKeepsSoundInv ==
  ASSUME FlattenInv, SoundInv, [Next]_vars
  PROVE  SoundInv'
<1>1. FlattenInv'
  BY NextKeepsFlattenInv
<1>2. CASE \E d \in Names : VisitDevice(d)
  BY <1>2, VisitDeviceKeepsSound
<1>3. CASE \E d \in Names : VisitCopySource(d)
  BY <1>3, VisitSourceKeepsSound
<1>4. CASE CopyProperties
  BY <1>1, <1>4, CopyPropertiesKeepsSound
<1>5. CASE EndFlatten
  BY <1>5, EndFlattenKeepsSound
<1>6. CASE (\E d \in Names : GetDeviceModel(d)) \/ Clear \/ UNCHANGED vars
  BY <1>6, OtherStepsKeepSound DEF GetDeviceModel, Clear, vars
<1> QED BY <1>2, <1>3, <1>4, <1>5, <1>6 DEF Next, Flatten

(***************************************************************************)
(* Theorems                                                                *)
(***************************************************************************)
\* The devices of active calls of flatten_device() are different, and all
\* that their finished calls have copied is final.
THEOREM FlatteningIsOrdered == Spec => []FlattenInv
BY InitFlattenInv, NextKeepsFlattenInv, PTL DEF Spec

\* A device which is flat has each property its definition asks for, with
\* the value its source has in the end, whatever the database and the order
\* in which flatten() visits it.
THEOREM FlatDevicesResolved == Spec => []FlatDevicesAreResolved
<1>1. FlattenInv => FlatDevicesAreResolved
  BY DEF FlattenInv
<1> QED BY <1>1, FlatteningIsOrdered, PTL

\* Devices which copy from each other in a cycle are never resolved, and the
\* active calls of flatten_device() are a chain of copies.
THEOREM FlatteningIsSound == Spec => []SoundInv
<1>1. Init => FlattenInv /\ SoundInv
  BY InitFlattenInv, InitSoundInv
<1>2. FlattenInv /\ SoundInv /\ [Next]_vars => (FlattenInv /\ SoundInv)'
  BY NextKeepsFlattenInv, NextKeepsSoundInv
<1>3. FlattenInv /\ SoundInv => SoundInv
  OBVIOUS
<1> QED BY <1>1, <1>2, <1>3, PTL DEF Spec

\* flatten() ends the program if and only if copies form a cycle, name an
\* unknown device, mix "all" with something else or ask for a property which
\* is not there, in whatever order it visits the devices and their sources.
THEOREM OnlySoundAreServed == Spec => []OnlySoundDatabasesAreServed
<1>1. SoundInv => OnlySoundDatabasesAreServed
  BY DEF SoundInv
<1> QED BY <1>1, FlatteningIsSound, PTL

(***************************************************************************)
(* Flattening ends: each of its steps leaves less to do.  The liveness     *)
(* property itself (FlattenEnds) needs fairness on top.                    *)
(***************************************************************************)
Uncopied == {d \in DOMAIN devices : HasCopies(d)}

\* Sources that calls for a device may be about to visit.
Unvisited ==
  {p \in (DOMAIN original) \X Names :
     /\ HasCopies(p[1])
     /\ \A i \in 1..Len(frames) : frames[i].device = p[1] => p[2] \in frames[i].pending}

WorkLeft == Cardinality(todo) + Cardinality(Uncopied) + Cardinality(Unvisited)

\* A step of flatten() ends it or makes what is left to do less.
WorkRunsOut ==
  Flatten => phase' # "flattening" \/ (WorkLeft' \in Nat /\ WorkLeft' < WorkLeft)

LeavesLess ==
  /\ todo' \subseteq todo /\ Uncopied' \subseteq Uncopied /\ Unvisited' \subseteq Unvisited
  /\ todo' # todo \/ Uncopied' # Uncopied \/ Unvisited' # Unvisited

LEMMA VisitDeviceLeavesLess ==
  ASSUME FlattenInv, NEW d \in Names, VisitDevice(d)
  PROVE  phase' # "flattening" \/ LeavesLess
<1>1. /\ frames = <<>> /\ d \in todo
      /\ UNCHANGED <<original, devices>>
  BY DEF VisitDevice, CallFlatten, Terminate
<1>2. phase' = "terminated" \/ todo' = todo \ {d}
  BY DEF VisitDevice
<1>3. Uncopied' = Uncopied
  BY <1>1 DEF Uncopied, HasCopies
<1>4. Unvisited' \subseteq Unvisited
  BY <1>1 DEF Unvisited, HasCopies
<1> QED BY <1>1, <1>2, <1>3, <1>4 DEF LeavesLess

LEMMA VisitSourceLeavesLess ==
  ASSUME FlattenInv, NEW d \in Names, VisitCopySource(d)
  PROVE  phase' # "flattening" \/ LeavesLess
<1> DEFINE rest == Append(Below, [Top EXCEPT !.pending = @ \ {d}])
           call == [device |-> d, pending |-> SourcesIn(devices[d].copy)]
<1>1. /\ frames # <<>> /\ d \in Top.pending /\ UNCHANGED <<original, devices, todo>>
      /\ \/ phase' = "terminated"
         \/ d \in DOMAIN devices /\ HasCopies(d) /\ frames' = Append(rest, call)
         \/ frames' = rest
  BY DEF VisitCopySource, CallFlatten, Terminate
<1>2. ShapeInv /\ CallsInv
  BY DEF FlattenInv
<1>3. /\ rest \in Seq(Calls)
      /\ Len(frames) \in Nat \ {0} /\ Len(rest) = Len(frames)
      /\ \A i \in 1..Len(frames) :
           /\ frames[i] \in Calls
           /\ rest[i].device = frames[i].device
           /\ rest[i].pending = IF i = Len(frames) THEN frames[i].pending \ {d}
                                ELSE frames[i].pending
  BY <1>1, <1>2, SourceVisited
<1>4. HasCopies(d) /\ d \in DOMAIN devices => call \in Calls
  BY <1>2, SourcesHaveNames DEF Calls, ShapeInv
<1> HIDE DEF rest, call
<1>5. SUFFICES ASSUME phase' # "terminated" PROVE LeavesLess
  OBVIOUS
<1>6. /\ Len(frames') \in Nat /\ Len(frames) <= Len(frames')
      /\ \A i \in 1..Len(frames) : frames'[i] = rest[i]
  <2>1. CASE frames' = rest
    BY <2>1, <1>3
  <2>2. CASE d \in DOMAIN devices /\ HasCopies(d) /\ frames' = Append(rest, call)
    <3>1. /\ Len(frames') = Len(rest) + 1
          /\ \A i \in 1..Len(rest) : frames'[i] = rest[i]
      BY <2>2, <1>3, <1>4, Pushed
    <3> QED BY <1>3, <3>1
  <2> QED BY <1>1, <1>5, <2>1, <2>2
<1>7. \A i \in 1..Len(frames) :
        /\ i \in 1..Len(frames')
        /\ frames'[i].device = frames[i].device
        /\ frames'[i].pending \subseteq frames[i].pending
  <2> TAKE i \in 1..Len(frames)
  <2>1. PICK m, n : m = Len(frames) /\ n = Len(frames')
    OBVIOUS
  <2>2. i \in 1..m /\ m \in Nat /\ n \in Nat /\ m <= n
    BY <1>3, <1>6, <2>1
  <2>3. i \in 1..Len(frames')
    BY <2>1, <2>2
  <2>4. frames'[i] = rest[i] /\ rest[i].device = frames[i].device
    BY <1>3, <1>6
  <2>5. rest[i].pending \subseteq frames[i].pending
    BY <1>3
  <2> QED BY <2>3, <2>4, <2>5
<1>8. Uncopied' = Uncopied
  BY <1>1 DEF Uncopied, HasCopies
<1>9. Unvisited' \subseteq Unvisited
  <2> SUFFICES ASSUME NEW p \in Unvisited' PROVE p \in Unvisited
    OBVIOUS
  <2>1. /\ p \in (DOMAIN original) \X Names /\ HasCopies(p[1])
        /\ \A i \in 1..Len(frames') : frames'[i].device = p[1] => p[2] \in frames'[i].pending
    BY <1>1 DEF Unvisited, HasCopies
  <2>2. \A i \in 1..Len(frames) : frames[i].device = p[1] => p[2] \in frames[i].pending
    BY <1>7, <2>1
  <2> QED BY <2>1, <2>2 DEF Unvisited
<1>10. Unvisited' # Unvisited
  <2>1. PICK n : n = Len(frames) /\ n \in 1..Len(frames) /\ n \in 1..Len(frames')
    BY <1>3, <1>7
  <2>2. PICK t : t = frames[n].device /\ t \in DOMAIN original /\ d \in frames[n].pending
    BY <1>1, <1>3, <2>1 DEF Calls, Top
  <2>3. /\ HasCopies(t)
        /\ \A j \in 1..Len(frames) : frames[j].device = t => j = n
    BY <1>2, <2>1, <2>2 DEF CallsInv
  <2>4. <<t, d>> \in Unvisited
    BY <2>1, <2>2, <2>3 DEF Unvisited
  <2>5. frames'[n].device = t /\ d \notin frames'[n].pending
    BY <1>3, <1>6, <2>1, <2>2
  <2>6. <<t, d>> \notin Unvisited'
    BY <2>1, <2>5 DEF Unvisited
  <2> QED BY <2>4, <2>6
<1> QED BY <1>1, <1>8, <1>9, <1>10 DEF LeavesLess

LEMMA CopyPropertiesLeavesLess ==
  ASSUME FlattenInv, CopyProperties
  PROVE  phase' # "flattening" \/ LeavesLess
<1> SUFFICES ASSUME phase' = "flattening" PROVE LeavesLess
  OBVIOUS
<1>1. PICK d, over :
        /\ d = Top.device /\ frames # <<>>
        /\ devices' = [devices EXCEPT ![d] = [props |-> over, copy |-> None]]
        /\ frames' = Below /\ UNCHANGED <<original, todo>>
  BY DEF CopyProperties, Terminate
<1>2. ShapeInv /\ CallsInv
  BY DEF FlattenInv
<1>3. /\ Len(frames) \in Nat \ {0} /\ Top \in Calls
      /\ Below \in Seq(Calls) /\ Len(Below) = Len(frames) - 1
      /\ \A i \in 1..Len(frames) - 1 : Below[i] = frames[i]
  BY <1>1, <1>2, Popped DEF ShapeInv, Top, Below
<1>4. /\ d \in DOMAIN devices /\ HasCopies(d)
  <2>1. Len(frames) \in 1..Len(frames)
    BY <1>3
  <2> QED BY <1>1, <1>2, <1>3, <2>1 DEF ShapeInv, CallsInv, Calls, Top
<1>5. /\ DOMAIN devices' = DOMAIN devices
      /\ ~HasCopies(d)'
      /\ \A e \in DOMAIN devices \ {d} : HasCopies(e)' <=> HasCopies(e)
  BY <1>1, <1>4 DEF HasCopies
<1>6. Uncopied' = Uncopied \ {d} /\ d \in Uncopied
  BY <1>4, <1>5 DEF Uncopied
<1>7. Unvisited' \subseteq Unvisited
  <2> SUFFICES ASSUME NEW p \in Unvisited' PROVE p \in Unvisited
    OBVIOUS
  <2>1. /\ p \in (DOMAIN original) \X Names /\ HasCopies(p[1])' /\ p[1] \in DOMAIN devices
        /\ \A i \in 1..Len(Below) : Below[i].device = p[1] => p[2] \in Below[i].pending
    BY <1>1, <1>2 DEF Unvisited, ShapeInv
  <2>2. p[1] # d /\ HasCopies(p[1])
    BY <1>5, <2>1
  <2>3. ASSUME NEW i \in 1..Len(frames), frames[i].device = p[1] PROVE p[2] \in frames[i].pending
    <3>1. i # Len(frames)
      BY <1>1, <2>2, <2>3 DEF Top
    <3>2. i \in 1..Len(frames) - 1 /\ i \in 1..Len(Below)
      BY <1>3, <3>1
    <3> QED BY <1>3, <2>1, <2>3, <3>2
  <2> QED BY <2>1, <2>2, <2>3 DEF Unvisited
<1> QED BY <1>1, <1>6, <1>7 DEF LeavesLess

\* If there are finitely many names, what is left to do is finite, and gets
\* less with each step of flatten(): so many steps it takes at most, for any
\* database and any order.
THEOREM FlatteningRunsOut == IsFiniteSet(Names) => (Spec => [][WorkRunsOut]_vars)
<1> SUFFICES ASSUME IsFiniteSet(Names) PROVE Spec => [][WorkRunsOut]_vars
  OBVIOUS
<1>1. FlattenInv => IsFiniteSet(todo) /\ IsFiniteSet(Uncopied) /\ IsFiniteSet(Unvisited)
  <2> SUFFICES ASSUME FlattenInv
               PROVE  IsFiniteSet(todo) /\ IsFiniteSet(Uncopied) /\ IsFiniteSet(Unvisited)
    OBVIOUS
  <2>1. DOMAIN original \subseteq Names
    BY DatabaseAssumption DEF FlattenInv, ShapeInv
  <2>2. IsFiniteSet(DOMAIN original)
    BY <2>1, FS_Subset
  <2>3. IsFiniteSet((DOMAIN original) \X Names)
    BY <2>2, FS_Product
  <2>4. /\ todo \in SUBSET DOMAIN original /\ Uncopied \in SUBSET DOMAIN original
        /\ Unvisited \in SUBSET ((DOMAIN original) \X Names)
    BY DEF FlattenInv, ShapeInv, Uncopied, Unvisited
  <2> QED BY <2>2, <2>3, <2>4, FS_Subset
<1>2. FlattenInv /\ Flatten => phase' # "flattening" \/ LeavesLess
  BY VisitDeviceLeavesLess, VisitSourceLeavesLess, CopyPropertiesLeavesLess DEF Flatten, EndFlatten
<1>3. FlattenInv /\ LeavesLess => WorkLeft' \in Nat /\ WorkLeft' < WorkLeft
  <2> SUFFICES ASSUME FlattenInv, LeavesLess
               PROVE  WorkLeft' \in Nat /\ WorkLeft' < WorkLeft
    OBVIOUS
  <2>1. ASSUME NEW S, NEW T, IsFiniteSet(S), T \subseteq S
        PROVE  /\ Cardinality(T) \in Nat /\ Cardinality(S) \in Nat
               /\ Cardinality(T) <= Cardinality(S)
               /\ T # S => Cardinality(T) # Cardinality(S)
    BY <2>1, FS_Subset, FS_CardinalityType
  <2>2. /\ Cardinality(todo') \in Nat /\ Cardinality(todo) \in Nat
        /\ Cardinality(todo') <= Cardinality(todo)
        /\ todo' # todo => Cardinality(todo') # Cardinality(todo)
    BY <1>1, <2>1 DEF LeavesLess
  <2>3. /\ Cardinality(Uncopied') \in Nat /\ Cardinality(Uncopied) \in Nat
        /\ Cardinality(Uncopied') <= Cardinality(Uncopied)
        /\ Uncopied' # Uncopied => Cardinality(Uncopied') # Cardinality(Uncopied)
    BY <1>1, <2>1 DEF LeavesLess
  <2>4. /\ Cardinality(Unvisited') \in Nat /\ Cardinality(Unvisited) \in Nat
        /\ Cardinality(Unvisited') <= Cardinality(Unvisited)
        /\ Unvisited' # Unvisited => Cardinality(Unvisited') # Cardinality(Unvisited)
    BY <1>1, <2>1 DEF LeavesLess
  <2>5. todo' # todo \/ Uncopied' # Uncopied \/ Unvisited' # Unvisited
    BY DEF LeavesLess
  <2> QED BY <2>2, <2>3, <2>4, <2>5 DEF WorkLeft
<1>4. FlattenInv => WorkRunsOut
  BY <1>2, <1>3 DEF WorkRunsOut
<1> QED BY <1>4, FlatteningIsOrdered, PTL

(***************************************************************************)
(* Induction is over sets of numbers.                                      *)
(***************************************************************************)
LEMMA NatIsWellFounded ==
  \E R : IsWellFoundedOn(R, Nat) /\ \A x, y \in Nat : x < y => <<x, y>> \in R
<1> DEFINE R == {ss \in Nat \X Nat : ss[1] < ss[2]}
<1>1. IsWellFoundedOn(R, Nat)
  BY NatLessThanWellFounded, Zenon DEF OpToRel
<1>2. \A x, y \in Nat : x < y => <<x, y>> \in R
  OBVIOUS
<1> QED BY <1>1, <1>2

LEMMA LeastInRelation ==
  ASSUME NEW R, NEW T, IsWellFoundedOn(R, Nat), T \subseteq Nat, T # {}
  PROVE  \E x \in T : \A y \in T : ~(<<y, x>> \in R)
BY WFMin, Zenon

LEMMA LeastNumber ==
  ASSUME NEW T \in SUBSET Nat, T # {}
  PROVE  \E x \in T : \A y \in T : x <= y
<1>1. PICK R : IsWellFoundedOn(R, Nat) /\ \A x, y \in Nat : x < y => <<x, y>> \in R
  BY NatIsWellFounded
<1>2. PICK x \in T : \A y \in T : ~(<<y, x>> \in R)
  BY ONLY <1>1, T \in SUBSET Nat, T # {}, LeastInRelation
<1>3. \A y \in T : ~(y < x)
  BY <1>1, <1>2, Zenon
<1>4. \A y \in T : x <= y
  BY ONLY <1>3, T \in SUBSET Nat, x \in T
<1> QED BY <1>4

LEMMA SetInduction ==
  ASSUME NEW S \in SUBSET Nat, 0 \in S, \A n \in S : n + 1 \in S
  PROVE  \A n \in Nat : n \in S
<1> SUFFICES ASSUME Nat \ S # {} PROVE FALSE
  OBVIOUS
<1>1. PICK x \in Nat \ S : \A y \in Nat \ S : x <= y
  BY LeastNumber
<1>2. x # 0 /\ x - 1 \in Nat /\ (x - 1) + 1 = x /\ ~(x <= x - 1)
  BY <1>1
<1>3. x - 1 \in S
  BY <1>1, <1>2
<1> QED BY <1>1, <1>2, <1>3

(***************************************************************************)
(* Quotients and casts.                                                    *)
(***************************************************************************)
LEMMA Division ==
  ASSUME NEW a \in Int, NEW b \in Nat \ {0}
  PROVE  \E q \in Int, r \in 0..b - 1 : q = a \div b /\ r = a % b /\ a = b * q + r
<1>1. a \div b \in Int /\ a % b \in 0..b - 1
  OBVIOUS
<1>2. a % b = a - b * (a \div b)
  BY Z3T(30)
<1>3. PICK q, r : q = a \div b /\ r = a % b
  OBVIOUS
<1>4. q \in Int /\ r \in 0..b - 1 /\ b * q \in Int /\ r = a - b * q
  BY <1>1, <1>2, <1>3
<1>5. a = b * q + r
  BY ONLY <1>4, a \in Int, b \in Nat
<1> QED BY <1>3, <1>4, <1>5, Zenon

LEMMA ProductOrder ==
  ASSUME NEW b \in Nat \ {0}, NEW x \in Int, NEW y \in Int, b * x < b * y
  PROVE  x < y
<1> SUFFICES ASSUME y <= x PROVE FALSE
  OBVIOUS
<1>1. PICK k \in Nat : x = y + k
  <2>1. x - y \in Nat /\ x = y + (x - y)
    OBVIOUS
  <2> QED BY <2>1
<1>2. b * x = b * y + b * k
  BY <1>1
<1>3. b * k \in Nat
  OBVIOUS
<1> QED BY <1>2, <1>3

LEMMA QuotientOrder ==
  ASSUME NEW a \in Nat, NEW b \in Nat \ {0}, NEW k \in Int
  PROVE  /\ a \div b \in Nat
         /\ a < b * k => a \div b < k
         /\ b * k <= a => k <= a \div b
<1>1. PICK q \in Int, r \in 0..b - 1 : q = a \div b /\ a = b * q + r
  BY Division
<1>2. b * q \in Int /\ b * k \in Int /\ b * (q + 1) = b * q + b /\ b * (0 - 1) = 0 - b
  OBVIOUS
<1>3. a < b * k => q < k
  <2>1. a < b * k => b * q < b * k
    BY <1>1, <1>2
  <2> QED BY <2>1, ProductOrder
<1>4. b * k <= a => k < q + 1
  <2>1. b * k <= a => b * k < b * (q + 1)
    BY <1>1, <1>2
  <2> QED BY <2>1, ProductOrder
<1>5. 0 - 1 < q
  <2>1. b * (0 - 1) < b * q
    BY <1>1, <1>2
  <2> QED BY <2>1, ProductOrder
<1>6. q \in Nat /\ (a < b * k => q < k) /\ (b * k <= a => k <= q)
  BY <1>3, <1>4, <1>5
<1> QED BY <1>1, <1>6, Zenon

\* Casts
LEMMA CastType ==
  ASSUME NEW n \in Int
  PROVE  /\ ToUInt64(n) \in 0..Word - 1
         /\ ToInt64(n) \in Int
         /\ ToInt64(n) < Word \div 2 /\ Word \div 2 <= ToInt64(n) + Word
<1>1. Word \in Nat \ {0}
  BY ControlsAssumption
<1> HIDE DEF Word
<1>2. PICK h : h = Word \div 2
  OBVIOUS
<1>3. PICK m : m = n % Word
  OBVIOUS
<1>4. m \in 0..Word - 1 /\ h \in Nat /\ h <= Word
  BY <1>1, <1>2, <1>3
<1>5. ToUInt64(n) = m /\ ToInt64(n) = IF m >= h THEN m - Word ELSE m
  BY <1>2, <1>3, Zenon DEF ToUInt64, ToInt64
<1>6. /\ ToUInt64(n) \in 0..Word - 1
      /\ ToInt64(n) \in Int
      /\ ToInt64(n) < h /\ h <= ToInt64(n) + Word
  BY <1>1, <1>4, <1>5
<1> QED BY <1>2, <1>6, Zenon

LEMMA CastKeeps ==
  ASSUME NEW n \in Int
  PROVE  /\ n \in 0..Word - 1 => ToUInt64(n) = n
         /\ n < Word \div 2 /\ Word \div 2 <= n + Word => ToInt64(n) = n
<1>1. Word \in Nat \ {0}
  BY ControlsAssumption
<1> HIDE DEF Word
<1>2. Word \div 2 \in Nat /\ Word \div 2 < Word
  BY <1>1
<1>3. n \in 0..Word - 1 => n % Word = n
  BY <1>1
<1>4. n \in -Word .. -1 => n % Word = n + Word
  BY <1>1
<1> QED BY <1>1, <1>2, <1>3, <1>4 DEF ToUInt64, ToInt64

\* An index leads back to the value it was made from, and is one of the
\* choices unless the last one is incomplete.
LEMMA RangeIndexFacts ==
  ASSUME NEW c, c.min.num \in Int, c.max.num \in Int, c.step.num \in Int,
         IsSelectorRange(c), Width(c) # 0, NEW n \in Int, RangeIndex(c, n) # Failed
  PROVE  /\ RangeIndex(c, n) \in 0..UIntMax
         /\ RangeValue(c, RangeIndex(c, n)) = n
         /\ Width(c) % StepOf(c) = 0 => RangeIndex(c, n) < RangeChoices(c)
<1>1. PICK lo, hi, st, w : lo = ToInt64(c.min.num) /\ hi = ToInt64(c.max.num)
                           /\ st = StepOf(c) /\ w = Width(c)
  OBVIOUS
<1>2. PICK h, size : h = Word \div 2 /\ size = Word
  OBVIOUS
<1>3. PICK d : d = ToUInt64(n - lo)
  OBVIOUS
<1>4. PICK top : top = UIntMax + 1
  OBVIOUS
<1>5. size \in Nat \ {0} /\ top \in Nat \ {0} /\ UIntMax \in Nat /\ h \in Int
  BY ControlsAssumption, <1>2, <1>4
<1>6. lo \in Int /\ hi \in Int /\ h <= lo + size /\ hi < h /\ st \in 1..size - 1
  <2>1. lo \in Int /\ hi \in Int /\ h <= lo + size /\ hi < h
    BY <1>1, <1>2, CastType
  <2>2. st \in 0..size - 1
    BY <1>1, <1>2, CastType DEF StepOf
  <2>3. st # 0
    BY <1>1 DEF IsSelectorRange
  <2> QED BY <1>5, <2>1, <2>2, <2>3
<1>7. /\ lo <= n /\ n <= hi /\ d % st = 0
      /\ RangeIndex(c, n) = (d \div st) % top
  BY <1>1, <1>3, <1>4, Zenon DEF RangeIndex
<1>8. d = n - lo /\ d \in 0..size - 1
  <2>1. n - lo \in 0..size - 1
    BY <1>5, <1>6, <1>7
  <2> QED BY <1>2, <1>3, <2>1, CastKeeps
<1>9. w = hi - lo + 1 /\ w \in 1..size - 1
  <2>1. w = ToUInt64(hi - lo + 1) /\ w # 0
    BY <1>1 DEF Width
  <2>2. hi - lo + 1 \in 1..size
    BY <1>5, <1>6, <1>7
  <2>3. hi - lo + 1 # size
    <3> SUFFICES ASSUME hi - lo + 1 = size PROVE FALSE
      OBVIOUS
    <3>1. w = size % size
      BY <1>2, <2>1 DEF ToUInt64
    <3>2. size % size = 0
      BY ONLY <1>5
    <3> QED BY <2>1, <3>1, <3>2
  <2>4. hi - lo + 1 \in 1..size - 1 /\ hi - lo + 1 \in 0..size - 1
    BY <1>5, <1>6, <2>2, <2>3
  <2>5. ToUInt64(hi - lo + 1) = hi - lo + 1
    BY <1>2, <2>4, CastKeeps
  <2> QED BY <2>1, <2>4, <2>5
<1>10. PICK q \in Int : q = d \div st /\ d = st * q
  <2>1. PICK q \in Int, r \in 0..st - 1 : q = d \div st /\ r = d % st /\ d = st * q + r
    <3>1. d \in Int /\ st \in Nat \ {0}
      BY <1>5, <1>6, <1>8
    <3> QED BY <3>1, Division, Zenon
  <2>2. d = st * q
    BY <1>6, <1>7, <2>1
  <2> QED BY <2>1, <2>2
<1>11. q \in Nat /\ d < w
  <2>1. d \div st \in Nat
    BY <1>6, <1>8, QuotientOrder
  <2> QED BY <1>6, <1>7, <1>8, <1>9, <1>10, <2>1
<1>12. RangeChoices(c) = IF w > st THEN w \div st ELSE 1
  BY <1>1 DEF RangeChoices
<1>13. w <= st => q = 0
  <2>1. st * 1 = st
    BY <1>6
  <2>2. w <= st => d < st * 1
    BY <1>5, <1>6, <1>8, <1>9, <1>11, <2>1
  <2>3. w <= st => d \div st < 1
    BY <1>6, <1>8, <2>2, QuotientOrder
  <2> QED BY <1>10, <1>11, <2>3
<1>14. q <= UIntMax
  <2>1. CASE w > st
    <3>1. w \div st <= UIntMax
      BY <1>12, <2>1 DEF IsSelectorRange
    <3>2. st * q <= w
      <4>1. PICK z : z = st * q
        OBVIOUS
      <4>2. z = d /\ d < w /\ d \in Int /\ w \in Int
        BY <1>6, <1>8, <1>9, <1>10, <1>11, <4>1
      <4>3. z <= w
        BY ONLY <4>2
      <4> QED BY <4>1, <4>3
    <3>3. q <= w \div st /\ w \div st \in Nat
      <4>1. w \in Nat /\ st \in Nat \ {0} /\ q \in Int
        BY <1>5, <1>6, <1>9, <1>11
      <4> QED BY <3>2, <4>1, QuotientOrder, Zenon
    <3> QED BY <1>5, <1>11, <3>1, <3>3
  <2>2. CASE w <= st
    BY <1>5, <1>13, <2>2
  <2> QED BY <1>6, <1>9, <2>1, <2>2
<1>15. RangeIndex(c, n) = q
  <2>1. q \in 0..top - 1
    BY <1>4, <1>5, <1>11, <1>14
  <2>2. q % top = q
    BY ONLY <1>5, <2>1
  <2> QED BY <1>7, <1>10, <2>2, Zenon
<1>16. RangeValue(c, q) = n
  <2>1. q * st = d
    BY <1>6, <1>10
  <2>2. lo + q * st = n
    BY <1>6, <1>8, <2>1
  <2>3. ToInt64(n) = n
    <3>1. n < h /\ h <= n + size
      BY <1>5, <1>6, <1>7
    <3> QED BY <1>2, <3>1, CastKeeps
  <2>4. ~(n > hi)
    BY <1>6, <1>7
  <2>5. RangeValue(c, q) = IF ToInt64(lo + q * st) > hi THEN Failed ELSE ToInt64(lo + q * st)
    BY <1>1, Zenon DEF RangeValue
  <2> QED BY ONLY <2>2, <2>3, <2>4, <2>5
<1>17. w % st = 0 => q < RangeChoices(c)
  <2> SUFFICES ASSUME w % st = 0 PROVE q < RangeChoices(c)
    OBVIOUS
  <2>1. PICK k \in Int : k = w \div st /\ w = st * k
    <3>1. PICK k \in Int, r \in 0..st - 1 : k = w \div st /\ r = w % st /\ w = st * k + r
      <4>1. w \in Int /\ st \in Nat \ {0}
        BY <1>5, <1>6, <1>9
      <4> QED BY <4>1, Division, Zenon
    <3>2. w = st * k
      BY <1>6, <3>1
    <3> QED BY <3>1, <3>2
  <2>2. q < k
    <3>1. d < st * k
      BY <1>11, <2>1
    <3>2. d \div st < k
      BY <1>6, <1>8, <3>1, QuotientOrder
    <3> QED BY <1>10, <3>2, Zenon
  <2>3. CASE w > st
    BY <1>12, <2>1, <2>2, <2>3
  <2>4. CASE w <= st
    BY <1>12, <1>13, <2>4, <1>6, <1>9
  <2> QED BY <1>6, <1>9, <2>3, <2>4
<1>18. q \in 0..UIntMax
  BY <1>5, <1>11, <1>14
<1> QED BY <1>1, <1>15, <1>16, <1>17, <1>18, Zenon

\* The last of equal choices.
LEMMA LastIndexFacts ==
  ASSUME NEW S, NEW s \in Seq(S), NEW t \in ElementsOf(s)
  PROVE  LastIndex(s, t) \in 0..Len(s) - 1 /\ s[LastIndex(s, t) + 1] = t
<1>1. PICK n \in Nat : n = Len(s) /\ DOMAIN s = 1..n
  OBVIOUS
<1>2. PICK i \in 1..n : s[i] = t
  BY <1>1 DEF ElementsOf
<1> DEFINE T == {k \in Nat : \E j \in 1..n : s[j] = t /\ k = n - j}
<1>3. T \in SUBSET Nat /\ n - i \in T
  BY <1>2
<1>4. PICK k \in T : \A l \in T : k <= l
  <2> HIDE DEF T
  <2> QED BY <1>3, LeastNumber
<1>5. PICK j \in 1..n : s[j] = t /\ k = n - j
  BY <1>4
<1>6. \A l \in 1..n : s[l] = t => l <= j
  <2> SUFFICES ASSUME NEW l \in 1..n, s[l] = t PROVE l <= j
    OBVIOUS
  <2>1. n - l \in T
    OBVIOUS
  <2> QED BY <1>4, <1>5, <2>1
<1>7. PICK m : m = CHOOSE x \in DOMAIN s : s[x] = t /\ \A y \in DOMAIN s : s[y] = t => y <= x
  OBVIOUS
<1>8. m \in 1..n /\ s[m] = t
  BY <1>1, <1>5, <1>6, <1>7
<1>9. LastIndex(s, t) = m - 1
  BY <1>7 DEF LastIndex
<1> QED BY <1>1, <1>8, <1>9

LEMMA PlainTexts ==
  ASSUME NEW v
  PROVE  /\ v.type = "ASCIIZ" => TextOf(v) = v.json.text
         /\ v.type = "BOOL" => TextOf(v) = IF v.json.bool THEN On ELSE Off
<1>1. v.type \in {"ASCIIZ", "BOOL"} => v.type \notin IntegerTypes
  BY DEF IntegerTypes, SignedTypes, UnsignedTypes
<1> QED BY <1>1 DEF TextOf

LEMMA IntegersAreNumbers ==
  ASSUME NEW j, NEW vt \in IntegerTypes, TypeCheck(j, vt)
  PROVE  j.kind = "int"
BY DEF TypeCheck, IntegerTypes, SignedTypes, UnsignedTypes, IsUnsigned

\* A value that can be selected by asks for the choice it selects, and
\* selects one of the choices.
LEMMA SelectorFacts ==
  ASSUME NEW c, IsControl(c), IsDefinition(c), NEW v, IsValue(v), SelectorOf(c, v) # UIntMax,
         c.type = "range" => Width(c) # 0
  PROVE  /\ SelectorIndex(c, v) = SelectorOf(c, v)
         /\ SelectorIndex(c, v) \in Nat
         /\ ChoiceText(c, SelectorIndex(c, v)) = ChosenText(c, v)
         /\ (c.type = "range" => Width(c) % StepOf(c) = 0) => SelectorIndex(c, v) < NumberOfChoices(c)
<1>1. SelectorIndex(c, v) = SelectorOf(c, v) /\ SelectorIndex(c, v) # Failed
  BY DEF SelectorOf
<1>2. CASE c.type = "choice"
  <2>1. SelectorIndex(c, v) = ChoiceIndex(c, v)
    BY <1>2 DEF SelectorIndex
  <2>2. v.type = "ASCIIZ" /\ v.json.text \in ElementsOf(c.choices)
        /\ SelectorIndex(c, v) = LastIndex(c.choices, v.json.text)
    BY <1>1, <2>1 DEF ChoiceIndex
  <2>3. c.choices \in Seq(ElementsOf(c.choices))
    BY <1>2 DEF IsControl
  <2>4. PICK i : i = SelectorIndex(c, v)
    OBVIOUS
  <2>5. i \in 0..Len(c.choices) - 1 /\ c.choices[i + 1] = v.json.text
    BY <2>2, <2>3, <2>4, LastIndexFacts
  <2>6. Len(c.choices) \in Nat
    BY <2>3
  <2>7. ChoiceText(c, i) = v.json.text /\ i \in Nat /\ i < NumberOfChoices(c)
    BY <1>2, <2>5, <2>6 DEF ChoiceText, NumberOfChoices
  <2>8. ChosenText(c, v) = v.json.text
    BY <1>2, <2>2, PlainTexts DEF ChosenText
  <2> QED BY <1>1, <2>4, <2>7, <2>8
<1>3. CASE c.type = "on_off"
  <2>1. SelectorIndex(c, v) = OnOffIndex(v)
    BY <1>3 DEF SelectorIndex
  <2>2. CASE v = Value("BOOL", Bool(TRUE)) \/ v = Value("ASCIIZ", Str(On))
    <3>1. v # Value("BOOL", Bool(FALSE)) /\ v # Value("ASCIIZ", Str(Off))
      BY <2>2 DEF Value, Bool, Str, On, Off, Name
    <3>2. OnOffIndex(v) = 1
      BY <2>2, <3>1 DEF OnOffIndex
    <3>3. ChosenText(c, v) = On
      BY <1>3, <2>2, PlainTexts DEF ChosenText, Value, Bool, Str
    <3> QED BY <1>1, <1>3, <2>1, <3>2, <3>3 DEF ChoiceText, NumberOfChoices
  <2>3. CASE v = Value("BOOL", Bool(FALSE)) \/ v = Value("ASCIIZ", Str(Off))
    <3>1. v # Value("BOOL", Bool(TRUE)) /\ v # Value("ASCIIZ", Str(On))
      BY <2>3 DEF Value, Bool, Str, On, Off, Name
    <3>2. OnOffIndex(v) = 0
      BY <2>3, <3>1 DEF OnOffIndex
    <3>3. ChosenText(c, v) = Off
      BY <1>3, <2>3, PlainTexts DEF ChosenText, Value, Bool, Str
    <3> QED BY <1>1, <1>3, <2>1, <3>2, <3>3 DEF ChoiceText, NumberOfChoices
  <2> QED BY <1>1, <2>1, <2>2, <2>3 DEF OnOffIndex
<1>4. CASE c.type = "range"
  <2>1. SelectorIndex(c, v) = NumberIndex(c, v)
    BY <1>4 DEF SelectorIndex
  <2>2. IsSelectorRange(c)
    BY <1>1, <2>1 DEF NumberIndex
  <2>3. PICK n \in Int : SelectorIndex(c, v) = RangeIndex(c, n) /\ ChosenText(c, v) = Numeral(n)
    <3>1. CASE v.type \in IntegerTypes
      <4>1. SelectorIndex(c, v) = RangeIndex(c, ToInt64(v.json.num))
        BY <2>1, <2>2, <3>1 DEF NumberIndex, IntegerTypes, SignedTypes, UnsignedTypes
      <4>2. ChosenText(c, v) = Numeral(ToInt64(v.json.num))
        BY <3>1 DEF ChosenText, TextOf, IntegerTypes, SignedTypes, UnsignedTypes
      <4>3. ToInt64(v.json.num) \in Int
        BY <3>1, CastType DEF IsValue
      <4> QED BY <4>1, <4>2, <4>3
    <3>2. CASE v.type = "ASCIIZ"
      <4>1. SelectorIndex(c, v) = TextIndex(c, v.json.text)
        BY <2>1, <2>2, <3>2 DEF NumberIndex, IntegerTypes, SignedTypes, UnsignedTypes
      <4>2. HasNumber(v.json.text) /\ SelectorIndex(c, v) = RangeIndex(c, NumberIn(v.json.text))
        BY <1>1, <4>1 DEF TextIndex
      <4>3. NumberIn(v.json.text) \in Int
        BY <3>2, <4>2 DEF IsValue, IsText
      <4>4. ChosenText(c, v) = Numeral(NumberIn(v.json.text))
        BY <1>4, <3>2, <4>2 DEF ChosenText
      <4> QED BY <4>2, <4>3, <4>4
    <3> QED BY <1>1, <2>1, <2>2, <3>1, <3>2 DEF NumberIndex
  <2>4. c.min.num \in Int /\ c.max.num \in Int /\ c.step.num \in Int
    <3>1. c.vtype \in IntegerTypes
      BY <2>2 DEF IsSelectorRange
    <3>2. IsRangeDefinition(c)
      BY <1>4 DEF IsDefinition
    <3>3. \A j \in {c.min, c.max, c.step} : j.kind = "int"
      BY <3>1, <3>2, IntegersAreNumbers DEF IsRangeDefinition
    <3> QED BY <1>4, <3>3 DEF IsControl, IsNumber
  <2>5. RangeIndex(c, n) # Failed
    BY <1>1, <2>3
  <2>6. /\ RangeIndex(c, n) \in 0..UIntMax /\ RangeValue(c, RangeIndex(c, n)) = n
        /\ Width(c) % StepOf(c) = 0 => RangeIndex(c, n) < RangeChoices(c)
    BY <1>4, <2>2, <2>4, <2>5, RangeIndexFacts
  <2>7. PICK i : i = RangeIndex(c, n)
    OBVIOUS
  <2>8. ChoiceText(c, i) = Numeral(n)
    <3>1. n # Failed
      BY ValuesAssumption
    <3> QED BY <1>4, <2>2, <2>6, <2>7, <3>1 DEF ChoiceText
  <2>9. NumberOfChoices(c) = RangeChoices(c)
    BY <1>4, <2>2 DEF NumberOfChoices
  <2>10. i \in Nat
    BY <2>6, <2>7, ControlsAssumption
  <2> QED BY <1>1, <1>4, <2>3, <2>6, <2>7, <2>8, <2>9, <2>10, Zenon
<1> QED BY <1>2, <1>3, <1>4 DEF IsDefinition

(***************************************************************************)
(* What definitions refer to: elements and mappings are found by search.   *)
(***************************************************************************)
LEMMA LeastIndex ==
  ASSUME NEW n \in Nat, NEW I \in SUBSET (1..n), I # {}
  PROVE  Min(I) \in I
<1>1. I \in SUBSET Nat
  OBVIOUS
<1>2. \E i \in I : \A j \in I : i <= j
  BY <1>1, LeastNumber
<1> QED BY <1>2 DEF Min

LEMMA ElementIsFound ==
  ASSUME NEW def, IsArray(def.elements), NEW id \in InternalIds(def)
  PROVE  /\ ControlsOf(def, id) \in DOMAIN def.elements
         /\ def.elements[ControlsOf(def, id)] \in ElementsOf(def.elements)
<1>1. PICK s : s = def.elements
  OBVIOUS
<1>2. PICK n \in Nat : n = Len(s) /\ DOMAIN s = 1..n
  BY <1>1 DEF IsArray
<1> DEFINE I == {i \in 1..Len(s) : s[i].id = id}
<1>3. I \in SUBSET (1..n) /\ I # {}
  BY <1>1, <1>2 DEF InternalIds, ElementsOf
<1>4. Min(I) \in I
  <2> HIDE DEF I
  <2> QED BY <1>3, LeastIndex
<1>5. ControlsOf(def, id) = Min(I)
  BY <1>1, <1>3 DEF ControlsOf, SelectInSeq
<1> QED BY <1>1, <1>2, <1>3, <1>4, <1>5 DEF ElementsOf

LEMMA MappingIsFound ==
  ASSUME NEW def, IsArray(def.audio_signal_paths), NEW id \in SwitchingIds(def)
  PROVE  \E b \in Blocks(def) : /\ b.io_mapping # None /\ b.io_mapping.select = id
                                /\ IOMappingOf(def, id) = b.io_mapping
<1>1. PICK s : s = def.audio_signal_paths
  OBVIOUS
<1>2. PICK n \in Nat : n = Len(s) /\ DOMAIN s = 1..n
  BY <1>1 DEF IsArray
<1> DEFINE I == {i \in 1..Len(s) : s[i].io_mapping # None /\ s[i].io_mapping.select = id}
<1>3. I \in SUBSET (1..n) /\ I # {}
  BY <1>1, <1>2 DEF SwitchingIds, Blocks, ElementsOf
<1>4. Min(I) \in I
  <2> HIDE DEF I
  <2> QED BY <1>3, LeastIndex
<1>5. IOMappingOf(def, id) = s[Min(I)].io_mapping
  BY <1>1, <1>3 DEF IOMappingOf, SelectInSeq
<1> QED BY <1>1, <1>2, <1>3, <1>4, <1>5 DEF Blocks, ElementsOf

\* The control that selects, and its mapping, are as a model needs them.
LEMMA SelectorIsDefined ==
  ASSUME NEW def, HasShape(def), IsModelDefinition(def), NEW id \in SwitchingIds(def)
  PROVE  LET c == SelectorControl(def, id)
             io == IOMappingOf(def, id)
         IN /\ id \in InternalIds(def)
            /\ io.control \in DOMAIN def.elements[ControlsOf(def, id)].controls
            /\ IsControl(c) /\ IsDefinition(c)
            /\ IsMappingDefinition(c, io) /\ IsTable(io.mapping_table)
<1>1. IsArray(def.elements) /\ IsArray(def.audio_signal_paths)
  BY DEF HasShape, IsModelDefinition, PropertyNames
<1>2. PICK b \in Blocks(def) : /\ b.io_mapping # None /\ b.io_mapping.select = id
                               /\ IOMappingOf(def, id) = b.io_mapping
  BY <1>1, MappingIsFound
<1>3. /\ id \in InternalIds(def)
      /\ b.io_mapping.control \in DOMAIN def.elements[ControlsOf(def, id)].controls
  BY <1>2 DEF IsModelDefinition, IOMappingsAreSwitchable
<1>4. PICK e \in ElementsOf(def.elements) : e = def.elements[ControlsOf(def, id)]
  BY <1>1, <1>3, ElementIsFound
<1>5. SelectorControl(def, id) = e.controls[b.io_mapping.control]
  BY <1>2, <1>4 DEF SelectorControl
<1>6. IsControl(e.controls[b.io_mapping.control])
  BY <1>3, <1>4 DEF HasShape, IsModelDefinition, PropertyNames
<1>7. IsDefinition(e.controls[b.io_mapping.control])
  BY <1>3, <1>4 DEF IsModelDefinition, ControlsAreDefined
<1>8. IsMappingDefinition(SelectorControl(def, id), IOMappingOf(def, id))
  BY DEF IsModelDefinition
<1>9. IsTable(b.io_mapping.mapping_table)
  BY <1>2 DEF HasShape, IsModelDefinition, PropertyNames, Blocks
<1> QED BY <1>2, <1>3, <1>5, <1>6, <1>7, <1>8, <1>9

\* A mapping has an entry for each choice of its control.
LEMMA ChoicesAreMapped ==
  ASSUME NEW c, NEW io, IsMappingDefinition(c, io)
  PROVE  ChoicesOf(Mapping(c, io)) = 0..NumberOfChoices(c)-1
<1>1. PICK kind : kind = io.mapping
  OBVIOUS
<1>2. kind \in {"mux", "demux", "table"} /\ (kind = "table" => io.mapping_table # None)
  BY <1>1 DEF IsMappingDefinition
<1>3. CASE kind = "mux" /\ io.mapping_table # None
  BY <1>1, <1>3 DEF Mapping, MuxMapping, ChoicesOf
<1>4. CASE kind = "mux" /\ io.mapping_table = None
  BY <1>1, <1>4 DEF Mapping, Identity, ChoicesOf
<1>5. CASE kind = "demux"
  BY <1>1, <1>5 DEF Mapping, Identity, ChoicesOf
<1>6. CASE kind = "table"
  BY <1>1, <1>6 DEF Mapping, TableMapping, ChoicesOf
<1> QED BY <1>2, <1>3, <1>4, <1>5, <1>6

\* The number of choices of what can be selected by is a number.
LEMMA NumberOfChoicesType ==
  ASSUME NEW c, IsControl(c), IsDefinition(c), NumberOfChoices(c) # Failed
  PROVE  NumberOfChoices(c) \in Nat
<1>1. CASE c.type = "choice"
  BY <1>1 DEF IsControl, IsArray, NumberOfChoices
<1>2. CASE c.type = "on_off"
  BY <1>2 DEF NumberOfChoices
<1>3. CASE c.type = "range"
  <2>1. IsSelectorRange(c) /\ NumberOfChoices(c) = RangeChoices(c)
    BY <1>3 DEF NumberOfChoices
  <2>2. c.min.num \in Int /\ c.max.num \in Int /\ c.step.num \in Int
    <3>1. c.vtype \in IntegerTypes
      BY <2>1 DEF IsSelectorRange
    <3>2. IsRangeDefinition(c)
      BY <1>3 DEF IsDefinition
    <3>3. \A j \in {c.min, c.max, c.step} : j.kind = "int"
      BY <3>1, <3>2, IntegersAreNumbers DEF IsRangeDefinition
    <3> QED BY <1>3, <3>3 DEF IsControl, IsNumber
  <2>3. PICK w, st, top : w = Width(c) /\ st = StepOf(c) /\ top = Word - 1
    OBVIOUS
  <2>4. w \in 0..top /\ st \in 0..top /\ st # 0 /\ top \in Int
    <3>1. ToInt64(c.max.num) - ToInt64(c.min.num) + 1 \in Int
      BY <2>2, CastType
    <3>2. w \in 0..top /\ st \in 0..top
      BY <2>2, <2>3, <3>1, CastType DEF Width, StepOf
    <3>3. st # 0
      BY <2>1, <2>3 DEF IsSelectorRange
    <3> QED BY <2>3, <3>2, <3>3, ControlsAssumption
  <2>5. w \div st \in Nat
    BY <2>4, QuotientOrder
  <2> QED BY <2>1, <2>3, <2>5 DEF RangeChoices
<1> QED BY <1>1, <1>2, <1>3 DEF IsDefinition

(***************************************************************************)
(* Models belong to definitions which do not change any more.              *)
(***************************************************************************)
ModelsInv ==
  /\ \A d \in DOMAIN devices : HasShape(devices[d].props)
  /\ phase # "ready" => \A d \in Names : models[d] = None
  /\ DOMAIN models = Names
  /\ \A d \in Names : IsModel(d) =>
       /\ d \in DOMAIN devices /\ IsModelDefinition(devices[d].props)
       /\ models[d] = Model(devices[d].props)

LEMMA MergedShape ==
  ASSUME NEW f, NEW g, HasShape(f), HasShape(g)
  PROVE  HasShape(Merge(f, g))
<1>1. PICK h : h = Merge(f, g)
  OBVIOUS
<1>2. \A key \in DOMAIN h : h[key] = IF key \in DOMAIN f THEN f[key] ELSE g[key]
  BY <1>1 DEF Merge
<1>3. DOMAIN h = DOMAIN f \cup DOMAIN g
  BY <1>1 DEF Merge
<1>4. HasShape(h)
  BY <1>2, <1>3 DEF HasShape
<1> QED BY <1>1, <1>4

LEMMA CopyPropertiesKeepsModels ==
  ASSUME FlattenInv, ModelsInv, CopyProperties
  PROVE  ModelsInv'
<1>1. PICK d, copy : d = Top.device /\ copy = devices[d].copy
  OBVIOUS
<1>2. phase = "flattening" /\ phase' # "ready" /\ models' = models
  BY DEF CopyProperties, Terminate
<1>3. CASE UNCHANGED devices
  BY <1>2, <1>3 DEF ModelsInv, IsModel
<1>4. CASE devices' # devices
  <2>1. /\ devices' = [devices EXCEPT ![d] = [props |-> CopiedOver(devices[d].props, copy),
                                              copy  |-> None]]
        /\ CopiesAll(d) \/ \A key \in DOMAIN copy : key \in DOMAIN devices[copy[key]].props
        /\ frames # <<>> /\ Top.pending = {}
    BY <1>1, <1>4 DEF CopyProperties, Terminate
  <2>2. ShapeInv /\ CallsInv
    BY DEF FlattenInv
  <2>3. Len(frames) \in 1..Len(frames)
    BY <2>1, <2>2, Popped DEF ShapeInv
  <2>4. \A s \in SourcesIn(copy) : s \in DOMAIN devices
    BY <1>1, <2>1, <2>2, <2>3 DEF CallsInv, Top
  <2>5. \A s \in DOMAIN devices : HasShape(devices[s].props)
    BY DEF ModelsInv
  <2>6. CASE d \in DOMAIN devices
    <3>1. HasShape(CopiedOver(devices[d].props, copy))
      <4>1. CASE All \in DOMAIN copy
        <5>1. copy[All] \in SourcesIn(copy)
          BY <4>1 DEF SourcesIn
        <5> QED BY <2>4, <2>5, <2>6, <4>1, <5>1, MergedShape DEF CopiedOver
      <4>2. CASE All \notin DOMAIN copy
        <5> DEFINE new == [key \in DOMAIN copy |-> devices[copy[key]].props[key]]
        <5>1. \A key \in DOMAIN copy : copy[key] \in DOMAIN devices
          BY <2>4 DEF SourcesIn
        <5>2. \A key \in DOMAIN copy : key \in DOMAIN devices[copy[key]].props
          BY <1>1, <2>1, <4>2 DEF CopiesAll
        <5>3. \A key \in DOMAIN copy : HasShape(devices[copy[key]].props)
          BY <2>5, <5>1
        <5>4. HasShape(new)
          BY <5>2, <5>3 DEF HasShape
        <5> HIDE DEF new
        <5>5. HasShape(Merge(new, devices[d].props))
          BY <2>5, <2>6, <5>4, MergedShape
        <5> QED BY <4>2, <5>5 DEF CopiedOver, new
      <4> QED BY <4>1, <4>2
    <3>2. \A s \in DOMAIN devices' : HasShape(devices'[s].props)
      BY <2>1, <2>5, <3>1
    <3> QED BY <1>2, <3>2 DEF ModelsInv, IsModel
  <2>7. CASE d \notin DOMAIN devices
    <3>1. \A s \in DOMAIN devices' : HasShape(devices'[s].props)
      BY <2>1, <2>5, <2>7
    <3> QED BY <1>2, <3>1 DEF ModelsInv, IsModel
  <2> QED BY <2>6, <2>7
<1> QED BY <1>3, <1>4

LEMMA GetDeviceModelKeepsModels ==
  ASSUME ModelsInv, NEW d \in Names, GetDeviceModel(d)
  PROVE  ModelsInv'
<1>1. phase = "ready" /\ UNCHANGED <<devices, phase>>
  BY DEF GetDeviceModel
<1>2. /\ models'[d] = IF d \notin DOMAIN devices THEN Failed
                      ELSE IF IsModelDefinition(devices[d].props) THEN Model(devices[d].props)
                      ELSE None
      /\ DOMAIN models' = Names
      /\ \A e \in Names \ {d} : models'[e] = models[e]
  BY DEF GetDeviceModel, ModelsInv
<1>3. ASSUME NEW e \in Names, models'[e] \notin {None, Failed}
      PROVE  /\ e \in DOMAIN devices /\ IsModelDefinition(devices[e].props)
             /\ models'[e] = Model(devices[e].props)
  BY <1>2, <1>3 DEF ModelsInv, IsModel
<1> QED BY <1>1, <1>2, <1>3 DEF ModelsInv, IsModel

LEMMA InitModelsInv == Init => ModelsInv
<1> SUFFICES ASSUME Init PROVE ModelsInv
  OBVIOUS
<1>1. original \in Databases /\ devices = original /\ phase = "flattening"
      /\ models = [d \in Names |-> None]
  BY DEF Init
<1>2. \A d \in DOMAIN devices : HasShape(devices[d].props)
  BY <1>1, DatabaseAssumption
<1> QED BY <1>1, <1>2 DEF ModelsInv, IsModel

LEMMA NextKeepsModelsInv == FlattenInv /\ ModelsInv /\ [Next]_vars => ModelsInv'
<1> SUFFICES ASSUME FlattenInv, ModelsInv, [Next]_vars PROVE ModelsInv'
  OBVIOUS
<1>1. CASE UNCHANGED <<devices, models>> /\ (phase' # "ready" => phase # "ready")
  BY <1>1 DEF ModelsInv, IsModel
<1>1a. CASE UNCHANGED <<devices, models>> /\ phase = "flattening"
  BY <1>1a DEF ModelsInv, IsModel
<1>2. ASSUME NEW d \in Names, VisitDevice(d) \/ VisitCopySource(d)
      PROVE  ModelsInv'
  BY <1>2, <1>1a DEF VisitDevice, VisitCopySource, CallFlatten, Terminate
<1>3. CASE EndFlatten
  BY <1>3, <1>1a DEF EndFlatten
<1>4. CASE CopyProperties
  BY <1>4, CopyPropertiesKeepsModels
<1>5. ASSUME NEW d \in Names, GetDeviceModel(d)
      PROVE  ModelsInv'
  BY <1>5, GetDeviceModelKeepsModels
<1>6. CASE Clear
  BY <1>6 DEF Clear, ModelsInv, IsModel
<1>7. CASE UNCHANGED vars
  BY <1>7, <1>1 DEF vars
<1> QED BY <1>2, <1>3, <1>4, <1>5, <1>6, <1>7 DEF Next, Flatten

\* Models are built from flat definitions that make sense
\* (get_device_model(), mk_model()).
THEOREM ModelsAreDefined == Spec => []ModelsInv
BY FlatteningIsOrdered, InitModelsInv, NextKeepsModelsInv, PTL DEF Spec

\* Devices have properties, and what they copy is what it was or nothing.
RecordInv ==
  /\ phase \in {"flattening", "ready", "terminated"}
  /\ \A d \in DOMAIN devices :
       /\ DOMAIN devices[d] = {"props", "copy"}
       /\ DOMAIN devices[d].props \subseteq PropertyNames
       /\ devices[d].copy \in {None, original[d].copy}

LEMMA CopyPropertiesKeepsRecords ==
  ASSUME FlattenInv, RecordInv, CopyProperties
  PROVE  RecordInv'
<1>1. PICK d, copy : d = Top.device /\ copy = devices[d].copy
  OBVIOUS
<1>2. ShapeInv /\ CallsInv
  BY DEF FlattenInv
<1>3. phase' \in {"flattening", "terminated"} /\ original' = original /\ frames # <<>> /\ Top.pending = {}
  BY DEF CopyProperties, Terminate
<1>4. CASE UNCHANGED devices
  BY <1>3, <1>4 DEF RecordInv
<1>5. CASE devices' # devices
  <2>1. /\ devices' = [devices EXCEPT ![d] = [props |-> CopiedOver(devices[d].props, copy),
                                              copy  |-> None]]
        /\ All \in DOMAIN copy \/ \A key \in DOMAIN copy : key \in DOMAIN devices[copy[key]].props
    BY <1>1, <1>5 DEF CopyProperties, Terminate, CopiesAll
  <2>2. Len(frames) \in 1..Len(frames) /\ d \in DOMAIN devices
    <3>1. Len(frames) \in Nat \ {0} /\ Top \in Calls
      BY <1>2, <1>3, Popped DEF ShapeInv, Top
    <3>2. Top.device \in DOMAIN original
      BY <3>1 DEF Calls
    <3> QED BY <1>1, <1>2, <3>1, <3>2 DEF ShapeInv
  <2>3. \A key \in DOMAIN copy : copy[key] \in DOMAIN devices
    BY <1>1, <1>2, <1>3, <2>2 DEF CallsInv, Top, SourcesIn
  <2>4. DOMAIN CopiedOver(devices[d].props, copy) \subseteq PropertyNames
    <3>1. \A s \in DOMAIN devices : DOMAIN devices[s].props \subseteq PropertyNames
      BY DEF RecordInv
    <3>2. CASE All \in DOMAIN copy
      BY <2>2, <2>3, <3>1, <3>2 DEF CopiedOver, Merge
    <3>3. CASE All \notin DOMAIN copy
      <4>1. DOMAIN copy \subseteq PropertyNames
        BY <2>1, <2>3, <3>1, <3>3
      <4>2. CopiedOver(devices[d].props, copy)
            = Merge([key \in DOMAIN copy |-> devices[copy[key]].props[key]], devices[d].props)
        BY <3>3 DEF CopiedOver
      <4> QED BY <2>2, <3>1, <4>1, <4>2 DEF Merge
    <3> QED BY <3>2, <3>3
  <2>5. PICK r : r = CopiedOver(devices[d].props, copy)
    OBVIOUS
  <2>6. /\ DOMAIN devices' = DOMAIN devices
        /\ devices'[d] = [props |-> r, copy |-> None]
        /\ \A s \in DOMAIN devices \ {d} : devices'[s] = devices[s]
    BY <2>1, <2>2, <2>5
  <2> QED BY <1>3, <2>4, <2>5, <2>6 DEF RecordInv
<1> QED BY <1>4, <1>5

\* Type correctness: devices keep their shape, and the stack holds each
\* device once (flatten_device()).
THEOREM DatabaseTypeCorrect == Spec => []TypeOK
<1>1. Init => RecordInv
  <2> SUFFICES ASSUME Init PROVE RecordInv
    OBVIOUS
  <2>1. original \in Databases /\ devices = original /\ phase = "flattening"
    BY DEF Init
  <2> QED BY <2>1, DatabaseAssumption DEF RecordInv
<1>2. FlattenInv /\ RecordInv /\ [Next]_vars => RecordInv'
  <2> SUFFICES ASSUME FlattenInv, RecordInv, [Next]_vars PROVE RecordInv'
    OBVIOUS
  <2>1. CASE CopyProperties
    BY <2>1, CopyPropertiesKeepsRecords
  <2>2. ASSUME NEW d \in Names, VisitDevice(d) \/ VisitCopySource(d) \/ GetDeviceModel(d)
        PROVE  UNCHANGED <<devices, original>> /\ phase' \in {phase, "terminated"}
    BY <2>2 DEF VisitDevice, VisitCopySource, CallFlatten, Terminate, GetDeviceModel
  <2>3. CASE EndFlatten \/ Clear \/ UNCHANGED vars
    BY <2>3 DEF EndFlatten, Clear, vars, RecordInv
  <2>4. CASE UNCHANGED <<devices, original>> /\ phase' \in {phase, "terminated"}
    BY <2>4 DEF RecordInv
  <2> QED BY <2>1, <2>2, <2>3, <2>4 DEF Next, Flatten
<1>3. FlattenInv => Cardinality(Seen) = Len(frames)
  <2> SUFFICES ASSUME FlattenInv PROVE Cardinality(Seen) = Len(frames)
    OBVIOUS
  <2>1. frames \in Seq(Calls) /\ CallsInv
    BY DEF FlattenInv, ShapeInv
  <2>2. PICK n \in Nat : n = Len(frames) /\ DOMAIN frames = 1..n
    BY <2>1
  <2> DEFINE f == [i \in 1..n |-> frames[i].device]
  <2>3. f \in [1..n -> Seen] /\ \A d \in Seen : \E i \in 1..n : f[i] = d
    BY <2>2 DEF Seen
  <2>4. \A i, j \in 1..n : f[i] = f[j] => i = j
    BY <2>1, <2>2 DEF CallsInv
  <2>5. f \in Bijection(1..n, Seen)
    <3> HIDE DEF f
    <3> QED BY <2>3, <2>4 DEF Bijection, Injection, Surjection, IsInjective
  <2> QED BY <2>2, <2>5, FS_CountingElements DEF ExistsBijection
<1>4. FlattenInv /\ RecordInv /\ ModelsInv => TypeOK
  BY <1>3 DEF FlattenInv, ShapeInv, RecordInv, ModelsInv, TypeOK, Calls
<1> QED BY <1>1, <1>2, <1>4, FlatteningIsOrdered, ModelsAreDefined, PTL DEF Spec

\* The control that selects in a model, and its mapping.
LEMMA SelectorOfModel ==
  ASSUME ModelsInv, NEW d \in Names, IsModel(d), NEW x \in DOMAIN models[d].selector
  PROVE  LET c == SelectorControlOf(d, x)
             io == IOMappingOf(devices[d].props, x)
         IN /\ IsControl(c) /\ IsDefinition(c)
            /\ IsTable(io.mapping_table) /\ IsMappingDefinition(c, io)
            /\ models[d].mapping[x] = Mapping(c, io)
            /\ NumberOfChoices(c) \in Nat
            /\ ChoicesOf(models[d].mapping[x]) = 0..NumberOfChoices(c)-1
            /\ \A v : ToSelectorIndex(models[d], x, models[d].selector[x], v) = SelectorOf(c, v)
<1>1. PICK def : def = devices[d].props
  OBVIOUS
<1>2. models[d] = Model(def) /\ IsModelDefinition(def) /\ HasShape(def)
  BY <1>1 DEF ModelsInv
<1>3. PICK m : m = models[d]
  OBVIOUS
<1>4. /\ m.controls = [id \in InternalIds(def) |-> def.elements[ControlsOf(def, id)].controls]
      /\ m.selector = [id \in SwitchingIds(def) |-> IOMappingOf(def, id).control]
      /\ m.mapping = [id \in SwitchingIds(def) |->
                        Mapping(SelectorControl(def, id), IOMappingOf(def, id))]
  BY <1>2, <1>3 DEF Model
<1>5. x \in SwitchingIds(def)
  BY <1>3, <1>4
<1>6. PICK c, io : c = SelectorControl(def, x) /\ io = IOMappingOf(def, x)
  OBVIOUS
<1>7. /\ x \in InternalIds(def)
      /\ io.control \in DOMAIN def.elements[ControlsOf(def, x)].controls
      /\ IsControl(c) /\ IsDefinition(c) /\ IsMappingDefinition(c, io) /\ IsTable(io.mapping_table)
  BY <1>2, <1>5, <1>6, SelectorIsDefined
<1>8. SelectorControlOf(d, x) = c
  BY <1>3, <1>4, <1>5, <1>6, <1>7 DEF SelectorControlOf, SelectorControl
<1>9. m.mapping[x] = Mapping(c, io)
  BY <1>4, <1>5, <1>6
<1>10. NumberOfChoices(c) \in Nat
  BY <1>7, NumberOfChoicesType DEF IsMappingDefinition
<1>11. ASSUME NEW v
       PROVE  ToSelectorIndex(m, x, m.selector[x], v) = SelectorOf(m.controls[x][m.selector[x]], v)
  BY <1>4, <1>5 DEF ToSelectorIndex, HasSelector
<1> QED BY <1>1, <1>3, <1>6, <1>7, <1>8, <1>9, <1>10, <1>11, ChoicesAreMapped DEF SelectorControlOf

\* The text of an index is the text of the choice asked for by the value it was
\* made from (on a range, the number a text begins with), for all controls
\* models select by, unless the width of a range overflows
\* (to_selector_index(), index_to_choice_string()).
THEOREM SelectorIndicesAreInvertible == Spec => []SelectorIndexIsInvertible
<1>1. ModelsInv => SelectorIndexIsInvertible
  <2> SUFFICES ASSUME ModelsInv, NEW d \in Names, IsModel(d),
                      NEW x \in DOMAIN models[d].selector, IsRegular(SelectorControlOf(d, x)),
                      NEW v \in Probes, SelectorOf(SelectorControlOf(d, x), v) # UIntMax
               PROVE  ChoiceText(SelectorControlOf(d, x), SelectorIndex(SelectorControlOf(d, x), v))
                      = ChosenText(SelectorControlOf(d, x), v)
    BY Zenon DEF SelectorIndexIsInvertible
  <2>1. PICK c : c = SelectorControlOf(d, x)
    OBVIOUS
  <2>2. IsControl(c) /\ IsDefinition(c) /\ IsValue(v)
    BY <2>1, SelectorOfModel, DatabaseAssumption
  <2>3. c.type = "range" => Width(c) # 0
    BY <2>1 DEF IsRegular
  <2> QED BY <2>1, <2>2, <2>3, SelectorFacts
<1> QED BY <1>1, ModelsAreDefined, PTL

\* A value that can be selected by selects one of the choices of the mapping
\* (SwitchingElement::is_selector_in_range()), for any regular control.
THEOREM SelectorsAreInRange == Spec => []SelectorsFitMappings
<1>1. ModelsInv => SelectorsFitMappings
  <2> SUFFICES ASSUME ModelsInv, NEW d \in Names, IsModel(d),
                      NEW x \in DOMAIN models[d].selector, IsRegular(SelectorControlOf(d, x)),
                      NEW v \in Probes,
                      ToSelectorIndex(models[d], x, models[d].selector[x], v) # UIntMax
               PROVE  InRange(models[d], x, ToSelectorIndex(models[d], x, models[d].selector[x], v))
    BY Zenon DEF SelectorsFitMappings
  <2>1. PICK c, index, n : /\ c = SelectorControlOf(d, x) /\ index = SelectorOf(c, v)
                           /\ n = NumberOfChoices(c)
    OBVIOUS
  <2>2. /\ IsControl(c) /\ IsDefinition(c) /\ IsValue(v) /\ n \in Nat
        /\ ChoicesOf(models[d].mapping[x]) = 0..n-1
        /\ ToSelectorIndex(models[d], x, models[d].selector[x], v) = index
    BY <2>1, SelectorOfModel, DatabaseAssumption
  <2>3. c.type = "range" => Width(c) # 0 /\ Width(c) % StepOf(c) = 0
    BY <2>1 DEF IsRegular
  <2>4. index # UIntMax /\ index < n
    BY <2>1, <2>2, <2>3, SelectorFacts
  <2>5. Cardinality(0..n-1) = n
    <3>1. Cardinality(0..n-1) = IF 0 > n - 1 THEN 0 ELSE (n - 1) - 0 + 1
      <4>1. 0 \in Int /\ n - 1 \in Int
        BY <2>2
      <4> QED BY <4>1, FS_Interval
    <3> QED BY <2>2, <3>1
  <2> QED BY <2>2, <2>4, <2>5 DEF InRange
<1> QED BY <1>1, ModelsAreDefined, PTL

(***************************************************************************)
(* Choices and pads: the text of a choice leads to its index, the index to *)
(* what is listed for the text.                                            *)
(***************************************************************************)
LEMMA ChoiceHasIndex ==
  ASSUME NEW c, c.type = "choice", IsControl(c), NEW t \in ElementsOf(c.choices)
  PROVE  /\ IndexOfKey(c, t) = LastIndex(c.choices, t)
         /\ IndexOfKey(c, t) \in 0..NumberOfChoices(c)-1
         /\ ListedChoices(c)[IndexOfKey(c, t) + 1] = t
<1>1. IndexOfKey(c, t) = LastIndex(c.choices, t)
  <2>1. PICK v : v = Value("ASCIIZ", Str(t))
    OBVIOUS
  <2>2. v.type = "ASCIIZ" /\ v.json.text = t
    BY <2>1 DEF Value, Str
  <2>3. SelectorIndex(c, v) = LastIndex(c.choices, t)
    BY <2>2 DEF SelectorIndex, ChoiceIndex
  <2> QED BY <2>1, <2>3 DEF IndexOfKey
<1>2. c.choices \in Seq(ElementsOf(c.choices))
  BY DEF IsControl
<1>3. LastIndex(c.choices, t) \in 0..Len(c.choices)-1 /\ c.choices[LastIndex(c.choices, t) + 1] = t
  BY <1>2, LastIndexFacts
<1> QED BY <1>1, <1>3 DEF NumberOfChoices, ListedChoices

\* No other key has the same index.
LEMMA IndexIsUnique ==
  ASSUME NEW c, c.type = "choice", IsControl(c), NEW t \in ElementsOf(c.choices), NEW key,
         IndexOfKey(c, key) = IndexOfKey(c, t)
  PROVE  key = t
<1>1. IndexOfKey(c, key) \in 0..NumberOfChoices(c)-1 /\ ListedChoices(c)[IndexOfKey(c, key) + 1] = t
  BY ChoiceHasIndex
<1>2. IndexOfKey(c, key) # Failed
  BY <1>1, ValuesAssumption
<1>3. key \in ElementsOf(c.choices)
  <2>1. PICK v : v = Value("ASCIIZ", Str(key))
    OBVIOUS
  <2>2. v.json.text = key
    BY <2>1 DEF Value, Str
  <2>3. SelectorIndex(c, v) = ChoiceIndex(c, v) /\ SelectorIndex(c, v) # Failed
    BY <1>2, <2>1 DEF IndexOfKey, SelectorIndex
  <2> QED BY <2>2, <2>3 DEF ChoiceIndex
<1>4. ListedChoices(c)[IndexOfKey(c, key) + 1] = key
  BY <1>3, ChoiceHasIndex
<1> QED BY <1>1, <1>4

LEMMA PairsAreNumbered ==
  ASSUME NEW array, \A i \in DOMAIN array : array[i].nr \in Nat, NEW p \in PairsIn(array)
  PROVE  p[1] \in Nat /\ p = <<p[1], p[2]>>
BY DEF PairsIn, PairAt

\* Exceptions of a mux are found by index, others have the pad of their index.
LEMMA MuxPads ==
  ASSUME NEW c, c.type = "choice", IsControl(c), NEW io, io.mapping = "mux",
         IsMappingDefinition(c, io), IsTable(io.mapping_table),
         NEW t \in ElementsOf(c.choices)
  PROVE  LET m == Mapping(c, io)
         IN \A p : p \in ListedPads(io, c, t) <=>
                     p = <<p[1], p[2]>> /\ IsConnected(m, IndexOfKey(c, t), p[1], p[2])
<1>1. PICK m, table, i : m = Mapping(c, io) /\ table = io.mapping_table /\ i = IndexOfKey(c, t)
  OBVIOUS
<1>2. i \in 0..NumberOfChoices(c)-1 /\ i = LastIndex(c.choices, t)
  BY <1>1, ChoiceHasIndex
<1>3. i \in Nat /\ i # Unconnected
  BY <1>2, DatabaseAssumption
<1>4. m.kind = "mux"
  BY <1>1 DEF Mapping
<1>5. \A in, out : IsConnected(m, i, in, out) <=> out = 0 /\ in # Unconnected /\ m.by[i] = in
  BY <1>4 DEF IsConnected
<1>6. CASE table = None \/ t \notin DOMAIN table
  <2>1. ListedPads(io, c, t) = {<<i, 0>>}
    BY <1>1, <1>2, <1>6 DEF ListedPads
  <2>2. m.by[i] = i
    <3>1. CASE table = None
      BY <1>1, <1>2, <3>1 DEF Mapping, Identity
    <3>2. CASE table # None
      <4>1. m.by = MuxMapping(c, table)
        BY <1>1, <3>2 DEF Mapping
      <4>2. KeysOf(c, table, i) = {}
        BY <1>1, <1>6, <3>2, IndexIsUnique DEF KeysOf
      <4> QED BY <1>2, <4>1, <4>2 DEF MuxMapping
    <3> QED BY <3>1, <3>2
  <2>3. ASSUME NEW p
        PROVE  p = <<i, 0>> <=> p = <<p[1], p[2]>> /\ p[2] = 0 /\ p[1] # Unconnected /\ i = p[1]
    BY <1>3
  <2> QED BY <1>1, <1>5, <2>1, <2>2, <2>3
<1>7. CASE table # None /\ t \in DOMAIN table
  <2>1. PICK entry : entry = table[t]
    OBVIOUS
  <2>2. ListedPads(io, c, t) = IF entry = None THEN {} ELSE ConnectedPairs(entry)
    BY <1>1, <1>7, <2>1 DEF ListedPads
  <2>3. m.by = MuxMapping(c, table) /\ IsMuxEntry(c, entry)
    BY <1>1, <1>7, <2>1 DEF Mapping, IsMappingDefinition, IsMuxTable
  <2>4. m.by[i] = MuxInput(entry)
    <3>1. t \in KeysOf(c, table, i)
      BY <1>1, <1>7 DEF KeysOf
    <3>2. \A key \in KeysOf(c, table, i) : key = t
      BY <1>1, IndexIsUnique DEF KeysOf
    <3>3. KeysOf(c, table, i) = {t}
      BY <3>1, <3>2
    <3>4. LastKey({t}) = t
      BY DEF LastKey
    <3>5. m.by[i] = MuxInput(table[t])
      BY <1>2, <2>3, <3>3, <3>4 DEF MuxMapping
    <3> QED BY <2>1, <3>5
  <2>5. CASE entry = None \/ ConnectedPairs(entry) = {}
    BY <1>1, <1>5, <2>2, <2>4, <2>5 DEF MuxInput
  <2>6. CASE entry # None /\ ConnectedPairs(entry) # {}
    <3>1. PICK q : q = CHOOSE p \in ConnectedPairs(entry) : TRUE
      OBVIOUS
    <3>2. q \in ConnectedPairs(entry) /\ MuxInput(entry) = q[1]
      BY <2>6, <3>1 DEF MuxInput
    <3>3. entry # Failed /\ \A p \in ConnectedPairs(entry) : p = q
      BY <2>3, <2>6, <3>2 DEF IsMuxEntry
    <3>4. ConnectedPairs(entry) = {q}
      BY <3>2, <3>3
    <3>5. q \in PairsIn(entry) /\ q[2] = 0
      BY <2>3, <2>6, <3>2 DEF IsMuxEntry, ConnectedPairs
    <3>6. table # Failed
      BY <1>1 DEF IsMappingDefinition
    <3>7. \A j \in DOMAIN entry : entry[j].nr \in Nat
      BY <1>1, <1>7, <2>1, <2>6, <3>3, <3>6 DEF IsTable
    <3>8. q[1] \in Nat /\ q = <<q[1], q[2]>>
      BY <3>5, <3>7, PairsAreNumbered
    <3>9. q[1] # Unconnected
      BY <3>8, DatabaseAssumption
    <3>10. ASSUME NEW p
           PROVE  p = q <=> p = <<p[1], p[2]>> /\ p[2] = 0 /\ p[1] # Unconnected /\ q[1] = p[1]
      BY <3>5, <3>8, <3>9
    <3> QED BY <1>1, <1>5, <2>2, <2>4, <2>6, <3>2, <3>4, <3>10
  <2> QED BY <2>5, <2>6
<1> QED BY <1>6, <1>7

\* Each choice has its own entry in a full table.
LEMMA TablePads ==
  ASSUME NEW c, c.type = "choice", IsControl(c), NEW io, io.mapping = "table",
         IsMappingDefinition(c, io), IsTable(io.mapping_table),
         NEW t \in ElementsOf(c.choices)
  PROVE  LET m == Mapping(c, io)
         IN \A p : p \in ListedPads(io, c, t) <=>
                     p = <<p[1], p[2]>> /\ IsConnected(m, IndexOfKey(c, t), p[1], p[2])
<1>1. PICK m, table, i : m = Mapping(c, io) /\ table = io.mapping_table /\ i = IndexOfKey(c, t)
  OBVIOUS
<1>2. i \in 0..NumberOfChoices(c)-1 /\ ListedChoices(c)[i + 1] = t
  BY <1>1, ChoiceHasIndex
<1>3. table # None /\ table # Failed /\ IsFullTable(c, table)
  BY <1>1 DEF IsMappingDefinition
<1>4. t \in DOMAIN table /\ table[t] # Failed
  BY <1>3 DEF IsFullTable, ListedChoices
<1>5. PICK pads : pads = IF table[t] = None THEN {} ELSE ConnectedPairs(table[t])
  OBVIOUS
<1>6. ListedPads(io, c, t) = pads
  BY <1>1, <1>3, <1>4, <1>5 DEF ListedPads
<1>7. m.kind = "table" /\ m.by = TableMapping(c, table)
  BY <1>1 DEF Mapping
<1>8. m.by[i] = pads
  BY <1>2, <1>5, <1>7 DEF TableMapping
<1>9. \A in, out : IsConnected(m, i, in, out) <=> <<in, out>> \in pads
  BY <1>7, <1>8 DEF IsConnected
<1>10. \A p \in pads : p = <<p[1], p[2]>>
  <2>1. CASE table[t] = None
    BY <1>5, <2>1
  <2>2. CASE table[t] # None
    <3>1. \A j \in DOMAIN table[t] : table[t][j].nr \in Nat
      BY <1>1, <1>3, <1>4, <2>2 DEF IsTable
    <3>2. \A p \in pads : p \in PairsIn(table[t])
      BY <1>5, <2>2 DEF ConnectedPairs
    <3> QED BY <3>1, <3>2, PairsAreNumbered
  <2> QED BY <2>1, <2>2
<1> QED BY <1>1, <1>6, <1>9, <1>10

\* For any device model, the pads listed for a choice are connected while the
\* selector has that choice, and no others (make_switching_element()).
THEOREM ChoicesSelectPads == Spec => []ChoicesSelectTheirPads
<1>1. ModelsInv => ChoicesSelectTheirPads
  <2> SUFFICES ASSUME ModelsInv, NEW d \in Names, IsModel(d), NEW x \in DOMAIN models[d].mapping,
                      SelectorControlOf(d, x).type = "choice", models[d].mapping[x].kind # "demux",
                      NEW t \in ElementsOf(SelectorControlOf(d, x).choices)
               PROVE  LET c == SelectorControlOf(d, x)
                          m == models[d].mapping[x]
                          io == IOMappingOf(devices[d].props, x)
                          i == SelectorIndex(c, Value("ASCIIZ", Str(t)))
                      IN /\ \A p \in ListedPads(io, c, t) : IsConnected(m, i, p[1], p[2])
                         /\ \A in \in InputsOf(d, x), out \in OutputsOf(d, x) :
                              IsConnected(m, i, in, out) => <<in, out>> \in ListedPads(io, c, t)
    BY Zenon DEF ChoicesSelectTheirPads
  <2>1. PICK c, m, io, i : /\ c = SelectorControlOf(d, x) /\ m = models[d].mapping[x]
                           /\ io = IOMappingOf(devices[d].props, x)
                           /\ i = IndexOfKey(c, t)
    OBVIOUS
  <2>2. x \in DOMAIN models[d].selector
    BY DEF ModelsInv, Model
  <2>3. IsControl(c) /\ IsTable(io.mapping_table) /\ IsMappingDefinition(c, io) /\ m = Mapping(c, io)
    BY <2>1, <2>2, SelectorOfModel
  <2>4. io.mapping \in {"mux", "table"}
    BY <2>1, <2>3 DEF IsMappingDefinition, Mapping
  <2>5. \A p : p \in ListedPads(io, c, t) <=> p = <<p[1], p[2]>> /\ IsConnected(m, i, p[1], p[2])
    BY <2>1, <2>3, <2>4, MuxPads, TablePads
  <2>6. ASSUME NEW in, NEW out, IsConnected(m, i, in, out)
        PROVE  <<in, out>> \in ListedPads(io, c, t)
    <3>1. PICK p : p = <<in, out>>
      OBVIOUS
    <3>2. p[1] = in /\ p[2] = out
      BY <3>1
    <3> QED BY <2>5, <2>6, <3>1, <3>2
  <2> QED BY <2>1, <2>5, <2>6 DEF IndexOfKey
<1> QED BY <1>1, ModelsAreDefined, PTL

(***************************************************************************)
(* Values on their way: type codes are looked up by binary search, numbers *)
(* that were accepted for a type are in its range.                         *)
(***************************************************************************)
LEMMA Halves ==
  ASSUME NEW n \in Nat \ {0}
  PROVE  n \div 2 \in 0..n - 1 /\ n - n \div 2 - 1 \in 0..n - 1
OBVIOUS

\* The search ends at an entry, or behind the last one.
LEMMA SearchEndsInTable ==
  ASSUME NEW code
  PROVE  \E at \in 1..14 :
           TypeOfCode(code) =
             IF at <= 13 /\ TYPE_CODE_TO_VALUE_TYPE[at][1] = code
             THEN TYPE_CODE_TO_VALUE_TYPE[at][2] ELSE Failed
<1> DEFINE IsBelow(k) == TYPE_CODE_TO_VALUE_TYPE[k][1] < code
           Row(f, n) == [from \in 1..14 |->
                           IF n = 0 THEN from
                           ELSE IF IsBelow(from + n \div 2)
                                THEN f[n - n \div 2 - 1][from + n \div 2 + 1]
                                ELSE f[n \div 2][from]]
           IsSolution(f) == f = [n \in 0..13 |-> Row(f, n)]
<1> HIDE DEF IsBelow
<1>1. \E f : IsSolution(f)
  <2> DEFINE IsPart(f, k) == f = [n \in 0..k |-> Row(f, n)]
             S == {k \in Nat : \E f : IsPart(f, k)}
  <2>1. 0 \in S
    <3> DEFINE f == [n \in 0..0 |-> [from \in 1..14 |-> from]]
    <3>1. Row(f, 0) = [from \in 1..14 |-> from]
      OBVIOUS
    <3>2. f = [n \in 0..0 |-> Row(f, n)]
      <4> HIDE DEF Row
      <4> QED BY <3>1
    <3>3. IsPart(f, 0)
      BY <3>2
    <3> HIDE DEF IsPart, f
    <3> QED BY <3>3
  <2>2. ASSUME NEW k \in S PROVE k + 1 \in S
    <3>1. PICK f : IsPart(f, k)
      OBVIOUS
    <3> DEFINE g == [n \in 0..k + 1 |-> IF n = k + 1 THEN Row(f, n) ELSE f[n]]
    <3>2. \A n \in 0..k : g[n] = f[n]
      <4> HIDE DEF Row
      <4> QED OBVIOUS
    <3> HIDE DEF g
    <3>3. ASSUME NEW n \in 0..k + 1 PROVE Row(g, n) = Row(f, n)
      <4>1. CASE n = 0
        BY <4>1
      <4>2. CASE n # 0
        <5>1. n \div 2 \in 0..k /\ n - n \div 2 - 1 \in 0..k
          <6>1. n \div 2 \in 0..n - 1 /\ n - n \div 2 - 1 \in 0..n - 1
            BY <4>2, Halves
          <6> QED BY <6>1
        <5>2. g[n \div 2] = f[n \div 2] /\ g[n - n \div 2 - 1] = f[n - n \div 2 - 1]
          BY <3>2, <5>1
        <5> QED BY <5>2
      <4> QED BY <4>1, <4>2
    <3>4. \A n \in 0..k : f[n] = Row(f, n)
      <4> HIDE DEF Row
      <4> QED BY <3>1
    <3>5. g = [n \in 0..k + 1 |-> Row(g, n)]
      <4> HIDE DEF Row
      <4> QED BY <3>3, <3>4 DEF g
    <3>6. IsPart(g, k + 1)
      BY <3>5
    <3> HIDE DEF IsPart
    <3> QED BY <3>6
  <2>3. 13 \in S
    <3>1. S \in SUBSET Nat
      OBVIOUS
    <3> HIDE DEF S
    <3> QED BY <2>1, <2>2, <3>1, SetInduction
  <2>4. PICK f : IsPart(f, 13)
    BY <2>3
  <2>5. IsSolution(f)
    BY <2>4
  <2> HIDE DEF IsSolution
  <2> QED BY <2>5
<1>2. PICK f : /\ IsSolution(f)
               /\ TypeOfCode(code) =
                    IF f[13][1] <= 13 /\ TYPE_CODE_TO_VALUE_TYPE[f[13][1]][1] = code
                    THEN TYPE_CODE_TO_VALUE_TYPE[f[13][1]][2] ELSE Failed
  <2> DEFINE find == CHOOSE f : IsSolution(f)
  <2>1. TypeOfCode(code) =
          IF find[13][1] <= 13 /\ TYPE_CODE_TO_VALUE_TYPE[find[13][1]][1] = code
          THEN TYPE_CODE_TO_VALUE_TYPE[find[13][1]][2] ELSE Failed
    BY DEF TypeOfCode, IsBelow
  <2>2. IsSolution(find)
    <3> HIDE DEF IsSolution
    <3> QED BY <1>1, Zenon
  <2> HIDE DEF IsSolution, find
  <2> QED BY <2>1, <2>2
<1>3. \A n \in 0..13 : f[n] = Row(f, n)
  <2> HIDE DEF Row
  <2> QED BY <1>2
<1> DEFINE S == {k \in Nat : \A n \in 0..13 : n <= k =>
                   \A from \in 1..14 : from + n <= 14 => f[n][from] \in 1..14}
<1>4. 0 \in S
  <2>1. f[0] = [from \in 1..14 |-> from]
    BY <1>3
  <2> QED BY <2>1
<1>5. ASSUME NEW k \in S PROVE k + 1 \in S
  <2> SUFFICES ASSUME NEW n \in 0..13, n <= k + 1, NEW from \in 1..14, from + n <= 14
               PROVE  f[n][from] \in 1..14
    <3>1. k + 1 \in Nat
      OBVIOUS
    <3> QED BY <3>1, Zenon
  <2>0. CASE n <= k
    BY <2>0
  <2> SUFFICES ASSUME n = k + 1 PROVE f[n][from] \in 1..14
    BY <2>0
  <2>1. PICK half, rest : half = n \div 2 /\ rest = n - n \div 2 - 1
    OBVIOUS
  <2>2. half \in 0..k /\ rest \in 0..k /\ rest + half + 1 = n
    <3>1. half \in 0..n - 1 /\ rest \in 0..n - 1
      BY <2>1, Halves
    <3> QED BY <2>1, <3>1
  <2>3. f[n][from] = IF IsBelow(from + half) THEN f[rest][from + half + 1] ELSE f[half][from]
    <3>1. f[n] = Row(f, n) /\ n # 0
      <4> HIDE DEF Row
      <4> QED BY <1>3
    <3>2. f[n][from] = Row(f, n)[from]
      <4> HIDE DEF Row
      <4> QED BY <3>1
    <3> QED BY <2>1, <3>1, <3>2
  <2>4. f[half][from] \in 1..14
    BY <2>2
  <2>5. f[rest][from + half + 1] \in 1..14
    BY <2>2
  <2> QED BY <2>3, <2>4, <2>5
<1>6. f[13][1] \in 1..14
  <2>1. 13 \in S
    <3>1. S \in SUBSET Nat
      OBVIOUS
    <3> HIDE DEF S
    <3> QED BY <1>4, <1>5, <3>1, SetInduction
  <2> QED BY <2>1
<1> QED BY <1>2, <1>6

\* The two tables agree.
LEMMA CodesAgree ==
  ASSUME NEW i \in 1..13
  PROVE  TypeCode(TYPE_CODE_TO_VALUE_TYPE[i][2]) = TYPE_CODE_TO_VALUE_TYPE[i][1]
<1> DEFINE order == <<"VOID", "ASCIIZ", "BOOL", "INT8", "UINT8", "INT16", "UINT16",
                      "INT32", "UINT32", "INT64", "UINT64", "DOUBLE", "FIXPT">>
           place == <<1, 13, 4, 3, 12, 8, 6, 7, 2, 11, 9, 10, 5>>
           codes == <<64, 115, 98, 89, 121, 110, 113, 105, 117, 120, 116, 100, 68>>
<1>1. /\ place[i] \in 1..13
      /\ order[place[i]] = TYPE_CODE_TO_VALUE_TYPE[i][2]
      /\ codes[place[i]] = TYPE_CODE_TO_VALUE_TYPE[i][1]
  BY DEF TYPE_CODE_TO_VALUE_TYPE
<1>2. \A j, k \in 1..13 : order[j] = order[k] => j = k
  OBVIOUS
<1>3. (CHOOSE j \in 1..13 : order[j] = TYPE_CODE_TO_VALUE_TYPE[i][2]) = place[i]
  <2> HIDE DEF order, place
  <2> QED BY <1>1, <1>2
<1>4. TypeCode(TYPE_CODE_TO_VALUE_TYPE[i][2])
      = codes[CHOOSE j \in 1..13 : order[j] = TYPE_CODE_TO_VALUE_TYPE[i][2]]
  BY DEF TypeCode
<1> HIDE DEF order, place, codes
<1> QED BY <1>1, <1>3, <1>4

\* What passes the check is in the range of its type, without a cast.
LEMMA AcceptedNumbersSurvive ==
  ASSUME NEW vt \in IntegerTypes, NEW n \in -(Word \div 2) .. Word - 1,
         TypeCheck(IntNum(n), vt), vt \in SignedTypes => n < Word \div 2
  PROVE  n \in RangeOf(vt) /\ GetAs(Value(vt, IntNum(n)), vt) = IntNum(n)
<1>1. PICK g : Word = 2 * g /\ g \in Nat
  <2>1. "INT64" \in IntegerTypes
    BY DEF IntegerTypes, SignedTypes
  <2> QED BY <2>1, PowersAssumption DEF Word
<1>2. PICK size : size = Word
  OBVIOUS
<1>3. size \div 2 = g /\ n \in Int /\ -g <= n /\ n < size
  BY <1>1, <1>2
<1>4. /\ IntNum(n).kind = "int" /\ IntNum(n).num = n
      /\ Value(vt, IntNum(n)).json = IntNum(n)
      /\ IsNumber(IntNum(n)) /\ vt \notin {"VOID", "ASCIIZ", "BOOL"}
  BY DEF IntNum, Value, IsNumber, IntegerTypes, SignedTypes, UnsignedTypes
<1>5. CASE vt \in SignedTypes
  <2>1. ToInt64(n) \in RangeOf(vt)
    BY <1>4, <1>5 DEF TypeCheck, SignedTypes, UnsignedTypes
  <2>2. n < size \div 2 /\ size \div 2 <= n + size
    BY <1>1, <1>2, <1>3, <1>5
  <2>3. ToInt64(n) = n
    BY <1>2, <1>3, <2>2, CastKeeps
  <2>4. GetAs(Value(vt, IntNum(n)), vt) = IntNum(ToInt64(n))
    <3> DEFINE v == Value(vt, IntNum(n))
    <3>1. IsNumber(v.json) /\ v.json.num = n
      BY <1>4
    <3>2. vt \notin UnsignedTypes
      BY <1>5 DEF SignedTypes, UnsignedTypes
    <3> HIDE DEF v
    <3>3. GetAs(v, vt) = IntNum(ToInt64(v.json.num))
      BY <1>4, <1>5, <3>1, <3>2 DEF GetAs
    <3> QED BY <3>1, <3>3 DEF v
  <2> QED BY <2>1, <2>3, <2>4
<1>6. CASE vt \notin SignedTypes
  <2>1. vt \in UnsignedTypes
    BY <1>6 DEF IntegerTypes
  <2>2. n >= 0 /\ n \in RangeOf(vt)
    BY <1>4, <1>6, <2>1 DEF TypeCheck, IsUnsigned, UnsignedTypes
  <2>3. ToUInt64(n) = n
    BY <1>2, <1>3, <2>2, CastKeeps
  <2> QED BY <1>4, <1>6, <2>1, <2>2, <2>3 DEF GetAs
<1> QED BY <1>5, <1>6

\* A number that is accepted under a type code is read back as it was sent,
\* and goes under the same code again (type_code_to_type(), type_check(),
\* get_as()), for integers of any width.
THEOREM AcceptedValuesSurvive == Spec => []ValuesSurviveTransport
<1>1. ValuesSurviveTransport
  <2> SUFFICES ASSUME NEW code \in 0..127, TypeOfCode(code) # Failed
               PROVE  TypeCode(TypeOfCode(code)) = code
    BY AcceptedNumbersSurvive DEF ValuesSurviveTransport
  <2>1. PICK at \in 1..14 : TypeOfCode(code) =
                              IF at <= 13 /\ TYPE_CODE_TO_VALUE_TYPE[at][1] = code
                              THEN TYPE_CODE_TO_VALUE_TYPE[at][2] ELSE Failed
    BY SearchEndsInTable
  <2>2. /\ at \in 1..13 /\ TYPE_CODE_TO_VALUE_TYPE[at][1] = code
        /\ TypeOfCode(code) = TYPE_CODE_TO_VALUE_TYPE[at][2]
    BY <2>1
  <2> QED BY <2>2, CodesAgree
<1> QED BY <1>1, PTL
=============================================================================
