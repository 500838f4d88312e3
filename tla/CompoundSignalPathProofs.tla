----------------------- MODULE CompoundSignalPathProofs -----------------------
(***************************************************************************)
(* Proof that the one path vector and the stack of device names fit each   *)
(* other, and that a finished enumeration has reported the ends of all     *)
(* routes and nothing else: a route is a sequence of active paths in       *)
(* devices, joined by connections from the root to a sink that is          *)
(* connected to nothing.  As long as no sink is connected to two inputs,   *)
(* the reported paths are exactly those along the routes.                  *)
(*                                                                         *)
(* This is for any devices and paths, and for connections of any shape.    *)
(* Only to compare with the routes as the runs enumerate them, connections *)
(* must form no cycle.                                                     *)
(***************************************************************************)
EXTENDS CompoundSignalPath, FiniteSetTheorems, TLAPS

PathsOfElements == Seq(Elements) \ {<<>>}
Calls == [dev: modelled, input: Elements \cup {None}, length: Nat,
          left: SUBSET PathsOfElements, onPath: BOOLEAN, hasConnectedDevice: BOOLEAN,
          pending: SUBSET conns]
PathElem == [at: Nat, elem: Elements]
NamedElem == [dev: Devices \cup {None}, elem: Elements]

(***************************************************************************)
(* Routes: sequences of hops as in CompoundPaths, of any length.           *)
(***************************************************************************)
IsRoute(h) ==
  /\ h \in Seq(Hop) /\ h # <<>> /\ h[1].dev = Root
  /\ \A i \in 1..Len(h) - 1 : Joined(h[i], h[i + 1])
  /\ ConnectionsOf(h[Len(h)].dev, Last(h[Len(h)].path)) = {}

RunsAlong(r, h) ==
  \E begin \in [1..Len(h) + 1 -> Nat] :
    /\ begin[1] = 0 /\ begin[Len(h) + 1] = Len(r)
    /\ \A i \in 1..Len(h) :
         /\ begin[i + 1] = begin[i] + Len(h[i].path)
         /\ \A j \in 1..Len(h[i].path) :
              r[begin[i] + j] = [dev |-> h[i].dev, elem |-> h[i].path[j]]

\* A report of a route ends where the route does.  With fan-out, that may be
\* all they have in common.
Reports(r, h) ==
  /\ r \in Seq(NamedElem) /\ r # <<>>
  /\ Last(r) = [dev |-> h[Len(h)].dev, elem |-> Last(h[Len(h)].path)]
  /\ ~FanOut => RunsAlong(r, h)

(***************************************************************************)
(* The stack and the path vector                                           *)
(***************************************************************************)
\* What a call may still do fits its device and the path below it.
IsCall(s, q, i) ==
  /\ s[i].length <= Len(q)
  /\ s[i].onPath => s[i].length < Len(q)
  /\ s[i].pending # {} => s[i].onPath
  /\ \A p \in s[i].left : p \in active[s[i].dev] /\ s[i].input \in {None, Head(p)}

IsStack(s, q) ==
  /\ \A i \in 1..Len(s) : IsCall(s, q, i)
  /\ \A i, j \in 1..Len(s) : i < j => s[i].length < s[j].length
  /\ s # <<>> => s[1].dev = Root /\ s[1].length = 0

\* Where the part of a call ends in the path vector.
EndOf(s, q, i) == IF i < Len(s) THEN s[i + 1].length ELSE Len(q)

\* A call is on path p: its elements are in the path vector, and nothing else
\* is between them and the next call unless there is fan-out; the connections
\* it has left are those of the sink.
Follows(s, q, i, p) ==
  /\ p \in active[s[i].dev] /\ s[i].input \in {None, Head(p)}
  /\ \A j \in 1..Len(p) : q[s[i].length + j] = [at |-> i, elem |-> p[j]]
  /\ s[i].length + Len(p) <= EndOf(s, q, i)
  /\ (IF i < Len(s) THEN ~FanOut ELSE ~s[i].hasConnectedDevice) =>
       s[i].length + Len(p) = EndOf(s, q, i)
  /\ s[i].pending \subseteq ConnectionsOf(s[i].dev, Last(p))
  /\ ~s[i].hasConnectedDevice => s[i].pending = ConnectionsOf(s[i].dev, Last(p))

\* The next device was entered through a connection.
Entered(s, q, i) ==
  /\ s[i].onPath /\ s[i].hasConnectedDevice
  /\ \E p : /\ Follows(s, q, i, p)
            /\ \E c \in ConnectionsOf(s[i].dev, Last(p)) :
                 c.to = s[i + 1].dev /\ c.input = s[i + 1].input

\* Without fan-out, a connection is followed while the path vector has nothing
\* but the paths of the devices entered before.
FollowsOnce(s, i) ==
  s[i].pending # {} => ~s[i].hasConnectedDevice /\ \A c, d \in s[i].pending : c = d

NamedBefore(s, q, i) == \A k \in 1..s[i].length : q[k].at \in 1..i - 1

IsNamed(s, q) ==
  /\ \A i \in 1..Len(s) : FollowsOnce(s, i) /\ NamedBefore(s, q, i)
  /\ s # <<>> /\ s[Len(s)].onPath /\ ~s[Len(s)].hasConnectedDevice =>
       \A k \in 1..Len(q) : q[k].at \in 1..Len(s)

FollowsRoute(s, q) ==
  /\ \A i \in 1..Len(s) - 1 : Entered(s, q, i)
  /\ s # <<>> /\ s[Len(s)].onPath => \E p : Follows(s, q, Len(s), p)
  /\ ~FanOut => IsNamed(s, q)

(***************************************************************************)
(* What is still to be reported                                            *)
(***************************************************************************)
\* The search has come along route h to its i-th hop.
HasComeTo(s, q, h, i) ==
  /\ \A k \in 1..i : s[k].dev = h[k].dev
  /\ \A k \in 1..i - 1 : Follows(s, q, k, h[k].path)

\* It goes on, or it takes the next path of the route later.
GoesOn(s, q, h, i) ==
  /\ s[i].onPath /\ Follows(s, q, i, h[i].path)
  /\ IF i = Len(h) THEN ~s[i].hasConnectedDevice
     ELSE \E c \in s[i].pending : c.to = h[i + 1].dev /\ c.input = Head(h[i + 1].path)

IsToDo(s, q, h) ==
  \E i \in 1..Len(s) :
    /\ i <= Len(h)
    /\ HasComeTo(s, q, h, i)
    /\ h[i].path \in s[i].left \/ GoesOn(s, q, h, i)

IsComplete(s, q, r) ==
  \A h : IsRoute(h) => IsToDo(s, q, h) \/ \E x \in r : Reports(x, h)

(***************************************************************************)
(* The inductive invariant                                                 *)
(***************************************************************************)
StoreInv ==
  /\ modelled \subseteq Devices
  /\ active \in [Devices -> SUBSET PathsOfElements]
  /\ conns \subseteq Connections

PhaseInv ==
  /\ phase \in {"ready", "walking", "done"}
  /\ phase = "ready" => current = <<>>
  /\ phase # "walking" => frames = <<>>

IsWalk(s, q, r) ==
  /\ s \in Seq(Calls) /\ q \in Seq(PathElem)
  /\ IsStack(s, q) /\ FollowsRoute(s, q)
  /\ \A x \in r : \E h : IsRoute(h) /\ Reports(x, h)

CompoundInv ==
  /\ StoreInv /\ PhaseInv
  /\ IsWalk(frames, current, reported)
  /\ phase # "ready" => IsComplete(frames, current, reported)

(***************************************************************************)
(* Sequences                                                               *)
(***************************************************************************)
LEMMA Pushed ==
  ASSUME NEW S, NEW s \in Seq(S), NEW e \in S
  PROVE  /\ Append(s, e) \in Seq(S) /\ Len(s) \in Nat
         /\ Len(Append(s, e)) = Len(s) + 1
         /\ Append(s, e)[Len(s) + 1] = e
         /\ \A i \in 1..Len(s) : Append(s, e)[i] = s[i]
OBVIOUS

LEMMA Cut ==
  ASSUME NEW S, NEW s \in Seq(S), NEW n \in 0..Len(s)
  PROVE  /\ SubSeq(s, 1, n) \in Seq(S)
         /\ Len(SubSeq(s, 1, n)) = n
         /\ \A i \in 1..n : SubSeq(s, 1, n)[i] = s[i]
OBVIOUS

LEMMA TopReplaced ==
  ASSUME NEW S, NEW s \in Seq(S), s # <<>>, NEW e \in S
  PROVE  LET t == [s EXCEPT ![Len(s)] = e]
         IN /\ t \in Seq(S) /\ Len(s) \in Nat \ {0} /\ Len(t) = Len(s)
            /\ t[Len(s)] = e
            /\ \A i \in 1..Len(s) - 1 : t[i] = s[i]
OBVIOUS

LEMMA Joint ==
  ASSUME NEW S, NEW s \in Seq(S), NEW t \in Seq(S)
  PROVE  /\ s \o t \in Seq(S) /\ Len(s) \in Nat /\ Len(t) \in Nat
         /\ Len(s \o t) = Len(s) + Len(t)
         /\ \A i \in 1..Len(s) : (s \o t)[i] = s[i]
         /\ \A j \in 1..Len(t) : (s \o t)[Len(s) + j] = t[j]
OBVIOUS

\* The path vector, cut and extended by the path of a device.
LEMMA PathExtended ==
  ASSUME NEW q \in Seq(PathElem), NEW n \in 0..Len(q), NEW p \in Seq(Elements), NEW a \in Nat
  PROVE  LET r == SubSeq(q, 1, n) \o [i \in DOMAIN p |-> [at |-> a, elem |-> p[i]]]
         IN /\ r \in Seq(PathElem) /\ Len(r) = n + Len(p)
            /\ \A i \in 1..n : r[i] = q[i]
            /\ \A j \in 1..Len(p) : r[n + j] = [at |-> a, elem |-> p[j]]
<1> DEFINE cut == SubSeq(q, 1, n)
           new == [i \in DOMAIN p |-> [at |-> a, elem |-> p[i]]]
<1>1. DOMAIN p = 1..Len(p) /\ Len(p) \in Nat /\ \A i \in 1..Len(p) : p[i] \in Elements
  OBVIOUS
<1>2. \A i \in 1..Len(p) : [at |-> a, elem |-> p[i]] \in PathElem
  BY <1>1 DEF PathElem
<1>3. new \in Seq(PathElem) /\ Len(new) = Len(p)
      /\ \A j \in 1..Len(p) : new[j] = [at |-> a, elem |-> p[j]]
  BY <1>1, <1>2
<1>4. cut \in Seq(PathElem) /\ Len(cut) = n /\ \A i \in 1..n : cut[i] = q[i]
  BY Cut
<1>5. cut \in Seq(PathElem) /\ new \in Seq(PathElem)
  BY <1>3, <1>4
<1> HIDE DEF cut, new
<1>6. /\ cut \o new \in Seq(PathElem) /\ Len(cut \o new) = Len(cut) + Len(new)
      /\ \A i \in 1..Len(cut) : (cut \o new)[i] = cut[i]
      /\ \A j \in 1..Len(new) : (cut \o new)[Len(cut) + j] = new[j]
  BY ONLY <1>5, Joint
<1> QED BY <1>3, <1>4, <1>6 DEF cut, new

(***************************************************************************)
(* Changes of the stack                                                    *)
(***************************************************************************)
SameCall(a, b) == a.dev = b.dev /\ a.input = b.input /\ a.length = b.length

HasTop(t, s, c) ==
  /\ t \in Seq(Calls) /\ Len(s) \in Nat \ {0} /\ Len(t) = Len(s)
  /\ t[Len(s)] = c /\ \A i \in 1..Len(s) - 1 : t[i] = s[i]

LEMMA PathsAreTyped ==
  ASSUME StoreInv, NEW dev \in modelled, NEW p \in active[dev]
  PROVE  p \in PathsOfElements /\ p \in Seq(Elements) /\ Len(p) \in Nat \ {0}
<1>1. p \in PathsOfElements
  BY DEF StoreInv
<1> QED BY <1>1 DEF PathsOfElements

LEMMA CallsAreTyped ==
  ASSUME NEW s \in Seq(Calls)
  PROVE  /\ Len(s) \in Nat
         /\ \A i \in 1..Len(s) : s[i] \in Calls /\ s[i].length \in Nat /\ s[i].dev \in modelled
<1>1. Len(s) \in Nat /\ \A i \in 1..Len(s) : s[i] \in Calls
  OBVIOUS
<1> QED BY <1>1 DEF Calls

\* A change behind the entry of the next call does not matter to a call.
LEMMA FollowsBelow ==
  ASSUME StoreInv, NEW s \in Seq(Calls), NEW t \in Seq(Calls), NEW q, NEW r,
         NEW i \in 1..Len(s), i < Len(s), i < Len(t), NEW p, Follows(s, q, i, p),
         t[i] = s[i], SameCall(s[i + 1], t[i + 1]),
         \A k \in 1..s[i + 1].length : r[k] = q[k]
  PROVE  Follows(t, r, i, p)
<1>1. s[i].length \in Nat /\ s[i].dev \in modelled /\ p \in active[s[i].dev]
  BY CallsAreTyped DEF Follows
<1>2. Len(p) \in Nat
  BY <1>1, PathsAreTyped
<1>3. i + 1 \in 1..Len(s)
  OBVIOUS
<1>4. s[i + 1].length \in Nat
  BY <1>3, CallsAreTyped
<1>5. s[i].length + Len(p) <= s[i + 1].length
  BY DEF Follows, EndOf
<1>6. \A j \in 1..Len(p) : s[i].length + j \in 1..s[i + 1].length
  <2>1. PICK a, b, n : /\ a = s[i].length /\ b = s[i + 1].length /\ n = Len(p)
                       /\ a \in Nat /\ b \in Nat /\ n \in Nat /\ a + n <= b
    BY <1>1, <1>2, <1>4, <1>5
  <2>2. a \in Nat /\ b \in Nat /\ n \in Nat /\ a + n <= b
    BY <2>1
  <2>3. \A j \in 1..n : a + j \in 1..b
    BY ONLY <2>2
  <2> QED BY <2>1, <2>3
<1>7. ASSUME NEW j \in 1..Len(p) PROVE r[s[i].length + j] = [at |-> i, elem |-> p[j]]
  <2>1. q[s[i].length + j] = [at |-> i, elem |-> p[j]]
    BY DEF Follows
  <2>2. r[s[i].length + j] = q[s[i].length + j]
    BY <1>6
  <2> QED BY <2>1, <2>2
<1>8. EndOf(t, r, i) = EndOf(s, q, i)
  BY DEF EndOf, SameCall
<1> QED BY <1>7, <1>8 DEF Follows

LEMMA EnteredBelow ==
  ASSUME StoreInv, NEW s \in Seq(Calls), NEW t \in Seq(Calls), NEW q, NEW r,
         NEW i \in 1..Len(s), i < Len(s), i < Len(t), Entered(s, q, i),
         t[i] = s[i], SameCall(s[i + 1], t[i + 1]),
         \A k \in 1..s[i + 1].length : r[k] = q[k]
  PROVE  Entered(t, r, i)
<1>1. PICK p : /\ Follows(s, q, i, p)
               /\ \E c \in ConnectionsOf(s[i].dev, Last(p)) :
                    c.to = s[i + 1].dev /\ c.input = s[i + 1].input
  BY DEF Entered
<1>2. Follows(t, r, i, p)
  BY <1>1, FollowsBelow
<1> QED BY <1>1, <1>2 DEF Entered, SameCall

\* Each call has at least as much below it as those before.
LEMMA LengthsGrow ==
  ASSUME NEW s \in Seq(Calls), NEW q, IsStack(s, q), NEW i \in 1..Len(s), NEW k \in 1..i
  PROVE  k \in 1..Len(s) /\ s[k].length <= s[i].length
<1>1. k \in 1..Len(s) /\ Len(s) \in Nat
  OBVIOUS
<1>2. s[k].length \in Nat /\ s[i].length \in Nat
  BY <1>1, CallsAreTyped
<1>3. CASE k = i
  BY <1>1, <1>2, <1>3
<1>4. CASE k < i
  BY <1>1, <1>2, <1>4 DEF IsStack
<1> QED BY <1>3, <1>4

LEMMA HasComeBelow ==
  ASSUME StoreInv, NEW s \in Seq(Calls), NEW t \in Seq(Calls), NEW q, NEW r,
         IsStack(s, q), NEW i \in 1..Len(s), i <= Len(t),
         \A k \in 1..i - 1 : t[k] = s[k], SameCall(s[i], t[i]),
         \A k \in 1..s[i].length : r[k] = q[k],
         NEW h, HasComeTo(s, q, h, i)
  PROVE  HasComeTo(t, r, h, i)
<1>1. Len(s) \in Nat /\ Len(t) \in Nat
  OBVIOUS
<1>2. \A k \in 1..i : k = i \/ k \in 1..i - 1
  BY <1>1
<1>3. \A k \in 1..i : SameCall(s[k], t[k])
  BY <1>2 DEF SameCall
<1>4. \A k \in 1..i : t[k].dev = h[k].dev
  BY <1>3 DEF SameCall, HasComeTo
<1>5. ASSUME NEW k \in 1..i - 1 PROVE Follows(t, r, k, h[k].path)
  <2>1. k \in 1..Len(s) /\ k < Len(s) /\ k < Len(t) /\ k + 1 \in 1..i /\ k + 1 \in 1..Len(s)
    <3>1. PICK m \in Nat, n \in Nat : m = Len(s) /\ n = Len(t)
      BY <1>1
    <3>2. k \in 1..m /\ k < m /\ k < n /\ k + 1 \in 1..i /\ k + 1 \in 1..m
      BY <3>1
    <3> QED BY <3>1, <3>2
  <2>2. s[k + 1].length <= s[i].length /\ s[k + 1].length \in Nat /\ s[i].length \in Nat
    BY <2>1, LengthsGrow, CallsAreTyped
  <2>3. \A j \in 1..s[k + 1].length : r[j] = q[j]
    <3>1. PICK a \in Nat, b \in Nat : a = s[k + 1].length /\ b = s[i].length /\ a <= b
      BY <2>2
    <3>2. \A j \in 1..a : j \in 1..b
      BY <3>1
    <3> QED BY <3>1, <3>2
  <2>4. Follows(s, q, k, h[k].path)
    BY DEF HasComeTo
  <2> QED BY <1>3, <2>1, <2>3, <2>4, FollowsBelow
<1> QED BY <1>4, <1>5 DEF HasComeTo

\* The device entered last goes on with its paths.
LEMMA TopChanged ==
  ASSUME NEW s \in Seq(Calls), s # <<>>, NEW q \in Seq(PathElem), IsStack(s, q),
         NEW c \in Calls, SameCall(s[Len(s)], c), c.left \subseteq s[Len(s)].left,
         NEW r \in Seq(PathElem), Len(r) >= c.length,
         c.onPath => c.length < Len(r), c.pending # {} => c.onPath
  PROVE  LET t == [s EXCEPT ![Len(s)] = c] IN HasTop(t, s, c) /\ IsStack(t, r)
<1> DEFINE t == [s EXCEPT ![Len(s)] = c]
<1>1. /\ t \in Seq(Calls) /\ Len(s) \in Nat \ {0} /\ Len(t) = Len(s)
      /\ t[Len(s)] = c /\ \A i \in 1..Len(s) - 1 : t[i] = s[i]
  BY TopReplaced
<1> HIDE DEF t
<1>2. \A i \in 1..Len(s) : s[i] \in Calls
  OBVIOUS
<1>3. \A i \in 1..Len(s) : s[i].length \in Nat
  BY CallsAreTyped
<1>4. \A i \in 1..Len(s) : i = Len(s) \/ i \in 1..Len(s) - 1
  BY <1>1
<1>5. \A i \in 1..Len(s) : SameCall(s[i], t[i]) /\ t[i].left \subseteq s[i].left
  BY <1>1, <1>4 DEF SameCall
<1>6. ASSUME NEW i \in 1..Len(s) PROVE IsCall(t, r, i)
  <2>1. IsCall(s, q, i) /\ Len(s) \in 1..Len(s)
    BY <1>1 DEF IsStack
  <2>2. \A p \in t[i].left : p \in active[t[i].dev] /\ t[i].input \in {None, Head(p)}
    BY <1>5, <2>1 DEF IsCall, SameCall
  <2>3. CASE i = Len(s)
    BY <1>1, <2>2, <2>3 DEF IsCall
  <2>4. CASE i \in 1..Len(s) - 1
    <3>1. t[i] = s[i] /\ s[i].length < s[Len(s)].length
      BY <1>1, <2>1, <2>4 DEF IsStack
    <3>2. s[Len(s)].length = c.length /\ Len(r) \in Nat
      BY DEF SameCall
    <3>3. s[i].length < Len(r)
      BY <1>1, <1>3, <3>1, <3>2
    <3> QED BY <1>3, <2>1, <2>2, <3>1, <3>2, <3>3 DEF IsCall
  <2> QED BY <1>4, <2>3, <2>4
<1>7. \A i, j \in 1..Len(s) : i < j => t[i].length < t[j].length
  BY <1>5 DEF IsStack, SameCall
<1>8. t[1].dev = Root /\ t[1].length = 0
  <2>1. 1 \in 1..Len(s)
    BY <1>1
  <2> QED BY <1>5, <2>1 DEF IsStack, SameCall
<1>9. IsStack(t, r)
  BY <1>1, <1>6, <1>7, <1>8 DEF IsStack
<1> QED BY <1>1, <1>9 DEF t, HasTop

LEMMA TopOnRoute ==
  ASSUME StoreInv, NEW s \in Seq(Calls), s # <<>>, NEW q, IsStack(s, q), FollowsRoute(s, q),
         NEW c \in Calls, SameCall(s[Len(s)], c), NEW r,
         \A k \in 1..c.length : r[k] = q[k],
         NEW t, HasTop(t, s, c),
         c.onPath => \E p : Follows(t, r, Len(s), p),
         ~FanOut => /\ FollowsOnce(t, Len(s))
                    /\ c.onPath /\ ~c.hasConnectedDevice =>
                         \A k \in 1..Len(r) : r[k].at \in 1..Len(s)
  PROVE  FollowsRoute(t, r)
<1>1. /\ t \in Seq(Calls) /\ Len(s) \in Nat \ {0} /\ Len(t) = Len(s)
      /\ t[Len(s)] = c /\ \A i \in 1..Len(s) - 1 : t[i] = s[i]
  BY DEF HasTop
<1>2. \A i \in 1..Len(s) : i = Len(s) \/ i \in 1..Len(s) - 1
  BY <1>1
<1>3. \A i \in 1..Len(s) : SameCall(s[i], t[i])
  BY <1>1, <1>2 DEF SameCall
<1>4. Len(s) \in 1..Len(s) /\ s[Len(s)].length = c.length
  BY <1>1 DEF SameCall
<1>5. \A i \in 1..Len(s) : \A k \in 1..s[i].length : r[k] = q[k]
  <2>1. \A i \in 1..Len(s) : i \in 1..Len(s) /\ i \in 1..Len(s) /\ s[i].length \in Nat
    BY CallsAreTyped
  <2>2. \A i \in 1..Len(s) : s[i].length <= s[Len(s)].length
    BY <1>1, <1>4, LengthsGrow
  <2>3. \A i \in 1..Len(s) : \A k \in 1..s[i].length : k \in 1..c.length
    BY <1>4, <2>1, <2>2
  <2> QED BY <2>3
<1>6. ASSUME NEW i \in 1..Len(s) - 1 PROVE Entered(t, r, i)
  <2>1. i \in 1..Len(s) /\ i < Len(s) /\ i < Len(t) /\ i + 1 \in 1..Len(s)
    BY <1>1
  <2>2. Entered(s, q, i) /\ t[i] = s[i]
    BY <1>1 DEF FollowsRoute
  <2> QED BY <1>1, <1>3, <1>5, <2>1, <2>2, EnteredBelow
<1>7. ASSUME ~FanOut PROVE IsNamed(t, r)
  <2>1. IsNamed(s, q)
    BY <1>7 DEF FollowsRoute
  <2>2. \A i \in 1..Len(s) : FollowsOnce(t, i)
    BY <1>1, <1>2, <1>7, <2>1 DEF IsNamed, FollowsOnce
  <2>3. \A i \in 1..Len(s) : NamedBefore(t, r, i)
    BY <1>3, <1>5, <2>1 DEF IsNamed, NamedBefore, SameCall
  <2> QED BY <1>1, <1>7, <2>2, <2>3 DEF IsNamed
<1> QED BY <1>1, <1>6, <1>7 DEF FollowsRoute

\* A device is entered behind the path.
LEMMA CallPushed ==
  ASSUME NEW s \in Seq(Calls), s # <<>>, NEW q \in Seq(PathElem), IsStack(s, q),
         s[Len(s)].onPath,
         NEW f \in Calls, f.length = Len(q), ~f.onPath, f.pending = {},
         \A p \in f.left : p \in active[f.dev] /\ f.input \in {None, Head(p)}
  PROVE  Append(s, f) \in Seq(Calls) /\ IsStack(Append(s, f), q)
<1> DEFINE t == Append(s, f)
<1>1. /\ t \in Seq(Calls) /\ Len(s) \in Nat \ {0} /\ Len(t) = Len(s) + 1
      /\ t[Len(s) + 1] = f /\ \A i \in 1..Len(s) : t[i] = s[i]
  BY Pushed
<1> HIDE DEF t
<1>2. \A i \in 1..Len(s) : s[i] \in Calls /\ s[i].length \in Nat
  BY CallsAreTyped
<1>3. \A i \in 1..Len(t) : i = Len(t) \/ i \in 1..Len(s)
  BY <1>1
<1>4. Len(q) \in Nat /\ \A i \in 1..Len(s) : s[i].length < Len(q)
  <2>1. Len(q) \in Nat
    OBVIOUS
  <2>2. s[Len(s)].length < Len(q) /\ Len(s) \in 1..Len(s)
    BY <1>1 DEF IsStack, IsCall
  <2>3. \A i \in 1..Len(s) : i = Len(s) \/ i < Len(s)
    BY <1>1
  <2>4. \A i \in 1..Len(s) : s[i].length <= s[Len(s)].length
    BY <1>2, <2>2, <2>3 DEF IsStack
  <2> QED BY <1>2, <2>1, <2>2, <2>4
<1>5. \A i \in 1..Len(t) : IsCall(t, q, i)
  BY <1>1, <1>3, <1>4 DEF IsStack, IsCall
<1>6. \A i, j \in 1..Len(t) : i < j => t[i].length < t[j].length
  <2> SUFFICES ASSUME NEW i \in 1..Len(t), NEW j \in 1..Len(t), i < j
               PROVE  t[i].length < t[j].length
    OBVIOUS
  <2>1. i \in 1..Len(s) /\ t[i] = s[i]
    BY <1>1, <1>3
  <2>2. CASE j = Len(t)
    BY <1>1, <1>4, <2>1, <2>2
  <2>3. CASE j \in 1..Len(s)
    BY <1>1, <2>1, <2>3 DEF IsStack
  <2> QED BY <1>3, <2>2, <2>3
<1>7. t[1].dev = Root /\ t[1].length = 0
  BY <1>1 DEF IsStack
<1>8. IsStack(t, q)
  BY <1>5, <1>6, <1>7 DEF IsStack
<1> QED BY <1>1, <1>8 DEF t

LEMMA CallOnRoute ==
  ASSUME StoreInv, NEW s \in Seq(Calls), s # <<>>, NEW q, IsStack(s, q),
         FollowsRoute(s, q), s[Len(s)].onPath, s[Len(s)].hasConnectedDevice,
         NEW f \in Calls, f.length = Len(q), ~f.onPath, f.pending = {},
         NEW p, Follows(s, q, Len(s), p), ~FanOut => s[Len(s)].length + Len(p) = Len(q),
         NEW c \in ConnectionsOf(s[Len(s)].dev, Last(p)), c.to = f.dev, c.input = f.input,
         ~FanOut => \A k \in 1..Len(q) : q[k].at \in 1..Len(s)
  PROVE  /\ FollowsRoute(Append(s, f), q)
         /\ Follows(Append(s, f), q, Len(s), p)
<1> DEFINE t == Append(s, f)
<1>1. /\ t \in Seq(Calls) /\ Len(s) \in Nat \ {0} /\ Len(t) = Len(s) + 1
      /\ t[Len(s) + 1] = f /\ \A i \in 1..Len(s) : t[i] = s[i]
  BY Pushed
<1> HIDE DEF t
<1>2. \A i \in 1..Len(t) : i = Len(t) \/ i \in 1..Len(s)
  BY <1>1
<1>3. t[Len(s)] = s[Len(s)] /\ Len(s) < Len(t) /\ ~(Len(s) < Len(s))
  BY <1>1
<1>4. EndOf(t, q, Len(s)) = Len(q) /\ EndOf(s, q, Len(s)) = Len(q)
  BY <1>1, <1>3 DEF EndOf
<1>5. Follows(t, q, Len(s), p)
  BY <1>3, <1>4 DEF Follows
<1>6. ASSUME NEW i \in 1..Len(t) - 1 PROVE Entered(t, q, i)
  <2>1. CASE i = Len(s)
    BY <1>1, <1>3, <1>5, <2>1 DEF Entered
  <2>2. CASE i # Len(s)
    <3>1. /\ i \in 1..Len(s) /\ i \in 1..Len(s) - 1 /\ i + 1 \in 1..Len(s)
          /\ i < Len(s) /\ i < Len(t)
      BY <1>1, <2>2
    <3>2. Entered(s, q, i) /\ t[i] = s[i] /\ SameCall(s[i + 1], t[i + 1])
      BY <1>1, <3>1 DEF FollowsRoute, SameCall
    <3> QED BY <1>1, <3>1, <3>2, EnteredBelow
  <2> QED BY <2>1, <2>2
<1>7. ASSUME ~FanOut PROVE IsNamed(t, q)
  <2>1. IsNamed(s, q)
    BY <1>7 DEF FollowsRoute
  <2>2. \A i \in 1..Len(t) : FollowsOnce(t, i)
    BY <1>1, <1>2, <2>1 DEF IsNamed, FollowsOnce
  <2>3. ASSUME NEW i \in 1..Len(t) PROVE NamedBefore(t, q, i)
    <3>1. CASE i = Len(t)
      BY <1>1, <1>7, <3>1 DEF NamedBefore
    <3>2. CASE i \in 1..Len(s)
      BY <1>1, <2>1, <3>2 DEF IsNamed, NamedBefore
    <3> QED BY <1>2, <3>1, <3>2
  <2> QED BY <1>1, <2>2, <2>3 DEF IsNamed
<1>8. FollowsRoute(t, q)
  BY <1>1, <1>6, <1>7 DEF FollowsRoute
<1> QED BY <1>5, <1>8 DEF t

\* The device entered last is left: the call below it goes on.
LEMMA FollowsPopped ==
  ASSUME StoreInv, NEW s \in Seq(Calls), NEW t \in Seq(Calls), NEW q \in Seq(PathElem),
         IsStack(s, q), NEW n \in 1..Len(s), Len(s) = n + 1, Len(t) = n, t[n] = s[n],
         s[n].hasConnectedDevice, NEW p, Follows(s, q, n, p)
  PROVE  Follows(t, q, n, p)
<1>1. n \in Nat /\ n < Len(s) /\ n + 1 \in 1..Len(s) /\ ~(n < Len(t))
  OBVIOUS
<1>2. s[n + 1].length <= Len(q) /\ s[n + 1].length \in Nat
  BY <1>1, CallsAreTyped DEF IsStack, IsCall
<1>3. EndOf(s, q, n) = s[n + 1].length /\ EndOf(t, q, n) = Len(q)
  BY <1>1 DEF EndOf
<1>4. s[n].length \in Nat /\ Len(p) \in Nat
  BY CallsAreTyped, PathsAreTyped DEF Follows
<1>5. s[n].length + Len(p) <= s[n + 1].length
  BY <1>3 DEF Follows
<1>6. s[n].length + Len(p) <= Len(q)
  BY <1>2, <1>4, <1>5
<1> QED BY <1>1, <1>3, <1>6 DEF Follows

LEMMA CallPopped ==
  ASSUME StoreInv, NEW s \in Seq(Calls), s # <<>>, NEW q \in Seq(PathElem),
         IsStack(s, q), FollowsRoute(s, q)
  PROVE  LET t == SubSeq(s, 1, Len(s) - 1)
         IN t \in Seq(Calls) /\ IsStack(t, q) /\ FollowsRoute(t, q)
<1> DEFINE n == Len(s) - 1
           t == SubSeq(s, 1, n)
<1>1. Len(s) \in Nat \ {0} /\ n \in 0..Len(s) /\ n = Len(s) - 1
  OBVIOUS
<1> HIDE DEF n
<1>2. \A i \in 1..n : i \in 1..Len(s) /\ i < Len(s)
  BY <1>1
<1>3. /\ \A i \in 1..n - 1 : i \in 1..n /\ i + 1 \in 1..n /\ i \in 1..Len(s) - 1 /\ i < n
      /\ n # 0 => n \in 1..n /\ n \in 1..Len(s) - 1 /\ n + 1 \in 1..Len(s) /\ 1 \in 1..n
  BY ONLY <1>1
<1>4. t \in Seq(Calls) /\ Len(t) = n /\ \A i \in 1..n : t[i] = s[i]
  BY <1>1, Cut
<1> HIDE DEF t
<1>5. t # <<>> => n # 0
  BY <1>4
<1>6. IsStack(t, q)
  BY <1>2, <1>3, <1>4, <1>5 DEF IsStack, IsCall
<1>7. ASSUME NEW i \in 1..n - 1 PROVE Entered(t, q, i)
  <2>1. Entered(s, q, i) /\ t[i] = s[i] /\ SameCall(s[i + 1], t[i + 1])
    BY <1>3, <1>4 DEF FollowsRoute, SameCall
  <2>2. i \in 1..Len(s) /\ i < Len(s) /\ i < Len(t)
    BY <1>2, <1>3, <1>4
  <2> QED BY <1>4, <2>1, <2>2, EnteredBelow
<1>8. ASSUME t # <<>> PROVE t[n].hasConnectedDevice /\ \E p : Follows(t, q, n, p)
  <2>1. n # 0 /\ n < Len(s) /\ t[n] = s[n] /\ ~(n < Len(t))
    <3>1. n # 0 /\ n \in 1..n
      BY <1>3, <1>5, <1>8
    <3>2. t[n] = s[n]
      BY <1>4, <3>1
    <3>3. n < Len(s) /\ ~(n < Len(t))
      BY ONLY <1>1, <1>4
    <3> QED BY <3>1, <3>2, <3>3
  <2>2. Entered(s, q, n)
    BY <1>3, <2>1 DEF FollowsRoute
  <2>3. PICK p : Follows(s, q, n, p)
    BY <2>2 DEF Entered
  <2>4. Follows(t, q, n, p)
    <3>1. n \in 1..Len(s) /\ Len(s) = n + 1 /\ Len(t) = n
      BY ONLY <1>1, <1>4, <2>1
    <3>2. t \in Seq(Calls) /\ s[n].hasConnectedDevice
      BY <1>4, <2>2 DEF Entered
    <3> QED BY <2>1, <2>3, <3>1, <3>2, FollowsPopped
  <2> QED BY <2>1, <2>2, <2>4 DEF Entered
<1>9. ASSUME ~FanOut PROVE IsNamed(t, q)
  <2>1. IsNamed(s, q)
    BY <1>9 DEF FollowsRoute
  <2>2. \A i \in 1..n : FollowsOnce(t, i) /\ NamedBefore(t, q, i)
    BY <1>2, <1>4, <2>1 DEF IsNamed, FollowsOnce, NamedBefore
  <2> QED BY <1>4, <1>8, <2>2 DEF IsNamed
<1>10. FollowsRoute(t, q)
  BY <1>4, <1>7, <1>8, <1>9 DEF FollowsRoute
<1> QED BY <1>4, <1>6, <1>10 DEF t, n

(***************************************************************************)
(* What is reported                                                        *)
(***************************************************************************)
LEMMA NamedPath ==
  ASSUME CompoundInv
  PROVE  /\ Named(current) \in Seq(NamedElem) /\ Len(Named(current)) = Len(current)
         /\ \A k \in 1..Len(current) :
              Named(current)[k] = [dev |-> NameAt(current[k].at), elem |-> current[k].elem]
         /\ \A i \in 1..Len(frames) : NameAt(i) = frames[i].dev
<1>1. current \in Seq(PathElem) /\ frames \in Seq(Calls) /\ modelled \subseteq Devices
  BY DEF CompoundInv, IsWalk, StoreInv
<1>2. DOMAIN current = 1..Len(current) /\ DOMAIN frames = 1..Len(frames) /\ Len(current) \in Nat
  BY <1>1
<1>3. \A i : NameAt(i) \in Devices \cup {None}
  <2>1. \A i \in DOMAIN frames : frames[i] \in Calls
    BY <1>1
  <2> QED BY <1>1, <2>1 DEF NameAt, Calls
<1>4. \A k \in 1..Len(current) :
        [dev |-> NameAt(current[k].at), elem |-> current[k].elem] \in NamedElem
  <2>1. \A k \in 1..Len(current) : current[k] \in PathElem
    BY <1>1
  <2> QED BY <1>3, <2>1 DEF NamedElem, PathElem
<1> DEFINE e(k) == [dev |-> NameAt(current[k].at), elem |-> current[k].elem]
<1>5. Named(current) = [k \in 1..Len(current) |-> e(k)]
  BY <1>2 DEF Named
<1>6. \A k \in 1..Len(current) : e(k) \in NamedElem
  BY <1>4
<1> HIDE DEF e
<1>7. Named(current) \in Seq(NamedElem) /\ Len(Named(current)) = Len(current)
      /\ \A k \in 1..Len(current) : Named(current)[k] = e(k)
  BY <1>2, <1>5, <1>6
<1> QED BY <1>2, <1>7 DEF e, NameAt

\* The elements a call has put into the path vector get their device's name.
LEMMA NamedSegment ==
  ASSUME CompoundInv, NEW i \in 1..Len(frames), NEW p, Follows(frames, current, i, p)
  PROVE  /\ frames[i].length \in Nat /\ Len(p) \in Nat \ {0}
         /\ frames[i].length + Len(p) <= Len(current)
         /\ \A j \in 1..Len(p) : Named(current)[frames[i].length + j]
                                   = [dev |-> frames[i].dev, elem |-> p[j]]
<1>1. /\ frames \in Seq(Calls) /\ current \in Seq(PathElem) /\ IsStack(frames, current)
      /\ StoreInv /\ Len(current) \in Nat
  BY DEF CompoundInv, IsWalk
<1>2. frames[i].length \in Nat /\ Len(p) \in Nat \ {0}
  BY <1>1, CallsAreTyped, PathsAreTyped DEF Follows
<1>3. EndOf(frames, current, i) \in Nat /\ EndOf(frames, current, i) <= Len(current)
  <2>1. Len(frames) \in Nat
    BY <1>1
  <2>2. i < Len(frames) => i + 1 \in 1..Len(frames)
    BY <2>1
  <2> QED BY <1>1, <2>2, CallsAreTyped DEF EndOf, IsStack, IsCall
<1>4. frames[i].length + Len(p) <= Len(current)
  BY <1>1, <1>2, <1>3 DEF Follows
<1>5. ASSUME NEW j \in 1..Len(p)
      PROVE  Named(current)[frames[i].length + j] = [dev |-> frames[i].dev, elem |-> p[j]]
  <2>1. PICK k \in 1..Len(current) : k = frames[i].length + j
    BY <1>1, <1>2, <1>4
  <2>2. current[k] = [at |-> i, elem |-> p[j]]
    BY <2>1 DEF Follows
  <2>3. Named(current)[k] = [dev |-> NameAt(current[k].at), elem |-> current[k].elem]
        /\ NameAt(i) = frames[i].dev
    BY NamedPath
  <2> QED BY <2>1, <2>2, <2>3
<1> QED BY <1>2, <1>4, <1>5

\* At its end, the search gives the route it has come along to the callback.
LEMMA RouteReported ==
  ASSUME CompoundInv, frames # <<>>, ~top.hasConnectedDevice,
         NEW h, Len(h) = Len(frames), HasComeTo(frames, current, h, Len(frames)),
         Follows(frames, current, Len(frames), h[Len(frames)].path)
  PROVE  Reports(Named(current), h)
<1> DEFINE n == Len(frames)
           r == Named(current)
<1>1. frames \in Seq(Calls) /\ current \in Seq(PathElem) /\ IsStack(frames, current) /\ StoreInv
  BY DEF CompoundInv, IsWalk
<1>2. n \in Nat \ {0} /\ n \in 1..n /\ Len(current) \in Nat
  BY <1>1
<1>3. \A i \in 1..n : i = n \/ i \in 1..n - 1
  BY <1>2
<1>4. \A i \in 1..n : Follows(frames, current, i, h[i].path) /\ frames[i].dev = h[i].dev
  BY <1>3 DEF HasComeTo
<1>5. /\ r \in Seq(NamedElem) /\ Len(r) = Len(current)
  BY NamedPath
<1>6. \A i \in 1..n : /\ frames[i].length \in Nat /\ Len(h[i].path) \in Nat \ {0}
                      /\ \A j \in 1..Len(h[i].path) :
                           r[frames[i].length + j] = [dev |-> h[i].dev, elem |-> h[i].path[j]]
  <2> SUFFICES ASSUME NEW i \in 1..n
               PROVE  /\ frames[i].length \in Nat /\ Len(h[i].path) \in Nat \ {0}
                      /\ \A j \in 1..Len(h[i].path) :
                           r[frames[i].length + j] = [dev |-> h[i].dev, elem |-> h[i].path[j]]
    OBVIOUS
  <2>1. PICK p : p = h[i].path
    OBVIOUS
  <2>2. Follows(frames, current, i, p) /\ frames[i].dev = h[i].dev
    BY <1>4, <2>1
  <2> HIDE DEF r
  <2>3. /\ frames[i].length \in Nat /\ Len(p) \in Nat \ {0}
        /\ \A j \in 1..Len(p) : r[frames[i].length + j] = [dev |-> frames[i].dev, elem |-> p[j]]
    BY <2>2, NamedSegment DEF r
  <2> QED BY <2>1, <2>2, <2>3
<1>7. frames[n].length + Len(h[n].path) = Len(r)
  BY <1>2, <1>4, <1>5 DEF Follows, EndOf, top
<1> HIDE DEF r
<1>8. Last(r) = [dev |-> h[n].dev, elem |-> Last(h[n].path)] /\ r # <<>>
  <2>1. Len(h[n].path) \in 1..Len(h[n].path) /\ Len(r) # 0
    BY <1>2, <1>6, <1>7
  <2>2. r[Len(r)] = [dev |-> h[n].dev, elem |-> h[n].path[Len(h[n].path)]]
    BY <1>2, <1>6, <1>7, <2>1
  <2> QED BY <1>5, <2>1, <2>2 DEF Last
<1>9. ASSUME ~FanOut PROVE RunsAlong(r, h)
  <2> DEFINE begin == [i \in 1..n + 1 |-> IF i \in 1..n THEN frames[i].length ELSE Len(r)]
  <2>1. /\ n + 1 \in 1..n + 1 /\ n + 1 \notin 1..n /\ 1 \in 1..n /\ Len(r) \in Nat
        /\ \A i \in 1..n : i \in 1..n + 1 /\ i + 1 \in 1..n + 1
        /\ \A i \in 1..n - 1 : i + 1 \in 1..n /\ i < n /\ i \in 1..n
    BY <1>2, <1>5
  <2>2. frames[1].length = 0
    BY <1>1 DEF IsStack
  <2>3. begin \in [1..n + 1 -> Nat] /\ begin[1] = 0 /\ begin[n + 1] = Len(r)
    BY <1>6, <2>1, <2>2
  <2>4. /\ \A i \in 1..n : begin[i] = frames[i].length
        /\ \A i \in 1..n - 1 : begin[i + 1] = frames[i + 1].length
        /\ begin[n + 1] = Len(r)
    BY <2>1
  <2> HIDE DEF begin
  <2>5. ASSUME NEW i \in 1..n PROVE begin[i + 1] = begin[i] + Len(h[i].path)
    <3>1. CASE i = n
      BY <1>2, <1>7, <2>4, <3>1
    <3>2. CASE i \in 1..n - 1
      BY <1>4, <1>9, <2>1, <2>4, <3>2 DEF Follows, EndOf
    <3> QED BY <1>3, <3>1, <3>2
  <2>6. \A i \in 1..n : \A j \in 1..Len(h[i].path) :
          r[begin[i] + j] = [dev |-> h[i].dev, elem |-> h[i].path[j]]
    BY <1>6, <2>4
  <2> QED BY <2>3, <2>5, <2>6 DEF RunsAlong
<1> QED BY <1>5, <1>8, <1>9 DEF Reports, r

\* At the end of a path whose sink is connected to nothing, the calls on the
\* stack have been through a route.
LEMMA PathEndsRoute ==
  ASSUME CompoundInv, frames # <<>>, top.onPath, top.pending = {}, ~top.hasConnectedDevice
  PROVE  \E h : IsRoute(h) /\ Reports(Named(current), h)
<1> DEFINE n == Len(frames)
           Taken(i, p) == /\ Follows(frames, current, i, p)
                          /\ IF i = n THEN ConnectionsOf(frames[i].dev, Last(p)) = {}
                             ELSE \E c \in ConnectionsOf(frames[i].dev, Last(p)) :
                                    c.to = frames[i + 1].dev /\ c.input = frames[i + 1].input
           taken == [i \in 1..n |-> CHOOSE p : Taken(i, p)]
           h == [i \in 1..n |-> [dev |-> frames[i].dev, path |-> taken[i]]]
<1>1. /\ frames \in Seq(Calls) /\ IsStack(frames, current) /\ StoreInv
      /\ FollowsRoute(frames, current)
  BY DEF CompoundInv, IsWalk
<1>2. n \in Nat \ {0}
  BY <1>1
<1>3. \A i \in 1..n : frames[i].dev \in modelled
  BY <1>1, CallsAreTyped
<1>4. ASSUME NEW i \in 1..n PROVE \E p : Taken(i, p)
  <2>1. CASE i = n
    <3>1. PICK p : Follows(frames, current, n, p)
      BY <1>1 DEF FollowsRoute, top
    <3>2. ConnectionsOf(frames[n].dev, Last(p)) = {}
      BY <3>1 DEF Follows, top
    <3>3. Taken(n, p)
      BY <3>1, <3>2
    <3> QED BY <2>1, <3>3
  <2>2. CASE i # n
    <3>1. i \in 1..n - 1
      BY <1>2, <2>2
    <3>2. PICK p : /\ Follows(frames, current, i, p)
                   /\ \E c \in ConnectionsOf(frames[i].dev, Last(p)) :
                        c.to = frames[i + 1].dev /\ c.input = frames[i + 1].input
      BY <1>1, <3>1 DEF FollowsRoute, Entered
    <3>3. Taken(i, p)
      BY <2>2, <3>2
    <3> QED BY <3>3
  <2> QED BY <2>1, <2>2
<1>5. \A i \in 1..n : Taken(i, taken[i])
  BY <1>4
<1> HIDE DEF taken
<1>6. \A i \in 1..n : h[i].dev = frames[i].dev /\ h[i].path = taken[i]
  OBVIOUS
<1>7. \A i \in 1..n : taken[i] \in active[frames[i].dev]
  BY <1>5 DEF Follows
<1>8. h \in Seq(Hop) /\ Len(h) = n
  <2>1. \A i \in 1..n : [dev |-> frames[i].dev, path |-> taken[i]] \in Hop
    <3> SUFFICES ASSUME NEW i \in 1..n PROVE [dev |-> frames[i].dev, path |-> taken[i]] \in Hop
      OBVIOUS
    <3>1. frames[i].dev \in modelled /\ frames[i].dev \in Devices
      BY <1>1, <1>3 DEF StoreInv
    <3>2. taken[i] \in UNION {active[d] : d \in Devices}
      BY <1>7, <3>1
    <3> QED BY <1>7, <3>1, <3>2 DEF Hop
  <2> QED BY <1>2, <2>1
<1> HIDE DEF h
<1>9. IsRoute(h)
  <2>1. 1 \in 1..n /\ n \in 1..n /\ \A i \in 1..n - 1 : i \in 1..n /\ i + 1 \in 1..n /\ i # n
    BY <1>2
  <2>2. h # <<>> /\ h[1].dev = Root
    BY <1>1, <1>2, <1>6, <1>8, <2>1 DEF IsStack
  <2>3. ASSUME NEW i \in 1..n - 1 PROVE Joined(h[i], h[i + 1])
    <3>1. Taken(i, taken[i]) /\ Taken(i + 1, taken[i + 1])
      BY <1>5, <2>1
    <3>2. PICK c \in ConnectionsOf(frames[i].dev, Last(taken[i])) :
                 c.to = frames[i + 1].dev /\ c.input = frames[i + 1].input
      BY <2>1, <3>1
    <3>3. c.input \in Elements /\ c.input # None
      BY <1>1, CompoundAssumption DEF ConnectionsOf, StoreInv
    <3>4. frames[i + 1].input \in {None, Head(taken[i + 1])}
      BY <3>1 DEF Follows
    <3>5. c.input = Head(taken[i + 1])
      BY <3>2, <3>3, <3>4
    <3> QED BY <1>6, <2>1, <3>2, <3>5 DEF Joined
  <2>4. ConnectionsOf(h[n].dev, Last(h[n].path)) = {}
    BY <1>5, <1>6, <2>1
  <2> QED BY <1>8, <2>2, <2>3, <2>4 DEF IsRoute
<1>10. HasComeTo(frames, current, h, n) /\ Follows(frames, current, n, h[n].path)
  <2>1. n \in 1..n /\ \A i \in 1..n - 1 : i \in 1..n
    BY <1>2
  <2> QED BY <1>5, <1>6, <2>1 DEF HasComeTo
<1> QED BY <1>8, <1>9, <1>10, RouteReported

(***************************************************************************)
(* What is still to be done                                                *)
(***************************************************************************)
LEMMA RoutesAreTyped ==
  ASSUME NEW h, IsRoute(h)
  PROVE  /\ Len(h) \in Nat \ {0}
         /\ \A i \in 1..Len(h) : h[i].dev \in modelled /\ h[i].path \in active[h[i].dev]
<1>1. Len(h) \in Nat \ {0} /\ \A i \in 1..Len(h) : h[i] \in Hop
  BY DEF IsRoute
<1> QED BY <1>1 DEF Hop

\* Calls below a change have to do what they had to do before.
LEMMA ToDoBelow ==
  ASSUME StoreInv, NEW s \in Seq(Calls), NEW t \in Seq(Calls), NEW q, NEW r, IsStack(s, q),
         NEW i \in 1..Len(s), i < Len(s), i < Len(t),
         \A k \in 1..i : t[k] = s[k], SameCall(s[i + 1], t[i + 1]),
         \A k \in 1..s[i + 1].length : r[k] = q[k],
         NEW h, i <= Len(h), HasComeTo(s, q, h, i),
         h[i].path \in s[i].left \/ GoesOn(s, q, h, i)
  PROVE  IsToDo(t, r, h)
<1>1. Len(s) \in Nat /\ Len(t) \in Nat
  OBVIOUS
<1>2. i \in 1..i /\ i + 1 \in 1..Len(s) /\ i \in 1..i + 1 /\ i <= Len(t) /\ i \in 1..Len(t)
      /\ \A k \in 1..i - 1 : k \in 1..i
  BY <1>1
<1>3. s[i].length <= s[i + 1].length /\ s[i].length \in Nat /\ s[i + 1].length \in Nat
  BY <1>2, CallsAreTyped, LengthsGrow
<1>4. \A k \in 1..s[i].length : r[k] = q[k]
  BY <1>3
<1>5. HasComeTo(t, r, h, i)
  BY <1>2, <1>4, HasComeBelow DEF SameCall
<1>6. GoesOn(s, q, h, i) => GoesOn(t, r, h, i)
  BY <1>2, FollowsBelow DEF GoesOn
<1> QED BY <1>2, <1>5, <1>6 DEF IsToDo

LEMMA ToDoBelowTop ==
  ASSUME StoreInv, NEW s \in Seq(Calls), NEW q, IsStack(s, q),
         NEW t, NEW c, HasTop(t, s, c), SameCall(s[Len(s)], c),
         NEW r, \A k \in 1..c.length : r[k] = q[k],
         NEW h, IsToDo(s, q, h)
  PROVE  \/ IsToDo(t, r, h)
         \/ /\ Len(s) <= Len(h) /\ HasComeTo(t, r, h, Len(s))
            /\ h[Len(s)].path \in s[Len(s)].left \/ GoesOn(s, q, h, Len(s))
<1> DEFINE n == Len(s)
<1>1. /\ t \in Seq(Calls) /\ n \in Nat \ {0} /\ Len(t) = n
      /\ t[n] = c /\ \A i \in 1..n - 1 : t[i] = s[i]
  BY DEF HasTop
<1>2. PICK i \in 1..n : /\ i <= Len(h) /\ HasComeTo(s, q, h, i)
                        /\ h[i].path \in s[i].left \/ GoesOn(s, q, h, i)
  BY DEF IsToDo
<1>3. s[n].length = c.length /\ s[n].length \in Nat /\ n \in 1..n
  BY <1>1, CallsAreTyped DEF SameCall
<1> HIDE DEF n
<1>4. CASE i = n
  <2>1. HasComeTo(t, r, h, n)
    <3>1. /\ \A k \in 1..n - 1 : t[k] = s[k]
          /\ SameCall(s[n], t[n])
          /\ \A k \in 1..s[n].length : r[k] = q[k]
          /\ n \in 1..Len(s) /\ n <= Len(t)
      BY <1>1, <1>3 DEF n
    <3> QED BY <1>1, <1>2, <1>4, <3>1, HasComeBelow
  <2> QED BY <1>2, <1>4, <2>1 DEF n
<1>5. CASE i # n
  <2>1. /\ i < n /\ i + 1 \in 1..n /\ \A k \in 1..i : k \in 1..n - 1
        /\ i + 1 = n \/ i + 1 \in 1..n - 1
    BY <1>1, <1>2, <1>5
  <2>2. SameCall(s[i + 1], t[i + 1])
    BY <1>1, <2>1 DEF SameCall, n
  <2>3. s[i + 1].length <= s[n].length /\ s[i + 1].length \in Nat
    BY <1>3, <2>1, LengthsGrow, CallsAreTyped DEF n
  <2>4. \A k \in 1..s[i + 1].length : r[k] = q[k]
    BY <1>3, <2>3
  <2> QED BY <1>1, <1>2, <2>1, <2>2, <2>4, ToDoBelow DEF n
<1> QED BY <1>4, <1>5

\* A call that has entered a device is not at the end of a route.
LEMMA EndIsOnTop ==
  ASSUME NEW s, NEW q, FollowsRoute(s, q), NEW i \in 1..Len(s) - 1
  PROVE  s[i].hasConnectedDevice
BY DEF FollowsRoute, Entered

(***************************************************************************)
(* Steps of the enumeration                                                *)
(***************************************************************************)
LEMMA FrameIsCall ==
  ASSUME CompoundInv, NEW dev \in modelled, NEW input \in Elements \cup {None}
  PROVE  LET f == Frame(dev, input)
         IN /\ f \in Calls /\ f.dev = dev /\ f.input = input /\ f.length = Len(current)
            /\ ~f.onPath /\ f.pending = {}
            /\ f.left = {p \in active[f.dev] : f.input \in {None, Head(p)}}
<1>1. Len(current) \in Nat
  BY DEF CompoundInv, IsWalk
<1>2. {p \in active[dev] : input \in {None, Head(p)}} \in SUBSET PathsOfElements
  BY DEF CompoundInv, StoreInv
<1> QED BY <1>1, <1>2 DEF Frame, Calls

\* The last call, and how it goes on.
LEMMA TopIsCall ==
  ASSUME CompoundInv, Walking
  PROVE  /\ frames \in Seq(Calls) /\ frames # <<>> /\ Len(frames) \in Nat \ {0}
         /\ current \in Seq(PathElem) /\ Len(current) \in Nat
         /\ top = frames[Len(frames)] /\ top \in Calls /\ top.dev \in modelled
         /\ top.length \in 0..Len(current) /\ IsCall(frames, current, Len(frames))
         /\ IsStack(frames, current) /\ FollowsRoute(frames, current) /\ StoreInv
         /\ \A x \in reported : \E h : IsRoute(h) /\ Reports(x, h)
         /\ IsComplete(frames, current, reported)
<1>1. /\ frames \in Seq(Calls) /\ frames # <<>> /\ current \in Seq(PathElem)
      /\ IsStack(frames, current)
  BY DEF CompoundInv, IsWalk, Walking
<1>2. Len(frames) \in Nat \ {0} /\ Len(frames) \in 1..Len(frames) /\ Len(current) \in Nat
  BY <1>1
<1>3. top \in Calls /\ top = frames[Len(frames)]
  BY <1>1, <1>2 DEF top
<1>4. top.length \in Nat /\ top.dev \in modelled
  BY <1>3 DEF Calls
<1>5. IsCall(frames, current, Len(frames))
  BY <1>1, <1>2 DEF IsStack
<1> QED BY <1>1, <1>2, <1>3, <1>4, <1>5 DEF IsCall, CompoundInv, IsWalk, Walking

LEMMA StartKeepsWalk ==
  ASSUME CompoundInv, Start
  PROVE  IsWalk(frames', current', reported') /\ IsComplete(frames', current', reported')
<1>1. /\ phase = "ready" /\ current = <<>> /\ frames = <<>> /\ current' = current
      /\ reported' = reported
  BY DEF Start, CompoundInv, PhaseInv
<1>2. IsWalk(frames, current, reported)
  BY DEF CompoundInv
<1>3. CASE Root \notin modelled
  <2>1. frames' = frames
    BY <1>3 DEF Start
  <2>2. ASSUME NEW h, IsRoute(h) PROVE FALSE
    <3>1. 1 \in 1..Len(h)
      BY <2>2, RoutesAreTyped
    <3> QED BY <1>3, <2>2, <3>1, RoutesAreTyped DEF IsRoute
  <2> QED BY <1>1, <1>2, <2>1, <2>2 DEF IsComplete
<1>4. CASE Root \in modelled
  <2> DEFINE f == Frame(Root, None)
             s == <<f>>
  <2>1. /\ f \in Calls /\ f.dev = Root /\ f.length = Len(current) /\ ~f.onPath /\ f.pending = {}
        /\ f.left = {p \in active[f.dev] : f.input \in {None, Head(p)}} /\ f.input = None
    BY <1>4, FrameIsCall
  <2>2. frames' = s
    BY <1>4 DEF Start
  <2> HIDE DEF f
  <2>3. s \in Seq(Calls) /\ Len(s) = 1 /\ s[1] = f /\ Len(current) = 0
    BY <1>1, <2>1
  <2> HIDE DEF s
  <2>4. IsStack(s, current)
    BY <2>1, <2>3 DEF IsStack, IsCall
  <2>5. FollowsRoute(s, current)
    BY <2>1, <2>3 DEF FollowsRoute, IsNamed, FollowsOnce, NamedBefore
  <2>6. ASSUME NEW h, IsRoute(h) PROVE IsToDo(s, current, h)
    <3>1. 1 \in 1..Len(h) /\ 1 <= Len(h)
      BY <2>6, RoutesAreTyped
    <3>2. h[1].dev = Root /\ h[1].path \in active[Root]
      BY <2>6, <3>1, RoutesAreTyped DEF IsRoute
    <3>3. HasComeTo(s, current, h, 1)
      BY <2>1, <2>3, <3>2 DEF HasComeTo
    <3>4. h[1].path \in s[1].left
      BY <2>1, <2>3, <3>2
    <3> QED BY <2>3, <3>1, <3>3, <3>4 DEF IsToDo
  <2>7. IsComplete(s, current, reported)
    BY <2>6 DEF IsComplete
  <2> QED BY <1>1, <1>2, <2>2, <2>3, <2>4, <2>5, <2>7 DEF IsWalk
<1> QED BY <1>3, <1>4

LEMMA ExtendPathKeepsWalk ==
  ASSUME CompoundInv, NEW p, ExtendPath(p)
  PROVE  IsWalk(frames', current', reported') /\ IsComplete(frames', current', reported')
<1> DEFINE n == Len(frames)
           c == [top EXCEPT !.left = @ \ {p}, !.onPath = TRUE, !.hasConnectedDevice = FALSE,
                            !.pending = ConnectionsOf(top.dev, Last(p))]
           q == SubSeq(current, 1, top.length)
                  \o [i \in DOMAIN p |-> [at |-> Len(frames), elem |-> p[i]]]
           s == [frames EXCEPT ![Len(frames)] = c]
<1>1. /\ Walking /\ p \in top.left /\ ~top.onPath
      /\ current' = q /\ frames' = s /\ reported' = reported
  BY DEF ExtendPath, WithTop
<1>2. /\ frames \in Seq(Calls) /\ frames # <<>> /\ n \in Nat \ {0}
      /\ current \in Seq(PathElem) /\ Len(current) \in Nat
      /\ top = frames[n] /\ top \in Calls /\ top.dev \in modelled
      /\ top.length \in 0..Len(current) /\ IsCall(frames, current, n)
      /\ IsStack(frames, current) /\ FollowsRoute(frames, current) /\ StoreInv
      /\ \A x \in reported : \E h : IsRoute(h) /\ Reports(x, h)
      /\ IsComplete(frames, current, reported)
  BY <1>1, TopIsCall
<1>3. p \in active[top.dev] /\ top.input \in {None, Head(p)}
  BY <1>1, <1>2 DEF IsCall
<1>4. p \in Seq(Elements) /\ Len(p) \in Nat \ {0}
  BY <1>2, <1>3, PathsAreTyped
<1>5. /\ q \in Seq(PathElem) /\ Len(q) = top.length + Len(p)
      /\ \A k \in 1..top.length : q[k] = current[k]
      /\ \A j \in 1..Len(p) : q[top.length + j] = [at |-> n, elem |-> p[j]]
  <2>1. top.length \in 0..Len(current) /\ n \in Nat /\ p \in Seq(Elements)
        /\ current \in Seq(PathElem)
    BY <1>2, <1>4
  <2> QED BY ONLY <2>1, PathExtended
<1>6. ConnectionsOf(top.dev, Last(p)) \subseteq conns
  BY DEF ConnectionsOf
<1>7. /\ c \in Calls /\ c.dev = top.dev /\ c.input = top.input /\ c.length = top.length
      /\ c.left = top.left \ {p} /\ c.onPath /\ ~c.hasConnectedDevice
      /\ c.pending = ConnectionsOf(top.dev, Last(p))
  BY <1>2, <1>6 DEF Calls
<1> HIDE DEF q, c
<1>8. SameCall(frames[n], c)
  BY <1>2, <1>7 DEF SameCall
<1>9. Len(q) >= c.length /\ c.length < Len(q)
  BY <1>2, <1>4, <1>5, <1>7
<1>10. HasTop(s, frames, c) /\ IsStack(s, q)
  BY <1>2, <1>5, <1>7, <1>8, <1>9, TopChanged
<1> HIDE DEF s
<1>11. s[n] = c /\ s \in Seq(Calls) /\ Len(s) = n
  BY <1>10 DEF HasTop
<1>12. \A k \in 1..c.length : q[k] = current[k]
  BY <1>5, <1>7
<1> HIDE DEF n
<1>13. Follows(s, q, n, p)
  <2>1. s[n].dev = top.dev /\ s[n].input = top.input /\ s[n].length = top.length
        /\ s[n].pending = ConnectionsOf(s[n].dev, Last(p))
    BY <1>7, <1>11
  <2>2. EndOf(s, q, n) = Len(q) /\ Len(q) = s[n].length + Len(p)
    BY <1>2, <1>5, <1>11, <2>1 DEF EndOf
  <2>3. s[n].length + Len(p) \in Nat
    BY <1>2, <1>4, <2>1
  <2>4. p \in active[s[n].dev] /\ s[n].input \in {None, Head(p)}
    BY <1>3, <2>1
  <2>5. \A j \in 1..Len(p) : q[s[n].length + j] = [at |-> n, elem |-> p[j]]
    BY <1>5, <2>1
  <2> QED BY <2>1, <2>2, <2>3, <2>4, <2>5 DEF Follows
<1>14. ASSUME ~FanOut PROVE FollowsOnce(s, n) /\ \A k \in 1..Len(q) : q[k].at \in 1..n
  <2>1. IsNamed(frames, current)
    BY <1>2, <1>14 DEF FollowsRoute
  <2>2. FollowsOnce(s, n)
    BY <1>6, <1>7, <1>11, <1>14 DEF FollowsOnce, FanOut, ConnectionsOf
  <2>3. ASSUME NEW k \in 1..top.length PROVE q[k].at \in 1..n
    <3>1. current[k].at \in 1..n - 1
      BY <1>2, <2>1 DEF IsNamed, NamedBefore, n
    <3>2. q[k].at \in 1..n - 1
      BY <1>5, <3>1
    <3> QED BY <1>2, <3>2
  <2>4. ASSUME NEW k \in 1..Len(q), k \notin 1..top.length PROVE q[k].at \in 1..n
    <3>1. k - top.length \in 1..Len(p) /\ top.length + (k - top.length) = k
      BY <1>2, <1>4, <1>5, <2>4
    <3>2. q[k] = [at |-> n, elem |-> p[k - top.length]]
      BY <1>5, <3>1
    <3> QED BY <1>2, <3>2
  <2> QED BY <2>2, <2>3, <2>4
<1>15. FollowsRoute(s, q)
  BY <1>2, <1>7, <1>8, <1>10, <1>12, <1>13, <1>14, TopOnRoute DEF n
<1>16. ASSUME NEW h, IsRoute(h), IsToDo(frames, current, h) PROVE IsToDo(s, q, h)
  <2> SUFFICES ASSUME n <= Len(h), HasComeTo(s, q, h, n),
                      h[n].path \in top.left \/ GoesOn(frames, current, h, n)
               PROVE  IsToDo(s, q, h)
    BY <1>2, <1>8, <1>10, <1>12, <1>16, ToDoBelowTop DEF n
  <2>1. h[n].path \in top.left /\ n \in 1..n
    BY <1>1, <1>2 DEF GoesOn
  <2>2. CASE h[n].path # p
    BY <1>7, <1>11, <2>1, <2>2 DEF IsToDo
  <2>3. CASE h[n].path = p
    <3>1. n # Len(h) => Joined(h[n], h[n + 1])
      <4>1. Len(h) \in Nat
        BY <1>16, RoutesAreTyped
      <4>2. n # Len(h) => n \in 1..Len(h) - 1
        BY <1>2, <4>1
      <4> QED BY <1>16, <4>2 DEF IsRoute
    <3>2. h[n].dev = top.dev
      BY <1>7, <1>11, <2>1 DEF HasComeTo
    <3>3. GoesOn(s, q, h, n)
      BY <1>7, <1>11, <1>13, <2>3, <3>1, <3>2 DEF GoesOn, Joined
    <3> QED BY <1>11, <2>1, <3>3 DEF IsToDo
  <2> QED BY <2>2, <2>3
<1>17. IsComplete(s, q, reported)
  BY <1>2, <1>16 DEF IsComplete
<1> QED BY <1>1, <1>2, <1>5, <1>10, <1>11, <1>15, <1>17 DEF IsWalk

LEMMA FollowConnectionKeepsWalk ==
  ASSUME CompoundInv, NEW c, FollowConnection(c)
  PROVE  IsWalk(frames', current', reported') /\ IsComplete(frames', current', reported')
<1> DEFINE n == Len(frames)
           t == [top EXCEPT !.pending = @ \ {c}, !.hasConnectedDevice = TRUE]
           s == [frames EXCEPT ![Len(frames)] = t]
           f == Frame(c.to, c.input)
<1>1. /\ Walking /\ c \in top.pending /\ current' = current /\ reported' = reported
      /\ frames' = IF c.to \in modelled THEN Append(s, f) ELSE s
  BY DEF FollowConnection, WithTop
<1>2. /\ frames \in Seq(Calls) /\ frames # <<>> /\ n \in Nat \ {0}
      /\ current \in Seq(PathElem) /\ Len(current) \in Nat
      /\ top = frames[n] /\ top \in Calls /\ top.dev \in modelled
      /\ top.length \in 0..Len(current) /\ IsCall(frames, current, n)
      /\ IsStack(frames, current) /\ FollowsRoute(frames, current) /\ StoreInv
      /\ \A x \in reported : \E h : IsRoute(h) /\ Reports(x, h)
      /\ IsComplete(frames, current, reported)
  BY <1>1, TopIsCall
<1>3. top.pending \subseteq conns /\ top.onPath /\ top.length < Len(current)
  BY <1>1, <1>2 DEF Calls, IsCall
<1>4. /\ t \in Calls /\ t.dev = top.dev /\ t.input = top.input /\ t.length = top.length
      /\ t.left = top.left /\ t.onPath = top.onPath /\ t.hasConnectedDevice
      /\ t.pending = top.pending \ {c}
  BY <1>2 DEF Calls
<1> HIDE DEF t
<1>5. SameCall(frames[n], t)
  BY <1>2, <1>4 DEF SameCall
<1>6. HasTop(s, frames, t) /\ IsStack(s, current)
  <2>1. /\ Len(current) >= t.length /\ t.left \subseteq frames[Len(frames)].left
        /\ t.onPath => t.length < Len(current)
        /\ t.pending # {} => t.onPath
    BY <1>2, <1>3, <1>4
  <2> QED BY <1>2, <1>4, <1>5, <2>1, TopChanged
<1> HIDE DEF s
<1>7. /\ s \in Seq(Calls) /\ Len(s) = n /\ s[n] = t /\ s # <<>>
      /\ \A i \in 1..n - 1 : s[i] = frames[i]
  BY <1>2, <1>6 DEF HasTop
<1> HIDE DEF n
\* The path the call is on.
<1>8. PICK p : Follows(frames, current, n, p)
  BY <1>2, <1>3 DEF FollowsRoute, n
<1>9. c \in ConnectionsOf(top.dev, Last(p))
  BY <1>1, <1>2, <1>8 DEF Follows
<1>10. ASSUME ~FanOut
       PROVE  /\ ~top.hasConnectedDevice /\ t.pending = {}
              /\ \A k \in 1..Len(current) : current[k].at \in 1..n
  <2>1. IsNamed(frames, current) /\ n \in 1..n
    BY <1>2, <1>10 DEF FollowsRoute
  <2>2. FollowsOnce(frames, n)
    BY <2>1 DEF IsNamed, n
  <2>3. ~top.hasConnectedDevice /\ t.pending = {}
    BY <1>1, <1>2, <1>4, <2>2 DEF FollowsOnce
  <2> QED BY <1>2, <1>3, <2>1, <2>3 DEF IsNamed, n
<1>11. ASSUME NEW o, Follows(frames, current, n, o)
       PROVE  /\ Follows(s, current, n, o)
              /\ ~FanOut => s[n].length + Len(o) = Len(current)
  <2>1. EndOf(frames, current, n) = Len(current) /\ EndOf(s, current, n) = Len(current)
    BY <1>2, <1>7 DEF EndOf, n
  <2>2. ~FanOut => s[n].length + Len(o) = Len(current)
    BY <1>2, <1>4, <1>7, <1>10, <1>11, <2>1 DEF Follows, n
  <2>3. t.pending \subseteq ConnectionsOf(t.dev, Last(o))
    BY <1>2, <1>4, <1>11 DEF Follows
  <2> QED BY <1>2, <1>4, <1>7, <1>11, <2>1, <2>2, <2>3 DEF Follows
<1>12. \A k \in 1..t.length : current[k] = current[k]
  OBVIOUS
<1>13. FollowsRoute(s, current)
  <2>1. ~FanOut => FollowsOnce(s, n)
    BY <1>7, <1>10 DEF FollowsOnce
  <2>2. \E o : Follows(s, current, n, o)
    BY <1>8, <1>11
  <2> QED BY <1>2, <1>4, <1>5, <1>6, <1>12, <2>1, <2>2, TopOnRoute DEF n
\* What remains for the device entered last, and for those before.
<1>14. ASSUME NEW h, IsRoute(h), IsToDo(frames, current, h)
       PROVE  \/ IsToDo(s, current, h)
              \/ /\ n + 1 \in 1..Len(h) /\ HasComeTo(s, current, h, n)
                 /\ Follows(frames, current, n, h[n].path)
                 /\ c.to = h[n + 1].dev /\ c.input = Head(h[n + 1].path)
  <2> SUFFICES ASSUME n <= Len(h), HasComeTo(s, current, h, n),
                      h[n].path \in top.left \/ GoesOn(frames, current, h, n),
                      ~IsToDo(s, current, h)
               PROVE  /\ n + 1 \in 1..Len(h)
                      /\ Follows(frames, current, n, h[n].path)
                      /\ c.to = h[n + 1].dev /\ c.input = Head(h[n + 1].path)
    BY <1>2, <1>5, <1>6, <1>12, <1>14, ToDoBelowTop DEF n
  <2>1. n \in 1..n /\ Len(h) \in Nat
    BY <1>2, <1>14, RoutesAreTyped
  <2>2. GoesOn(frames, current, h, n)
    <3>1. h[n].path \in top.left => IsToDo(s, current, h)
      BY <1>4, <1>7, <2>1 DEF IsToDo
    <3> QED BY <3>1
  <2>3. Follows(frames, current, n, h[n].path)
    BY <2>2 DEF GoesOn
  <2>4. n # Len(h)
    <3>1. SUFFICES ASSUME n = Len(h) PROVE FALSE
      OBVIOUS
    <3>2. h[n].dev = top.dev
      BY <1>4, <1>7, <2>1 DEF HasComeTo
    <3>3. top.pending \subseteq {}
      BY <1>2, <1>14, <2>3, <3>1, <3>2 DEF Follows, IsRoute
    <3> QED BY <1>1, <3>3
  <2>5. n + 1 \in 1..Len(h)
    BY <1>2, <2>1, <2>4
  <2>6. PICK d \in top.pending : d.to = h[n + 1].dev /\ d.input = Head(h[n + 1].path)
    BY <1>2, <2>2, <2>4 DEF GoesOn
  <2>7. d = c
    <3>1. SUFFICES ASSUME d # c PROVE FALSE
      OBVIOUS
    <3>2. Follows(s, current, n, h[n].path)
      BY <1>11, <2>3
    <3>3. d \in t.pending
      BY <1>4, <2>6, <3>1
    <3>4. GoesOn(s, current, h, n)
      BY <1>3, <1>4, <1>7, <2>4, <2>6, <3>2, <3>3 DEF GoesOn
    <3> QED BY <1>7, <2>1, <3>4 DEF IsToDo
  <2> QED BY <2>3, <2>5, <2>6, <2>7
<1>15. CASE c.to \notin modelled
  <2>1. ASSUME NEW h, IsRoute(h), IsToDo(frames, current, h) PROVE IsToDo(s, current, h)
    <3>1. \A i \in 1..Len(h) : h[i].dev \in modelled
      BY <2>1, RoutesAreTyped
    <3> QED BY <1>14, <1>15, <2>1, <3>1
  <2>2. IsComplete(s, current, reported)
    BY <1>2, <2>1 DEF IsComplete
  <2> QED BY <1>1, <1>2, <1>6, <1>7, <1>13, <1>15, <2>2 DEF IsWalk
<1>16. CASE c.to \in modelled
  <2> DEFINE u == Append(s, f)
  <2>1. c.input \in Elements
    BY <1>1, <1>2, <1>3, CompoundAssumption DEF StoreInv
  <2>2. /\ f \in Calls /\ f.dev = c.to /\ f.input = c.input /\ f.length = Len(current)
        /\ ~f.onPath /\ f.pending = {}
        /\ f.left = {o \in active[f.dev] : f.input \in {None, Head(o)}}
    BY <1>16, <2>1, FrameIsCall
  <2> HIDE DEF f
  <2>3. u \in Seq(Calls) /\ IsStack(u, current)
    BY <1>2, <1>3, <1>4, <1>6, <1>7, <2>2, CallPushed
  <2>4. /\ Len(u) = n + 1 /\ u[n + 1] = f /\ \A i \in 1..n : u[i] = s[i]
    BY <1>7, <2>2, Pushed
  <2>5. ASSUME NEW o, Follows(frames, current, n, o), c \in ConnectionsOf(top.dev, Last(o))
        PROVE  FollowsRoute(u, current) /\ Follows(u, current, n, o)
    <3>1. /\ s[Len(s)].onPath /\ s[Len(s)].hasConnectedDevice
          /\ Follows(s, current, Len(s), o)
          /\ ~FanOut => s[Len(s)].length + Len(o) = Len(current)
          /\ c \in ConnectionsOf(s[Len(s)].dev, Last(o))
          /\ ~FanOut => \A k \in 1..Len(current) : current[k].at \in 1..Len(s)
      BY <1>3, <1>4, <1>7, <1>10, <1>11, <2>5
    <3>2. c.to = f.dev /\ c.input = f.input
      BY <2>2
    <3>3. FollowsRoute(Append(s, f), current) /\ Follows(Append(s, f), current, Len(s), o)
      BY <1>2, <1>6, <1>7, <1>13, <2>2, <3>1, <3>2, CallOnRoute
    <3> QED BY <1>7, <3>3
  <2>6. FollowsRoute(u, current)
    BY <1>8, <1>9, <2>5
  <2> HIDE DEF u
  <2>7. ASSUME NEW h, HasComeTo(s, current, h, n) PROVE HasComeTo(u, current, h, n)
    <3>1. /\ \A k \in 1..n - 1 : u[k] = s[k]
          /\ SameCall(s[n], u[n]) /\ n \in 1..Len(s) /\ n <= Len(u)
          /\ \A k \in 1..s[n].length : current[k] = current[k]
      BY <1>2, <1>7, <2>4 DEF SameCall
    <3> QED BY <1>2, <1>6, <1>7, <2>3, <2>7, <3>1, HasComeBelow
  <2>8. ASSUME NEW h, IsRoute(h), IsToDo(frames, current, h) PROVE IsToDo(u, current, h)
    <3>1. CASE IsToDo(s, current, h)
      <4>1. PICK i \in 1..n : /\ i <= Len(h) /\ HasComeTo(s, current, h, i)
                              /\ h[i].path \in s[i].left \/ GoesOn(s, current, h, i)
        BY <1>7, <3>1 DEF IsToDo
      <4>2. CASE i < n
        <5>1. /\ i + 1 \in 1..n /\ i < Len(u) /\ i < Len(s)
              /\ i \in 1..Len(s) /\ \A k \in 1..i : k \in 1..n
          BY <1>2, <1>7, <2>4, <4>2
        <5>2. SameCall(s[i + 1], u[i + 1]) /\ \A k \in 1..i : u[k] = s[k]
          BY <2>4, <5>1 DEF SameCall
        <5>3. \A k \in 1..s[i + 1].length : current[k] = current[k]
          OBVIOUS
        <5> QED BY <1>2, <1>6, <1>7, <2>3, <4>1, <5>1, <5>2, <5>3, ToDoBelow
      <4>3. CASE i = n
        <5>1. HasComeTo(u, current, h, n)
          BY <2>7, <4>1, <4>3
        <5>2. ASSUME GoesOn(s, current, h, n) PROVE GoesOn(u, current, h, n)
          <6>1. FanOut /\ n # Len(h)
            BY <1>4, <1>7, <1>10, <5>2 DEF GoesOn
          <6>2. EndOf(u, current, n) = Len(current) /\ EndOf(s, current, n) = Len(current)
            BY <1>2, <1>7, <2>2, <2>4 DEF EndOf
          <6>3. u[n] = s[n] /\ n < Len(u)
            BY <1>2, <2>4
          <6>4. Follows(u, current, n, h[n].path)
            BY <5>2, <6>1, <6>2, <6>3 DEF GoesOn, Follows
          <6> QED BY <5>2, <6>1, <6>3, <6>4 DEF GoesOn
        <5>3. n \in 1..Len(u) /\ u[n] = s[n]
          BY <1>2, <2>4
        <5> QED BY <4>1, <4>3, <5>1, <5>2, <5>3 DEF IsToDo
      <4> QED BY <1>2, <4>1, <4>2, <4>3
    <3>2. CASE /\ n + 1 \in 1..Len(h) /\ HasComeTo(s, current, h, n)
               /\ Follows(frames, current, n, h[n].path)
               /\ c.to = h[n + 1].dev /\ c.input = Head(h[n + 1].path)
      <4>1. c \in ConnectionsOf(top.dev, Last(h[n].path))
        BY <1>1, <1>2, <3>2 DEF Follows
      <4>2. Follows(u, current, n, h[n].path)
        BY <2>5, <3>2, <4>1
      <4>3. HasComeTo(u, current, h, n)
        BY <2>7, <3>2
      <4>4. /\ \A k \in 1..n + 1 : k = n + 1 \/ k \in 1..n
            /\ \A k \in 1..n : k = n \/ k \in 1..n - 1
            /\ n + 1 - 1 = n /\ n + 1 \in 1..Len(u)
            /\ Len(h) \in Nat
        BY <1>2, <2>4, <2>8, RoutesAreTyped
      <4>5. HasComeTo(u, current, h, n + 1)
        <5>1. u[n + 1].dev = h[n + 1].dev
          BY <2>2, <2>4, <3>2
        <5>2. \A k \in 1..n + 1 : u[k].dev = h[k].dev
          BY <4>3, <4>4, <5>1 DEF HasComeTo
        <5>3. \A k \in 1..n : Follows(u, current, k, h[k].path)
          BY <4>2, <4>3, <4>4 DEF HasComeTo
        <5> QED BY <4>4, <5>2, <5>3 DEF HasComeTo
      <4>6. h[n + 1].path \in u[n + 1].left
        BY <2>2, <2>4, <2>8, <3>2, RoutesAreTyped
      <4>7. n + 1 <= Len(h)
        BY <3>2, <4>4
      <4> QED BY <4>4, <4>5, <4>6, <4>7 DEF IsToDo
    <3> QED BY <1>14, <2>8, <3>1, <3>2
  <2>9. IsComplete(u, current, reported)
    BY <1>2, <2>8 DEF IsComplete
  <2> QED BY <1>1, <1>2, <1>16, <2>3, <2>6, <2>9 DEF IsWalk, u
<1> QED BY <1>15, <1>16

LEMMA EndPathKeepsWalk ==
  ASSUME CompoundInv, EndPath
  PROVE  IsWalk(frames', current', reported') /\ IsComplete(frames', current', reported')
<1> DEFINE n == Len(frames)
           t == [top EXCEPT !.onPath = FALSE]
           s == [frames EXCEPT ![Len(frames)] = t]
<1>1. /\ Walking /\ top.onPath /\ top.pending = {} /\ current' = current /\ frames' = s
      /\ reported' = IF top.hasConnectedDevice THEN reported ELSE reported \cup {Named(current)}
  BY DEF EndPath, WithTop
<1>2. /\ frames \in Seq(Calls) /\ frames # <<>> /\ n \in Nat \ {0}
      /\ current \in Seq(PathElem) /\ Len(current) \in Nat
      /\ top = frames[n] /\ top \in Calls
      /\ top.length \in 0..Len(current)
      /\ IsStack(frames, current) /\ FollowsRoute(frames, current) /\ StoreInv
      /\ \A x \in reported : \E h : IsRoute(h) /\ Reports(x, h)
      /\ IsComplete(frames, current, reported)
  BY <1>1, TopIsCall
<1>3. /\ t \in Calls /\ t.dev = top.dev /\ t.input = top.input /\ t.length = top.length
      /\ t.left = top.left /\ ~t.onPath /\ t.pending = {}
  BY <1>1, <1>2 DEF Calls
<1> HIDE DEF t
<1>4. SameCall(frames[n], t)
  BY <1>2, <1>3 DEF SameCall
<1>5. HasTop(s, frames, t) /\ IsStack(s, current)
  <2>1. /\ Len(current) >= t.length /\ t.left \subseteq frames[Len(frames)].left
        /\ t.onPath => t.length < Len(current)
        /\ t.pending # {} => t.onPath
    BY <1>2, <1>3
  <2> QED BY <1>2, <1>3, <1>4, <2>1, TopChanged
<1> HIDE DEF s
<1>6. s \in Seq(Calls) /\ s[n] = t /\ Len(s) = n
  BY <1>5 DEF HasTop
<1>7. \A k \in 1..t.length : current[k] = current[k]
  OBVIOUS
<1>8. FollowsRoute(s, current)
  <2>1. FollowsOnce(s, n)
    BY <1>3, <1>6 DEF FollowsOnce
  <2> QED BY <1>2, <1>3, <1>4, <1>5, <1>7, <2>1, TopOnRoute DEF n
<1>9. \A x \in reported' : \E h : IsRoute(h) /\ Reports(x, h)
  <2>1. ~top.hasConnectedDevice => \E h : IsRoute(h) /\ Reports(Named(current), h)
    BY <1>1, <1>2, PathEndsRoute
  <2> QED BY <1>1, <1>2, <2>1
<1>10. ASSUME NEW h, IsRoute(h), IsToDo(frames, current, h)
       PROVE  IsToDo(s, current, h) \/ \E x \in reported' : Reports(x, h)
  <2> SUFFICES ASSUME n <= Len(h), HasComeTo(s, current, h, n),
                      h[n].path \in top.left \/ GoesOn(frames, current, h, n)
               PROVE  IsToDo(s, current, h) \/ \E x \in reported' : Reports(x, h)
    BY <1>2, <1>4, <1>5, <1>7, <1>10, ToDoBelowTop DEF n
  <2>1. n \in 1..n
    BY <1>2
  <2>2. CASE h[n].path \in top.left
    BY <1>3, <1>6, <2>1, <2>2 DEF IsToDo
  <2>3. CASE GoesOn(frames, current, h, n)
    <3>1. /\ Len(h) = n /\ ~top.hasConnectedDevice
          /\ Follows(frames, current, n, h[n].path)
      BY <1>1, <1>2, <2>3 DEF GoesOn
    <3>2. HasComeTo(frames, current, h, n)
      <4>1. /\ \A k \in 1..n - 1 : frames[k] = s[k]
            /\ SameCall(s[n], frames[n]) /\ n <= Len(frames) /\ n \in 1..Len(s)
        BY <1>2, <1>4, <1>5, <1>6 DEF HasTop, SameCall
      <4>2. \A k \in 1..s[n].length : current[k] = current[k]
        OBVIOUS
      <4> QED BY <1>2, <1>5, <1>6, <4>1, <4>2, HasComeBelow
    <3>3. Reports(Named(current), h)
      BY <1>2, <3>1, <3>2, RouteReported DEF n
    <3> QED BY <1>1, <3>1, <3>3
  <2> QED BY <2>2, <2>3
<1>11. IsComplete(s, current, reported')
  BY <1>1, <1>2, <1>10 DEF IsComplete
<1> QED BY <1>1, <1>2, <1>5, <1>6, <1>8, <1>9, <1>11 DEF IsWalk

LEMMA ReturnKeepsWalk ==
  ASSUME CompoundInv, Return
  PROVE  IsWalk(frames', current', reported') /\ IsComplete(frames', current', reported')
<1> DEFINE n == Len(frames)
           m == n - 1
           s == SubSeq(frames, 1, m)
<1>1. /\ Walking /\ ~top.onPath /\ top.left = {}
      /\ frames' = s /\ current' = current /\ reported' = reported
  BY DEF Return
<1>2. /\ frames \in Seq(Calls) /\ frames # <<>> /\ n \in Nat \ {0}
      /\ current \in Seq(PathElem) /\ top = frames[n]
      /\ IsStack(frames, current) /\ FollowsRoute(frames, current) /\ StoreInv
      /\ \A x \in reported : \E h : IsRoute(h) /\ Reports(x, h)
      /\ IsComplete(frames, current, reported)
  BY <1>1, TopIsCall
<1>3. s \in Seq(Calls) /\ IsStack(s, current) /\ FollowsRoute(s, current)
  BY <1>2, CallPopped
<1>4. Len(s) = m /\ \A i \in 1..m : s[i] = frames[i]
  <2>1. m \in 0..Len(frames)
    BY <1>2
  <2> QED BY <1>2, <2>1, Cut
<1>5. m \in Nat /\ n = m + 1 /\ n = Len(frames)
  BY <1>2
<1> HIDE DEF m, n, s
<1>6. \A k \in 1..Len(current) : current[k] = current[k]
  OBVIOUS
<1>7. ASSUME NEW h, IsRoute(h), IsToDo(frames, current, h) PROVE IsToDo(s, current, h)
  <2>1. PICK i \in 1..n : /\ i <= Len(h) /\ HasComeTo(frames, current, h, i)
                          /\ h[i].path \in frames[i].left \/ GoesOn(frames, current, h, i)
    BY <1>5, <1>7 DEF IsToDo
  <2>2. i # n
    BY <1>1, <1>2, <2>1 DEF GoesOn
  <2>3. i \in 1..m /\ i < n /\ i \in 1..Len(frames) /\ i \in 1..Len(s) /\ i <= Len(s)
    BY <1>4, <1>5, <2>2
  <2>4. CASE i = m
    <3>1. HasComeTo(s, current, h, i)
      <4>1. /\ \A k \in 1..i - 1 : s[k] = frames[k]
            /\ SameCall(frames[i], s[i])
            /\ \A k \in 1..frames[i].length : current[k] = current[k]
        BY <1>4, <1>5, <2>3, <2>4 DEF SameCall
      <4> QED BY <1>2, <1>3, <2>1, <2>3, <4>1, HasComeBelow
    <3>2. frames[i].hasConnectedDevice
      <4>1. i \in 1..Len(frames) - 1
        BY <1>5, <2>3
      <4> QED BY <1>2, <4>1, EndIsOnTop
    <3>3. ASSUME GoesOn(frames, current, h, i) PROVE GoesOn(s, current, h, i)
      <4>1. Follows(frames, current, i, h[i].path) /\ s[i] = frames[i]
        BY <1>4, <2>3, <3>3 DEF GoesOn
      <4>2. Len(frames) = i + 1 /\ Len(s) = i
        BY <1>4, <1>5, <2>4
      <4>3. Follows(s, current, i, h[i].path)
        BY <1>2, <1>3, <2>3, <3>2, <4>1, <4>2, FollowsPopped
      <4> QED BY <3>3, <4>1, <4>3 DEF GoesOn
    <3>4. s[i] = frames[i]
      BY <1>4, <2>3
    <3> QED BY <2>1, <2>3, <3>1, <3>3, <3>4 DEF IsToDo
  <2>5. CASE i # m
    <3>1. /\ i < Len(frames) /\ i < Len(s) /\ i + 1 \in 1..m /\ \A k \in 1..i : k \in 1..m
      BY <1>4, <1>5, <2>3, <2>5
    <3>2. /\ SameCall(frames[i + 1], s[i + 1]) /\ \A k \in 1..i : s[k] = frames[k]
          /\ \A k \in 1..frames[i + 1].length : current[k] = current[k]
      BY <1>4, <3>1 DEF SameCall
    <3> QED BY <1>2, <1>3, <2>1, <2>3, <3>1, <3>2, ToDoBelow
  <2> QED BY <2>4, <2>5
<1>8. IsComplete(s, current, reported)
  BY <1>2, <1>7 DEF IsComplete
<1> QED BY <1>1, <1>2, <1>3, <1>8 DEF IsWalk

(***************************************************************************)
(* The invariant                                                           *)
(***************************************************************************)
\* The configuration does not change while it is looked at.
LEMMA SameStoreSameWalk ==
  ASSUME UNCHANGED storeVars
  PROVE  /\ IsWalk(frames', current', reported') => IsWalk(frames, current, reported)'
         /\ IsComplete(frames', current', reported') => IsComplete(frames, current, reported)'
<1> PICK s, q, r : s = frames' /\ q = current' /\ r = reported'
  OBVIOUS
<1>1. UNCHANGED <<modelled, active, conns>>
  BY DEF storeVars
<1>2. /\ Calls' = Calls /\ (FanOut' <=> FanOut)
      /\ \A dev, sink : ConnectionsOf(dev, sink)' = ConnectionsOf(dev, sink)
  BY <1>1 DEF Calls, FanOut, ConnectionsOf
<1>3. \A i, p : Follows(s, q, i, p)' <=> Follows(s, q, i, p)
  BY <1>1, <1>2 DEF Follows, EndOf
<1>4. IsStack(s, q)' <=> IsStack(s, q)
  BY <1>1 DEF IsStack, IsCall
<1>5. FollowsRoute(s, q)' <=> FollowsRoute(s, q)
  <2>1. \A i : Entered(s, q, i)' <=> Entered(s, q, i)
    BY <1>2, <1>3 DEF Entered
  <2>2. IsNamed(s, q)' <=> IsNamed(s, q)
    BY DEF IsNamed, FollowsOnce, NamedBefore
  <2> QED BY <1>2, <1>3, <2>1, <2>2 DEF FollowsRoute
<1>6. \A h : IsRoute(h)' <=> IsRoute(h)
  <2>1. Hop' = Hop /\ \A h, g : Joined(h, g)' <=> Joined(h, g)
    BY <1>1, <1>2 DEF Hop, Joined
  <2> QED BY <1>2, <2>1 DEF IsRoute
<1>7. \A x, h : Reports(x, h)' <=> Reports(x, h)
  BY <1>2 DEF Reports, RunsAlong
<1>8. \A h : IsToDo(s, q, h)' <=> IsToDo(s, q, h)
  BY <1>3 DEF IsToDo, HasComeTo, GoesOn
<1>9. IsWalk(s, q, r)' <=> IsWalk(s, q, r)
  BY <1>2, <1>4, <1>5, <1>6, <1>7 DEF IsWalk
<1>10. IsComplete(s, q, r)' <=> IsComplete(s, q, r)
  BY <1>6, <1>7, <1>8 DEF IsComplete
<1>11. \A i, p : Follows(s, q, i, p)' <=> Follows(frames, current, i, p)'
  BY DEF Follows, EndOf
<1>12. IsStack(s, q)' <=> IsStack(frames, current)'
  BY DEF IsStack, IsCall
<1>13. FollowsRoute(s, q)' <=> FollowsRoute(frames, current)'
  <2>1. \A i : Entered(s, q, i)' <=> Entered(frames, current, i)'
    BY <1>11 DEF Entered
  <2>2. IsNamed(s, q)' <=> IsNamed(frames, current)'
    BY DEF IsNamed, FollowsOnce, NamedBefore
  <2> QED BY <1>11, <2>1, <2>2 DEF FollowsRoute
<1>14. \A h : IsToDo(s, q, h)' <=> IsToDo(frames, current, h)'
  BY <1>11 DEF IsToDo, HasComeTo, GoesOn
<1>15. IsWalk(s, q, r)' <=> IsWalk(frames, current, reported)'
  BY <1>12, <1>13 DEF IsWalk
<1>16. IsComplete(s, q, r)' <=> IsComplete(frames, current, reported)'
  BY <1>14 DEF IsComplete
<1> QED BY <1>9, <1>10, <1>15, <1>16

LEMMA InitCompoundInv == Init => CompoundInv
<1> SUFFICES ASSUME Init PROVE CompoundInv
  OBVIOUS
<1>1. /\ frames = <<>> /\ current = <<>> /\ reported = {} /\ phase = "ready"
      /\ modelled \subseteq Devices /\ conns \subseteq Connections
      /\ active \in [Devices -> SUBSET UNION {LocalPaths[d] : d \in Devices}]
  BY DEF Init
<1>2. UNION {LocalPaths[d] : d \in Devices} \subseteq PathsOfElements
  BY CompoundAssumption DEF PathsOfElements
<1>3. StoreInv
  BY <1>1, <1>2 DEF StoreInv
<1>4. /\ frames \in Seq(Calls) /\ Len(frames) = 0
      /\ current \in Seq(PathElem) /\ Len(current) = 0
  BY <1>1
<1>5. IsStack(frames, current) /\ FollowsRoute(frames, current)
  BY <1>1, <1>4 DEF IsStack, FollowsRoute, IsNamed
<1>6. IsWalk(frames, current, reported)
  BY <1>1, <1>4, <1>5 DEF IsWalk
<1> QED BY <1>1, <1>3, <1>6 DEF CompoundInv, PhaseInv

LEMMA NextKeepsCompoundInv == CompoundInv /\ [Next]_vars => CompoundInv'
<1> SUFFICES ASSUME CompoundInv, [Next]_vars PROVE CompoundInv'
  OBVIOUS
<1>1. UNCHANGED storeVars
  BY DEF Next, vars, Start, ExtendPath, FollowConnection, EndPath, Return
<1>2. StoreInv'
  BY <1>1 DEF CompoundInv, StoreInv, storeVars
<1>3. /\ IsWalk(frames', current', reported')
      /\ phase' # "ready" => IsComplete(frames', current', reported')
  <2>1. CASE Start
    BY <2>1, StartKeepsWalk
  <2>2. CASE \E p \in UNION {LocalPaths[d] : d \in Devices} : ExtendPath(p)
    BY <2>2, ExtendPathKeepsWalk
  <2>3. CASE \E c \in conns : FollowConnection(c)
    BY <2>3, FollowConnectionKeepsWalk
  <2>4. CASE EndPath
    BY <2>4, EndPathKeepsWalk
  <2>5. CASE Return
    BY <2>5, ReturnKeepsWalk
  <2>6. CASE UNCHANGED vars
    BY <2>6 DEF vars, CompoundInv
  <2> QED BY <2>1, <2>2, <2>3, <2>4, <2>5, <2>6 DEF Next
<1>4. PhaseInv'
  <2>1. CASE Start
    BY <2>1 DEF Start, CompoundInv, PhaseInv
  <2>2. CASE \/ \E p : ExtendPath(p)
             \/ \E c : FollowConnection(c)
             \/ EndPath
    BY <2>2 DEF ExtendPath, FollowConnection, EndPath, Walking, PhaseInv
  <2>3. CASE Return
    <3>1. frames \in Seq(Calls) /\ frames # <<>> /\ phase = "walking"
          /\ frames' = SubSeq(frames, 1, Len(frames) - 1)
          /\ phase' = IF Len(frames) = 1 THEN "done" ELSE phase
      BY <2>3 DEF Return, Walking, CompoundInv, IsWalk
    <3>2. Len(frames) = 1 => frames' = <<>>
      BY <3>1
    <3> QED BY <3>1, <3>2 DEF PhaseInv
  <2>4. CASE UNCHANGED vars
    BY <2>4 DEF vars, CompoundInv, PhaseInv
  <2> QED BY <2>1, <2>2, <2>3, <2>4 DEF Next
<1> QED BY <1>1, <1>2, <1>3, <1>4, SameStoreSameWalk DEF CompoundInv

(***************************************************************************)
(* Routes and the paths along them, as CompoundPaths has them: by          *)
(* recursion.  Induction is over sets of numbers.                          *)
(***************************************************************************)
LEMMA NatIsWellFounded ==
  \E R : IsWellFoundedOn(R, Nat) /\ \A x, y \in Nat : x < y => <<x, y>> \in R
<1> DEFINE R == {ss \in Nat \X Nat : ss[1] < ss[2]}
<1>1. IsWellFoundedOn(R, Nat)
  BY NatLessThanWellFounded, Zenon DEF OpToRel
<1>2. \A x, y \in Nat : x < y => <<x, y>> \in R
  OBVIOUS
<1> QED BY <1>1, <1>2

LEMMA LeastNumber ==
  ASSUME NEW R, NEW T, IsWellFoundedOn(R, Nat), T \subseteq Nat, T # {}
  PROVE  \E x \in T : \A y \in T : ~(<<y, x>> \in R)
BY WFMin, Zenon

LEMMA SetInduction ==
  ASSUME NEW S \in SUBSET Nat, 0 \in S, \A n \in S : n + 1 \in S
  PROVE  \A n \in Nat : n \in S
<1> SUFFICES ASSUME Nat \ S # {} PROVE FALSE
  OBVIOUS
<1>1. PICK R : IsWellFoundedOn(R, Nat) /\ \A x, y \in Nat : x < y => <<x, y>> \in R
  BY NatIsWellFounded
<1>2. PICK T : T = Nat \ S
  OBVIOUS
<1>3. T \subseteq Nat /\ T # {}
  BY <1>2
<1>4. PICK x \in T : \A y \in T : ~(<<y, x>> \in R)
  BY ONLY <1>1, <1>3, LeastNumber
<1>5. x # 0 /\ x - 1 \in Nat /\ x \in Nat /\ x - 1 < x /\ (x - 1) + 1 = x
  BY <1>2
<1>6. x - 1 \in S
  BY <1>1, <1>2, <1>4, <1>5
<1> QED BY <1>2, <1>5, <1>6

LEMMA LastAppended ==
  ASSUME NEW S, NEW s \in Seq(S), NEW n \in Nat, Len(s) = n + 1
  PROVE  /\ SubSeq(s, 1, n) \in Seq(S) /\ Len(SubSeq(s, 1, n)) = n
         /\ \A i \in 1..n : SubSeq(s, 1, n)[i] = s[i]
         /\ s[n + 1] \in S
         /\ s = Append(SubSeq(s, 1, n), s[n + 1])
<1>1. n \in 0..Len(s) /\ n + 1 \in 1..Len(s)
  OBVIOUS
<1>2. SubSeq(s, 1, n) \in Seq(S) /\ Len(SubSeq(s, 1, n)) = n
      /\ (\A i \in 1..n : SubSeq(s, 1, n)[i] = s[i]) /\ s[n + 1] \in S
  BY <1>1, Cut
<1>3. PICK t : t = SubSeq(s, 1, n)
  OBVIOUS
<1>4. t \in Seq(S) /\ Len(t) = n /\ (\A i \in 1..n : t[i] = s[i]) /\ s[n + 1] \in S
  BY <1>2, <1>3
<1>5. s = Append(t, s[n + 1])
  <2>1. /\ Append(t, s[n + 1]) \in Seq(S) /\ Len(Append(t, s[n + 1])) = n + 1
        /\ Append(t, s[n + 1])[n + 1] = s[n + 1]
        /\ \A i \in 1..n : Append(t, s[n + 1])[i] = t[i]
    BY ONLY <1>4, n \in Nat, Pushed
  <2>2. PICK u : u = Append(t, s[n + 1])
    OBVIOUS
  <2>3. u \in Seq(S) /\ Len(u) = Len(s) /\ \A i \in 1..n + 1 : u[i] = s[i]
    <3>1. \A i \in 1..n + 1 : i = n + 1 \/ i \in 1..n
      OBVIOUS
    <3> QED BY <1>4, <2>1, <2>2, <3>1
  <2>4. u = s
    BY ONLY <2>3, s \in Seq(S), Len(s) = n + 1, n \in Nat
  <2> QED BY <2>2, <2>4
<1> QED BY <1>2, <1>3, <1>5

\* All routes of n hops and those which are on their way, and how the recursion
\* in Routes makes them.
Chains(n) ==
  {h \in Seq(Hop) : /\ Len(h) = n /\ h[1].dev = Root
                    /\ \A i \in 1..n - 1 : Joined(h[i], h[i + 1])}

FirstHops == {<<h>> : h \in {g \in Hop : g.dev = Root}}
NextHops(n, s) == {Append(r, h) : r \in s, h \in Hop}
                    \cap {r \in [1..n -> Hop] : Joined(r[n - 1], r[n])}

LEMMA FirstChains == Chains(1) = FirstHops
<1>1. ASSUME NEW h \in Chains(1) PROVE h \in FirstHops
  <2>1. h \in Seq(Hop) /\ Len(h) = 1 /\ h[1].dev = Root
    BY DEF Chains
  <2>2. h = <<h[1]>> /\ h[1] \in Hop
    <3>1. \A H, g : g \in Seq(H) /\ Len(g) = 1 => g = <<g[1]>> /\ g[1] \in H
      OBVIOUS
    <3> QED BY <2>1, <3>1
  <2> QED BY <2>1, <2>2 DEF FirstHops
<1>2. ASSUME NEW g \in Hop, g.dev = Root PROVE <<g>> \in Chains(1)
  BY <1>2 DEF Chains
<1> QED BY <1>1, <1>2 DEF FirstHops

LEMMA NextChains ==
  ASSUME NEW n \in Nat \ {0}
  PROVE  Chains(n + 1) = NextHops(n + 1, Chains(n))
<1>1. n + 1 \in Nat /\ (n + 1) - 1 = n
  OBVIOUS
<1>2. ASSUME NEW r \in Chains(n + 1) PROVE r \in NextHops(n + 1, Chains(n))
  <2> DEFINE s == SubSeq(r, 1, n)
  <2>1. /\ r \in Seq(Hop) /\ Len(r) = n + 1 /\ r[1].dev = Root
        /\ \A i \in 1..n : Joined(r[i], r[i + 1])
    BY DEF Chains
  <2>2. /\ s \in Seq(Hop) /\ Len(s) = n /\ \A i \in 1..n : s[i] = r[i]
        /\ r[n + 1] \in Hop /\ r = Append(s, r[n + 1])
    BY <2>1, LastAppended
  <2> HIDE DEF s
  <2>3. 1 \in 1..n /\ n \in 1..n /\ \A i \in 1..n - 1 : i \in 1..n /\ i + 1 \in 1..n
    OBVIOUS
  <2>4. s \in Chains(n)
    BY <2>1, <2>2, <2>3 DEF Chains
  <2>5. r \in [1..n + 1 -> Hop]
    <3>1. PICK H : H = Hop
      OBVIOUS
    <3>2. r \in [1..n + 1 -> H]
      BY ONLY <2>1, <3>1
    <3> QED BY <3>1, <3>2
  <2>6. Joined(r[(n + 1) - 1], r[n + 1])
    BY <1>1, <2>1, <2>3
  <2> QED BY <2>2, <2>4, <2>5, <2>6 DEF NextHops
<1>3. ASSUME NEW s \in Chains(n), NEW h \in Hop,
             Joined(Append(s, h)[n], Append(s, h)[n + 1])
      PROVE  Append(s, h) \in Chains(n + 1)
  <2> DEFINE r == Append(s, h)
  <2>1. /\ s \in Seq(Hop) /\ Len(s) = n /\ s[1].dev = Root
        /\ \A i \in 1..n - 1 : Joined(s[i], s[i + 1])
    BY DEF Chains
  <2>2. /\ r \in Seq(Hop) /\ Len(r) = n + 1 /\ r[n + 1] = h
        /\ \A i \in 1..n : r[i] = s[i]
    BY <2>1, Pushed
  <2>3. Joined(r[n], r[n + 1])
    BY <1>3
  <2> HIDE DEF r
  <2>4. 1 \in 1..n /\ \A i \in 1..n : i = n \/ (i \in 1..n - 1 /\ i + 1 \in 1..n)
    OBVIOUS
  <2>5. \A i \in 1..n : Joined(r[i], r[i + 1])
    BY <2>1, <2>2, <2>3, <2>4
  <2>6. r \in Chains(n + 1)
    BY <2>1, <2>2, <2>4, <2>5 DEF Chains
  <2> QED BY <2>6 DEF r
<1>4. ASSUME NEW r \in NextHops(n + 1, Chains(n)) PROVE r \in Chains(n + 1)
  <2>1. PICK s \in Chains(n), h \in Hop : r = Append(s, h)
    BY DEF NextHops
  <2>2. Joined(r[n], r[n + 1])
    BY <1>1 DEF NextHops
  <2> QED BY <1>3, <2>1, <2>2
<1> QED BY <1>2, <1>4

LEMMA RoutesAreChains ==
  ASSUME Cardinality(Devices) \in Nat
  PROVE  Routes = UNION {Chains(n) : n \in 1..Cardinality(Devices)}
<1> DEFINE N == Cardinality(Devices)
           IsSolution(f) ==
             f = [n \in 1..N |-> IF n = 1 THEN FirstHops ELSE NextHops(n, f[n - 1])]
           chains == [n \in 1..N |-> Chains(n)]
<1>1. \A n \in 1..N : n # 1 => n - 1 \in 1..N /\ n - 1 \in Nat \ {0} /\ (n - 1) + 1 = n
  OBVIOUS
<1>2. \A n \in 1..N : Chains(n) = IF n = 1 THEN FirstHops ELSE NextHops(n, chains[n - 1])
  <2> SUFFICES ASSUME NEW n \in 1..N
               PROVE  Chains(n) = IF n = 1 THEN FirstHops ELSE NextHops(n, chains[n - 1])
    OBVIOUS
  <2>1. CASE n = 1
    BY <2>1, FirstChains
  <2>2. CASE n # 1
    <3>1. PICK m \in Nat \ {0} : m = n - 1 /\ m + 1 = n /\ m \in 1..N
      BY <1>1, <2>2
    <3>2. Chains(m + 1) = NextHops(m + 1, Chains(m)) /\ chains[m] = Chains(m)
      BY <3>1, NextChains
    <3> QED BY <2>2, <3>1, <3>2
  <2> QED BY <2>1, <2>2
<1>3. IsSolution(chains)
  BY <1>2
<1>4. \E f : IsSolution(f)
  <2> HIDE DEF chains, IsSolution
  <2> QED BY <1>3
<1>5. PICK f : IsSolution(f) /\ Routes = UNION {f[n] : n \in 1..N}
  <2> DEFINE routes == CHOOSE f : IsSolution(f)
  <2>1. Routes = UNION {routes[n] : n \in 1..N}
    BY DEF Routes, FirstHops, NextHops
  <2>2. IsSolution(routes)
    <3> HIDE DEF IsSolution
    <3> QED BY <1>4, Zenon
  <2> HIDE DEF IsSolution, routes
  <2> QED BY <2>1, <2>2
<1>6. \A n \in 1..N : f[n] = IF n = 1 THEN FirstHops ELSE NextHops(n, f[n - 1])
  BY <1>5
<1>7. \A n \in 1..N : f[n] = Chains(n)
  <2> DEFINE S == {n \in Nat : n \in 1..N => f[n] = Chains(n)}
  <2>1. 0 \in S
    OBVIOUS
  <2>2. ASSUME NEW n \in S PROVE n + 1 \in S
    <3> SUFFICES ASSUME n + 1 \in 1..N PROVE f[n + 1] = Chains(n + 1)
      OBVIOUS
    <3>1. n \in Nat /\ (n # 0 => n \in 1..N /\ n + 1 # 1 /\ (n + 1) - 1 = n)
      OBVIOUS
    <3>2. CASE n = 0
      BY <1>6, <3>2, FirstChains
    <3>3. CASE n # 0
      <4>1. f[n] = Chains(n)
        BY <3>1, <3>3
      <4>2. f[n + 1] = NextHops(n + 1, f[n])
        BY <1>6, <3>1, <3>3
      <4> QED BY <3>1, <3>3, <4>1, <4>2, NextChains
    <3> QED BY <3>2, <3>3
  <2>3. S \in SUBSET Nat
    OBVIOUS
  <2> HIDE DEF S
  <2>4. \A n \in Nat : n \in S
    BY <2>1, <2>2, <2>3, SetInduction
  <2> QED BY <2>4 DEF S
<1>8. {f[n] : n \in 1..N} = {Chains(n) : n \in 1..N}
  BY <1>7
<1> QED BY <1>5, <1>8

\* Along connections that form no cycle, no device is entered twice.
LEMMA RanksGrow ==
  ASSUME StoreInv, NEW rank \in [Devices -> Nat],
         \A c \in Connections : rank[c.from] < rank[c.to],
         NEW h \in Seq(Hop), \A i \in 1..Len(h) - 1 : Joined(h[i], h[i + 1])
  PROVE  \A j \in 1..Len(h) : h[j].dev \in Devices
                              /\ \A i \in 1..j - 1 : rank[h[i].dev] < rank[h[j].dev]
<1>1. Len(h) \in Nat /\ \A i \in 1..Len(h) : h[i] \in Hop
  OBVIOUS
<1>2. \A i \in 1..Len(h) : h[i].dev \in Devices /\ rank[h[i].dev] \in Nat
  BY <1>1 DEF Hop, StoreInv
<1>3. \A i \in 1..Len(h) - 1 : rank[h[i].dev] < rank[h[i + 1].dev]
  BY DEF Joined, ConnectionsOf, StoreInv
<1> DEFINE S == {j \in Nat : j \in 1..Len(h) => \A i \in 1..j - 1 : rank[h[i].dev] < rank[h[j].dev]}
<1>4. 0 \in S
  OBVIOUS
<1>5. ASSUME NEW j \in S PROVE j + 1 \in S
  <2> SUFFICES ASSUME j + 1 \in 1..Len(h), NEW i \in 1..(j + 1) - 1
               PROVE  rank[h[i].dev] < rank[h[j + 1].dev]
    OBVIOUS
  <2>1. j \in 1..Len(h) - 1 /\ j \in 1..Len(h) /\ i \in 1..Len(h) /\ (i = j \/ i \in 1..j - 1)
    BY <1>1
  <2>2. rank[h[j].dev] < rank[h[j + 1].dev]
    BY <1>3, <2>1
  <2>3. i # j => rank[h[i].dev] < rank[h[j].dev]
    BY <2>1
  <2>4. /\ rank[h[i].dev] \in Nat /\ rank[h[j].dev] \in Nat /\ rank[h[j + 1].dev] \in Nat
    BY <1>2, <2>1
  <2> QED BY <2>2, <2>3, <2>4
<1>6. S \in SUBSET Nat
  OBVIOUS
<1> HIDE DEF S
<1>7. \A j \in Nat : j \in S
  BY <1>4, <1>5, <1>6, SetInduction
<1>8. \A j \in 1..Len(h) : j \in S
  BY <1>7
<1> QED BY <1>2, <1>8 DEF S

\* Neither is one entered while there is a call for it: the recursion is not
\* deeper than there are devices.
LEMMA CallsAreForDevicesOfGrowingRank ==
  ASSUME CompoundInv, NEW rank \in [Devices -> Nat],
         \A c \in Connections : rank[c.from] < rank[c.to]
  PROVE  \A j \in 1..Len(frames) :
           frames[j].dev \in Devices
           /\ \A i \in 1..j - 1 : rank[frames[i].dev] < rank[frames[j].dev]
<1> DEFINE n == Len(frames)
<1>1. /\ frames \in Seq(Calls) /\ n \in Nat /\ StoreInv
      /\ \A i \in 1..n - 1 : Entered(frames, current, i)
  BY DEF CompoundInv, IsWalk, FollowsRoute
<1>2. \A i \in 1..n : frames[i].dev \in Devices /\ rank[frames[i].dev] \in Nat
  BY <1>1, CallsAreTyped DEF StoreInv
<1>3. \A i \in 1..n - 1 : rank[frames[i].dev] < rank[frames[i + 1].dev]
  BY <1>1 DEF Entered, ConnectionsOf, StoreInv
<1> HIDE DEF n
<1> DEFINE S == {j \in Nat : j \in 1..n => \A i \in 1..j - 1 : rank[frames[i].dev] < rank[frames[j].dev]}
<1>4. 0 \in S
  OBVIOUS
<1>5. ASSUME NEW j \in S PROVE j + 1 \in S
  <2> SUFFICES ASSUME j + 1 \in 1..n, NEW i \in 1..(j + 1) - 1
               PROVE  rank[frames[i].dev] < rank[frames[j + 1].dev]
    OBVIOUS
  <2>1. j \in 1..n - 1 /\ j \in 1..n /\ i \in 1..n /\ (i = j \/ i \in 1..j - 1)
    BY <1>1
  <2>2. rank[frames[j].dev] < rank[frames[j + 1].dev]
    BY <1>3, <2>1
  <2>3. i # j => rank[frames[i].dev] < rank[frames[j].dev]
    BY <2>1
  <2>4. /\ rank[frames[i].dev] \in Nat /\ rank[frames[j].dev] \in Nat
        /\ rank[frames[j + 1].dev] \in Nat
    BY <1>2, <2>1
  <2> QED BY <2>2, <2>3, <2>4
<1>6. S \in SUBSET Nat
  OBVIOUS
<1> HIDE DEF S
<1>7. \A j \in Nat : j \in S
  BY <1>4, <1>5, <1>6, SetInduction
<1>8. \A j \in 1..n : j \in S
  BY <1>7
<1> QED BY <1>2, <1>8 DEF S, n

LEMMA RoutesAreShort ==
  ASSUME StoreInv, IsFiniteSet(Devices), NEW rank \in [Devices -> Nat],
         \A c \in Connections : rank[c.from] < rank[c.to],
         NEW h \in Seq(Hop), \A i \in 1..Len(h) - 1 : Joined(h[i], h[i + 1])
  PROVE  Cardinality(Devices) \in Nat /\ Len(h) <= Cardinality(Devices)
<1> DEFINE n == Len(h)
           f == [i \in 1..n |-> h[i].dev]
<1>1. n \in Nat
  OBVIOUS
<1>2. \A j \in 1..n : h[j].dev \in Devices
                      /\ \A i \in 1..j - 1 : rank[h[i].dev] < rank[h[j].dev]
  BY RanksGrow
<1>3. f \in Injection(1..n, Devices)
  <2>1. f \in [1..n -> Devices]
    BY <1>2
  <2>2. ASSUME NEW i \in 1..n, NEW j \in 1..n, i # j PROVE f[i] # f[j]
    <3>1. i \in 1..j - 1 \/ j \in 1..i - 1
      BY <1>1, <2>2
    <3>2. rank[h[i].dev] < rank[h[j].dev] \/ rank[h[j].dev] < rank[h[i].dev]
      BY <1>2, <3>1
    <3>3. rank[h[i].dev] \in Nat /\ rank[h[j].dev] \in Nat
      BY <1>2
    <3> QED BY <3>2, <3>3
  <2> HIDE DEF f
  <2> QED BY <2>1, <2>2 DEF Injection, IsInjective
<1> HIDE DEF f
<1>4. Cardinality(1..n) <= Cardinality(Devices)
  BY <1>3, FS_Injection
<1>5. Cardinality(1..n) = n
  <2>1. 1 \in Int /\ n \in Int
    BY <1>1
  <2>2. Cardinality(1..n) = IF 1 > n THEN 0 ELSE n - 1 + 1
    BY <2>1, FS_Interval
  <2> QED BY <1>1, <2>2
<1>6. Cardinality(Devices) \in Nat
  BY FS_CardinalityType
<1> QED BY <1>4, <1>5, <1>6

LEMMA RoutesEnumerated ==
  ASSUME StoreInv, IsFiniteSet(Devices), NEW rank \in [Devices -> Nat],
         \A c \in Connections : rank[c.from] < rank[c.to], NEW h
  PROVE  IsRoute(h) <=> h \in Routes /\ ConnectionsOf(Last(h).dev, Last(Last(h).path)) = {}
<1>1. Cardinality(Devices) \in Nat
  BY FS_CardinalityType
<1>2. Routes = UNION {Chains(n) : n \in 1..Cardinality(Devices)}
  BY <1>1, RoutesAreChains
<1>3. Last(h) = h[Len(h)]
  BY DEF Last
<1>4. ASSUME IsRoute(h) PROVE h \in Routes
  <2>1. /\ h \in Seq(Hop) /\ Len(h) \in Nat \ {0} /\ h[1].dev = Root
        /\ \A i \in 1..Len(h) - 1 : Joined(h[i], h[i + 1])
    BY <1>4 DEF IsRoute
  <2>2. Len(h) <= Cardinality(Devices)
    BY <2>1, RoutesAreShort
  <2>3. Len(h) \in 1..Cardinality(Devices)
    BY <1>1, <2>1, <2>2
  <2>4. h \in Chains(Len(h))
    BY <2>1 DEF Chains
  <2> QED BY <1>2, <2>3, <2>4
<1>5. ASSUME h \in Routes PROVE /\ h \in Seq(Hop) /\ h # <<>> /\ h[1].dev = Root
                                /\ \A i \in 1..Len(h) - 1 : Joined(h[i], h[i + 1])
  <2>1. PICK n \in 1..Cardinality(Devices) : h \in Chains(n)
    BY <1>2, <1>5
  <2>2. /\ h \in Seq(Hop) /\ Len(h) = n /\ h[1].dev = Root
        /\ \A i \in 1..Len(h) - 1 : Joined(h[i], h[i + 1])
    BY <2>1 DEF Chains
  <2>3. h # <<>>
    BY <1>1, <2>2
  <2> QED BY <2>2, <2>3
<1> QED BY <1>3, <1>4, <1>5 DEF IsRoute

LEMMA GrowsToTheEnd ==
  ASSUME NEW n \in Nat, NEW f \in [1..n -> Nat], \A i \in 1..n - 1 : f[i] <= f[i + 1],
         NEW i \in 1..n
  PROVE  f[i] <= f[n]
<1> DEFINE S == {k \in Nat : i + k <= n => f[i] <= f[i + k]}
<1>1. 0 \in S
  OBVIOUS
<1>2. ASSUME NEW k \in S PROVE k + 1 \in S
  <2> SUFFICES ASSUME i + (k + 1) <= n PROVE f[i] <= f[i + (k + 1)]
    OBVIOUS
  <2>1. i + k \in 1..n - 1 /\ i + k <= n /\ i + (k + 1) \in 1..n /\ i + k \in 1..n
        /\ i + (k + 1) = (i + k) + 1
    OBVIOUS
  <2>2. f[i] <= f[i + k] /\ f[i + k] <= f[(i + k) + 1]
    BY <2>1
  <2>3. f[i] \in Nat /\ f[i + k] \in Nat /\ f[i + (k + 1)] \in Nat
    BY <2>1
  <2> QED BY <2>1, <2>2, <2>3
<1>3. S \in SUBSET Nat
  OBVIOUS
<1> HIDE DEF S
<1>4. \A k \in Nat : k \in S
  BY <1>1, <1>2, <1>3, SetInduction
<1>5. n - i \in S
  BY <1>4
<1>6. i + (n - i) = n
  OBVIOUS
<1> QED BY <1>5, <1>6 DEF S

LEMMA HopsAreTyped ==
  ASSUME StoreInv, NEW h \in Seq(Hop)
  PROVE  /\ Len(h) \in Nat
         /\ \A i \in 1..Len(h) : /\ h[i].dev \in Devices /\ h[i].path \in Seq(Elements)
                                 /\ Len(h[i].path) \in Nat \ {0}
<1>1. Len(h) \in Nat /\ \A i \in 1..Len(h) : h[i] \in Hop
  OBVIOUS
<1>2. \A i \in 1..Len(h) : h[i].dev \in modelled /\ h[i].path \in active[h[i].dev]
  BY <1>1 DEF Hop
<1> QED BY <1>1, <1>2, PathsAreTyped DEF StoreInv

LEMMA PrefixExtended ==
  ASSUME NEW S, NEW r \in Seq(S), NEW a \in Nat, NEW b \in Nat, b <= Len(r),
         NEW p \in Seq(S), b = a + Len(p), \A j \in 1..Len(p) : p[j] = r[a + j]
  PROVE  SubSeq(r, 1, b) = SubSeq(r, 1, a) \o p
<1>1. Len(r) \in Nat /\ Len(p) \in Nat /\ a \in 0..Len(r) /\ b \in 0..Len(r)
  OBVIOUS
<1>2. PICK s, t : s = SubSeq(r, 1, a) /\ t = SubSeq(r, 1, b)
  OBVIOUS
<1>3. /\ s \in Seq(S) /\ Len(s) = a /\ \A i \in 1..a : s[i] = r[i]
      /\ t \in Seq(S) /\ Len(t) = b /\ \A i \in 1..b : t[i] = r[i]
  BY <1>1, <1>2, Cut
<1>4. PICK u : u = s \o p
  OBVIOUS
<1>5. /\ u \in Seq(S) /\ Len(u) = a + Len(p)
      /\ \A i \in 1..a : u[i] = s[i]
      /\ \A j \in 1..Len(p) : u[a + j] = p[j]
  <2>1. s \in Seq(S) /\ p \in Seq(S)
    BY <1>3
  <2>2. /\ s \o p \in Seq(S) /\ Len(s \o p) = Len(s) + Len(p)
        /\ \A i \in 1..Len(s) : (s \o p)[i] = s[i]
        /\ \A j \in 1..Len(p) : (s \o p)[Len(s) + j] = p[j]
    BY ONLY <2>1, Joint
  <2> QED BY ONLY <1>3, <1>4, <2>2
<1>6. ASSUME NEW i \in 1..b PROVE u[i] = t[i]
  <2>1. CASE i <= a
    <3>1. i \in 1..a
      BY <2>1
    <3> QED BY <1>3, <1>5, <3>1
  <2>2. CASE i > a
    <3>1. PICK j \in 1..Len(p) : i = a + j
      <4>1. i - a \in 1..Len(p) /\ i = a + (i - a)
        BY <1>1, <2>2
      <4> QED BY <4>1
    <3> QED BY <1>3, <1>5, <3>1
  <2> QED BY <1>1, <2>1, <2>2
<1>7. u = t
  BY ONLY <1>3, <1>5, <1>6, b = a + Len(p), a \in Nat, b \in Nat, Len(p) \in Nat
<1> QED BY <1>2, <1>4, <1>7

\* What runs along a route ends where it does.
LEMMA LastAlong ==
  ASSUME StoreInv, NEW h \in Seq(Hop), h # <<>>, NEW r \in Seq(NamedElem), RunsAlong(r, h)
  PROVE  r # <<>> /\ Last(r) = [dev |-> h[Len(h)].dev, elem |-> Last(h[Len(h)].path)]
<1> DEFINE n == Len(h)
<1>1. n \in Nat \ {0} /\ n \in 1..n
  OBVIOUS
<1>2. PICK begin \in [1..n + 1 -> Nat] :
        /\ begin[1] = 0 /\ begin[n + 1] = Len(r)
        /\ \A i \in 1..n :
             /\ begin[i + 1] = begin[i] + Len(h[i].path)
             /\ \A j \in 1..Len(h[i].path) :
                  r[begin[i] + j] = [dev |-> h[i].dev, elem |-> h[i].path[j]]
  BY DEF RunsAlong
<1>3. PICK p : p = h[n].path
  OBVIOUS
<1>4. Len(p) \in Nat \ {0} /\ begin[n] \in Nat
  <2>1. n \in 1..n + 1
    BY <1>1
  <2> QED BY <1>1, <1>2, <1>3, <2>1, HopsAreTyped
<1>5. Len(p) \in 1..Len(p)
  BY <1>4
<1>6. Len(r) = begin[n] + Len(p) /\ r[begin[n] + Len(p)] = [dev |-> h[n].dev, elem |-> p[Len(p)]]
  BY <1>1, <1>2, <1>3, <1>5
<1>7. Len(r) # 0
  BY <1>4, <1>6
<1> QED BY <1>3, <1>6, <1>7 DEF Last

\* There is a path along each sequence of hops.
LEMMA PathAlong ==
  ASSUME StoreInv, NEW h \in Seq(Hop)
  PROVE  \E r \in Seq(NamedElem) : RunsAlong(r, h)
<1> DEFINE S == {n \in Nat : \A g \in Seq(Hop) : Len(g) = n =>
                               \E r \in Seq(NamedElem) : RunsAlong(r, g)}
<1>1. 0 \in S
  <2> SUFFICES ASSUME NEW g \in Seq(Hop), Len(g) = 0
               PROVE  \E r \in Seq(NamedElem) : RunsAlong(r, g)
    OBVIOUS
  <2> DEFINE begin == [i \in 1..1 |-> 0]
  <2>1. begin \in [1..Len(g) + 1 -> Nat] /\ begin[1] = 0 /\ begin[Len(g) + 1] = 0
    OBVIOUS
  <2> HIDE DEF begin
  <2>2. PICK r : r = <<>>
    OBVIOUS
  <2>3. r \in Seq(NamedElem) /\ Len(r) = 0
    BY <2>2
  <2>4. RunsAlong(r, g)
    BY <2>1, <2>3 DEF RunsAlong
  <2> QED BY <2>3, <2>4
<1>2. ASSUME NEW n \in S PROVE n + 1 \in S
  <2> SUFFICES ASSUME NEW g \in Seq(Hop), Len(g) = n + 1
               PROVE  \E r \in Seq(NamedElem) : RunsAlong(r, g)
    OBVIOUS
  <2>1. n \in Nat /\ n + 1 \in 1..Len(g)
    OBVIOUS
  <2>2. PICK f \in Seq(Hop) : Len(f) = n /\ \A i \in 1..n : f[i] = g[i]
    <3>1. n \in 0..Len(g)
      BY <2>1
    <3>2. PICK f : f = SubSeq(g, 1, n)
      OBVIOUS
    <3>3. f \in Seq(Hop) /\ Len(f) = n /\ \A i \in 1..n : f[i] = g[i]
      BY ONLY <3>1, <3>2, g \in Seq(Hop), Cut
    <3> QED BY <3>3
  <2>3. PICK r \in Seq(NamedElem) : RunsAlong(r, f)
    BY <2>2
  <2>4. PICK begin \in [1..n + 1 -> Nat] :
          /\ begin[1] = 0 /\ begin[n + 1] = Len(r)
          /\ \A i \in 1..n :
               /\ begin[i + 1] = begin[i] + Len(f[i].path)
               /\ \A j \in 1..Len(f[i].path) :
                    r[begin[i] + j] = [dev |-> f[i].dev, elem |-> f[i].path[j]]
    BY <2>2, <2>3 DEF RunsAlong
  <2>5. PICK d, p : d = g[n + 1].dev /\ p = g[n + 1].path
    OBVIOUS
  <2>6. d \in Devices /\ p \in Seq(Elements) /\ Len(p) \in Nat \ {0}
    BY <2>1, <2>5, HopsAreTyped
  <2> DEFINE e == [j \in 1..Len(p) |-> [dev |-> d, elem |-> p[j]]]
  <2>7. e \in Seq(NamedElem) /\ Len(e) = Len(p)
        /\ \A j \in 1..Len(p) : e[j] = [dev |-> d, elem |-> p[j]]
    <3>1. \A j \in 1..Len(p) : [dev |-> d, elem |-> p[j]] \in NamedElem
      <4>1. \A j \in 1..Len(p) : p[j] \in Elements
        BY <2>6
      <4> QED BY <2>6, <4>1 DEF NamedElem
    <3> QED BY <2>6, <3>1
  <2> HIDE DEF e
  <2>8. PICK x : x = r \o e
    OBVIOUS
  <2>9. /\ x \in Seq(NamedElem) /\ Len(x) = Len(r) + Len(p) /\ Len(r) \in Nat
        /\ \A i \in 1..Len(r) : x[i] = r[i]
        /\ \A j \in 1..Len(p) : x[Len(r) + j] = [dev |-> d, elem |-> p[j]]
    <3>1. r \in Seq(NamedElem) /\ e \in Seq(NamedElem)
      BY <2>7
    <3>2. /\ r \o e \in Seq(NamedElem) /\ Len(r \o e) = Len(r) + Len(e) /\ Len(r) \in Nat
          /\ \A i \in 1..Len(r) : (r \o e)[i] = r[i]
          /\ \A j \in 1..Len(e) : (r \o e)[Len(r) + j] = e[j]
      BY ONLY <3>1, Joint
    <3> QED BY <2>7, <2>8, <3>2
  <2> DEFINE start == [i \in 1..n + 2 |-> IF i = n + 2 THEN Len(x) ELSE begin[i]]
  <2>10. /\ start \in [1..Len(g) + 1 -> Nat] /\ start[n + 2] = Len(x)
         /\ \A i \in 1..n + 1 : start[i] = begin[i]
    <3>1. \A i \in 1..n + 2 : i = n + 2 \/ i \in 1..n + 1
      BY <2>1
    <3>2. \A i \in 1..n + 1 : i # n + 2 /\ i \in 1..n + 2
      BY <2>1
    <3>3. n + 2 \in 1..n + 2 /\ Len(g) + 1 = n + 2
      BY <2>1
    <3> QED BY <2>4, <2>9, <3>1, <3>2, <3>3
  <2> HIDE DEF start
  <2>11. \A i \in 1..n : begin[i] \in Nat /\ begin[i] + Len(f[i].path) <= Len(r)
    <3> SUFFICES ASSUME NEW i \in 1..n PROVE begin[i] \in Nat /\ begin[i] + Len(f[i].path) <= Len(r)
      OBVIOUS
    <3>1. i \in 1..n + 1 /\ i + 1 \in 1..n + 1
      BY <2>1
    <3>2. \A k \in 1..n : begin[k] <= begin[k + 1]
      <4> SUFFICES ASSUME NEW k \in 1..n PROVE begin[k] <= begin[k + 1]
        OBVIOUS
      <4>1. k \in 1..n + 1 /\ k + 1 \in 1..n + 1 /\ k \in 1..Len(f)
        BY <2>1, <2>2
      <4>2. Len(f[k].path) \in Nat
        BY <4>1, HopsAreTyped
      <4>3. begin[k] \in Nat /\ begin[k + 1] = begin[k] + Len(f[k].path)
        BY <2>4, <4>1
      <4>4. PICK a \in Nat, b \in Nat : a = begin[k] /\ b = Len(f[k].path)
        BY <4>2, <4>3
      <4>5. a <= a + b
        OBVIOUS
      <4> QED BY <4>3, <4>4, <4>5
    <3>3. begin[i + 1] <= begin[n + 1]
      <4>1. PICK m \in Nat : m = n + 1 /\ m - 1 = n
        BY <2>1
      <4>2. /\ begin \in [1..m -> Nat] /\ i + 1 \in 1..m
            /\ \A k \in 1..m - 1 : begin[k] <= begin[k + 1]
        BY <3>1, <3>2, <4>1
      <4>3. begin[i + 1] <= begin[m]
        BY ONLY <4>1, <4>2, GrowsToTheEnd
      <4> QED BY <4>1, <4>3
    <3> QED BY <2>4, <3>1, <3>3
  <2>12. ASSUME NEW i \in 1..n + 1
         PROVE  /\ start[i + 1] = start[i] + Len(g[i].path)
                /\ \A j \in 1..Len(g[i].path) :
                     x[start[i] + j] = [dev |-> g[i].dev, elem |-> g[i].path[j]]
    <3>1. CASE i = n + 1
      <4>1. i + 1 = n + 2 /\ start[i] = Len(r) /\ start[i + 1] = Len(x)
        BY <2>1, <2>4, <2>10, <3>1
      <4> QED BY <2>5, <2>9, <3>1, <4>1
    <3>2. CASE i # n + 1
      <4>1. i \in 1..n /\ i + 1 \in 1..n + 1 /\ i \in 1..n + 1
        BY <2>1, <3>2
      <4>2. start[i] = begin[i] /\ start[i + 1] = begin[i + 1] /\ f[i] = g[i]
        BY <2>2, <2>10, <4>1
      <4>3. start[i + 1] = start[i] + Len(g[i].path)
        BY <2>4, <4>1, <4>2
      <4>4. ASSUME NEW j \in 1..Len(g[i].path)
            PROVE  x[start[i] + j] = [dev |-> g[i].dev, elem |-> g[i].path[j]]
        <5>1. Len(g[i].path) \in Nat
          BY <2>2, <4>1, <4>2, HopsAreTyped
        <5>2. begin[i] + j \in 1..Len(r)
          <6>1. begin[i] \in Nat /\ begin[i] + Len(g[i].path) <= Len(r) /\ Len(r) \in Nat
            BY <2>9, <2>11, <4>1, <4>2
          <6> QED BY <5>1, <6>1
        <5>3. x[begin[i] + j] = r[begin[i] + j]
          BY <2>9, <5>2
        <5>4. r[begin[i] + j] = [dev |-> f[i].dev, elem |-> f[i].path[j]]
          <6>1. j \in 1..Len(f[i].path)
            BY <4>2
          <6> QED BY <2>4, <4>1, <6>1
        <5> QED BY <4>2, <5>3, <5>4
      <4> QED BY <4>3, <4>4
    <3> QED BY <3>1, <3>2
  <2>13. start[1] = 0 /\ Len(g) + 1 = n + 2 /\ Len(g) = n + 1
    <3>1. 1 \in 1..n + 1
      BY <2>1
    <3> QED BY <2>1, <2>4, <2>10, <3>1
  <2>14. RunsAlong(x, g)
    <3>1. start \in [1..Len(g) + 1 -> Nat] /\ start[1] = 0 /\ start[Len(g) + 1] = Len(x)
      BY <2>10, <2>13
    <3>2. \A i \in 1..Len(g) :
            /\ start[i + 1] = start[i] + Len(g[i].path)
            /\ \A j \in 1..Len(g[i].path) :
                 x[start[i] + j] = [dev |-> g[i].dev, elem |-> g[i].path[j]]
      BY <2>12, <2>13
    <3> QED BY ONLY <3>1, <3>2, Zenon DEF RunsAlong
  <2> QED BY <2>9, <2>14
<1>3. S \in SUBSET Nat
  OBVIOUS
<1> HIDE DEF S
<1>4. \A n \in Nat : n \in S
  BY <1>1, <1>2, <1>3, SetInduction
<1>5. Len(h) \in S
  BY <1>4
<1> QED BY <1>5 DEF S

\* The prefixes of a path along a route are what flattening the route makes,
\* hop by hop.
LEMMA FlatIsAlong ==
  ASSUME StoreInv, NEW h \in Seq(Hop), h # <<>>, NEW r \in Seq(NamedElem), RunsAlong(r, h)
  PROVE  Flat(h) = r
<1> DEFINE n == Len(h)
           parts == [i \in DOMAIN h |->
                       [j \in DOMAIN h[i].path |-> [dev |-> h[i].dev, elem |-> h[i].path[j]]]]
<1>1. n \in Nat \ {0} /\ n \in 1..n /\ DOMAIN h = 1..n /\ Len(r) \in Nat
  OBVIOUS
<1>2. PICK begin \in [1..n + 1 -> Nat] :
        /\ begin[1] = 0 /\ begin[n + 1] = Len(r)
        /\ \A i \in 1..n :
             /\ begin[i + 1] = begin[i] + Len(h[i].path)
             /\ \A j \in 1..Len(h[i].path) :
                  r[begin[i] + j] = [dev |-> h[i].dev, elem |-> h[i].path[j]]
  BY DEF RunsAlong
<1>3. ASSUME NEW i \in 1..n
      PROVE  /\ i \in 1..n + 1 /\ i + 1 \in 1..n + 1
             /\ begin[i] \in Nat /\ begin[i + 1] \in Nat /\ begin[i] <= begin[i + 1]
             /\ parts[i] \in Seq(NamedElem) /\ begin[i + 1] = begin[i] + Len(parts[i])
             /\ \A j \in 1..Len(parts[i]) : parts[i][j] = r[begin[i] + j]
  <2>1. i \in 1..n + 1 /\ i + 1 \in 1..n + 1
    BY <1>1
  <2>2. PICK d, p : d = h[i].dev /\ p = h[i].path
    OBVIOUS
  <2>3. d \in Devices /\ p \in Seq(Elements) /\ Len(p) \in Nat
    BY <2>2, HopsAreTyped
  <2>4. parts[i] = [j \in 1..Len(p) |-> [dev |-> d, elem |-> p[j]]]
    <3>1. DOMAIN p = 1..Len(p)
      BY <2>3
    <3> QED BY <1>1, <2>2, <3>1
  <2>5. \A j \in 1..Len(p) : [dev |-> d, elem |-> p[j]] \in NamedElem
    <3>1. \A j \in 1..Len(p) : p[j] \in Elements
      BY <2>3
    <3> QED BY <2>3, <3>1 DEF NamedElem
  <2>6. parts[i] \in Seq(NamedElem) /\ Len(parts[i]) = Len(p)
        /\ \A j \in 1..Len(p) : parts[i][j] = [dev |-> d, elem |-> p[j]]
    <3> HIDE DEF parts
    <3> QED BY <2>3, <2>4, <2>5
  <2>7. begin[i] \in Nat /\ begin[i + 1] \in Nat /\ begin[i + 1] = begin[i] + Len(p)
    BY <1>2, <2>1, <2>2
  <2>8. begin[i] <= begin[i + 1]
    BY <2>3, <2>7
  <2>9. \A j \in 1..Len(p) : r[begin[i] + j] = [dev |-> d, elem |-> p[j]]
    BY <1>2, <2>2
  <2> HIDE DEF parts
  <2> QED BY <2>1, <2>6, <2>7, <2>8, <2>9
<1>4. Len(parts) = n
  BY <1>1
<1>5. Flat(h) = FlattenSeq(parts)
  BY DEF Flat
<1> HIDE DEF parts
<1>6. ASSUME NEW i \in 1..n PROVE begin[i + 1] <= Len(r)
  <2>1. PICK m \in Nat : m = n + 1 /\ m - 1 = n
    BY <1>1
  <2>2. /\ begin \in [1..m -> Nat] /\ i + 1 \in 1..m
        /\ \A k \in 1..m - 1 : begin[k] <= begin[k + 1]
    BY <1>3, <2>1
  <2>3. begin[i + 1] <= begin[m]
    BY ONLY <2>1, <2>2, GrowsToTheEnd
  <2> QED BY <1>2, <2>1, <2>3
<1> DEFINE prefixes == [i \in 1..n |-> SubSeq(r, 1, begin[i + 1])]
           IsSolution(f) ==
             f = [i \in 1..n |-> IF i = 1 THEN parts[i] ELSE f[i - 1] \o parts[i]]
<1>7. /\ SubSeq(r, 1, begin[2]) = parts[1]
      /\ \A i \in 1..n : i # 1 => SubSeq(r, 1, begin[i + 1]) = SubSeq(r, 1, begin[i]) \o parts[i]
  <2>1. \A i \in 1..n : SubSeq(r, 1, begin[i + 1]) = SubSeq(r, 1, begin[i]) \o parts[i]
    <3> SUFFICES ASSUME NEW i \in 1..n
                 PROVE  SubSeq(r, 1, begin[i + 1]) = SubSeq(r, 1, begin[i]) \o parts[i]
      OBVIOUS
    <3>1. PICK a, b, p : a = begin[i] /\ b = begin[i + 1] /\ p = parts[i]
      OBVIOUS
    <3>2. PICK E : E = NamedElem
      OBVIOUS
    <3>3. /\ r \in Seq(E) /\ a \in Nat /\ b \in Nat /\ b <= Len(r) /\ p \in Seq(E)
          /\ b = a + Len(p) /\ \A j \in 1..Len(p) : p[j] = r[a + j]
      BY <1>3, <1>6, <3>1, <3>2
    <3>4. SubSeq(r, 1, b) = SubSeq(r, 1, a) \o p
      BY ONLY <3>3, PrefixExtended, SMTT(30)
    <3> QED BY <3>1, <3>4
  <2>2. SubSeq(r, 1, 0) = <<>>
    OBVIOUS
  <2>3. 1 \in 1..n /\ 1 + 1 = 2 /\ begin[1] = 0
    BY <1>1, <1>2
  <2>4. parts[1] \in Seq(NamedElem)
    BY <1>3, <2>3
  <2>5. <<>> \o parts[1] = parts[1]
    BY <2>4
  <2>6. SubSeq(r, 1, begin[2]) = SubSeq(r, 1, 0) \o parts[1]
    BY <2>1, <2>3
  <2> QED BY <2>1, <2>2, <2>5, <2>6
<1>8. \A i \in 1..n : i # 1 => i - 1 \in 1..n /\ (i - 1) + 1 = i
  BY <1>1
<1>9. IsSolution(prefixes)
  <2>1. \A i \in 1..n : SubSeq(r, 1, begin[i + 1])
                          = IF i = 1 THEN parts[i] ELSE prefixes[i - 1] \o parts[i]
    <3>1. ASSUME NEW i \in 1..n, i # 1
          PROVE  SubSeq(r, 1, begin[i + 1]) = prefixes[i - 1] \o parts[i]
      <4>1. PICK k \in 1..n : k = i - 1 /\ k + 1 = i
        BY <1>8, <3>1
      <4>2. prefixes[k] = SubSeq(r, 1, begin[i])
        BY <4>1
      <4> QED BY <1>7, <3>1, <4>1, <4>2
    <3>2. SubSeq(r, 1, begin[1 + 1]) = parts[1]
      BY <1>7
    <3> HIDE DEF prefixes
    <3> QED BY <3>1, <3>2
  <2> QED BY <2>1
<1>10. \E f : IsSolution(f)
  <2> HIDE DEF prefixes, IsSolution
  <2> QED BY <1>9
<1>11. PICK f : IsSolution(f) /\ FlattenSeq(parts) = f[n]
  <2> DEFINE flatten == CHOOSE f : IsSolution(f)
  <2>1. FlattenSeq(parts) = flatten[n]
    BY <1>1, <1>4 DEF FlattenSeq
  <2>2. IsSolution(flatten)
    <3> HIDE DEF IsSolution
    <3> QED BY <1>10, Zenon
  <2> HIDE DEF IsSolution, flatten
  <2> QED BY <2>1, <2>2
<1>12. \A i \in 1..n : f[i] = IF i = 1 THEN parts[i] ELSE f[i - 1] \o parts[i]
  BY <1>11
<1>13. \A i \in 1..n : f[i] = SubSeq(r, 1, begin[i + 1])
  <2> DEFINE S == {i \in Nat : i \in 1..n => f[i] = SubSeq(r, 1, begin[i + 1])}
  <2>1. 0 \in S
    OBVIOUS
  <2>2. ASSUME NEW i \in S PROVE i + 1 \in S
    <3> SUFFICES ASSUME i + 1 \in 1..n PROVE f[i + 1] = SubSeq(r, 1, begin[(i + 1) + 1])
      OBVIOUS
    <3>1. i \in Nat /\ (i # 0 => i \in 1..n /\ i + 1 # 1 /\ (i + 1) - 1 = i)
      BY <1>1
    <3>2. CASE i = 0
      BY <1>7, <1>12, <3>2
    <3>3. CASE i # 0
      <4>1. f[i] = SubSeq(r, 1, begin[i + 1])
        BY <3>1, <3>3
      <4>2. f[i + 1] = f[i] \o parts[i + 1]
        BY <1>12, <3>1, <3>3
      <4>3. SubSeq(r, 1, begin[(i + 1) + 1]) = SubSeq(r, 1, begin[i + 1]) \o parts[i + 1]
        BY <1>7, <3>1, <3>3
      <4> QED BY <4>1, <4>2, <4>3
    <3> QED BY <3>2, <3>3
  <2>3. S \in SUBSET Nat
    OBVIOUS
  <2> HIDE DEF S
  <2>4. \A i \in Nat : i \in S
    BY <2>1, <2>2, <2>3, SetInduction
  <2>5. \A i \in 1..n : i \in S
    BY <2>4
  <2> QED BY <2>5 DEF S
<1>14. f[n] = SubSeq(r, 1, Len(r))
  BY <1>1, <1>2, <1>13
<1>15. SubSeq(r, 1, Len(r)) = r
  OBVIOUS
<1> QED BY <1>5, <1>11, <1>14, <1>15

(***************************************************************************)
(* Theorems                                                                *)
(***************************************************************************)
\* The stack of device names and the path vector belong together at any time
\* of any enumeration, and each route is reported or still to be reported.
THEOREM EnumerationIsOrdered == Spec => []CompoundInv
BY InitCompoundInv, NextKeepsCompoundInv, PTL DEF Spec

\* Each call on the stack is for a device with a model, and only its active
\* paths and connections of the configuration are left to it.
THEOREM TypeCorrect == Spec => []TypeOK
<1>1. CompoundInv => TypeOK
  <2> SUFFICES ASSUME CompoundInv PROVE TypeOK
    OBVIOUS
  <2>1. frames \in Seq(Calls) /\ current \in Seq(PathElem) /\ IsStack(frames, current)
    BY DEF CompoundInv, IsWalk
  <2>2. \A i \in DOMAIN frames : frames[i] \in Calls /\ IsCall(frames, current, i)
    BY <2>1 DEF IsStack
  <2>3. \A i \in DOMAIN current : current[i] \in PathElem
    BY <2>1
  <2>4. \A i \in DOMAIN current : current[i].at \in Nat
    BY <2>3 DEF PathElem
  <2>5. \A i \in DOMAIN frames : /\ frames[i].dev \in modelled
                                 /\ frames[i].left \subseteq active[frames[i].dev]
                                 /\ frames[i].pending \subseteq conns
    BY <2>2 DEF Calls, IsCall
  <2> QED BY <2>4, <2>5 DEF CompoundInv, StoreInv, PhaseInv, TypeOK
<1> QED BY <1>1, EnumerationIsOrdered, PTL

\* A cut leaves what the devices entered before have put into the path vector,
\* and, without fan-out, each element of a path to be reported has a device
\* name: device_name_store_ is indexed within its bounds.
THEOREM ElementsAreNamed == Spec => []PathHasDeviceNames
<1>1. CompoundInv => PathHasDeviceNames
  <2> SUFFICES ASSUME CompoundInv, Walking PROVE
        /\ \A i \in DOMAIN frames : /\ frames[i].length <= Len(current)
                                    /\ i > 1 => frames[i - 1].length < frames[i].length
        /\ top.onPath /\ top.pending = {} /\ ~top.hasConnectedDevice /\ ~FanOut =>
             \A i \in DOMAIN current : current[i].at \in DOMAIN frames
    BY DEF PathHasDeviceNames
  <2>1. frames \in Seq(Calls) /\ current \in Seq(PathElem) /\ IsStack(frames, current)
        /\ frames # <<>>
    BY DEF CompoundInv, IsWalk, Walking
  <2>2. DOMAIN frames = 1..Len(frames) /\ DOMAIN current = 1..Len(current) /\ Len(frames) \in Nat
    BY <2>1
  <2>3. \A i \in 1..Len(frames) : i > 1 => i - 1 \in 1..Len(frames) /\ i - 1 < i
    BY <2>2
  <2>4. \A i \in DOMAIN frames : /\ frames[i].length <= Len(current)
                                 /\ i > 1 => frames[i - 1].length < frames[i].length
    BY <2>1, <2>2, <2>3 DEF IsStack, IsCall
  <2>5. ASSUME top.onPath, ~top.hasConnectedDevice, ~FanOut
        PROVE  \A i \in DOMAIN current : current[i].at \in DOMAIN frames
    <3>1. IsNamed(frames, current)
      BY <2>5 DEF CompoundInv, IsWalk, FollowsRoute
    <3> QED BY <2>1, <2>2, <2>5, <3>1 DEF IsNamed, top
  <2> QED BY <2>4, <2>5
<1> QED BY <1>1, EnumerationIsOrdered, PTL

\* Whatever the callback gets ends where a route ends and, without fan-out,
\* runs along the route element by element.
ReportsAreRoutes == \A r \in reported : \E h : IsRoute(h) /\ Reports(r, h)

THEOREM OnlyRoutesAreReported == Spec => []ReportsAreRoutes
<1>1. CompoundInv => ReportsAreRoutes
  BY DEF CompoundInv, IsWalk, ReportsAreRoutes
<1> QED BY <1>1, EnumerationIsOrdered, PTL

\* No route is missed by an enumeration that has come to its end.
RoutesAreReported ==
  phase = "done" => \A h : IsRoute(h) => \E r \in reported : Reports(r, h)

LEMMA DoneIsComplete == CompoundInv => RoutesAreReported
<1> SUFFICES ASSUME CompoundInv, phase = "done", NEW h, IsRoute(h)
             PROVE  \E r \in reported : Reports(r, h)
  BY DEF RoutesAreReported
<1>1. frames = <<>> /\ IsComplete(frames, current, reported)
  BY DEF CompoundInv, PhaseInv
<1>2. ~IsToDo(frames, current, h)
  <2>1. Len(frames) = 0
    BY <1>1
  <2> QED BY <2>1 DEF IsToDo
<1> QED BY <1>1, <1>2 DEF IsComplete

THEOREM AllRoutesAreReported == Spec => []RoutesAreReported
BY DoneIsComplete, EnumerationIsOrdered, PTL

(***************************************************************************)
(* The same as the runs check it, with the routes enumerated: this needs   *)
(* that there are finitely many devices, and that each connection leads to *)
(* a device of higher rank, which is to say that connections form no cycle *)
(* (enumerate_compound_signal_paths() does not look for any).              *)
(***************************************************************************)
\* Without fan-out, a finished enumeration has reported exactly the paths
\* along the active paths and connections from the root to a sink which is
\* connected to nothing.
THEOREM RoutesAreEnumerated ==
  ASSUME IsFiniteSet(Devices), NEW rank \in [Devices -> Nat],
         \A c \in Connections : rank[c.from] < rank[c.to]
  PROVE  Spec => []EnumerationIsExact
<1>1. CompoundInv => EnumerationIsExact
  <2> SUFFICES ASSUME CompoundInv, phase = "done", ~FanOut PROVE reported = CompoundPaths
    BY DEF EnumerationIsExact
  <2>1. StoreInv /\ ReportsAreRoutes /\ RoutesAreReported
    BY DoneIsComplete DEF CompoundInv, IsWalk, ReportsAreRoutes
  <2>2. ASSUME NEW r, NEW h, IsRoute(h), Reports(r, h) PROVE Flat(h) = r
    <3>1. h \in Seq(Hop) /\ h # <<>> /\ r \in Seq(NamedElem) /\ RunsAlong(r, h)
      BY <2>2 DEF IsRoute, Reports
    <3> QED BY <2>1, <3>1, FlatIsAlong
  <2>3. CompoundPaths = {Flat(h) : h \in {g \in Routes : IsRoute(g)}}
    BY <2>1, RoutesEnumerated DEF CompoundPaths
  <2>4. ASSUME NEW r \in reported PROVE r \in CompoundPaths
    <3>1. PICK h : IsRoute(h) /\ Reports(r, h)
      BY <2>1 DEF ReportsAreRoutes
    <3>2. h \in Routes /\ Flat(h) = r
      BY <2>1, <2>2, <3>1, RoutesEnumerated
    <3> QED BY <2>3, <3>1, <3>2
  <2>5. ASSUME NEW r \in CompoundPaths PROVE r \in reported
    <3>1. PICK h : IsRoute(h) /\ r = Flat(h)
      BY <2>3
    <3>2. PICK x \in reported : Reports(x, h)
      BY <2>1, <3>1 DEF RoutesAreReported
    <3> QED BY <2>2, <3>1, <3>2
  <2> QED BY <2>4, <2>5
<1> QED BY <1>1, EnumerationIsOrdered, PTL

\* In any case, a finished enumeration has reported the sinks at which such
\* paths end, and no others.
THEOREM SinksAreReported ==
  ASSUME IsFiniteSet(Devices), NEW rank \in [Devices -> Nat],
         \A c \in Connections : rank[c.from] < rank[c.to]
  PROVE  Spec => []ReachedSinksAreReported
<1>1. CompoundInv => ReachedSinksAreReported
  <2> SUFFICES ASSUME CompoundInv, phase = "done"
               PROVE  {Last(r) : r \in reported} = {Last(r) : r \in CompoundPaths}
    BY DEF ReachedSinksAreReported
  <2>1. StoreInv /\ ReportsAreRoutes /\ RoutesAreReported
    BY DoneIsComplete DEF CompoundInv, IsWalk, ReportsAreRoutes
  <2>2. ASSUME NEW h, IsRoute(h)
        PROVE  Last(Flat(h)) = [dev |-> h[Len(h)].dev, elem |-> Last(h[Len(h)].path)]
    <3>1. h \in Seq(Hop) /\ h # <<>>
      BY <2>2 DEF IsRoute
    <3>2. PICK r \in Seq(NamedElem) : RunsAlong(r, h)
      BY <2>1, <3>1, PathAlong
    <3>3. Flat(h) = r
      BY <2>1, <3>1, <3>2, FlatIsAlong
    <3> QED BY <2>1, <3>1, <3>2, <3>3, LastAlong
  <2>3. CompoundPaths = {Flat(h) : h \in {g \in Routes : IsRoute(g)}}
    BY <2>1, RoutesEnumerated DEF CompoundPaths
  <2>4. ASSUME NEW r \in reported PROVE \E x \in CompoundPaths : Last(r) = Last(x)
    <3>1. PICK h : IsRoute(h) /\ Reports(r, h)
      BY <2>1 DEF ReportsAreRoutes
    <3>2. h \in Routes /\ Last(r) = Last(Flat(h))
      BY <2>1, <2>2, <3>1, RoutesEnumerated DEF Reports
    <3> QED BY <2>3, <3>1, <3>2
  <2>5. ASSUME NEW x \in CompoundPaths PROVE \E r \in reported : Last(x) = Last(r)
    <3>1. PICK h : IsRoute(h) /\ x = Flat(h)
      BY <2>3
    <3>2. PICK r \in reported : Reports(r, h)
      BY <2>1, <3>1 DEF RoutesAreReported
    <3> QED BY <2>2, <3>1, <3>2 DEF Reports
  <2> QED BY <2>4, <2>5
<1> QED BY <1>1, EnumerationIsOrdered, PTL

\* While connections form no cycle, no device is entered from within itself,
\* so that the recursion of enumerate_compound_signal_paths() has an end.
THEOREM RecursionIsBounded ==
  ASSUME NEW rank \in [Devices -> Nat],
         \A c \in Connections : rank[c.from] < rank[c.to]
  PROVE  Spec => []DevicesAreEnteredOnce
<1>1. CompoundInv => DevicesAreEnteredOnce
  <2> SUFFICES ASSUME CompoundInv, NEW i \in 1..Len(frames), NEW j \in 1..Len(frames), i # j
               PROVE  frames[i].dev # frames[j].dev
    <3>1. CompoundInv => DOMAIN frames = 1..Len(frames)
      BY DEF CompoundInv, IsWalk
    <3> QED BY <3>1 DEF DevicesAreEnteredOnce
  <2>1. /\ frames[i].dev \in Devices /\ frames[j].dev \in Devices
        /\ i \in 1..j - 1 => rank[frames[i].dev] < rank[frames[j].dev]
        /\ j \in 1..i - 1 => rank[frames[j].dev] < rank[frames[i].dev]
    BY CallsAreForDevicesOfGrowingRank
  <2>2. i \in 1..j - 1 \/ j \in 1..i - 1
    OBVIOUS
  <2>3. rank[frames[i].dev] \in Nat /\ rank[frames[j].dev] \in Nat
    BY <2>1
  <2> QED BY <2>1, <2>2, <2>3
<1> QED BY <1>1, EnumerationIsOrdered, PTL
=============================================================================
