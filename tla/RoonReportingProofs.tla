-------------------------- MODULE RoonReportingProofs --------------------------
(***************************************************************************)
(* Proofs about reporting to Roon clients, for any set of clients, any     *)
(* paths, and any number of messages under way: registration works as      *)
(* specified in MonitorManager, whose theorems then hold here, too, and no *)
(* registered client believes in a path that is not active.                *)
(*                                                                         *)
(* What counts for a client is not what it knows by now, but what it will  *)
(* know when it has read its messages.                                     *)
(***************************************************************************)
EXTENDS RoonReporting, SequenceTheorems, TLAPS

Monitor == INSTANCE MonitorManagerProofs

Letters == [type: {"Signal", "Register", "Unregister", "Get"}, report: Reports]

\* The call a waiting client waits for.
CallOf == [joining |-> "Register", asked |-> "Get", leaving |-> "Unregister"]

IsReply(m) == m.type # "Signal"

(***************************************************************************)
(* The inductive invariant                                                 *)
(***************************************************************************)
\* A living client c has one call under way, in b, or one reply in its inbox q
\* when it waits, and none at all otherwise; ph is its phase.
OneCallAtATime(b, q, ph, c) ==
  /\ \A i \in 1..Len(b) : b[i].from = c =>
       /\ ph \in Waiting /\ b[i].type = CallOf[ph]
       /\ \A j \in 1..Len(b) : b[j].from = c => j = i
       /\ \A j \in 1..Len(q) : ~IsReply(q[j])
  /\ \A i \in 1..Len(q) : IsReply(q[i]) =>
       /\ ph \in Waiting /\ q[i].type = CallOf[ph]
       /\ \A j \in 1..Len(q) : IsReply(q[j]) => j = i

\* Who was told to be registered, or is about to be told, is registered.
IsAccepted(q, ph) ==
  ph \in Joined \/ (ph = "joining" /\ \E i \in 1..Len(q) : IsReply(q[i]))

ProtocolInv ==
  \A c \in alive :
    /\ phase[c] # "out" => Roon \in exported
    /\ OneCallAtATime(bus, inbox[c], phase[c], c)
    /\ IsAccepted(inbox[c], phase[c]) => c \in registered[Roon]

\* Whether a client in phase ph is going to learn a path from message i of its
\* inbox q, and what it believes when it has read them all; v is its view.
Counts(q, ph, i) ==
  \/ q[i].type = "Signal" /\ ph \in Joined
  \/ /\ q[i].type = "Signal" /\ ph = "joining"
     /\ \E j \in 1..Len(q) : j < i /\ q[j].type = "Register"
  \/ q[i].type = "Get" /\ q[i].report # Empty

Believes(q, ph, v, r) ==
  \/ \E i \in 1..Len(q) :
       /\ Counts(q, ph, i) /\ q[i].report = r
       /\ \A j \in 1..Len(q) : Counts(q, ph, j) => j <= i
  \/ v = r /\ \A i \in 1..Len(q) : ~Counts(q, ph, i)

\* A path that a client believes in is the active one and the one that was
\* reported last.  When the store was cleared, it is the one that was reported
\* last, unless another client was told that there is none.  Nothing can be said
\* when nobody noticed that the path was changed.
IsSound(r) ==
  \/ unnoticed
  \/ IF stale THEN previous \in {r, Empty}
              ELSE previous = r /\ r = AsReport(path)

BeliefInv ==
  /\ stale => path = NoPath
  /\ \A c \in alive : phase[c] \notin Joined => view[c] = Unknown
  /\ \A c \in alive : \A r \in Reports :
       Believes(inbox[c], phase[c], view[c], r) => IsSound(r)

ReportingInv ==
  /\ Monitor!MonitorInv
  /\ TypeOK
  /\ ProtocolInv
  /\ BeliefInv

(***************************************************************************)
(* Queues                                                                  *)
(***************************************************************************)
LEMMA Appended ==
  ASSUME NEW S, NEW s \in Seq(S), NEW e \in S
  PROVE  /\ Append(s, e) \in Seq(S)
         /\ Len(s) \in Nat
         /\ Len(Append(s, e)) = Len(s) + 1
         /\ Append(s, e)[Len(s) + 1] = e
         /\ \A i \in 1..Len(s) : Append(s, e)[i] = s[i]
         /\ \A i \in 1..Len(Append(s, e)) : i \in 1..Len(s) \/ i = Len(s) + 1
OBVIOUS

LEMMA Shifted ==
  ASSUME NEW S, NEW s \in Seq(S), s # <<>>
  PROVE  /\ Tail(s) \in Seq(S)
         /\ Len(s) \in Nat \ {0}
         /\ Len(Tail(s)) = Len(s) - 1
         /\ Head(s) = s[1] /\ Head(s) \in S
         /\ \A i \in 1..Len(Tail(s)) : i + 1 \in 1..Len(s) /\ Tail(s)[i] = s[i + 1]
         /\ \A i \in 1..Len(s) : i = 1 \/ (i - 1 \in 1..Len(Tail(s)) /\ Tail(s)[i - 1] = s[i])
OBVIOUS

(***************************************************************************)
(* One call at a time                                                      *)
(***************************************************************************)
\* A call is made by a client that does not wait.
LEMMA CallMade ==
  ASSUME NEW b \in Seq(Monitor!Message), NEW m \in Monitor!Message, NEW q \in Seq(Letters),
         NEW ph, NEW ph2 \in Waiting, NEW c,
         OneCallAtATime(b, q, ph, c), ph \notin Waiting, m.type = CallOf[ph2]
  PROVE  OneCallAtATime(Append(b, m), q, ph2, c)
<1>1. /\ \A i \in 1..Len(b) : b[i].from # c
      /\ \A j \in 1..Len(q) : ~IsReply(q[j])
  BY DEF OneCallAtATime
<1> QED BY <1>1, Appended DEF OneCallAtATime

\* Others may send what they like.
LEMMA OtherCallMade ==
  ASSUME NEW b \in Seq(Monitor!Message), NEW m \in Monitor!Message, NEW q \in Seq(Letters),
         NEW ph, NEW c, OneCallAtATime(b, q, ph, c), m.from # c
  PROVE  OneCallAtATime(Append(b, m), q, ph, c)
<1> DEFINE x == Append(b, m)
<1>1. /\ Len(b) \in Nat /\ Len(x) = Len(b) + 1 /\ x[Len(b) + 1] = m
      /\ \A i \in 1..Len(b) : x[i] = b[i]
      /\ \A i \in 1..Len(x) : i \in 1..Len(b) \/ i = Len(b) + 1
  BY Appended
<1> HIDE DEF x
<1>2. \A i \in 1..Len(x) : x[i].from = c => i \in 1..Len(b) /\ x[i] = b[i]
  BY <1>1
<1>3. OneCallAtATime(x, q, ph, c)
  BY <1>2 DEF OneCallAtATime
<1> QED BY <1>3 DEF x

\* A call that was taken from the queue is no longer under way.
LEMMA CallTaken ==
  ASSUME NEW b \in Seq(Monitor!Message), b # <<>>, NEW q \in Seq(Letters),
         NEW ph, NEW c, OneCallAtATime(b, q, ph, c)
  PROVE  OneCallAtATime(Tail(b), q, ph, c)
<1> DEFINE x == Tail(b)
<1>1. /\ Len(b) \in Nat /\ Len(x) \in Nat
      /\ \A i \in 1..Len(x) : i + 1 \in 1..Len(b) /\ x[i] = b[i + 1]
  BY Shifted
<1> HIDE DEF x
<1>2. ASSUME NEW i \in 1..Len(x), x[i].from = c
      PROVE  /\ ph \in Waiting /\ x[i].type = CallOf[ph]
             /\ \A j \in 1..Len(x) : x[j].from = c => j = i
             /\ \A j \in 1..Len(q) : ~IsReply(q[j])
  <2>1. i + 1 \in 1..Len(b) /\ b[i + 1].from = c /\ x[i] = b[i + 1]
    BY <1>1, <1>2
  <2>2. /\ ph \in Waiting /\ b[i + 1].type = CallOf[ph]
        /\ \A j \in 1..Len(b) : b[j].from = c => j = i + 1
        /\ \A j \in 1..Len(q) : ~IsReply(q[j])
    BY <2>1 DEF OneCallAtATime
  <2>3. ASSUME NEW j \in 1..Len(x), x[j].from = c PROVE j = i
    <3>1. j + 1 \in 1..Len(b) /\ b[j + 1].from = c
      BY <1>1, <2>3
    <3>2. j + 1 = i + 1
      BY <2>2, <3>1
    <3> QED BY <3>2
  <2> QED BY <2>1, <2>2, <2>3
<1>3. OneCallAtATime(x, q, ph, c)
  BY <1>2 DEF OneCallAtATime
<1> QED BY <1>3 DEF x

\* It may be replaced by its reply.
LEMMA CallAnswered ==
  ASSUME NEW b \in Seq(Monitor!Message), b # <<>>, NEW q \in Seq(Letters), NEW m \in Letters,
         NEW ph, NEW c, OneCallAtATime(b, q, ph, c),
         Head(b).from = c, m.type = Head(b).type
  PROVE  OneCallAtATime(Tail(b), Append(q, m), ph, c)
<1> DEFINE x == Tail(b)
           y == Append(q, m)
<1>1. /\ Len(b) \in Nat \ {0} /\ Len(x) \in Nat /\ Head(b) = b[1] /\ 1 \in 1..Len(b)
      /\ \A i \in 1..Len(x) : i + 1 \in 1..Len(b) /\ i + 1 # 1 /\ x[i] = b[i + 1]
  BY Shifted
<1>2. /\ Len(q) \in Nat /\ Len(y) = Len(q) + 1 /\ y[Len(q) + 1] = m
      /\ \A i \in 1..Len(q) : y[i] = q[i]
      /\ \A i \in 1..Len(y) : i \in 1..Len(q) \/ i = Len(q) + 1
  BY Appended
<1> HIDE DEF x, y
<1>3. /\ ph \in Waiting /\ m.type = CallOf[ph]
      /\ \A j \in 1..Len(b) : b[j].from = c => j = 1
      /\ \A j \in 1..Len(q) : ~IsReply(q[j])
  BY <1>1 DEF OneCallAtATime
<1>4. \A i \in 1..Len(x) : x[i].from # c
  BY <1>1, <1>3
<1>5. \A i \in 1..Len(y) : IsReply(y[i]) => y[i] = m /\ i = Len(q) + 1
  BY <1>2, <1>3
<1>6. OneCallAtATime(x, y, ph, c)
  BY <1>3, <1>4, <1>5 DEF OneCallAtATime
<1> QED BY <1>6 DEF x, y

\* Signals are no replies.
LEMMA SignalSent ==
  ASSUME NEW b, NEW q \in Seq(Letters), NEW m \in Letters, m.type = "Signal",
         NEW ph, NEW c, OneCallAtATime(b, q, ph, c)
  PROVE  OneCallAtATime(b, Append(q, m), ph, c)
<1> DEFINE y == Append(q, m)
<1>1. /\ Len(q) \in Nat /\ Len(y) = Len(q) + 1 /\ y[Len(q) + 1] = m
      /\ \A i \in 1..Len(q) : y[i] = q[i]
      /\ \A i \in 1..Len(y) : i \in 1..Len(q) \/ i = Len(q) + 1
  BY Appended
<1> HIDE DEF y
<1>2. \A i \in 1..Len(y) : IsReply(y[i]) => i \in 1..Len(q) /\ y[i] = q[i]
  BY <1>1 DEF IsReply
<1>3. OneCallAtATime(b, y, ph, c)
  BY <1>2 DEF OneCallAtATime
<1> QED BY <1>3 DEF y

\* A client stops to wait when it reads the reply.
LEMMA LetterRead ==
  ASSUME NEW b, NEW q \in Seq(Letters), q # <<>>, NEW ph, NEW ph2, NEW c,
         OneCallAtATime(b, q, ph, c), ~IsReply(Head(q)) => ph2 = ph
  PROVE  OneCallAtATime(b, Tail(q), ph2, c)
<1> DEFINE y == Tail(q)
<1>1. /\ Len(q) \in Nat \ {0} /\ Len(y) \in Nat /\ Head(q) = q[1] /\ 1 \in 1..Len(q)
      /\ \A i \in 1..Len(y) : i + 1 \in 1..Len(q) /\ i + 1 # 1 /\ y[i] = q[i + 1]
  BY Shifted
<1> HIDE DEF y
<1>2. CASE IsReply(Head(q))
  <2>1. \A j \in 1..Len(q) : IsReply(q[j]) => j = 1
    BY <1>1, <1>2 DEF OneCallAtATime
  <2>2. \A i \in 1..Len(y) : ~IsReply(y[i])
    BY <1>1, <2>1
  <2>3. \A i \in 1..Len(b) : b[i].from # c
    BY <1>1, <1>2 DEF OneCallAtATime
  <2>4. OneCallAtATime(b, y, ph2, c)
    BY <2>2, <2>3 DEF OneCallAtATime
  <2> QED BY <2>4 DEF y
<1>3. CASE ~IsReply(Head(q))
  <2>1. \A i \in 1..Len(b) : b[i].from = c =>
          /\ ph2 \in Waiting /\ b[i].type = CallOf[ph2]
          /\ \A j \in 1..Len(b) : b[j].from = c => j = i
          /\ \A j \in 1..Len(y) : ~IsReply(y[j])
    BY <1>1, <1>3 DEF OneCallAtATime
  <2>2. ASSUME NEW i \in 1..Len(y), IsReply(y[i])
        PROVE  /\ ph2 \in Waiting /\ y[i].type = CallOf[ph2]
               /\ \A j \in 1..Len(y) : IsReply(y[j]) => j = i
    BY <1>1, <1>3, <2>2 DEF OneCallAtATime
  <2>3. OneCallAtATime(b, y, ph2, c)
    BY <2>1, <2>2 DEF OneCallAtATime
  <2> QED BY <2>3 DEF y
<1> QED BY <1>2, <1>3
(***************************************************************************)
(* Beliefs                                                                 *)
(***************************************************************************)
\* A new message decides if it counts, and changes nothing otherwise.
LEMMA BeliefGrows ==
  ASSUME NEW q \in Seq(Letters), NEW m \in Letters, NEW ph, NEW v, NEW r,
         Believes(Append(q, m), ph, v, r)
  PROVE  IF Counts(Append(q, m), ph, Len(q) + 1) THEN r = m.report
                                                 ELSE Believes(q, ph, v, r)
<1> DEFINE y == Append(q, m)
           n == Len(q) + 1
<1>1. /\ Len(q) \in Nat /\ Len(y) = n /\ n \in 1..Len(y) /\ y[n] = m
      /\ \A i \in 1..Len(q) : y[i] = q[i] /\ i \in 1..Len(y) /\ i < n
      /\ \A i \in 1..Len(y) : i \in 1..Len(q) \/ i = n
  BY Appended
<1>2. Believes(y, ph, v, r)
  OBVIOUS
<1> HIDE DEF y, n
<1>3. ASSUME NEW i \in 1..Len(q)
      PROVE  Counts(y, ph, i) <=> Counts(q, ph, i)
  <2>1. ASSUME NEW j \in 1..Len(y), j < i
        PROVE  j \in 1..Len(q)
    BY <1>1, <2>1
  <2> QED BY <1>1, <2>1 DEF Counts
<1>4. CASE Counts(y, ph, n)
  <2>1. \A i \in 1..Len(y) : (\A j \in 1..Len(y) : Counts(y, ph, j) => j <= i) => i = n
    BY <1>1, <1>4
  <2>2. r = m.report
    BY <1>1, <1>2, <1>4, <2>1 DEF Believes
  <2> QED BY <1>4, <2>2 DEF y, n
<1>5. CASE ~Counts(y, ph, n)
  <2> SUFFICES Believes(q, ph, v, r)
    BY <1>5 DEF y, n
  <2>1. CASE v = r /\ \A i \in 1..Len(y) : ~Counts(y, ph, i)
    BY <1>1, <1>3, <2>1 DEF Believes
  <2>2. CASE \E i \in 1..Len(y) : /\ Counts(y, ph, i) /\ y[i].report = r
                                 /\ \A j \in 1..Len(y) : Counts(y, ph, j) => j <= i
    <3>1. PICK i \in 1..Len(y) : /\ Counts(y, ph, i) /\ y[i].report = r
                                 /\ \A j \in 1..Len(y) : Counts(y, ph, j) => j <= i
      BY <2>2
    <3>2. i \in 1..Len(q)
      BY <1>1, <1>5, <3>1
    <3>3. Counts(q, ph, i) /\ q[i].report = r
      BY <1>1, <1>3, <3>1, <3>2
    <3>4. \A j \in 1..Len(q) : Counts(q, ph, j) => j <= i
      BY <1>1, <1>3, <3>1
    <3> QED BY <3>2, <3>3, <3>4 DEF Believes
  <2> QED BY <1>2, <2>1, <2>2 DEF Believes
<1> QED BY <1>4, <1>5

\* What a client reads becomes its view if it counts; beliefs stay the same.
LEMMA BeliefShifts ==
  ASSUME NEW q \in Seq(Letters), q # <<>>, NEW b, NEW c, NEW ph, NEW ph2, NEW v, NEW v2, NEW r,
         OneCallAtATime(b, q, ph, c),
         ph2 = CASE Head(q).type = "Register"   -> "joined"
                 [] Head(q).type = "Get"        -> "ready"
                 [] Head(q).type = "Unregister" -> "out"
                 [] Head(q).type = "Signal"     -> ph,
         v2 = IF \/ Head(q).type = "Signal" /\ ph \in Joined
                 \/ Head(q).type = "Get" /\ Head(q).report # Empty
              THEN Head(q).report ELSE v,
         Believes(Tail(q), ph2, v2, r)
  PROVE  Believes(q, ph, v, r)
<1> DEFINE y == Tail(q)
<1>1. /\ Len(q) \in Nat \ {0} /\ Len(y) = Len(q) - 1 /\ Head(q) = q[1] /\ q[1] \in Letters
      /\ 1 \in 1..Len(q)
      /\ \A i \in 1..Len(y) : i + 1 \in 1..Len(q) /\ y[i] = q[i + 1] /\ 1 < i + 1
      /\ \A i \in 1..Len(q) : i = 1 \/ (i - 1 \in 1..Len(y) /\ (i - 1) + 1 = i)
  BY Shifted
<1>2. Believes(y, ph2, v2, r)
  OBVIOUS
<1> HIDE DEF y
<1>3. /\ ~\E j \in 1..Len(q) : j < 1 /\ q[j].type = "Register"
      /\ v2 = IF Counts(q, ph, 1) THEN q[1].report ELSE v
  BY <1>1 DEF Counts
<1>4. ASSUME NEW i \in 1..Len(y)
      PROVE  Counts(y, ph2, i) <=> Counts(q, ph, i + 1)
  <2>1. y[i] = q[i + 1] /\ i + 1 \in 1..Len(q) /\ 1 < i + 1
    BY <1>1
  <2>2. (\E j \in 1..Len(q) : j < i + 1 /\ q[j].type = "Register")
          <=> \/ q[1].type = "Register"
              \/ \E j \in 1..Len(y) : j < i /\ y[j].type = "Register"
    <3>1. ASSUME NEW j \in 1..Len(q), j < i + 1, q[j].type = "Register"
          PROVE  \/ q[1].type = "Register"
                 \/ \E k \in 1..Len(y) : k < i /\ y[k].type = "Register"
      <4>1. CASE j = 1
        BY <3>1, <4>1
      <4>2. CASE j # 1
        <5>1. j - 1 \in 1..Len(y) /\ j - 1 < i /\ y[j - 1] = q[j]
          BY <1>1, <3>1, <4>2
        <5> QED BY <3>1, <5>1
      <4> QED BY <4>1, <4>2
    <3>2. ASSUME NEW k \in 1..Len(y), k < i, y[k].type = "Register"
          PROVE  \E j \in 1..Len(q) : j < i + 1 /\ q[j].type = "Register"
      <4>1. k + 1 \in 1..Len(q) /\ k + 1 < i + 1 /\ q[k + 1].type = "Register"
        BY <1>1, <3>2
      <4> QED BY <4>1
    <3>3. q[1].type = "Register" => \E j \in 1..Len(q) : j < i + 1 /\ q[j].type = "Register"
      BY <1>1, <2>1
    <3> QED BY <3>1, <3>2, <3>3
  <2>3. CASE q[1].type = "Signal"
    BY <1>1, <2>1, <2>2, <2>3 DEF Counts
  <2>4. CASE q[1].type # "Signal"
    <3>1. ph = CASE q[1].type = "Register"   -> "joining"
                 [] q[1].type = "Get"        -> "asked"
                 [] q[1].type = "Unregister" -> "leaving"
      BY <1>1, <2>4 DEF OneCallAtATime, IsReply, CallOf, Waiting, Letters
    <3>2. \/ q[1].type = "Register" /\ ph = "joining" /\ ph2 = "joined"
          \/ q[1].type = "Get" /\ ph = "asked" /\ ph2 = "ready"
          \/ q[1].type = "Unregister" /\ ph = "leaving" /\ ph2 = "out"
      BY <1>1, <2>4, <3>1 DEF Letters
    <3> QED BY <2>1, <2>2, <3>2 DEF Counts, Joined
  <2> QED BY <2>3, <2>4
<1>5. CASE \E i \in 1..Len(y) : /\ Counts(y, ph2, i) /\ y[i].report = r
                               /\ \A j \in 1..Len(y) : Counts(y, ph2, j) => j <= i
  <2>1. PICK i \in 1..Len(y) : /\ Counts(y, ph2, i) /\ y[i].report = r
                               /\ \A j \in 1..Len(y) : Counts(y, ph2, j) => j <= i
    BY <1>5
  <2>2. i + 1 \in 1..Len(q) /\ Counts(q, ph, i + 1) /\ q[i + 1].report = r
    BY <1>1, <1>4, <2>1
  <2>3. ASSUME NEW j \in 1..Len(q), Counts(q, ph, j)
        PROVE  j <= i + 1
    <3>1. CASE j = 1
      BY <1>1, <2>2, <3>1
    <3>2. CASE j # 1
      <4>1. j - 1 \in 1..Len(y) /\ (j - 1) + 1 = j
        BY <1>1, <3>2
      <4>2. j - 1 <= i
        BY <1>4, <2>1, <2>3, <4>1
      <4> QED BY <1>1, <2>2, <4>1, <4>2
    <3> QED BY <3>1, <3>2
  <2> QED BY <2>2, <2>3 DEF Believes
<1>6. CASE v2 = r /\ \A i \in 1..Len(y) : ~Counts(y, ph2, i)
  <2>1. ASSUME NEW i \in 1..Len(q), Counts(q, ph, i)
        PROVE  i = 1
    <3>1. i # 1 => i - 1 \in 1..Len(y) /\ Counts(q, ph, (i - 1) + 1)
      BY <1>1, <2>1
    <3> QED BY <1>4, <1>6, <3>1
  <2>2. CASE Counts(q, ph, 1)
    BY <1>1, <1>3, <1>6, <2>1, <2>2 DEF Believes
  <2>3. CASE ~Counts(q, ph, 1)
    BY <1>1, <1>3, <1>6, <2>1, <2>3 DEF Believes
  <2> QED BY <2>2, <2>3
<1> QED BY <1>2, <1>5, <1>6 DEF Believes

\* Only those who were accepted believe in anything.
LEMMA BelieversAreAccepted ==
  ASSUME NEW q \in Seq(Letters), NEW b, NEW c, NEW ph, NEW v, NEW r \in Reports,
         OneCallAtATime(b, q, ph, c), ph \notin Joined => v = Unknown,
         Believes(q, ph, v, r)
  PROVE  IsAccepted(q, ph)
<1>1. Unknown \notin Reports
  BY RoonAssumption DEF Reports
<1>2. CASE v = r
  BY <1>1, <1>2 DEF IsAccepted
<1>3. CASE \E i \in 1..Len(q) : Counts(q, ph, i)
  <2>1. PICK i \in 1..Len(q) : Counts(q, ph, i)
    BY <1>3
  <2>2. CASE q[i].type = "Signal"
    BY <2>1, <2>2 DEF Counts, IsAccepted, IsReply
  <2>3. CASE q[i].type = "Get"
    <3>1. IsReply(q[i]) /\ ph \in Waiting /\ CallOf[ph] = "Get"
      BY <2>3 DEF OneCallAtATime, IsReply
    <3>2. ph = "asked"
      BY <3>1 DEF CallOf, Waiting
    <3> QED BY <3>2 DEF IsAccepted, Joined
  <2> QED BY <2>1, <2>2, <2>3 DEF Counts
<1> QED BY <1>2, <1>3 DEF Believes

\* A signal counts for all who were accepted.
LEMMA SignalCounts ==
  ASSUME NEW q \in Seq(Letters), NEW b, NEW c, NEW ph, NEW m \in Letters, m.type = "Signal",
         OneCallAtATime(b, q, ph, c), IsAccepted(q, ph)
  PROVE  Counts(Append(q, m), ph, Len(q) + 1)
<1> DEFINE y == Append(q, m)
           n == Len(q) + 1
<1>1. /\ Len(q) \in Nat /\ Len(y) = n /\ y[n] = m
      /\ \A i \in 1..Len(q) : y[i] = q[i] /\ i \in 1..Len(y) /\ i < n
  BY Appended
<1> HIDE DEF y, n
<1>2. ASSUME ph = "joining", NEW i \in 1..Len(q), IsReply(q[i])
      PROVE  q[i].type = "Register"
  BY <1>2 DEF OneCallAtATime, CallOf
<1>3. Counts(y, ph, n)
  BY <1>1, <1>2 DEF IsAccepted, Counts
<1> QED BY <1>3 DEF y, n

\* Replies to registrations do not.
LEMMA RegistrationDoesNotCount ==
  ASSUME NEW q \in Seq(Letters), NEW ph, NEW m \in Letters,
         m.type \notin {"Signal", "Get"}
  PROVE  ~Counts(Append(q, m), ph, Len(q) + 1)
BY Appended DEF Counts

\* Who does not wait, and is not registered either, believes in nothing.
LEMMA OutsidersBelieveNothing ==
  ASSUME NEW q \in Seq(Letters), NEW b, NEW c, NEW ph, NEW ph2, NEW r \in Reports,
         OneCallAtATime(b, q, ph, c), ph \notin Waiting, ph2 \notin Joined
  PROVE  ~Believes(q, ph2, Unknown, r)
<1>1. \A i \in 1..Len(q) : q[i].type = "Signal"
  BY DEF OneCallAtATime, IsReply
<1>2. \A i \in 1..Len(q) : ~Counts(q, ph2, i)
  BY <1>1 DEF Counts
<1>3. Unknown # r
  BY RoonAssumption DEF Reports
<1> QED BY <1>2, <1>3 DEF Believes
(***************************************************************************)
(* Registration is that of MonitorManager                                  *)
(***************************************************************************)
LEMMA MonitorAssumptionHolds == Monitor!MonitorAssumption
<1>1. Monitor!IsFiniteSet(Objects)
  <2>1. /\ <<Roon>> \in Seq(Objects)
        /\ \A s \in Objects : \E n \in 1..Len(<<Roon>>) : <<Roon>>[n] = s
    BY DEF Objects
  <2> QED BY <2>1 DEF Monitor!IsFiniteSet
<1> QED BY <1>1, RoonAssumption DEF Monitor!MonitorAssumption

LEMMA SameActions == Monitor!Next <=> Registration!Next
BY DEF Monitor!Next, Registration!Next, Monitor!Export, Registration!Export,
       Monitor!MakeRegistrationInterface, Registration!MakeRegistrationInterface,
       Monitor!CallMonitor, Registration!CallMonitor, Monitor!CallTypes, Registration!CallTypes,
       Monitor!Die, Registration!Die, Monitor!Send, Registration!Send,
       Monitor!Vanished, Registration!Vanished, Monitor!Handle, Registration!Handle,
       Monitor!Dispatch, Registration!Dispatch,
       Monitor!RegisterClient, Registration!RegisterClient,
       Monitor!UnregisterClient, Registration!UnregisterClient,
       Monitor!PeerVanished, Registration!PeerVanished,
       Monitor!monitorVars, Registration!monitorVars

\* What is used of the invariant of MonitorManager.
LEMMA MonitorFacts ==
  ASSUME Monitor!MonitorInv
  PROVE  /\ registered \in [Objects -> SUBSET Clients]
         /\ alive \subseteq Clients
         /\ bus \in Seq(Monitor!Message)
         /\ \A c \in registered[Roon] : Registration!HasClients(Roon)
<1>1. /\ registered \in [Objects -> SUBSET Clients] /\ alive \subseteq Clients
      /\ bus \in Seq(Monitor!Message) /\ refcount \in [Objects -> Nat] /\ Roon \in Objects
      /\ Monitor!IsFiniteSet(registered[Roon])
      /\ refcount[Roon] >= Monitor!Cardinality(registered[Roon])
  BY DEF Monitor!MonitorInv, Monitor!CountInv, Monitor!CountCoversClients, Objects
<1>2. ASSUME NEW c \in registered[Roon]
      PROVE  refcount[Roon] > 0
  <2>1. /\ Monitor!Cardinality(registered[Roon]) \in Nat
        /\ Monitor!Cardinality(registered[Roon]) # 0
    BY <1>1, <1>2, MonitorAssumptionHolds, Monitor!FS_CardinalityType, Monitor!FS_EmptySet
       DEF Monitor!MonitorAssumption
  <2> QED BY <1>1, <2>1
<1> QED BY <1>1, <1>2 DEF Registration!HasClients

\* What AuPaD gets from the bus.
LEMMA MessageShape ==
  ASSUME NEW m \in Monitor!Message
  PROVE  /\ m.from \in Clients
         /\ \/ m.type \in {"Register", "Unregister", "Get"} /\ m # Monitor!Vanished(m.from)
            \/ m.type = "Vanished" /\ m = Monitor!Vanished(m.from)
         /\ m.type \in {"Register", "Unregister"} => m.object = Roon
<1>1. /\ m.from \in Clients
      /\ \/ m.type = "Register" /\ m.object \in Objects /\ m # Monitor!Vanished(m.from)
         \/ m.type = "Unregister" /\ m.object \in Objects /\ m # Monitor!Vanished(m.from)
         \/ m.type = "Get" /\ m # Monitor!Vanished(m.from)
         \/ m.type = "Vanished" /\ m = Monitor!Vanished(m.from)
  BY MonitorAssumptionHolds, Monitor!MessageKinds DEF Monitor!MonitorAssumption
<1> QED BY <1>1 DEF Objects

LEMMA CallsAreMessages ==
  ASSUME NEW c \in Clients, NEW type \in {"Register", "Unregister", "Get"}
  PROVE  [type |-> type, from |-> c, object |-> Roon] \in Monitor!Message
BY DEF Monitor!Message, Monitor!Call, Monitor!CallTypes, Objects

\* A request is a call of MonitorManager.
LEMMA RequestIsCall ==
  ASSUME ProtocolInv, alive \subseteq Clients,
         NEW c \in Clients, NEW type \in {"Register", "Unregister", "Get"}, NEW from, NEW to,
         Request(c, type, from, to), Roon \in exported \/ "out" \notin from
  PROVE  Registration!Next
<1>1. c \in alive /\ Roon \in exported /\ Roon \in Objects
  BY DEF Request, ProtocolInv, Objects
<1>2. Registration!CallMonitor(c, type, Roon)
  BY <1>1 DEF Registration!CallMonitor, Registration!Send, Request, Send, monitorVars,
              Registration!monitorVars
<1> QED BY <1>1, <1>2 DEF Registration!Next, Registration!CallTypes

\* Each step is one of MonitorManager, or leaves registration alone.
LEMMA StepIsMonitorStep ==
  ASSUME ReportingInv, [Next]_vars
  PROVE  [Registration!Next]_(Registration!vars)
<1> USE DEF monitorVars, Registration!vars, Registration!monitorVars
<1>1. alive \subseteq Clients /\ ProtocolInv
  BY MonitorFacts DEF ReportingInv
<1>2. CASE Export
  BY <1>2 DEF Export, Registration!Next, Registration!Export, Objects
<1>3. CASE LoseDcpd \/ \E p \in Paths \cup {NoPath}, changed \in BOOLEAN : HandleBatch(p, changed)
  BY <1>3 DEF LoseDcpd, HandleBatch
<1>4. CASE Handle
  <2>1. Registration!Dispatch(Head(bus))
    BY <1>4 DEF Handle, HandleGet, HandleRegistration, Registration!Dispatch
  <2> QED BY <1>4, <2>1 DEF Handle, Registration!Next, Registration!Handle
<1>5. ASSUME NEW c \in Clients, Join(c) \/ Ask(c) \/ Leave(c)
      PROVE  Registration!Next
  <2>1. CASE Join(c)
    BY <1>1, <2>1, RequestIsCall DEF Join
  <2>2. CASE Ask(c)
    BY <1>1, <2>2, RequestIsCall DEF Ask
  <2>3. CASE Leave(c)
    BY <1>1, <2>3, RequestIsCall DEF Leave
  <2> QED BY <1>5, <2>1, <2>2, <2>3
<1>6. ASSUME NEW c \in Clients, Receive(c)
      PROVE  UNCHANGED Registration!vars
  BY <1>6 DEF Receive
<1>7. ASSUME NEW c \in Clients, Die(c)
      PROVE  Registration!Next
  BY <1>7 DEF Die, Registration!Next, Registration!Die, Registration!Send
<1>8. CASE UNCHANGED vars
  BY <1>8 DEF vars
<1> QED BY <1>2, <1>3, <1>4, <1>5, <1>6, <1>7, <1>8 DEF Next

LEMMA MonitorPartKept ==
  ASSUME ReportingInv, [Next]_vars
  PROVE  Monitor!MonitorInv'
<1>1. [Monitor!Next]_(Monitor!vars)
  BY StepIsMonitorStep, SameActions
     DEF Monitor!vars, Registration!vars, Monitor!monitorVars, Registration!monitorVars
<1> QED BY <1>1, MonitorAssumptionHolds, Monitor!MonitorStep
        DEF ReportingInv, Monitor!MonitorAssumption
(***************************************************************************)
(* Each step keeps the invariant                                           *)
(***************************************************************************)
LocalInv == TypeOK /\ ProtocolInv /\ BeliefInv

\* What is used of the constants and of the invariant throughout.
LEMMA Facts ==
  ASSUME ReportingInv
  PROVE  /\ alive \subseteq Clients /\ registered \in [Objects -> SUBSET Clients]
         /\ Roon \in Objects /\ bus \in Seq(Monitor!Message)
         /\ inbox \in [Clients -> Seq(Letters)]
         /\ phase \in [Clients -> Waiting \cup {"out", "joined", "ready"}]
         /\ view \in [Clients -> Reports \cup {Unknown}]
         /\ path \in Paths \cup {NoPath} /\ previous \in Reports \cup {NoPath}
         /\ Unknown \notin Reports /\ NoPath \notin Reports /\ Empty \in Reports
         /\ \A p \in Paths \cup {NoPath} : AsReport(p) \in Reports
         /\ LocalInv
BY MonitorFacts, RoonAssumption
   DEF ReportingInv, LocalInv, TypeOK, Letters, Reports, Objects, AsReport

\* Beliefs are about clients that are counted.
LEMMA BelieversAreCounted ==
  ASSUME ReportingInv, NEW c \in alive, NEW r \in Reports,
         Believes(inbox[c], phase[c], view[c], r)
  PROVE  /\ IsAccepted(inbox[c], phase[c]) /\ phase[c] # "out"
         /\ c \in registered[Roon] /\ Registration!HasClients(Roon)
         /\ IsSound(r)
<1>1. c \in Clients /\ inbox[c] \in Seq(Letters)
      /\ OneCallAtATime(bus, inbox[c], phase[c], c)
      /\ (phase[c] \notin Joined => view[c] = Unknown)
  BY Facts DEF LocalInv, ProtocolInv, BeliefInv
<1>2. IsAccepted(inbox[c], phase[c])
  BY <1>1, BelieversAreAccepted
<1>3. c \in registered[Roon] /\ IsSound(r)
  BY <1>2 DEF ReportingInv, ProtocolInv, BeliefInv
<1> QED BY <1>2, <1>3, MonitorFacts DEF ReportingInv, IsAccepted, Joined

\* Who gets a message, and who does not.
LEMMA PostedTo ==
  ASSUME ReportingInv, NEW C, NEW m \in Letters, inbox' = Posted(C, m)
  PROVE  /\ inbox' \in [Clients -> Seq(Letters)]
         /\ \A c \in Clients : inbox'[c] = IF c \in C /\ c \in alive THEN Append(inbox[c], m)
                                                                  ELSE inbox[c]
<1>1. \A c \in Clients : inbox[c] \in Seq(Letters) /\ Append(inbox[c], m) \in Seq(Letters)
  BY Facts
<1> QED BY <1>1 DEF Posted

LEMMA PostedToOne ==
  ASSUME ReportingInv, NEW d, NEW m \in Letters, inbox' = Posted({d}, m)
  PROVE  /\ inbox' \in [Clients -> Seq(Letters)]
         /\ \A c \in Clients : inbox'[c] = IF c = d /\ c \in alive THEN Append(inbox[c], m)
                                                               ELSE inbox[c]
<1> DEFINE C == {d}
<1>1. inbox' = Posted(C, m) /\ \A c : c \in C <=> c = d
  OBVIOUS
<1> HIDE DEF C
<1> QED BY <1>1, PostedTo

LEMMA BatchKeepsInv ==
  ASSUME ReportingInv, NEW p \in Paths \cup {NoPath}, NEW changed \in BOOLEAN,
         HandleBatch(p, changed)
  PROVE  LocalInv'
<1> DEFINE listeners == {c \in Clients : phase[c] # "out"}
           reporting == changed /\ Registration!HasClients(Roon)
           m == Signal(AsReport(p))
<1>1. /\ path' = p /\ stale' = (stale /\ ~changed /\ p = path)
      /\ unnoticed' = (/\ Registration!HasClients(Roon) /\ ~(reporting /\ IsNews(p))
                       /\ unnoticed \/ (p # path /\ ~changed))
      /\ previous' = IF reporting /\ IsNews(p) THEN AsReport(p) ELSE previous
      /\ inbox' = IF reporting /\ IsNews(p) THEN Posted(listeners, m) ELSE inbox
      /\ UNCHANGED <<exported, registered, refcount, watchers, alive, bus, phase, view>>
  BY DEF HandleBatch, FullReport, monitorVars, clientVars
<1>2. m \in Letters /\ m.type = "Signal" /\ m.report = AsReport(p)
  BY Facts DEF Signal, Letters
<1> HIDE DEF m, reporting
<1>3. /\ inbox' \in [Clients -> Seq(Letters)]
      /\ \A c \in Clients :
           inbox'[c] = IF reporting /\ IsNews(p) /\ c \in listeners /\ c \in alive
                       THEN Append(inbox[c], m) ELSE inbox[c]
  BY <1>1, <1>2, PostedTo, Facts
<1>4. TypeOK'
  BY <1>1, <1>3, Facts DEF LocalInv, TypeOK, Letters
<1>5. ProtocolInv'
  <2> SUFFICES ASSUME NEW c \in alive
               PROVE  /\ OneCallAtATime(bus, inbox'[c], phase[c], c)
                      /\ IsAccepted(inbox'[c], phase[c]) => IsAccepted(inbox[c], phase[c])
    BY <1>1, Facts DEF LocalInv, ProtocolInv
  <2>1. c \in Clients /\ inbox[c] \in Seq(Letters)
        /\ OneCallAtATime(bus, inbox[c], phase[c], c)
    BY Facts DEF LocalInv, ProtocolInv
  <2>2. OneCallAtATime(bus, Append(inbox[c], m), phase[c], c)
    BY <1>2, <2>1, SignalSent
  <2>3. IsAccepted(Append(inbox[c], m), phase[c]) => IsAccepted(inbox[c], phase[c])
    BY <1>2, <2>1, Appended DEF IsAccepted, IsReply
  <2> QED BY <1>3, <2>1, <2>2, <2>3
<1>6. BeliefInv'
  <2>1. stale' => path' = NoPath
    BY <1>1, Facts DEF LocalInv, BeliefInv
  <2>2. \A c \in alive' : phase'[c] \notin Joined => view'[c] = Unknown
    BY <1>1, Facts DEF LocalInv, BeliefInv
  <2>3. ASSUME NEW c \in alive, NEW r \in Reports, Believes(inbox'[c], phase[c], view[c], r)
        PROVE  IsSound(r)'
    <3>1. c \in Clients /\ inbox[c] \in Seq(Letters)
          /\ OneCallAtATime(bus, inbox[c], phase[c], c)
      BY Facts DEF LocalInv, ProtocolInv
    <3>2. CASE inbox'[c] = inbox[c] /\ ~(reporting /\ IsNews(p))
      <4>1. IsSound(r) /\ Registration!HasClients(Roon)
        BY <2>3, <3>2, BelieversAreCounted
      <4>2. previous' = previous /\ (changed => p = previous)
        BY <1>1, <3>2, <4>1 DEF reporting, IsNews
      <4>3. CASE unnoticed'
        BY <4>3 DEF IsSound
      <4>4. CASE ~unnoticed' /\ ~changed
        <5>1. ~unnoticed /\ p = path
          BY <1>1, <3>2, <4>1, <4>4
        <5> QED BY <1>1, <4>1, <4>2, <4>4, <5>1 DEF IsSound
      <4>5. CASE ~unnoticed' /\ changed
        <5>1. ~stale' /\ p = previous /\ path' = p
          BY <1>1, <4>2, <4>5
        <5>2. previous = r
          <6>1. ~unnoticed
            BY <1>1, <3>2, <4>1, <4>5
          <6> QED BY <4>1, <5>1, <6>1, RoonAssumption DEF IsSound
        <5>3. p # NoPath
          BY <5>1, <5>2, Facts
        <5> QED BY <4>2, <5>1, <5>2, <5>3 DEF IsSound, AsReport
      <4> QED BY <4>3, <4>4, <4>5
    <3>3. CASE inbox'[c] = inbox[c] /\ reporting /\ IsNews(p)
      <4>1. phase[c] # "out"
        BY <2>3, <3>3, BelieversAreCounted
      <4>2. inbox'[c] = Append(inbox[c], m)
        BY <1>3, <3>1, <3>3, <4>1
      <4> QED BY <3>1, <3>3, <4>2, <1>2, Appended
    <3>4. CASE inbox'[c] = Append(inbox[c], m) /\ reporting /\ IsNews(p)
      <4>1. CASE Counts(Append(inbox[c], m), phase[c], Len(inbox[c]) + 1)
        <5>1. r = AsReport(p)
          BY <1>2, <2>3, <3>1, <3>4, <4>1, BeliefGrows
        <5> QED BY <1>1, <3>4, <5>1 DEF IsSound, AsReport, reporting
      <4>2. CASE ~Counts(Append(inbox[c], m), phase[c], Len(inbox[c]) + 1)
        <5>1. Believes(inbox[c], phase[c], view[c], r)
          BY <1>2, <2>3, <3>1, <3>4, <4>2, BeliefGrows
        <5>2. IsAccepted(inbox[c], phase[c])
          BY <5>1, BelieversAreCounted
        <5> QED BY <1>2, <3>1, <4>2, <5>2, SignalCounts
      <4> QED BY <4>1, <4>2
    <3> QED BY <1>3, <3>1, <3>2, <3>3, <3>4
  <2> QED BY <1>1, <2>1, <2>2, <2>3 DEF BeliefInv
<1> QED BY <1>4, <1>5, <1>6 DEF LocalInv

LEMMA LoseKeepsInv ==
  ASSUME ReportingInv, LoseDcpd
  PROVE  LocalInv'
<1>1. /\ path' = NoPath /\ stale' = TRUE /\ unnoticed' = unnoticed
      /\ UNCHANGED <<exported, registered, alive, bus, previous, phase, view, inbox>>
  BY DEF LoseDcpd, monitorVars, clientVars
<1>2. TypeOK' /\ ProtocolInv'
  BY <1>1, Facts DEF LocalInv, TypeOK, ProtocolInv
<1>3. ASSUME NEW r \in Reports, IsSound(r)
      PROVE  IsSound(r)'
  BY <1>1, <1>3 DEF IsSound
<1>4. BeliefInv'
  BY <1>1, <1>3, Facts DEF LocalInv, BeliefInv
<1> QED BY <1>2, <1>4 DEF LocalInv
\* A call of a client that lives is answered to it, and to nobody else.
LEMMA AnswerKeepsCalls ==
  ASSUME ReportingInv, bus # <<>>, bus' = Tail(bus), NEW m \in Letters,
         m.type = Head(bus).type, inbox' = Posted({Head(bus).from}, m),
         NEW c \in alive
  PROVE  OneCallAtATime(bus', inbox'[c], phase[c], c)
<1>1. /\ c \in Clients /\ inbox[c] \in Seq(Letters) /\ bus \in Seq(Monitor!Message)
      /\ OneCallAtATime(bus, inbox[c], phase[c], c)
  BY Facts DEF LocalInv, ProtocolInv
<1>2. inbox'[c] = IF c = Head(bus).from THEN Append(inbox[c], m) ELSE inbox[c]
  BY <1>1, PostedToOne
<1>3. CASE c = Head(bus).from
  BY <1>1, <1>2, <1>3, CallAnswered
<1>4. CASE c # Head(bus).from
  BY <1>1, <1>2, <1>4, CallTaken
<1> QED BY <1>3, <1>4

LEMMA GetKeepsInv ==
  ASSUME ReportingInv, bus # <<>>, Head(bus).type = "Get", HandleGet(Head(bus).from),
         bus' = Tail(bus), UNCHANGED <<alive, clientVars>>
  PROVE  LocalInv'
<1> DEFINE d == Head(bus).from
           rep == IF IsNews(path) THEN AsReport(path) ELSE Empty
           m == Reply("Get", rep)
<1>1. /\ previous' = IF IsNews(path) THEN AsReport(path) ELSE previous
      /\ inbox' = Posted({d}, m)
      /\ UNCHANGED <<exported, registered, refcount, watchers, alive, path, stale, unnoticed, phase, view>>
  BY DEF HandleGet, FullReport, monitorVars, historyVars, clientVars
<1>2. m \in Letters /\ m.type = "Get" /\ m.report = rep
  BY Facts DEF Reply, Letters
<1>3. /\ inbox' \in [Clients -> Seq(Letters)]
      /\ \A c \in Clients : inbox'[c] = IF c = d /\ c \in alive THEN Append(inbox[c], m)
                                                             ELSE inbox[c]
  BY <1>1, <1>2, PostedToOne
<1>4. TypeOK'
  BY <1>1, <1>3, Facts DEF LocalInv, TypeOK, Letters
<1>5. \A c \in alive : OneCallAtATime(bus', inbox'[c], phase[c], c)
  BY <1>1, <1>2, AnswerKeepsCalls
<1> HIDE DEF m
<1>6. ProtocolInv'
  <2> SUFFICES ASSUME NEW c \in alive, IsAccepted(inbox'[c], phase[c])
               PROVE  c \in registered[Roon]
    BY <1>1, <1>5, Facts DEF LocalInv, ProtocolInv
  <2>1. CASE phase[c] \in Joined
    BY <2>1, Facts DEF LocalInv, ProtocolInv, IsAccepted
  <2>2. CASE phase[c] = "joining"
    <3>1. c \in Clients /\ inbox[c] \in Seq(Letters) /\ bus[1] = Head(bus) /\ 1 \in 1..Len(bus)
          /\ OneCallAtATime(bus, inbox[c], phase[c], c)
      BY Facts, Shifted DEF LocalInv, ProtocolInv
    <3>2. c # d
      BY <2>2, <3>1 DEF OneCallAtATime, CallOf
    <3>3. inbox'[c] = inbox[c]
      BY <1>3, <3>1, <3>2
    <3> QED BY <3>3, Facts DEF LocalInv, ProtocolInv
  <2> QED BY <2>1, <2>2 DEF IsAccepted
<1>7. ASSUME NEW r \in Reports, IsSound(r)
      PROVE  IsSound(r)'
  <2>1. CASE stale /\ ~unnoticed
    <3>1. path = NoPath /\ previous # NoPath
      BY <1>7, <2>1, Facts DEF LocalInv, BeliefInv, IsSound
    <3> QED BY <1>1, <1>7, <2>1, <3>1 DEF IsSound, IsNews, AsReport
  <2>2. CASE unnoticed
    BY <1>1, <2>2 DEF IsSound
  <2>3. CASE ~stale /\ ~unnoticed
    BY <1>1, <1>7, <2>3 DEF IsSound, AsReport
  <2> QED BY <2>1, <2>2, <2>3
<1>8. BeliefInv'
  <2>1. ASSUME NEW c \in alive, NEW r \in Reports, Believes(inbox'[c], phase[c], view[c], r)
        PROVE  IsSound(r)'
    <3>1. c \in Clients /\ inbox[c] \in Seq(Letters)
      BY Facts
    <3>2. CASE inbox'[c] = inbox[c]
      BY <1>7, <2>1, <3>2, BelieversAreCounted
    <3>3. CASE inbox'[c] = Append(inbox[c], m)
      <4>1. CASE Counts(Append(inbox[c], m), phase[c], Len(inbox[c]) + 1)
        <5>1. r = rep /\ rep # Empty
          BY <1>2, <2>1, <3>1, <3>3, <4>1, BeliefGrows, Appended DEF Counts
        <5>2. IsNews(path) /\ path # NoPath /\ r = AsReport(path)
          BY <5>1 DEF AsReport
        <5>3. ~stale
          BY <5>2, Facts DEF LocalInv, BeliefInv
        <5> QED BY <1>1, <5>2, <5>3 DEF IsSound, AsReport
      <4>2. CASE ~Counts(Append(inbox[c], m), phase[c], Len(inbox[c]) + 1)
        <5>1. Believes(inbox[c], phase[c], view[c], r)
          BY <1>2, <2>1, <3>1, <3>3, <4>2, BeliefGrows
        <5> QED BY <1>7, <5>1, BelieversAreCounted
      <4> QED BY <4>1, <4>2
    <3> QED BY <1>3, <3>1, <3>2, <3>3
  <2> QED BY <1>1, <2>1, Facts DEF LocalInv, BeliefInv
<1> QED BY <1>4, <1>6, <1>8 DEF LocalInv

\* A registration makes its client one that is registered, and other
\* messages take away only their sender.
LEMMA DispatchRegisters ==
  ASSUME ReportingInv, NEW m \in Monitor!Message, m.type # "Get", Registration!Dispatch(m)
  PROVE  /\ exported' = exported
         /\ \A c \in registered[Roon] : c \in registered'[Roon] \/ (c = m.from /\ m.type # "Register")
         /\ m.type = "Register" => m.from \in registered'[Roon]
<1>1. /\ registered \in [Objects -> SUBSET Clients] /\ Roon \in Objects
      /\ m.type \in {"Register", "Unregister"} => m.object = Roon
  BY Facts, MessageShape
<1>2. CASE m.type = "Register"
  BY <1>1, <1>2 DEF Registration!Dispatch, Registration!RegisterClient, Registration!monitorVars
<1>3. CASE m.type = "Unregister"
  BY <1>1, <1>3 DEF Registration!Dispatch, Registration!UnregisterClient, Registration!monitorVars
<1>4. CASE m.type = "Vanished"
  BY <1>1, <1>4 DEF Registration!Dispatch, Registration!PeerVanished, Registration!monitorVars
<1> QED BY <1>2, <1>3, <1>4, MessageShape

LEMMA RegistrationKeepsInv ==
  ASSUME ReportingInv, bus # <<>>, Head(bus).type # "Get", HandleRegistration(Head(bus)),
         bus' = Tail(bus), UNCHANGED <<alive, clientVars>>
  PROVE  LocalInv'
<1> DEFINE h == Head(bus)
           m == Reply(h.type, Empty)
<1>1. /\ Registration!Dispatch(h)
      /\ inbox' = IF h.type = "Vanished" THEN inbox ELSE Posted({h.from}, m)
      /\ UNCHANGED <<alive, path, previous, stale, unnoticed, phase, view>>
  BY DEF HandleRegistration, roonVars, historyVars, clientVars
<1>2. h \in Monitor!Message /\ h = bus[1] /\ 1 \in 1..Len(bus)
  BY Facts, Shifted
<1>3. /\ h.from \in Clients /\ h.type \in {"Register", "Unregister", "Vanished"}
      /\ h.type # "Vanished" => m \in Letters /\ m.type = h.type /\ m.report = Empty
  BY <1>2, MessageShape, Facts DEF Reply, Letters
<1>4. /\ exported' = exported
      /\ \A c \in registered[Roon] : c \in registered'[Roon] \/ (c = h.from /\ h.type # "Register")
      /\ h.type = "Register" => h.from \in registered'[Roon]
  BY <1>1, <1>2, DispatchRegisters
<1> HIDE DEF h, m
<1>5. /\ inbox' \in [Clients -> Seq(Letters)]
      /\ \A c \in Clients : inbox'[c] = IF h.type # "Vanished" /\ c = h.from /\ c \in alive
                                      THEN Append(inbox[c], m) ELSE inbox[c]
  <2>1. CASE h.type = "Vanished"
    BY <1>1, <2>1, Facts
  <2>2. CASE h.type # "Vanished"
    BY <1>1, <1>3, <2>2, PostedToOne
  <2> QED BY <2>1, <2>2
<1>6. TypeOK'
  BY <1>1, <1>5, Facts DEF LocalInv, TypeOK, Letters
<1>7. ProtocolInv'
  <2> SUFFICES ASSUME NEW c \in alive
               PROVE  /\ OneCallAtATime(bus', inbox'[c], phase[c], c)
                      /\ IsAccepted(inbox'[c], phase[c]) => c \in registered'[Roon]
    BY <1>1, <1>4, Facts DEF LocalInv, ProtocolInv
  <2>1. /\ c \in Clients /\ inbox[c] \in Seq(Letters)
        /\ bus \in Seq(Monitor!Message) /\ OneCallAtATime(bus, inbox[c], phase[c], c)
        /\ IsAccepted(inbox[c], phase[c]) => c \in registered[Roon]
    BY Facts DEF LocalInv, ProtocolInv
  <2>2. c = h.from => phase[c] \in Waiting /\ h.type = CallOf[phase[c]]
    BY <1>2, <2>1 DEF OneCallAtATime
  <2>3. OneCallAtATime(bus', inbox'[c], phase[c], c)
    <3>1. CASE h.type = "Vanished"
      BY <1>5, <2>1, <3>1, CallTaken
    <3>2. CASE h.type # "Vanished"
      BY <1>1, <1>3, <3>2, AnswerKeepsCalls DEF h
    <3> QED BY <3>1, <3>2
  <2>4. CASE c = h.from
    <3>1. \/ phase[c] = "joining" /\ h.type = "Register"
          \/ phase[c] = "leaving" /\ h.type = "Unregister"
      BY <1>3, <2>2, <2>4 DEF CallOf, Waiting
    <3> QED BY <1>4, <2>3, <2>4, <3>1 DEF IsAccepted, Joined
  <2>5. CASE c # h.from
    BY <1>4, <1>5, <2>1, <2>3, <2>5
  <2> QED BY <2>4, <2>5
<1>8. \A r : IsSound(r)' <=> IsSound(r)
  BY <1>1 DEF IsSound, AsReport
<1>9. BeliefInv'
  <2>1. ASSUME NEW c \in alive, NEW r \in Reports, Believes(inbox'[c], phase[c], view[c], r)
        PROVE  IsSound(r)
    <3>1. c \in Clients /\ inbox[c] \in Seq(Letters)
      BY Facts
    <3>2. CASE inbox'[c] = inbox[c]
      BY <2>1, <3>2, BelieversAreCounted
    <3>3. CASE h.type # "Vanished" /\ inbox'[c] = Append(inbox[c], m)
      <4>1. ~Counts(Append(inbox[c], m), phase[c], Len(inbox[c]) + 1)
        BY <1>3, <3>1, <3>3, RegistrationDoesNotCount
      <4>2. Believes(inbox[c], phase[c], view[c], r)
        BY <1>3, <2>1, <3>1, <3>3, <4>1, BeliefGrows
      <4> QED BY <4>2, BelieversAreCounted
    <3> QED BY <1>5, <3>1, <3>2, <3>3
  <2> QED BY <1>1, <1>8, <2>1, Facts DEF LocalInv, BeliefInv
<1> QED BY <1>6, <1>7, <1>9 DEF LocalInv
\* A client that is registered, or wants to be, calls AuPaD.
LEMMA RequestKeepsInv ==
  ASSUME ReportingInv, NEW c \in Clients, NEW type, NEW from, NEW to \in Waiting,
         Request(c, type, from, to), from \cap Waiting = {}, type = CallOf[to],
         Roon \in exported, to = "asked" => phase[c] \in Joined,
         to = "joining" => phase[c] = "out",
         view' = IF to = "leaving" THEN [view EXCEPT ![c] = Unknown] ELSE view
  PROVE  LocalInv'
<1> DEFINE m == [type |-> type, from |-> c, object |-> Roon]
<1>1. /\ c \in alive /\ phase[c] \notin Waiting
      /\ phase' = [phase EXCEPT ![c] = to] /\ bus' = Append(bus, m)
      /\ UNCHANGED <<exported, registered, alive, path, previous, stale, unnoticed, inbox>>
  BY DEF Request, Send, monitorVars, roonVars, historyVars
<1>2. m \in Monitor!Message /\ m.from = c /\ m.type = CallOf[to]
  <2>1. type \in {"Register", "Unregister", "Get"}
    BY DEF CallOf, Waiting
  <2> QED BY <2>1, CallsAreMessages
<1> HIDE DEF m
<1>3. /\ phase'[c] = to
      /\ \A d \in Clients \ {c} : phase'[d] = phase[d] /\ view'[d] = view[d]
      /\ view'[c] = IF to = "leaving" THEN Unknown ELSE view[c]
  BY <1>1, Facts
<1>4. TypeOK'
  BY <1>1, Facts DEF LocalInv, TypeOK
<1>5. ASSUME NEW d \in alive
      PROVE  /\ d \in Clients /\ inbox[d] \in Seq(Letters)
             /\ bus \in Seq(Monitor!Message) /\ OneCallAtATime(bus, inbox[d], phase[d], d)
  BY Facts DEF LocalInv, ProtocolInv
<1>6. ProtocolInv'
  <2> SUFFICES ASSUME NEW d \in alive
               PROVE  /\ OneCallAtATime(bus', inbox[d], phase'[d], d)
                      /\ IsAccepted(inbox[d], phase'[d]) => d \in registered[Roon]
    BY <1>1 DEF ProtocolInv
  <2>1. CASE d = c
    <3>1. OneCallAtATime(bus', inbox[d], phase'[d], d)
      BY <1>1, <1>2, <1>3, <1>5, <2>1, CallMade
    <3>2. \A i \in 1..Len(inbox[d]) : ~IsReply(inbox[d][i])
      BY <1>1, <1>5, <2>1 DEF OneCallAtATime
    <3>3. IsAccepted(inbox[d], phase'[d]) => phase[d] \in Joined
      BY <1>3, <2>1, <3>2 DEF IsAccepted, Waiting, Joined
    <3> QED BY <3>1, <3>3, Facts DEF LocalInv, ProtocolInv, IsAccepted
  <2>2. CASE d # c
    <3>1. OneCallAtATime(bus', inbox[d], phase'[d], d)
      BY <1>1, <1>2, <1>3, <1>5, <2>2, OtherCallMade
    <3> QED BY <1>3, <1>5, <2>2, <3>1, Facts DEF LocalInv, ProtocolInv
  <2> QED BY <2>1, <2>2
<1>7. ASSUME NEW d \in alive, phase'[d] \notin Joined
      PROVE  view'[d] = Unknown
  <2>1. CASE d = c
    <3>1. to # "asked"
      BY <1>3, <1>7, <2>1 DEF Joined
    <3>2. to = "joining" => view[c] = Unknown
      BY <1>1, Facts DEF LocalInv, BeliefInv, Joined
    <3> QED BY <1>3, <2>1, <3>1, <3>2 DEF Waiting
  <2>2. CASE d # c
    BY <1>3, <1>5, <1>7, <2>2, Facts DEF LocalInv, BeliefInv
  <2> QED BY <2>1, <2>2
<1>8. ASSUME NEW d \in alive, NEW r \in Reports, Believes(inbox[d], phase'[d], view'[d], r)
      PROVE  IsSound(r)
  <2>1. CASE d = c /\ to # "asked"
    <3>1. phase'[d] \notin Joined /\ view'[d] = Unknown
      BY <1>3, <1>7, <2>1 DEF Waiting, Joined
    <3>2. ~Believes(inbox[d], phase'[d], Unknown, r)
      BY <1>1, <1>5, <2>1, <3>1, OutsidersBelieveNothing
    <3> QED BY <1>8, <3>1, <3>2
  <2>2. CASE d = c /\ to = "asked"
    <3>1. phase'[d] \in Joined /\ phase[d] \in Joined /\ view'[d] = view[d]
      BY <1>3, <2>2 DEF Joined
    <3>2. \A i : Counts(inbox[d], phase'[d], i) <=> Counts(inbox[d], phase[d], i)
      BY <3>1 DEF Counts, Joined
    <3>3. Believes(inbox[d], phase[d], view[d], r)
      BY <1>8, <3>1, <3>2 DEF Believes
    <3> QED BY <3>3, BelieversAreCounted
  <2>3. CASE d # c
    <3>1. phase'[d] = phase[d] /\ view'[d] = view[d]
      BY <1>3, <1>5, <2>3
    <3> QED BY <1>8, <3>1, BelieversAreCounted
  <2> QED BY <2>1, <2>2, <2>3
<1>9. BeliefInv'
  BY <1>1, <1>7, <1>8, Facts DEF LocalInv, BeliefInv, IsSound, AsReport
<1> QED BY <1>4, <1>6, <1>9 DEF LocalInv

LEMMA ReceiveKeepsInv ==
  ASSUME ReportingInv, NEW c \in Clients, Receive(c)
  PROVE  LocalInv'
<1> DEFINE m == Head(inbox[c])
           ph == CASE m.type = "Register"   -> "joined"
                   [] m.type = "Get"        -> "ready"
                   [] m.type = "Unregister" -> "out"
                   [] m.type = "Signal"     -> phase[c]
           learns == \/ m.type = "Signal" /\ phase[c] \in Joined
                     \/ m.type = "Get" /\ m.report # Empty
           v == IF learns THEN m.report ELSE view[c]
<1>1. /\ inbox[c] # <<>> /\ inbox' = [inbox EXCEPT ![c] = Tail(@)]
      /\ phase' = [phase EXCEPT ![c] = ph]
      /\ view' = IF learns THEN [view EXCEPT ![c] = m.report] ELSE view
      /\ UNCHANGED <<exported, registered, alive, bus, path, previous, stale, unnoticed>>
  BY DEF Receive, monitorVars, roonVars, historyVars
<1>2. /\ inbox[c] \in Seq(Letters) /\ Tail(inbox[c]) \in Seq(Letters)
      /\ m \in Letters /\ m = inbox[c][1] /\ 1 \in 1..Len(inbox[c])
  BY <1>1, Facts, Shifted
<1>3. m.type \in {"Signal", "Register", "Unregister", "Get"} /\ m.report \in Reports
  BY <1>2 DEF Letters
<1>4. /\ inbox'[c] = Tail(inbox[c]) /\ phase'[c] = ph /\ view'[c] = v
      /\ \A d \in Clients \ {c} :
           inbox'[d] = inbox[d] /\ phase'[d] = phase[d] /\ view'[d] = view[d]
  BY <1>1, Facts
<1>5. TypeOK'
  <2>1. ph \in Waiting \cup {"out", "joined", "ready"} /\ m.report \in Reports \cup {Unknown}
    BY <1>3, Facts DEF Waiting
  <2> HIDE DEF ph, m
  <2>2. phase' \in [Clients -> Waiting \cup {"out", "joined", "ready"}]
    BY <1>1, <2>1, Facts
  <2>3. view' \in [Clients -> Reports \cup {Unknown}]
    BY <1>1, <2>1, Facts
  <2>4. inbox' \in [Clients -> Seq(Letters)]
    BY <1>1, <1>2, Facts
  <2> QED BY <1>1, <2>2, <2>3, <2>4, Facts DEF LocalInv, TypeOK, Letters
<1>6. ASSUME c \in alive
      PROVE  /\ OneCallAtATime(bus, inbox[c], phase[c], c)
             /\ IsReply(m) => phase[c] \in Waiting /\ m.type = CallOf[phase[c]]
             /\ ~IsReply(m) => ph = phase[c]
  BY <1>2, <1>6, Facts DEF LocalInv, ProtocolInv, OneCallAtATime, IsReply
<1>7. ASSUME c \in alive
      PROVE  \/ ph = phase[c] /\ ~IsReply(m)
             \/ phase[c] = "joining" /\ ph = "joined"
             \/ phase[c] = "asked" /\ ph = "ready"
             \/ phase[c] = "leaving" /\ ph = "out"
  <2>1. phase[c] \in Waiting => CallOf[phase[c]] = CASE phase[c] = "joining" -> "Register"
                                                    [] phase[c] = "asked"   -> "Get"
                                                    [] phase[c] = "leaving" -> "Unregister"
    BY DEF Waiting, CallOf
  <2>2. CASE m.type = "Signal"
    BY <2>2 DEF IsReply
  <2>3. CASE m.type # "Signal"
    BY <1>3, <1>6, <1>7, <2>1, <2>3 DEF IsReply, Waiting
  <2> QED BY <2>2, <2>3
<1>8. ProtocolInv'
  <2> SUFFICES ASSUME NEW d \in alive
               PROVE  /\ phase'[d] # "out" => Roon \in exported
                      /\ OneCallAtATime(bus, inbox'[d], phase'[d], d)
                      /\ IsAccepted(inbox'[d], phase'[d]) => d \in registered[Roon]
    BY <1>1 DEF ProtocolInv
  <2>1. CASE d = c
    <3>1. OneCallAtATime(bus, Tail(inbox[c]), ph, c)
      BY <1>1, <1>2, <1>6, <2>1, LetterRead
    <3>2. phase'[d] # "out" => Roon \in exported
      BY <1>4, <1>7, <2>1, Facts DEF LocalInv, ProtocolInv
    <3>3. IsAccepted(Tail(inbox[c]), ph) => IsAccepted(inbox[c], phase[c])
      <4>1. CASE ph = phase[c] /\ ~IsReply(m)
        <5>1. \A i \in 1..Len(Tail(inbox[c])) :
                i + 1 \in 1..Len(inbox[c]) /\ Tail(inbox[c])[i] = inbox[c][i + 1]
          BY <1>1, <1>2, Shifted
        <5> QED BY <4>1, <5>1 DEF IsAccepted
      <4>2. CASE phase[c] = "joining" /\ ph = "joined"
        <5>1. IsReply(m)
          BY <1>6, <2>1, <4>2
        <5> QED BY <1>2, <4>2, <5>1 DEF IsAccepted
      <4>3. CASE phase[c] = "asked" /\ ph = "ready"
        BY <4>3 DEF IsAccepted, Joined
      <4>4. CASE phase[c] = "leaving" /\ ph = "out"
        BY <4>4 DEF IsAccepted, Joined
      <4> QED BY <1>7, <2>1, <4>1, <4>2, <4>3, <4>4
    <3> QED BY <1>4, <2>1, <3>1, <3>2, <3>3, Facts DEF LocalInv, ProtocolInv
  <2>2. CASE d # c
    BY <1>4, <2>2, Facts DEF LocalInv, ProtocolInv
  <2> QED BY <2>1, <2>2
<1>9. ASSUME NEW d \in alive, phase'[d] \notin Joined
      PROVE  view'[d] = Unknown
  <2>1. CASE d = c
    <3>1. phase[c] \notin Joined /\ phase[c] # "asked"
      BY <1>4, <1>7, <1>9, <2>1 DEF Joined
    <3>2. ~learns
      BY <1>6, <2>1, <3>1 DEF IsReply, CallOf, Waiting
    <3> QED BY <1>4, <2>1, <3>1, <3>2, Facts DEF LocalInv, BeliefInv
  <2>2. CASE d # c
    BY <1>4, <1>9, <2>2, Facts DEF LocalInv, BeliefInv
  <2> QED BY <2>1, <2>2
<1>10. ASSUME NEW d \in alive, NEW r \in Reports,
              Believes(inbox'[d], phase'[d], view'[d], r)
       PROVE  IsSound(r)
  <2>1. CASE d = c
    <3>1. Believes(Tail(inbox[c]), ph, v, r)
      BY <1>4, <1>10, <2>1
    <3>2. Believes(inbox[c], phase[c], view[c], r)
      BY <1>1, <1>2, <1>6, <2>1, <3>1, BeliefShifts
    <3> QED BY <2>1, <3>2, BelieversAreCounted
  <2>2. CASE d # c
    <3>1. d \in Clients /\ inbox'[d] = inbox[d] /\ phase'[d] = phase[d] /\ view'[d] = view[d]
      BY <1>4, <2>2, Facts
    <3> QED BY <1>10, <3>1, BelieversAreCounted
  <2> QED BY <2>1, <2>2
<1>11. BeliefInv'
  BY <1>1, <1>9, <1>10, Facts DEF LocalInv, BeliefInv, IsSound, AsReport
<1> QED BY <1>5, <1>8, <1>11 DEF LocalInv
\* The bus forgets about a client that dies.
LEMMA DieKeepsInv ==
  ASSUME ReportingInv, NEW c \in Clients, Die(c)
  PROVE  LocalInv'
<1>1. /\ alive' = alive \ {c} /\ bus' = Append(bus, Registration!Vanished(c))
      /\ phase' = [phase EXCEPT ![c] = "out"]
      /\ inbox' = [inbox EXCEPT ![c] = <<>>]
      /\ view' = [view EXCEPT ![c] = Unknown]
      /\ UNCHANGED <<exported, registered, path, previous, stale, unnoticed>>
  BY DEF Die, monitorVars, roonVars, historyVars
<1>2. Registration!Vanished(c) \in Monitor!Message /\ Registration!Vanished(c).from = c
  BY DEF Registration!Vanished, Monitor!Message, Monitor!Vanished
<1>3. ASSUME NEW d \in alive'
      PROVE  /\ d \in alive /\ d \in Clients /\ d # c
             /\ phase'[d] = phase[d] /\ inbox'[d] = inbox[d] /\ view'[d] = view[d]
             /\ bus \in Seq(Monitor!Message) /\ inbox[d] \in Seq(Letters)
             /\ OneCallAtATime(bus, inbox[d], phase[d], d)
  BY <1>1, <1>3, Facts DEF LocalInv, ProtocolInv
<1>4. TypeOK'
  <2>1. inbox' \in [Clients -> Seq(Letters)]
    BY <1>1, Facts
  <2> QED BY <1>1, <2>1, Facts DEF LocalInv, TypeOK, Letters
<1>5. ProtocolInv'
  <2> SUFFICES ASSUME NEW d \in alive'
               PROVE  /\ phase'[d] # "out" => Roon \in exported
                      /\ OneCallAtATime(bus', inbox'[d], phase'[d], d)
                      /\ IsAccepted(inbox'[d], phase'[d]) => d \in registered[Roon]
    BY <1>1 DEF ProtocolInv
  <2>1. OneCallAtATime(bus', inbox'[d], phase'[d], d)
    BY <1>1, <1>2, <1>3, OtherCallMade
  <2> QED BY <1>3, <2>1, Facts DEF LocalInv, ProtocolInv
<1>6. BeliefInv'
  BY <1>1, <1>3, Facts DEF LocalInv, BeliefInv, IsSound, AsReport
<1> QED BY <1>4, <1>5, <1>6 DEF LocalInv

LEMMA InitReportingInv == Init => ReportingInv
<1> SUFFICES ASSUME Init PROVE ReportingInv
  OBVIOUS
<1>1. Monitor!MonitorInv
  <2>1. Monitor!Init
    BY DEF Init, Monitor!Init
  <2> QED BY <2>1, MonitorAssumptionHolds, Monitor!MonitorInit DEF Monitor!MonitorAssumption
<1>2. /\ alive = Clients /\ bus = <<>> /\ path = NoPath /\ previous = NoPath /\ stale = FALSE
      /\ unnoticed = FALSE
      /\ \A c \in Clients : phase[c] = "out" /\ inbox[c] = <<>> /\ view[c] = Unknown
  BY DEF Init
<1>3. TypeOK
  <2>1. inbox \in [Clients -> Seq(Letters)]
    <3>1. <<>> \in Seq(Letters)
      OBVIOUS
    <3>2. inbox = [c \in Clients |-> <<>>]
      BY DEF Init
    <3> QED BY <3>1, <3>2
  <2>2. path \in Paths \cup {NoPath} /\ previous \in Reports \cup {NoPath} /\ stale \in BOOLEAN
        /\ unnoticed \in BOOLEAN
    BY <1>2
  <2>3. /\ phase \in [Clients -> Waiting \cup {"out", "joined", "ready"}]
        /\ view \in [Clients -> Reports \cup {Unknown}]
    BY DEF Init
  <2> QED BY <2>1, <2>2, <2>3 DEF TypeOK, Letters
<1>4. ProtocolInv
  BY <1>2 DEF ProtocolInv, OneCallAtATime, IsAccepted, Joined
<1>5. BeliefInv
  BY <1>2, RoonAssumption DEF BeliefInv, Believes, Counts, Reports
<1> QED BY <1>1, <1>3, <1>4, <1>5 DEF ReportingInv

LEMMA NextKeepsReportingInv == ReportingInv /\ [Next]_vars => ReportingInv'
<1> SUFFICES ASSUME ReportingInv, [Next]_vars PROVE ReportingInv'
  OBVIOUS
<1>1. Monitor!MonitorInv'
  BY MonitorPartKept
<1>2. CASE Export
  <2>1. /\ exported \subseteq exported'
        /\ UNCHANGED <<registered, alive, bus, path, previous, stale, unnoticed, phase, view, inbox>>
    BY <1>2 DEF Export, Registration!MakeRegistrationInterface, roonVars, historyVars, clientVars
  <2>2. LocalInv'
    BY <2>1, Facts DEF LocalInv, TypeOK, ProtocolInv, BeliefInv, IsSound, AsReport
  <2> QED BY <1>1, <2>2 DEF ReportingInv, LocalInv
<1>3. CASE \E p \in Paths \cup {NoPath}, changed \in BOOLEAN : HandleBatch(p, changed)
  BY <1>1, <1>3, BatchKeepsInv DEF ReportingInv, LocalInv
<1>4. CASE LoseDcpd
  BY <1>1, <1>4, LoseKeepsInv DEF ReportingInv, LocalInv
<1>5. CASE Handle
  <2>1. bus # <<>> /\ bus' = Tail(bus) /\ UNCHANGED <<alive, clientVars>>
    BY <1>5 DEF Handle
  <2>2. CASE Head(bus).type = "Get"
    BY <1>1, <1>5, <2>1, <2>2, GetKeepsInv DEF Handle, ReportingInv, LocalInv
  <2>3. CASE Head(bus).type # "Get"
    BY <1>1, <1>5, <2>1, <2>3, RegistrationKeepsInv DEF Handle, ReportingInv, LocalInv
  <2> QED BY <2>2, <2>3
<1>6. ASSUME NEW c \in Clients, Join(c)
      PROVE  LocalInv'
  <2>1. /\ Request(c, "Register", {"out"}, "joining") /\ phase[c] = "out"
        /\ Roon \in exported /\ view' = view
    BY <1>6 DEF Join, Request
  <2>2. "joining" \in Waiting /\ {"out"} \cap Waiting = {} /\ CallOf["joining"] = "Register"
    BY DEF Waiting, CallOf
  <2> QED BY <2>1, <2>2, RequestKeepsInv
<1>7. ASSUME NEW c \in Clients, Ask(c)
      PROVE  LocalInv'
  <2>1. /\ Request(c, "Get", {"joined"}, "asked") /\ phase[c] = "joined" /\ c \in alive
        /\ view' = view
    BY <1>7 DEF Ask, Request
  <2>2. /\ "asked" \in Waiting /\ {"joined"} \cap Waiting = {} /\ CallOf["asked"] = "Get"
        /\ phase[c] \in Joined /\ Roon \in exported
    BY <2>1, Facts DEF Waiting, CallOf, Joined, LocalInv, ProtocolInv
  <2> QED BY <2>1, <2>2, RequestKeepsInv
<1>8. ASSUME NEW c \in Clients, Leave(c)
      PROVE  LocalInv'
  <2>1. /\ Request(c, "Unregister", {"joined", "ready"}, "leaving") /\ phase[c] # "out"
        /\ c \in alive /\ view' = [view EXCEPT ![c] = Unknown]
    BY <1>8 DEF Leave, Request
  <2>2. /\ "leaving" \in Waiting /\ {"joined", "ready"} \cap Waiting = {}
        /\ CallOf["leaving"] = "Unregister" /\ Roon \in exported
    BY <2>1, Facts DEF Waiting, CallOf, LocalInv, ProtocolInv
  <2> QED BY <2>1, <2>2, RequestKeepsInv
<1>9. ASSUME NEW c \in Clients, Join(c) \/ Ask(c) \/ Leave(c) \/ Receive(c) \/ Die(c)
      PROVE  LocalInv'
  BY <1>6, <1>7, <1>8, <1>9, ReceiveKeepsInv, DieKeepsInv
<1>10. CASE UNCHANGED vars
  <2>1. UNCHANGED <<exported, registered, alive, bus, path, previous, stale, unnoticed, phase, view, inbox>>
    BY <1>10 DEF vars, monitorVars, roonVars, historyVars, clientVars
  <2>2. LocalInv'
    BY <2>1, Facts DEF LocalInv, TypeOK, ProtocolInv, BeliefInv, IsSound, AsReport
  <2> QED BY <1>1, <2>2 DEF ReportingInv, LocalInv
<1> QED BY <1>1, <1>2, <1>3, <1>4, <1>5, <1>9, <1>10 DEF Next, ReportingInv, LocalInv

(***************************************************************************)
(* Theorems                                                                *)
(***************************************************************************)
\* What clients are about to read is consistent with what AuPaD knows of them.
THEOREM ReportingIsConsistent == Spec => []ReportingInv
BY InitReportingInv, NextKeepsReportingInv, PTL DEF Spec

\* What is sent to clients is a report, never null (Roon::full_report()).
THEOREM ReportingTypeCorrect == Spec => []TypeOK
<1>1. ReportingInv => TypeOK
  BY DEF ReportingInv
<1> QED BY <1>1, ReportingIsConsistent, PTL

\* A registered client that has read all its messages knows the active path,
\* or none at all, for any number of clients that come, ask, leave and die
\* meanwhile, unless DCPD was lost or the path was changed without a change
\* in the log (Roon::report_changes(), Roon::full_report()).
THEOREM ClientsNeverMisled == Spec => []ClientsAreNeverMisled
<1>1. ReportingInv => ClientsAreNeverMisled
  <2> SUFFICES ASSUME ReportingInv, NEW c \in alive, phase[c] \in Joined,
                      inbox[c] = <<>>, ~stale, ~unnoticed, view[c] # Unknown
               PROVE  view[c] = AsReport(path)
    BY DEF ClientsAreNeverMisled
  <2>1. view[c] \in Reports
    BY Facts
  <2>2. Believes(inbox[c], phase[c], view[c], view[c])
    BY DEF Believes
  <2>3. IsSound(view[c])
    BY <2>1, <2>2, BelieversAreCounted
  <2> QED BY <2>3 DEF IsSound
<1> QED BY <1>1, ReportingIsConsistent, PTL

\* A client that was told to be registered is counted by the plugin, so that
\* changes are reported (MonitorManager::register_client()).
THEOREM JoinedAreRegistered == Spec => []JoinedClientsAreRegistered
<1>1. ReportingInv => JoinedClientsAreRegistered
  BY Facts, MonitorFacts
     DEF ReportingInv, ProtocolInv, IsAccepted, JoinedClientsAreRegistered
<1> QED BY <1>1, ReportingIsConsistent, PTL

\* Registration of Roon clients implements MonitorManager.
THEOREM RegistrationImplemented == Spec => ImplementsRegistration
<1>1. Init => Registration!Init
  BY DEF Init, Registration!Init
<1>2. ReportingInv /\ [Next]_vars => [Registration!Next]_(Registration!vars)
  BY StepIsMonitorStep
<1> QED BY <1>1, <1>2, ReportingIsConsistent, PTL
        DEF Spec, ImplementsRegistration, Registration!Spec

\* Therefore a dead Roon client is still going to be noticed.
THEOREM DeadRoonClientsAreNoticed == Spec => []Registration!DeadClientsAreBeingNoticed
<1>1. ReportingInv => Registration!DeadClientsAreBeingNoticed
  BY DEF ReportingInv, Monitor!MonitorInv, Monitor!DeadClientsAreBeingNoticed,
         Registration!DeadClientsAreBeingNoticed, Monitor!Vanished, Registration!Vanished
<1> QED BY <1>1, ReportingIsConsistent, PTL
=============================================================================
