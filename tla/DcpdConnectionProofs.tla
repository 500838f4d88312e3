------------------------- MODULE DcpdConnectionProofs -------------------------
(***************************************************************************)
(* Proofs about the connection to DCPD, for any facts, any number of       *)
(* restarts and any number of messages under way.                          *)
(*                                                                         *)
(* What counts is what the queue says about a fact behind the last news    *)
(* that DCPD has vanished.                                                 *)
(***************************************************************************)
EXTENDS DcpdConnection, SequenceTheorems, TLAPS

Messages == {Appeared, Vanished} \cup {All(S) : S \in SUBSET Facts}
            \cup {Change(f, b) : f \in Facts, b \in BOOLEAN}

\* A batch says something about fact f, namely whether there is such a fact.
Concerns(m, f) == m.type = "All" \/ (m.type = "Change" /\ m.fact = f)
Affirms(m, f) == IF m.type = "All" THEN f \in m.facts ELSE m.set

\* Message i is a batch, what it says, and whether no end of DCPD is reported
\* behind it.
Informs(q, i) == q[i].type \in {"All", "Change"}
Tells(q, i, f) == Concerns(q[i], f)
Says(q, i, f) == Affirms(q[i], f)
IsOfLastLife(q, i) == \A j \in 1..Len(q) : j > i => q[j].type # "Vanished"
IsLastOn(q, i, f) ==
  /\ Tells(q, i, f)
  /\ IsOfLastLife(q, i)
  /\ \A j \in 1..Len(q) : j > i => ~Tells(q, j, f)

\* Batches of the present life are sent by a DCPD that runs, and the last one
\* about a fact is right.
QueueIsSound(q) ==
  /\ \A i \in 1..Len(q) : Informs(q, i) => updates = "connected"
  /\ \A i \in 1..Len(q) : Informs(q, i) /\ IsOfLastLife(q, i) => running
  /\ \A f \in Facts : \A i \in 1..Len(q) :
       IsLastOn(q, i, f) => (Says(q, i, f) <=> f \in content)

\* A complete store is right about each fact on which nothing is under way.
StoreIsSound(q) ==
  complete /\ IsOfLastLife(q, 0) =>
    /\ running
    /\ \A f \in Facts : (\A j \in 1..Len(q) : ~Tells(q, j, f)) =>
         (f \in store <=> f \in content)

DcpdInv ==
  /\ TypeOK
  /\ request => running
  /\ complete => updates = "connected"
  /\ QueueIsSound(queue)
  /\ StoreIsSound(queue)
  /\ ~running /\ IsOfLastLife(queue, 0) => store = {} /\ ~complete /\ ~failed

(***************************************************************************)
(* Messages and queues                                                     *)
(***************************************************************************)
LEMMA QueueType == TypeOK <=> /\ content \subseteq Facts
                             /\ running \in BOOLEAN
                             /\ lives \in 0..MaxLives
                             /\ request \in BOOLEAN
                             /\ queue \in Seq(Messages)
                             /\ requests \in {"none", "connecting", "connected"}
                             /\ updates \in {"none", "connecting", "connected"}
                             /\ store \subseteq Facts
                             /\ complete \in BOOLEAN
                             /\ failed \in BOOLEAN
BY DEF TypeOK, Messages

LEMMA MessageShape ==
  ASSUME NEW m \in Messages
  PROVE  \/ m = Appeared /\ m.type = "Appeared"
         \/ m = Vanished /\ m.type = "Vanished"
         \/ m.type = "All" /\ m.facts \subseteq Facts /\ m # Appeared /\ m # Vanished
         \/ /\ m.type = "Change" /\ m.fact \in Facts /\ m.set \in BOOLEAN
            /\ m # Appeared /\ m # Vanished
BY DEF Messages, Appeared, Vanished, All, Change

LEMMA Appended ==
  ASSUME NEW q \in Seq(Messages), NEW m \in Messages
  PROVE  /\ Append(q, m) \in Seq(Messages)
         /\ Len(Append(q, m)) = Len(q) + 1
         /\ Append(q, m)[Len(q) + 1] = m
         /\ \A i \in 1..Len(q) : Append(q, m)[i] = q[i] /\ q[i] \in Messages
         /\ Len(q) \in Nat
OBVIOUS

LEMMA Tailed ==
  ASSUME NEW q \in Seq(Messages), q # <<>>
  PROVE  /\ Tail(q) \in Seq(Messages)
         /\ Head(q) = q[1] /\ q[1] \in Messages
         /\ Len(q) \in Nat \ {0}
         /\ Len(Tail(q)) = Len(q) - 1
         /\ \A i \in 1..Len(q) - 1 : Tail(q)[i] = q[i + 1]
OBVIOUS

\* News which are no batch do not touch what is said about facts.
LEMMA NewsAreNeutral ==
  ASSUME NEW q \in Seq(Messages), NEW m \in {Appeared, Vanished}
  PROVE  LET r == Append(q, m)
         IN /\ \A i \in 1..Len(q) : Informs(r, i) <=> Informs(q, i)
            /\ ~Informs(r, Len(q) + 1)
            /\ \A i \in 0..Len(q) : IsOfLastLife(r, i) <=> IsOfLastLife(q, i) /\ m = Appeared
            /\ \A f : \A i \in 1..Len(q) : Tells(r, i, f) <=> Tells(q, i, f)
            /\ \A f : \A i \in 1..Len(q) : IsLastOn(r, i, f) => IsLastOn(q, i, f) /\ m = Appeared
            /\ \A f : \A i \in 1..Len(q) : Says(r, i, f) <=> Says(q, i, f)
            /\ \A f : ~IsLastOn(r, Len(q) + 1, f) /\ ~Tells(r, Len(q) + 1, f)
<1> DEFINE r == Append(q, m)
<1>0. m \in Messages
  BY DEF Messages
<1>1. /\ Len(r) = Len(q) + 1 /\ r[Len(q) + 1] = m
      /\ \A i \in 1..Len(q) : r[i] = q[i]
      /\ Len(q) \in Nat
  BY <1>0, Appended
<1> HIDE DEF r
<1>2. m.type = "Vanished" <=> m # Appeared
  BY DEF Appeared, Vanished
<1>3. m.type \in {"Appeared", "Vanished"}
  BY DEF Appeared, Vanished
<1>4. \A i \in 0..Len(q) : IsOfLastLife(r, i) <=> IsOfLastLife(q, i) /\ m = Appeared
  BY <1>1, <1>2 DEF IsOfLastLife
<1>5. \A f : \A i \in 1..Len(q) : Tells(r, i, f) <=> Tells(q, i, f)
  BY <1>1 DEF Tells
<1>6. \A f : \A i \in 1..Len(q) : IsLastOn(r, i, f) => IsLastOn(q, i, f) /\ m = Appeared
  BY <1>1, <1>4, <1>5 DEF IsLastOn
<1>7. \A f : ~Tells(r, Len(q) + 1, f)
  BY <1>1, <1>3 DEF Tells, Concerns
<1>8. \A f : ~IsLastOn(r, Len(q) + 1, f)
  BY <1>7 DEF IsLastOn
<1>9. /\ \A i \in 1..Len(q) : Informs(r, i) <=> Informs(q, i)
      /\ ~Informs(r, Len(q) + 1)
      /\ \A f : \A i \in 1..Len(q) : Says(r, i, f) <=> Says(q, i, f)
  BY <1>1, <1>3 DEF Informs, Says
<1> QED BY <1>4, <1>5, <1>6, <1>7, <1>8, <1>9 DEF r

\* A batch at the end has the last word on the facts it is about.
LEMMA BatchHasLastWord ==
  ASSUME NEW q \in Seq(Messages), NEW m \in Messages, m.type \in {"All", "Change"}
  PROVE  LET r == Append(q, m)
         IN /\ \A i \in 0..Len(q) : IsOfLastLife(r, i) <=> IsOfLastLife(q, i)
            /\ \A f : \A i \in 1..Len(q) : Tells(r, i, f) <=> Tells(q, i, f)
            /\ \A f : \A i \in 1..Len(q) :
                 IsLastOn(r, i, f) => IsLastOn(q, i, f) /\ ~Tells(r, Len(q) + 1, f)
            /\ \A f : \A i \in 1..Len(q) : Says(r, i, f) <=> Says(q, i, f)
<1> DEFINE r == Append(q, m)
<1>1. /\ Len(r) = Len(q) + 1 /\ r[Len(q) + 1] = m
      /\ \A i \in 1..Len(q) : r[i] = q[i]
      /\ Len(q) \in Nat
  BY Appended
<1> HIDE DEF r
<1>2. \A i \in 0..Len(q) : IsOfLastLife(r, i) <=> IsOfLastLife(q, i)
  BY <1>1 DEF IsOfLastLife
<1>3. \A f : \A i \in 1..Len(q) : Tells(r, i, f) <=> Tells(q, i, f)
  BY <1>1 DEF Tells
<1>4. \A f : \A i \in 1..Len(q) :
        IsLastOn(r, i, f) => IsLastOn(q, i, f) /\ ~Tells(r, Len(q) + 1, f)
  BY <1>1, <1>2, <1>3 DEF IsLastOn
<1>5. \A f : \A i \in 1..Len(q) : Says(r, i, f) <=> Says(q, i, f)
  BY <1>1 DEF Says
<1> QED BY <1>2, <1>3, <1>4, <1>5 DEF r

\* What is behind the first message stays as it is without it.
LEMMA TailSaysTheSame ==
  ASSUME NEW q \in Seq(Messages), q # <<>>
  PROVE  LET r == Tail(q)
         IN /\ \A i \in 1..Len(r) : Informs(r, i) <=> Informs(q, i + 1)
            /\ \A i \in 0..Len(r) : IsOfLastLife(r, i) <=> IsOfLastLife(q, i + 1)
            /\ \A f : \A i \in 1..Len(r) : Tells(r, i, f) <=> Tells(q, i + 1, f)
            /\ \A f : \A i \in 1..Len(r) : IsLastOn(r, i, f) <=> IsLastOn(q, i + 1, f)
            /\ \A f : \A i \in 1..Len(r) : Says(r, i, f) <=> Says(q, i + 1, f)
<1> DEFINE r == Tail(q)
<1>1. /\ Len(q) \in Nat \ {0} /\ Len(r) = Len(q) - 1
      /\ \A i \in 1..Len(q) - 1 : r[i] = q[i + 1]
  BY Tailed
<1> HIDE DEF r
<1>2. \A i \in 1..Len(r) : i + 1 \in 1..Len(q) /\ r[i] = q[i + 1]
  BY <1>1
<1>3. \A j \in 1..Len(q) : j > 1 => j - 1 \in 1..Len(r) /\ q[j] = r[j - 1]
  BY <1>1
<1>4. \A i \in 0..Len(r) : IsOfLastLife(r, i) <=> IsOfLastLife(q, i + 1)
  <2> SUFFICES ASSUME NEW i \in 0..Len(r)
               PROVE  IsOfLastLife(r, i) <=> IsOfLastLife(q, i + 1)
    OBVIOUS
  <2>1. ASSUME IsOfLastLife(r, i), NEW j \in 1..Len(q), j > i + 1
        PROVE  q[j].type # "Vanished"
    BY <1>1, <1>3, <2>1 DEF IsOfLastLife
  <2>2. ASSUME IsOfLastLife(q, i + 1), NEW j \in 1..Len(r), j > i
        PROVE  r[j].type # "Vanished"
    BY <1>1, <1>2, <2>2 DEF IsOfLastLife
  <2> QED BY <2>1, <2>2 DEF IsOfLastLife
<1>5. \A f : \A i \in 1..Len(r) : Tells(r, i, f) <=> Tells(q, i + 1, f)
  BY <1>2 DEF Tells
<1>6. \A f : \A i \in 1..Len(r) : IsLastOn(r, i, f) <=> IsLastOn(q, i + 1, f)
  <2> SUFFICES ASSUME NEW f, NEW i \in 1..Len(r)
               PROVE  IsLastOn(r, i, f) <=> IsLastOn(q, i + 1, f)
    OBVIOUS
  <2>1. ASSUME \A j \in 1..Len(r) : j > i => ~Tells(r, j, f), NEW j \in 1..Len(q), j > i + 1
        PROVE  ~Tells(q, j, f)
    <3>1. j - 1 \in 1..Len(r) /\ j - 1 > i /\ (j - 1) + 1 = j
      BY <1>1, <1>3, <2>1
    <3> QED BY <1>5, <2>1, <3>1
  <2>2. ASSUME \A j \in 1..Len(q) : j > i + 1 => ~Tells(q, j, f), NEW j \in 1..Len(r), j > i
        PROVE  ~Tells(r, j, f)
    BY <1>1, <1>2, <1>5, <2>2
  <2>3. i \in 0..Len(r)
    OBVIOUS
  <2> QED BY <1>4, <1>5, <2>1, <2>2, <2>3 DEF IsLastOn
<1>7. /\ \A i \in 1..Len(r) : Informs(r, i) <=> Informs(q, i + 1)
      /\ \A f : \A i \in 1..Len(r) : Says(r, i, f) <=> Says(q, i + 1, f)
  BY <1>2 DEF Informs, Says
<1> QED BY <1>4, <1>5, <1>6, <1>7 DEF r
(***************************************************************************)
(* DCPD                                                                    *)
(***************************************************************************)
\* Nothing is sent before, and nothing known to be lost after, the handler
\* is attached: a batch that is emitted gets into the queue, or there has
\* been none, and the store is not complete.
LEMMA InvOfQueue ==
  ASSUME DcpdInv, NEW q, q = queue
  PROVE  /\ q \in Seq(Messages) /\ Len(q) \in Nat
         /\ QueueIsSound(q) /\ StoreIsSound(q)
         /\ ~running /\ IsOfLastLife(q, 0) => store = {} /\ ~complete /\ ~failed
BY QueueType DEF DcpdInv

LEMMA StartKeepsInv ==
  ASSUME DcpdInv, StartDcpd
  PROVE  DcpdInv'
<1>1. /\ ~running /\ running' = TRUE /\ lives \in 0..MaxLives /\ lives < MaxLives
      /\ lives' = lives + 1 /\ content' \subseteq Facts /\ queue' = Append(queue, Appeared)
      /\ UNCHANGED <<request, requests, updates, store, complete, failed>>
  BY QueueType DEF StartDcpd, Queue, proxyVars, storeVars, DcpdInv
<1>2. Appeared \in Messages
  BY DEF Messages
<1>3. /\ queue \in Seq(Messages) /\ Len(queue) \in Nat
      /\ queue' \in Seq(Messages) /\ Len(queue') = Len(queue) + 1
  BY <1>1, <1>2, Appended, InvOfQueue
<1>4. TypeOK'
  <2>1. TypeOK /\ lives' \in 0..MaxLives
    BY <1>1, DcpdAssumption DEF DcpdInv
  <2> QED BY <1>1, <1>3, <2>1 DEF TypeOK, Messages
<1>5. /\ \A i \in 1..Len(queue) : Informs(queue', i) => Informs(queue, i)
      /\ ~Informs(queue', Len(queue) + 1)
      /\ \A i \in 0..Len(queue) : IsOfLastLife(queue', i) => IsOfLastLife(queue, i)
      /\ \A f : \A i \in 1..Len(queue) : IsLastOn(queue', i, f) => IsLastOn(queue, i, f)
      /\ \A f : ~IsLastOn(queue', Len(queue) + 1, f)
  BY <1>1, <1>3, NewsAreNeutral
<1>6. QueueIsSound(queue)
  BY DEF DcpdInv
<1>7. \A f : \A i \in 1..Len(queue) : ~IsLastOn(queue', i, f)
  <2> SUFFICES ASSUME NEW f, NEW i \in 1..Len(queue), IsLastOn(queue, i, f)
               PROVE  FALSE
    BY <1>5
  <2>1. Informs(queue, i) /\ IsOfLastLife(queue, i)
    BY DEF IsLastOn, Tells, Concerns, Informs
  <2> QED BY <1>1, <1>6, <2>1 DEF QueueIsSound
<1>8. \A i \in 1..Len(queue') : i \in 1..Len(queue) \/ i = Len(queue) + 1
  BY <1>3
<1>9. QueueIsSound(queue)'
  BY <1>1, <1>5, <1>6, <1>7, <1>8 DEF QueueIsSound
<1>10. StoreIsSound(queue)'
  <2>1. complete => ~IsOfLastLife(queue, 0)
    BY <1>1 DEF DcpdInv, StoreIsSound
  <2>2. complete' => ~IsOfLastLife(queue', 0)
    BY <1>1, <1>3, <1>5, <2>1
  <2> QED BY <2>2 DEF StoreIsSound
<1> QED BY <1>1, <1>4, <1>9, <1>10 DEF DcpdInv

LEMMA StopKeepsInv ==
  ASSUME DcpdInv, StopDcpd
  PROVE  DcpdInv'
<1>1. /\ running' = FALSE /\ request' = FALSE
      /\ content' = {} /\ queue' = Append(queue, Vanished)
      /\ UNCHANGED <<lives, requests, updates, store, complete, failed>>
  BY DEF StopDcpd, Queue, proxyVars, storeVars
<1>2. Vanished \in Messages /\ Vanished # Appeared
  BY DEF Messages, Vanished, Appeared
<1>3. /\ queue \in Seq(Messages) /\ Len(queue) \in Nat
      /\ queue' \in Seq(Messages) /\ Len(queue') = Len(queue) + 1
  BY <1>1, <1>2, Appended, InvOfQueue
<1>4. TypeOK'
  <2>1. TypeOK
    BY DEF DcpdInv
  <2>2. queue' \in Seq({Appeared, Vanished} \cup {All(S) : S \in SUBSET Facts}
                       \cup {Change(f, b) : f \in Facts, b \in BOOLEAN})
    BY <1>3 DEF Messages
  <2>3. running' \in BOOLEAN /\ request' \in BOOLEAN /\ content' \subseteq Facts
    BY <1>1
  <2>4. /\ lives' \in 0..MaxLives
        /\ requests' \in {"none", "connecting", "connected"}
        /\ updates' \in {"none", "connecting", "connected"}
    BY <1>1, <2>1 DEF TypeOK
  <2>5. store' \subseteq Facts /\ complete' \in BOOLEAN /\ failed' \in BOOLEAN
    BY <1>1, <2>1 DEF TypeOK
  <2> QED BY <2>2, <2>3, <2>4, <2>5 DEF TypeOK
<1>5. /\ \A i \in 1..Len(queue) : Informs(queue', i) => Informs(queue, i)
      /\ ~Informs(queue', Len(queue) + 1)
      /\ \A i \in 0..Len(queue) : ~IsOfLastLife(queue', i)
      /\ \A f : \A i \in 1..Len(queue) : ~IsLastOn(queue', i, f)
      /\ \A f : ~IsLastOn(queue', Len(queue) + 1, f)
  BY <1>1, <1>2, <1>3, NewsAreNeutral
<1>6. QueueIsSound(queue)
  BY DEF DcpdInv
<1>8. \A i \in 1..Len(queue') : i \in 1..Len(queue) \/ i = Len(queue) + 1
  BY <1>3
<1>9. QueueIsSound(queue)'
  BY <1>1, <1>5, <1>6, <1>8 DEF QueueIsSound
<1>10. StoreIsSound(queue)' /\ ~IsOfLastLife(queue', 0)
  BY <1>3, <1>5 DEF StoreIsSound
<1> QED BY <1>1, <1>4, <1>9, <1>10 DEF DcpdInv

\* A batch that is emitted is right about its facts, while others stay as they
\* are; before the handler is attached, there is nothing to be wrong.
LEMMA EmitKeepsInv ==
  ASSUME DcpdInv, running, NEW m \in Messages, m.type \in {"All", "Change"}, Emit(m),
         content' \subseteq Facts,
         \A f \in Facts : IF Concerns(m, f) THEN Affirms(m, f) <=> f \in content'
                          ELSE f \in content' <=> f \in content,
         request' \in BOOLEAN,
         UNCHANGED <<running, lives, proxyVars, storeVars>>
  PROVE  DcpdInv'
<1>1. TypeOK /\ QueueIsSound(queue) /\ StoreIsSound(queue) /\ queue \in Seq(Messages)
  BY InvOfQueue DEF DcpdInv
<1>2. UNCHANGED <<requests, updates, store, complete, failed>>
  BY DEF proxyVars, storeVars
<1>3. CASE updates # "connected"
  <2>1. queue' = queue
    BY <1>3 DEF Emit
  <2>2. ~complete /\ \A i \in 1..Len(queue) : ~Informs(queue, i)
    BY <1>1, <1>3 DEF DcpdInv, QueueIsSound
  <2>3. \A f : \A i \in 1..Len(queue) : ~IsLastOn(queue, i, f)
    BY <2>2 DEF IsLastOn, Tells, Concerns, Informs
  <2>4. TypeOK'
    BY <1>1, <1>2, <2>1 DEF TypeOK
  <2>5. QueueIsSound(queue)' /\ StoreIsSound(queue)'
    BY <1>2, <2>1, <2>2, <2>3 DEF QueueIsSound, StoreIsSound
  <2> QED BY <1>2, <2>2, <2>4, <2>5 DEF DcpdInv
<1>4. CASE updates = "connected"
  <2>1. queue' = Append(queue, m)
    BY <1>4 DEF Emit, Queue
  <2>2. /\ queue' \in Seq(Messages) /\ Len(queue) \in Nat
        /\ Len(queue') = Len(queue) + 1 /\ queue'[Len(queue) + 1] = m
    BY <1>1, <2>1, Appended
  <2>3. TypeOK'
    BY <1>1, <1>2, <2>2 DEF TypeOK, Messages
  <2>4. /\ \A i \in 0..Len(queue) : IsOfLastLife(queue', i) <=> IsOfLastLife(queue, i)
        /\ \A f : \A i \in 1..Len(queue) : Tells(queue', i, f) <=> Tells(queue, i, f)
        /\ \A f : \A i \in 1..Len(queue) :
             IsLastOn(queue', i, f) => IsLastOn(queue, i, f) /\ ~Tells(queue', Len(queue) + 1, f)
        /\ \A f : \A i \in 1..Len(queue) : Says(queue', i, f) <=> Says(queue, i, f)
    BY <1>1, <2>1, BatchHasLastWord
  <2>5. \A i \in 1..Len(queue') : i \in 1..Len(queue) \/ i = Len(queue) + 1
    BY <2>2
  <2>6. \A f \in Facts : ~Tells(queue', Len(queue) + 1, f) => (f \in content' <=> f \in content)
    BY <2>2 DEF Tells
  <2>7. \A f \in Facts : Tells(queue', Len(queue) + 1, f)
                          => (Says(queue', Len(queue) + 1, f) <=> f \in content')
    BY <2>2 DEF Tells, Says
  <2>8. QueueIsSound(queue)'
    <3>1. ASSUME NEW f \in Facts, NEW i \in 1..Len(queue'), IsLastOn(queue', i, f)
          PROVE  Says(queue', i, f) <=> f \in content'
      <4>1. CASE i \in 1..Len(queue)
        BY <1>1, <2>4, <2>6, <3>1, <4>1 DEF QueueIsSound
      <4>2. CASE i = Len(queue) + 1
        BY <2>7, <3>1, <4>2 DEF IsLastOn
      <4> QED BY <2>5, <4>1, <4>2
    <3> QED BY <1>2, <1>4, <3>1 DEF QueueIsSound
  <2>9. StoreIsSound(queue)'
    <3> SUFFICES ASSUME complete, IsOfLastLife(queue', 0)
                 PROVE  \A f \in Facts : (\A j \in 1..Len(queue') : ~Tells(queue', j, f)) =>
                          (f \in store <=> f \in content')
      BY <1>2 DEF StoreIsSound
    <3>1. IsOfLastLife(queue, 0)
      BY <2>2, <2>4
    <3>2. \A f \in Facts : (\A j \in 1..Len(queue) : ~Tells(queue, j, f)) =>
            (f \in store <=> f \in content)
      BY <1>1, <3>1 DEF StoreIsSound
    <3>3. 1..Len(queue) \subseteq 1..Len(queue') /\ Len(queue) + 1 \in 1..Len(queue')
      BY <2>2
    <3> QED BY <2>4, <2>6, <3>2, <3>3
  <2> QED BY <1>2, <1>4, <2>3, <2>8, <2>9 DEF DcpdInv
<1> QED BY <1>3, <1>4

LEMMA ChangeKeepsInv ==
  ASSUME DcpdInv, NEW f \in Facts, ChangeFact(f)
  PROVE  DcpdInv'
<1>1. /\ content' = IF f \in content THEN content \ {f} ELSE content \cup {f}
      /\ running /\ Emit(Change(f, f \notin content))
      /\ UNCHANGED <<running, lives, request, proxyVars, storeVars>>
  BY DEF ChangeFact
<1>2. content' \subseteq Facts /\ request' \in BOOLEAN
  BY <1>1 DEF DcpdInv, TypeOK
<1>3. \E b \in BOOLEAN : b = (f \notin content)
  OBVIOUS
<1>4. PICK b \in BOOLEAN : b = (f \notin content)
  BY <1>3
<1> DEFINE m == Change(f, b)
<1>5. m \in Messages
  BY DEF Messages
<1>6. m.type = "Change" /\ m.fact = f /\ m.set = b
  BY DEF Change
<1>7. Emit(m)
  BY <1>1, <1>4
<1> HIDE DEF m
<1>8. ASSUME NEW g \in Facts
      PROVE  IF Concerns(m, g) THEN Affirms(m, g) <=> g \in content'
             ELSE g \in content' <=> g \in content
  BY <1>1, <1>4, <1>6 DEF Concerns, Affirms
<1> QED BY <1>1, <1>2, <1>5, <1>6, <1>7, <1>8, EmitKeepsInv

LEMMA AnswerKeepsInv ==
  ASSUME DcpdInv, AnswerRequest
  PROVE  DcpdInv'
<1> DEFINE m == All(content)
<1>1. m.type = "All" /\ m.facts = content
  BY DEF All
<1>2. m \in Messages
  <2>1. content \in SUBSET Facts
    BY DEF DcpdInv, TypeOK
  <2> QED BY <2>1 DEF Messages
<1>3. /\ request /\ request' = FALSE
      /\ Emit(m) /\ UNCHANGED <<content, running, lives, proxyVars, storeVars>>
  BY DEF AnswerRequest, dcpdVars
<1> HIDE DEF m
<1>4. running /\ content' \subseteq Facts
  BY <1>3 DEF DcpdInv, TypeOK
<1>5. \A f \in Facts : IF Concerns(m, f) THEN Affirms(m, f) <=> f \in content'
                       ELSE f \in content' <=> f \in content
  BY <1>1, <1>3 DEF Concerns, Affirms
<1> QED BY <1>1, <1>2, <1>3, <1>4, <1>5, EmitKeepsInv
(***************************************************************************)
(* AuPaD                                                                   *)
(***************************************************************************)
\* Taking the first message from a sound queue leaves a sound queue.
LEMMA HandledQueueIsSound ==
  ASSUME NEW q \in Seq(Messages), q # <<>>, QueueIsSound(q),
         UNCHANGED <<content, running>>, updates = "connected" => updates' = "connected"
  PROVE  QueueIsSound(Tail(q))'
<1> DEFINE r == Tail(q)
<1>1. /\ \A i \in 1..Len(r) : Informs(r, i) <=> Informs(q, i + 1)
      /\ \A i \in 0..Len(r) : IsOfLastLife(r, i) <=> IsOfLastLife(q, i + 1)
      /\ \A f : \A i \in 1..Len(r) : IsLastOn(r, i, f) <=> IsLastOn(q, i + 1, f)
      /\ \A f : \A i \in 1..Len(r) : Says(r, i, f) <=> Says(q, i + 1, f)
  BY TailSaysTheSame
<1>2. \A i \in 1..Len(r) : i + 1 \in 1..Len(q) /\ i \in 0..Len(r)
  BY Tailed
<1> HIDE DEF r
<1>3. QueueIsSound(r)'
  BY <1>1, <1>2 DEF QueueIsSound
<1> QED BY <1>3 DEF r

\* What is first in the queue, and the store with what remains.
LEMMA FirstMessage ==
  ASSUME NEW q \in Seq(Messages), q # <<>>
  PROVE  /\ 1 \in 1..Len(q) /\ Head(q) = q[1] /\ q[1] \in Messages
         /\ q[1].type # "Vanished" => (IsOfLastLife(Tail(q), 0) => IsOfLastLife(q, 0))
         /\ IsOfLastLife(Tail(q), 0) => IsOfLastLife(q, 1)
         /\ \A f : (\A j \in 1..Len(Tail(q)) : ~Tells(Tail(q), j, f)) =>
                    \A j \in 1..Len(q) : j > 1 => ~Tells(q, j, f)
<1> DEFINE r == Tail(q)
<1>1. /\ Len(q) \in Nat \ {0} /\ Len(r) = Len(q) - 1 /\ Head(q) = q[1] /\ q[1] \in Messages
      /\ \A i \in 1..Len(q) - 1 : r[i] = q[i + 1]
  BY Tailed
<1> HIDE DEF r
<1>2. \A j \in 1..Len(q) : j > 1 => j - 1 \in 1..Len(r) /\ j - 1 > 0 /\ q[j] = r[j - 1]
  BY <1>1
<1>3. IsOfLastLife(r, 0) => IsOfLastLife(q, 1)
  BY <1>2 DEF IsOfLastLife
<1>4. IsOfLastLife(q, 1) /\ q[1].type # "Vanished" => IsOfLastLife(q, 0)
  <2> SUFFICES ASSUME IsOfLastLife(q, 1), q[1].type # "Vanished", NEW j \in 1..Len(q)
               PROVE  q[j].type # "Vanished"
    BY DEF IsOfLastLife
  <2>1. j = 1 \/ j > 1
    BY <1>1
  <2> QED BY <2>1 DEF IsOfLastLife
<1>5. \A f : (\A j \in 1..Len(r) : ~Tells(r, j, f)) =>
            \A j \in 1..Len(q) : j > 1 => ~Tells(q, j, f)
  BY <1>2 DEF Tells
<1>6. 1 \in 1..Len(q)
  BY <1>1
<1> QED BY <1>1, <1>3, <1>4, <1>5, <1>6 DEF r

LEMMA HandleKeepsInv ==
  ASSUME DcpdInv, Handle
  PROVE  DcpdInv'
<1> DEFINE m == queue[1]
<1>1. /\ queue # <<>> /\ queue' = Tail(queue)
      /\ UNCHANGED <<content, running, lives, request>>
  BY DEF Handle, dcpdVars
<1>2. /\ queue \in Seq(Messages) /\ queue' \in Seq(Messages) /\ TypeOK
      /\ QueueIsSound(queue) /\ StoreIsSound(queue)
      /\ ~running /\ IsOfLastLife(queue, 0) => store = {} /\ ~complete /\ ~failed
      /\ complete => updates = "connected"
      /\ request => running
  BY <1>1, Tailed, InvOfQueue DEF DcpdInv
<1>3. /\ 1 \in 1..Len(queue) /\ Head(queue) = m /\ m \in Messages
      /\ m.type # "Vanished" => (IsOfLastLife(queue', 0) => IsOfLastLife(queue, 0))
      /\ IsOfLastLife(queue', 0) => IsOfLastLife(queue, 1)
      /\ \A f : (\A j \in 1..Len(queue') : ~Tells(queue', j, f)) =>
                 \A j \in 1..Len(queue) : j > 1 => ~Tells(queue, j, f)
  BY <1>1, <1>2, FirstMessage
<1>4. \A f : Tells(queue, 1, f) <=> Concerns(m, f)
  BY DEF Tells
<1>5. Informs(queue, 1) <=> m.type \in {"All", "Change"}
  BY DEF Informs
<1>6. queue' \in Seq({Appeared, Vanished} \cup {All(S) : S \in SUBSET Facts}
                     \cup {Change(f, b) : f \in Facts, b \in BOOLEAN})
  BY <1>2 DEF Messages
<1>7. \A f : (\A j \in 1..Len(queue') : ~Tells(queue', j, f)) /\ ~Concerns(m, f) =>
            \A j \in 1..Len(queue) : ~Tells(queue, j, f)
  <2> SUFFICES ASSUME NEW f, \A j \in 1..Len(queue') : ~Tells(queue', j, f), ~Concerns(m, f),
                      NEW j \in 1..Len(queue)
               PROVE  ~Tells(queue, j, f)
    OBVIOUS
  <2>1. j = 1 \/ j > 1
    BY <1>2
  <2> QED BY <1>3, <1>4, <2>1
<1> HIDE DEF m
<1>8. CASE m = Appeared
  <2>0. DcpdAppeared
    <3>1. Head(queue) = Appeared
      BY <1>3, <1>8
    <3>2. (CASE Head(queue) = Appeared -> DcpdAppeared
             [] Head(queue) = Vanished -> DcpdVanished
             [] OTHER -> ProcessUpdate(Head(queue)) \/ FailToUpdate(Head(queue)))
      BY Zenon DEF Handle
    <3>3. Appeared # Vanished
      BY DEF Appeared, Vanished
    <3> QED BY <3>1, <3>2, <3>3
  <2>1. m.type = "Appeared"
    BY <1>8 DEF Appeared
  <2>2. /\ requests' = "connecting" /\ updates' = IF updates = "connected" THEN updates ELSE "connecting"
        /\ UNCHANGED <<store, complete, failed>>
    BY <2>0 DEF DcpdAppeared, storeVars
  <2>3. TypeOK'
    BY <1>1, <1>2, <1>6, <2>2 DEF TypeOK
  <2>4. QueueIsSound(queue)'
    BY <1>1, <1>2, <2>2, HandledQueueIsSound
  <2>5. \A f : ~Concerns(m, f)
    BY <2>1 DEF Concerns
  <2>6. StoreIsSound(queue)'
    BY <1>1, <1>2, <1>3, <1>7, <2>1, <2>2, <2>5 DEF StoreIsSound
  <2> QED BY <1>1, <1>2, <1>3, <2>1, <2>2, <2>3, <2>4, <2>6 DEF DcpdInv
<1>9. CASE m = Vanished
  <2>1. DcpdVanished
    BY <1>3, <1>9 DEF Handle, Appeared, Vanished
  <2>2. /\ store' = {} /\ complete' = FALSE /\ failed' = FALSE
        /\ UNCHANGED <<requests, updates>>
    BY <2>1 DEF DcpdVanished, proxyVars
  <2>3. TypeOK'
    <3>1. store' \subseteq Facts /\ complete' \in BOOLEAN /\ failed' \in BOOLEAN
      BY <2>2
    <3>2. UNCHANGED <<requests, updates>>
      BY <2>2
    <3> QED BY <1>1, <1>2, <1>6, <3>1, <3>2 DEF TypeOK
  <2>4. QueueIsSound(queue)'
    BY <1>1, <1>2, <2>2, HandledQueueIsSound
  <2>5. StoreIsSound(queue)'
    BY <2>2 DEF StoreIsSound
  <2> QED BY <1>1, <1>2, <2>2, <2>3, <2>4, <2>5 DEF DcpdInv
<1>10. CASE m # Appeared /\ m # Vanished
  <2>1. ProcessUpdate(m) \/ FailToUpdate(m)
    BY <1>3, <1>10 DEF Handle
  <2>2. \/ m.type = "All" /\ m.facts \subseteq Facts
        \/ m.type = "Change" /\ m.fact \in Facts /\ m.set \in BOOLEAN
    BY <1>3, <1>10, MessageShape
  <2>3. UNCHANGED <<requests, updates>>
    BY <2>1 DEF ProcessUpdate, FailToUpdate, proxyVars
  <2>4. updates = "connected" /\ (IsOfLastLife(queue', 0) => running)
    BY <1>2, <1>3, <1>5, <2>2 DEF QueueIsSound
  <2>5. QueueIsSound(queue)'
    BY <1>1, <1>2, <2>3, HandledQueueIsSound
  <2>6. CASE FailToUpdate(m)
    <3>1. complete' = FALSE /\ failed' = TRUE /\ store' \subseteq Facts
      BY <1>2, <2>2, <2>6 DEF FailToUpdate, TypeOK
    <3>2. TypeOK'
      <4>1. store' \subseteq Facts /\ complete' \in BOOLEAN /\ failed' \in BOOLEAN
        BY <3>1
      <4> QED BY <1>1, <1>2, <1>6, <2>3, <4>1 DEF TypeOK
    <3>3. StoreIsSound(queue)'
      BY <3>1 DEF StoreIsSound
    <3> QED BY <1>1, <1>2, <2>3, <2>4, <2>5, <3>1, <3>2, <3>3 DEF DcpdInv
  <2>7. CASE ProcessUpdate(m)
    <3>1. /\ complete' = (complete \/ m.type = "All")
          /\ failed' = (failed /\ m.type # "All")
          /\ m.type = "All" => store' = m.facts
          /\ m.type = "Change" => store' = IF m.set THEN store \cup {m.fact} ELSE store \ {m.fact}
      BY <2>2, <2>7 DEF ProcessUpdate
    <3>2. store' \subseteq Facts /\ complete' \in BOOLEAN /\ failed' \in BOOLEAN
      BY <1>2, <2>2, <3>1 DEF TypeOK
    <3>3. TypeOK'
      BY <1>1, <1>2, <1>6, <2>3, <3>2 DEF TypeOK
    <3>4. \A f : Concerns(m, f) => (f \in store' <=> Affirms(m, f))
      BY <2>2, <3>1 DEF Concerns, Affirms
    <3>5. ASSUME NEW f, ~Concerns(m, f)
          PROVE  m.type = "Change" /\ (complete' = complete) /\ (f \in store' <=> f \in store)
      <4>1. m.type = "Change" /\ m.fact # f
        BY <2>2, <3>5 DEF Concerns
      <4>2. complete' = complete
        BY <1>2, <3>1, <4>1 DEF TypeOK
      <4> QED BY <3>1, <4>1, <4>2
    <3>6. StoreIsSound(queue)'
      <4> SUFFICES ASSUME complete', IsOfLastLife(queue', 0), NEW f \in Facts,
                          \A j \in 1..Len(queue') : ~Tells(queue', j, f)
                   PROVE  f \in store' <=> f \in content
        BY <1>1, <2>4 DEF StoreIsSound
      <4>1. CASE Concerns(m, f)
        <5>1. IsLastOn(queue, 1, f)
          BY <1>3, <1>4, <4>1 DEF IsLastOn
        <5>2. Says(queue, 1, f) <=> f \in content
          BY <1>2, <1>3, <5>1 DEF QueueIsSound
        <5>3. Affirms(m, f) <=> f \in content
          BY <5>2 DEF Says, m
        <5> QED BY <3>4, <4>1, <5>3
      <4>2. CASE ~Concerns(m, f)
        <5>1. m.type = "Change" /\ complete /\ (f \in store' <=> f \in store)
          BY <3>5, <4>2
        <5>2. IsOfLastLife(queue, 0)
          BY <1>3, <5>1
        <5>3. f \in store <=> f \in content
          BY <1>2, <1>7, <4>2, <5>1, <5>2 DEF StoreIsSound
        <5> QED BY <5>1, <5>3
      <4> QED BY <4>1, <4>2
    <3> QED BY <1>1, <1>2, <2>3, <2>4, <2>5, <3>3, <3>6 DEF DcpdInv
  <2> QED BY <2>1, <2>6, <2>7
<1> QED BY <1>8, <1>9, <1>10

LEMMA ConnectedKeepsInv ==
  ASSUME DcpdInv, NEW b \in BOOLEAN, RequestsConnected(b) \/ UpdatesConnected(b)
  PROVE  DcpdInv'
<1>1. /\ UNCHANGED <<content, running, lives, queue, store, complete, failed>>
      /\ updates = "connected" => updates' = "connected"
      /\ updates' \in {"none", "connected"} \cup {updates}
      /\ requests' \in {"none", "connected"} \cup {requests}
  BY DEF RequestsConnected, UpdatesConnected, dcpdVars, storeVars
<1>0. request' => running
  <2>1. request => running
    BY DEF DcpdInv
  <2>2. CASE RequestsConnected(b)
    <3>1. request' = (request \/ (b /\ running))
      BY <2>2 DEF RequestsConnected
    <3> QED BY <2>1, <3>1
  <2>3. CASE UpdatesConnected(b)
    <3>1. request' = request
      BY <2>3 DEF UpdatesConnected
    <3> QED BY <2>1, <3>1
  <2> QED BY <2>2, <2>3
<1>2. request' \in BOOLEAN
  BY DEF RequestsConnected, UpdatesConnected, DcpdInv, TypeOK
<1>3. TypeOK'
  BY <1>1, <1>2 DEF DcpdInv, TypeOK
<1>4. QueueIsSound(queue)' /\ StoreIsSound(queue)'
  BY <1>1 DEF DcpdInv, QueueIsSound, StoreIsSound
<1> QED BY <1>0, <1>1, <1>3, <1>4 DEF DcpdInv

(***************************************************************************)
(* Theorems                                                                *)
(***************************************************************************)
\* The inductive invariant.
THEOREM DcpdIsFollowed == Spec => []DcpdInv
<1>1. Init => DcpdInv
  <2> SUFFICES ASSUME Init PROVE DcpdInv
    OBVIOUS
  <2>1. TypeOK
    <3>1. /\ running \in BOOLEAN /\ request \in BOOLEAN /\ complete \in BOOLEAN /\ failed \in BOOLEAN
          /\ content \subseteq Facts /\ store \subseteq Facts
      BY DEF Init
    <3>4. lives \in 0..MaxLives
      BY DcpdAssumption DEF Init
    <3>2. queue \in Seq(Messages)
      BY DEF Init
    <3>3. requests = "none" /\ updates = "none"
      BY DEF Init
    <3> QED BY <3>1, <3>2, <3>3, <3>4, QueueType
  <2>2. QueueIsSound(queue) /\ StoreIsSound(queue)
    BY DEF Init, QueueIsSound, StoreIsSound
  <2> QED BY <2>1, <2>2 DEF Init, DcpdInv
<1>2. DcpdInv /\ UNCHANGED vars => DcpdInv'
  BY DEF vars, dcpdVars, proxyVars, storeVars, DcpdInv, TypeOK, QueueIsSound, StoreIsSound
<1>3. DcpdInv /\ [Next]_vars => DcpdInv'
  BY <1>2, StartKeepsInv, StopKeepsInv, ChangeKeepsInv, AnswerKeepsInv, HandleKeepsInv,
     ConnectedKeepsInv DEF Next
<1> QED BY <1>1, <1>3, PTL DEF Spec

\* Type correctness.
THEOREM DcpdTypeCorrect == Spec => []TypeOK
<1>1. DcpdInv => TypeOK
  BY DEF DcpdInv
<1> QED BY <1>1, DcpdIsFollowed, PTL

\* A complete store follows DCPD, through any number of restarts and with any
\* number of messages under way (process_dcpd_audio_path_update()).
THEOREM CompleteStoreFollows == Spec => []CompleteStoreFollowsDcpd
<1>1. DcpdInv => CompleteStoreFollowsDcpd
  <2> SUFFICES ASSUME DcpdInv, complete, queue = <<>>
               PROVE  running /\ store = content
    BY DEF CompleteStoreFollowsDcpd
  <2>1. IsOfLastLife(queue, 0) /\ 1..Len(queue) = {}
    BY DEF IsOfLastLife
  <2>2. running /\ \A f \in Facts : f \in store <=> f \in content
    BY <2>1 DEF DcpdInv, StoreIsSound
  <2>3. content \subseteq Facts /\ store \subseteq Facts
    BY DEF DcpdInv, TypeOK
  <2> QED BY <2>2, <2>3
<1> QED BY <1>1, DcpdIsFollowed, PTL

\* Nothing is known while there is no DCPD and all news have arrived
\* (listen_to_dcpd_audio_path_updates()).
THEOREM NothingKnown == Spec => []NothingIsKnownWithoutDcpd
<1>1. DcpdInv => NothingIsKnownWithoutDcpd
  <2> SUFFICES ASSUME DcpdInv, ~running, queue = <<>>
               PROVE  store = {} /\ ~complete /\ ~failed
    BY DEF NothingIsKnownWithoutDcpd
  <2>1. IsOfLastLife(queue, 0)
    BY DEF IsOfLastLife
  <2> QED BY <2>1 DEF DcpdInv
<1> QED BY <1>1, DcpdIsFollowed, PTL
=============================================================================
