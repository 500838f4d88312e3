----------------------- MODULE SignalPathTrackerProofs -----------------------
(***************************************************************************)
(* Proof that the search for active signal paths keeps its one path vector *)
(* a chain of edges which are switched the way they are passed, that what  *)
(* it reports are active paths from a source to a sink, and that it        *)
(* reports each of them once: for any graph, any mappings and selectors,   *)
(* and any order of edges.  Only to compare with the reference definition, *)
(* which knows paths by the sets of their edges, the graph must have no    *)
(* cycle.                                                                  *)
(***************************************************************************)
EXTENDS SignalPathTracker, FiniteSetTheorems, TLAPS

Calls == [elem: Elements, edges: SUBSET edges, at: edges \cup {Unconnected}, outs: SUBSET Nat]

\* Enumerations start at sources which have no parent.
Starts(x) == IsSource(x) /\ x \notin Sub /\ Passes(x, Unconnected, 0)

\* What PathIsActiveChain says of the path vector, for any path.
IsChain(p) ==
  \A i \in 1..Len(p) - 1 :
    \E e \in edges :
      /\ e.from = p[i].elem /\ e.to = p[i + 1].elem
      /\ i = 1 => Begins(e)
      /\ i > 1 => \E f \in edges : f.from = p[i - 1].elem /\ Continues(f, e)

\* An active path: a chain from a source to a sink.
IsActivePath(p) ==
  /\ p # <<>> /\ IsChain(p) /\ Starts(p[1].elem) /\ IsSink(p[Len(p)].elem)
  /\ Len(p) > 1 => \E e \in edges : /\ e.from = p[Len(p) - 1].elem
                                    /\ e.to = p[Len(p)].elem /\ Ends(e)

\* A call of down() follows the edges of one output, which its element passes
\* on to from where the call below it came from; nothing is done twice.
LeavesAt(s, k, out) ==
  /\ s[k].edges \subseteq EdgesAt(s[k].elem, out)
  /\ s[k].outs # {} \/ k < Len(s) =>
       s[k].at \in EdgesAt(s[k].elem, out) /\ s[k].at \notin s[k].edges
  /\ k = 1 => out = 0 /\ Starts(s[k].elem)
  /\ k > 1 => /\ s[k - 1].at.to = s[k].elem /\ Passes(s[k].elem, s[k - 1].at.in, out)
              /\ out \notin s[k - 1].outs

IsStack(s) == \A k \in 1..Len(s) : \E out : LeavesAt(s, k, out)

\* The path vector begins with the elements the search is descending through.
BeginsWith(p, s) == \A k \in 1..Len(s) : k <= Len(p) /\ p[k].elem = s[k].elem

IsSearch(s, p, r) ==
  /\ s \in Seq(Calls) /\ p \in Seq(PathElem) /\ r \in Seq(Seq(PathElem))
  /\ IsStack(s)
  /\ IsChain(p)
  /\ BeginsWith(p, s)
  /\ \A i \in 1..Len(r) : IsActivePath(r[i])

PhaseInv ==
  /\ phase # "walking" => frames = <<>>
  /\ phase \in {"building", "rejected", "idle"} => path = <<>> /\ reported = <<>>
  /\ phase \in {"idle", "walking", "done"} => \A x \in Switching : Finalizes(x)
  /\ phase = "done" => sources = {}
  /\ frames # <<>> => frames[1].elem \notin sources
  /\ \A x \in sources : phase = "walking" => x \in Elements \ Sub /\ IsSource(x)

GraphInv ==
  /\ phase \in {"building", "rejected", "idle", "walking", "done"}
  /\ edges \subseteq Candidates
  /\ DOMAIN selector = Switching
  /\ \A x \in Switching : /\ mapping[x] \in Mappings[x]
                          /\ selector[x] \in ChoicesOf(mapping[x]) \cup {Floating}
  /\ sources \subseteq Elements
  /\ aborted \in BOOLEAN

TrackerInv == GraphInv /\ PhaseInv /\ IsSearch(frames, path, reported)

(***************************************************************************)
(* Sequences                                                               *)
(***************************************************************************)
LEMMA Pushed ==
  ASSUME NEW S, NEW s \in Seq(S), NEW e \in S
  PROVE  /\ Append(s, e) \in Seq(S) /\ Len(s) \in Nat
         /\ Len(Append(s, e)) = Len(s) + 1
         /\ Append(s, e)[Len(s) + 1] = e
         /\ \A i \in 1..Len(s) : Append(s, e)[i] = s[i]
OBVIOUS

LEMMA Cut ==
  ASSUME NEW S, NEW s \in Seq(S), NEW n \in 0..Len(s)
  PROVE  /\ SubSeq(s, 1, n) \in Seq(S)
         /\ Len(SubSeq(s, 1, n)) = n
         /\ \A i \in 1..n : SubSeq(s, 1, n)[i] = s[i]
OBVIOUS

LEMMA TopReplaced ==
  ASSUME NEW S, NEW s \in Seq(S), s # <<>>, NEW e \in S
  PROVE  LET t == [s EXCEPT ![Len(s)] = e]
         IN /\ t \in Seq(S) /\ Len(s) \in Nat \ {0} /\ Len(t) = Len(s)
            /\ t[Len(s)] = e
            /\ \A i \in 1..Len(s) - 1 : t[i] = s[i]
OBVIOUS

\* The path vector with an element at the given depth.
LEMMA PathExtended ==
  ASSUME path \in Seq(PathElem), NEW x \in Elements, NEW depth \in 0..Len(path)
  PROVE  /\ Extended(x, depth) \in Seq(PathElem)
         /\ Len(Extended(x, depth)) = depth + 1
         /\ Extended(x, depth)[depth + 1].elem = x
         /\ \A i \in 1..depth : Extended(x, depth)[i] = path[i]
<1> DEFINE e == [elem |-> x, seen |-> FALSE]
           cut == SubSeq(path, 1, depth)
<1>1. e \in PathElem /\ e.elem = x
  BY DEF PathElem
<1>2. cut \in Seq(PathElem) /\ Len(cut) = depth /\ \A i \in 1..depth : cut[i] = path[i]
  BY Cut
<1>3. Extended(x, depth) = Append(cut, e)
  BY DEF Extended
<1> HIDE DEF e, cut
<1> QED BY <1>1, <1>2, <1>3, Pushed

\* Marking elements as seen leaves the path what it is.
LEMMA SeenIsSamePath ==
  ASSUME NEW p \in Seq(PathElem)
  PROVE  /\ AllSeen(p) \in Seq(PathElem) /\ Len(AllSeen(p)) = Len(p)
         /\ \A i \in 1..Len(p) : AllSeen(p)[i].elem = p[i].elem
<1>1. DOMAIN p = 1..Len(p) /\ Len(p) \in Nat /\ \A i \in 1..Len(p) : p[i] \in PathElem
  OBVIOUS
<1>2. ASSUME NEW e \in PathElem
      PROVE  [e EXCEPT !.seen = TRUE] \in PathElem /\ [e EXCEPT !.seen = TRUE].elem = e.elem
  BY DEF PathElem
<1>3. AllSeen(p) = [i \in 1..Len(p) |-> [p[i] EXCEPT !.seen = TRUE]]
  BY <1>1 DEF AllSeen
<1>4. \A i \in 1..Len(p) : [p[i] EXCEPT !.seen = TRUE] \in PathElem
  BY <1>1, <1>2
<1>5. AllSeen(p) \in Seq(PathElem) /\ Len(AllSeen(p)) = Len(p)
      /\ \A i \in 1..Len(p) : AllSeen(p)[i] = [p[i] EXCEPT !.seen = TRUE]
  BY <1>1, <1>3, <1>4
<1> QED BY <1>1, <1>2, <1>5

(***************************************************************************)
(* Chains                                                                  *)
(***************************************************************************)
\* Only the elements of a path matter.
LEMMA SameElements ==
  ASSUME NEW p \in Seq(PathElem), NEW q \in Seq(PathElem), Len(p) = Len(q),
         \A i \in 1..Len(p) : p[i].elem = q[i].elem
  PROVE  /\ IsChain(p) => IsChain(q)
         /\ \A s : s \in Seq(Calls) /\ BeginsWith(p, s) => BeginsWith(q, s)
<1>1. Len(p) \in Nat
  OBVIOUS
<1>2. ASSUME IsChain(p) PROVE IsChain(q)
  <2> SUFFICES ASSUME NEW i \in 1..Len(p) - 1
               PROVE  \E e \in edges :
                        /\ e.from = q[i].elem /\ e.to = q[i + 1].elem
                        /\ i = 1 => Begins(e)
                        /\ i > 1 => \E f \in edges : f.from = q[i - 1].elem /\ Continues(f, e)
    BY DEF IsChain
  <2>1. i \in 1..Len(p) /\ i + 1 \in 1..Len(p) /\ (i > 1 => i - 1 \in 1..Len(p))
    BY <1>1
  <2>2. /\ q[i].elem = p[i].elem /\ q[i + 1].elem = p[i + 1].elem
        /\ i > 1 => q[i - 1].elem = p[i - 1].elem
    BY <2>1
  <2> QED BY <1>2, <2>2 DEF IsChain
<1>3. ASSUME NEW s \in Seq(Calls), BeginsWith(p, s) PROVE BeginsWith(q, s)
  <2>1. \A k \in 1..Len(s) : k <= Len(p) => k \in 1..Len(p)
    BY <1>1
  <2> QED BY <1>3, <2>1 DEF BeginsWith
<1> QED BY <1>2, <1>3

\* The first elements of the path are those of the stack; an edge followed
\* from its top makes a longer chain.
LEMMA ChainExtended ==
  ASSUME NEW s \in Seq(Calls), s # <<>>, NEW p \in Seq(PathElem), NEW q \in Seq(PathElem),
         IsStack(s), IsChain(p), BeginsWith(p, s),
         NEW out, LeavesAt(s, Len(s), out), NEW e \in EdgesAt(s[Len(s)].elem, out),
         Len(q) = Len(s) + 1, q[Len(s) + 1].elem = e.to,
         \A i \in 1..Len(s) : q[i] = p[i]
  PROVE  IsChain(q) /\ BeginsWith(q, s) /\ (Ends(e) => IsActivePath(q))
<1>1. Len(s) \in Nat \ {0} /\ \A k \in 1..Len(s) : s[k] \in Calls
  OBVIOUS
<1>2. Len(s) \in 1..Len(s)
  BY <1>1
<1>3. Len(p) \in Nat /\ Len(p) >= Len(s)
  BY <1>2 DEF BeginsWith
<1>4. \A k \in 1..Len(s) : q[k].elem = s[k].elem /\ p[k].elem = s[k].elem
  BY DEF BeginsWith
<1>5. BeginsWith(q, s)
  BY <1>1, <1>4 DEF BeginsWith
<1>6. e \in edges /\ e.from = s[Len(s)].elem /\ e.out = out
  BY DEF EdgesAt
<1>7. Len(s) = 1 => Begins(e)
  BY <1>6 DEF LeavesAt, Starts, Begins
<1>8. Len(s) > 1 => \E f \in edges : f.from = q[Len(s) - 1].elem /\ Continues(f, e)
  <2> SUFFICES ASSUME Len(s) > 1
               PROVE  \E f \in edges : f.from = q[Len(s) - 1].elem /\ Continues(f, e)
    OBVIOUS
  <2>1. Len(s) - 1 \in 1..Len(s) /\ Len(s) - 1 < Len(s)
    BY <1>1
  <2>2. PICK o : LeavesAt(s, Len(s) - 1, o)
    BY <2>1 DEF IsStack
  <2> DEFINE f == s[Len(s) - 1].at
  <2>3. f \in edges /\ f.from = s[Len(s) - 1].elem
    BY <2>1, <2>2 DEF LeavesAt, EdgesAt
  <2>4. f.to = s[Len(s)].elem /\ Passes(s[Len(s)].elem, f.in, out)
    BY DEF LeavesAt
  <2>5. Continues(f, e)
    BY <1>6, <2>4 DEF Continues
  <2>6. q[Len(s) - 1].elem = s[Len(s) - 1].elem
    BY <1>4, <2>1
  <2> QED BY <2>3, <2>5, <2>6
<1>9. IsChain(q)
  <2> SUFFICES ASSUME NEW i \in 1..Len(q) - 1
               PROVE  \E g \in edges :
                        /\ g.from = q[i].elem /\ g.to = q[i + 1].elem
                        /\ i = 1 => Begins(g)
                        /\ i > 1 => \E f \in edges : f.from = q[i - 1].elem /\ Continues(f, g)
    BY DEF IsChain
  <2>1. CASE i = Len(s)
    BY <1>2, <1>4, <1>6, <1>7, <1>8, <2>1
  <2>2. CASE i # Len(s)
    <3>1. /\ i \in 1..Len(p) - 1 /\ i \in 1..Len(s) /\ i + 1 \in 1..Len(s)
          /\ i > 1 => i - 1 \in 1..Len(s)
      BY <1>1, <1>3, <2>2
    <3>2. q[i] = p[i] /\ q[i + 1] = p[i + 1] /\ (i > 1 => q[i - 1] = p[i - 1])
      BY <3>1
    <3> QED BY <3>1, <3>2 DEF IsChain
  <2> QED BY <2>1, <2>2
<1>10. ASSUME Ends(e) PROVE IsActivePath(q)
  <2>1. q[1].elem = s[1].elem /\ Starts(s[1].elem)
    <3>1. 1 \in 1..Len(s)
      BY <1>1
    <3> QED BY <1>4, <3>1 DEF IsStack, LeavesAt
  <2>2. Len(q) = Len(s) + 1 /\ q # <<>> /\ Len(q) - 1 = Len(s)
    BY <1>1
  <2>3. q[Len(q)].elem = e.to /\ IsSink(e.to)
    BY <1>10, <2>2 DEF Ends
  <2>4. q[Len(q) - 1].elem = e.from
    BY <1>2, <1>4, <1>6, <2>2
  <2> QED BY <1>6, <1>9, <1>10, <2>1, <2>2, <2>3, <2>4 DEF IsActivePath
<1> QED BY <1>5, <1>9, <1>10

(***************************************************************************)
(* Steps of the search                                                     *)
(***************************************************************************)
\* Edges and their ends are what a model definition may contain.
LEMMA EdgesAreTyped ==
  ASSUME GraphInv, NEW e \in edges
  PROVE  e.from \in Elements /\ e.out \in Nat /\ e.to \in Elements /\ e.in \in Nat
BY GraphAssumption DEF GraphInv

\* A call of down() for an element.
LEMMA DownIsCall ==
  ASSUME NEW x \in Elements, NEW out
  PROVE  /\ Down(x, out) \in Calls
         /\ Down(x, out).elem = x /\ Down(x, out).edges = EdgesAt(x, out)
         /\ Down(x, out).at = Unconnected /\ Down(x, out).outs = {}
BY DEF Down, Calls, EdgesAt

\* A callback for an element behind those on the stack: if it is a sink, then
\* the path is active.
LEMMA CallbackKeepsSearch ==
  ASSUME TrackerInv, NEW x \in Elements, NEW depth \in 0..Len(path), NEW goOn \in BOOLEAN,
         VisitPassing(x, depth, goOn),
         IsChain(Extended(x, depth)), IsSink(x) => IsActivePath(Extended(x, depth))
  PROVE  /\ path' \in Seq(PathElem) /\ IsChain(path')
         /\ reported' \in Seq(Seq(PathElem))
         /\ \A i \in 1..Len(reported') : IsActivePath(reported'[i])
         /\ aborted' \in BOOLEAN
         /\ \A s : s \in Seq(Calls) /\ BeginsWith(Extended(x, depth), s) => BeginsWith(path', s)
<1> DEFINE q == Extended(x, depth)
<1>1. path \in Seq(PathElem) /\ reported \in Seq(Seq(PathElem)) /\ aborted \in BOOLEAN
      /\ \A i \in 1..Len(reported) : IsActivePath(reported[i])
  BY DEF TrackerInv, IsSearch, GraphInv
<1>2. q \in Seq(PathElem)
  BY <1>1, PathExtended
<1> HIDE DEF q
<1>3. CASE IsSink(x)
  <2>1. /\ reported' = Append(reported, q) /\ aborted' = ~goOn
        /\ path' = IF goOn THEN AllSeen(q) ELSE q
        /\ IsActivePath(q) /\ IsChain(q)
    BY <1>3 DEF VisitPassing, q
  <2>2. AllSeen(q) \in Seq(PathElem) /\ Len(AllSeen(q)) = Len(q)
        /\ \A i \in 1..Len(q) : q[i].elem = AllSeen(q)[i].elem
    BY <1>2, SeenIsSamePath
  <2>3. /\ IsChain(AllSeen(q))
        /\ \A s : s \in Seq(Calls) /\ BeginsWith(q, s) => BeginsWith(AllSeen(q), s)
    BY <1>2, <2>1, <2>2, SameElements
  <2>4. /\ Append(reported, q) \in Seq(Seq(PathElem)) /\ Len(reported) \in Nat
        /\ Len(Append(reported, q)) = Len(reported) + 1
        /\ Append(reported, q)[Len(reported) + 1] = q
        /\ \A i \in 1..Len(reported) : Append(reported, q)[i] = reported[i]
    BY <1>1, <1>2, Pushed
  <2>5. \A i \in 1..Len(reported) + 1 : i \in 1..Len(reported) \/ i = Len(reported) + 1
    BY <2>4
  <2>6. \A i \in 1..Len(reported') : IsActivePath(reported'[i])
    BY <1>1, <2>1, <2>4, <2>5
  <2> QED BY <1>2, <2>1, <2>2, <2>3, <2>4, <2>6 DEF q
<1>4. CASE ~IsSink(x)
  <2>1. path' = q /\ UNCHANGED <<reported, aborted>>
    BY <1>4 DEF VisitPassing, q
  <2> QED BY <1>1, <1>2, <2>1 DEF q
<1> QED BY <1>3, <1>4

\* What steps of the search leave as it is.
SameGraph == UNCHANGED <<edges, mapping, selector>>

LEMMA VisitSourceKeepsSearch ==
  ASSUME TrackerInv, NEW x \in Elements, NEW goOn \in BOOLEAN, VisitSource(x, goOn)
  PROVE  IsSearch(frames', path', reported') /\ aborted' \in BOOLEAN
<1>1. frames = <<>> /\ x \in sources /\ phase = "walking"
  BY DEF VisitSource, Walking
<1>2. IsSearch(frames, path, reported) /\ aborted \in BOOLEAN
  BY DEF TrackerInv, GraphInv
<1>3. CASE ~Passes(x, Unconnected, 0)
  BY <1>2, <1>3 DEF VisitSource
<1>4. CASE Passes(x, Unconnected, 0)
  <2> DEFINE call == Down(x, 0)
             q == Extended(x, 0)
  <2>1. VisitPassing(x, 0, goOn) /\ frames' = <<call>>
    BY <1>4 DEF VisitSource
  <2>2. Starts(x)
    BY <1>1, <1>4 DEF TrackerInv, PhaseInv, Starts
  <2>3. call \in Calls /\ call.elem = x /\ call.edges = EdgesAt(x, 0) /\ call.outs = {}
    BY DownIsCall
  <2>4. path \in Seq(PathElem) /\ 0 \in 0..Len(path)
    BY <1>2 DEF IsSearch
  <2>5. q \in Seq(PathElem) /\ Len(q) = 0 + 1 /\ q[0 + 1].elem = x
    BY <2>4, PathExtended
  <2> HIDE DEF call, q
  <2>6. <<call>> \in Seq(Calls) /\ Len(<<call>>) = 1 /\ <<call>>[1] = call
    BY <2>3
  <2>7. IsStack(<<call>>)
    <3>1. LeavesAt(<<call>>, 1, 0)
      BY <2>2, <2>3, <2>6 DEF LeavesAt
    <3> QED BY <2>6, <3>1 DEF IsStack
  <2>8. IsChain(q) /\ BeginsWith(q, <<call>>)
    BY <2>3, <2>5, <2>6 DEF IsChain, BeginsWith
  <2>9. IsSink(x) => IsActivePath(q)
    BY <2>2, <2>5, <2>8 DEF IsActivePath
  <2>10. /\ path' \in Seq(PathElem) /\ IsChain(path')
         /\ reported' \in Seq(Seq(PathElem))
         /\ \A i \in 1..Len(reported') : IsActivePath(reported'[i])
         /\ aborted' \in BOOLEAN
         /\ \A s : s \in Seq(Calls) /\ BeginsWith(q, s) => BeginsWith(path', s)
    BY <2>1, <2>4, <2>8, <2>9, CallbackKeepsSearch DEF q
  <2> QED BY <2>1, <2>6, <2>7, <2>8, <2>10 DEF IsSearch
<1> QED BY <1>3, <1>4

\* The top of the stack goes on.
LEMMA TopChanged ==
  ASSUME NEW s \in Seq(Calls), s # <<>>, IsStack(s), NEW c \in Calls,
         c.elem = s[Len(s)].elem, c.edges \subseteq s[Len(s)].edges,
         c.outs # {} => \/ c.at \in s[Len(s)].edges /\ c.at \notin c.edges
                        \/ c.at = s[Len(s)].at /\ s[Len(s)].outs # {}
  PROVE  LET t == [s EXCEPT ![Len(s)] = c]
         IN /\ t \in Seq(Calls) /\ IsStack(t)
            /\ \A p : BeginsWith(p, s) => BeginsWith(p, t)
<1> DEFINE t == [s EXCEPT ![Len(s)] = c]
<1>1. /\ t \in Seq(Calls) /\ Len(s) \in Nat \ {0} /\ Len(t) = Len(s)
      /\ t[Len(s)] = c
      /\ \A i \in 1..Len(s) - 1 : t[i] = s[i]
  BY TopReplaced
<1> HIDE DEF t
<1>2. \A k \in 1..Len(s) : t[k].elem = s[k].elem
  <2> SUFFICES ASSUME NEW k \in 1..Len(s) PROVE t[k].elem = s[k].elem
    OBVIOUS
  <2>1. k = Len(s) \/ k \in 1..Len(s) - 1
    BY <1>1
  <2> QED BY <1>1, <2>1
<1>3. ASSUME NEW k \in 1..Len(t) PROVE \E out : LeavesAt(t, k, out)
  <2>1. PICK out : LeavesAt(s, k, out)
    BY <1>1 DEF IsStack
  <2>2. k > 1 => t[k - 1] = s[k - 1]
    BY <1>1
  <2>3. CASE k = Len(s)
    <3>1. /\ s[k].edges \subseteq EdgesAt(s[k].elem, out)
          /\ s[k].outs # {} => s[k].at \in EdgesAt(s[k].elem, out) /\ s[k].at \notin s[k].edges
          /\ k = 1 => out = 0 /\ Starts(s[k].elem)
          /\ k > 1 => /\ s[k - 1].at.to = s[k].elem /\ Passes(s[k].elem, s[k - 1].at.in, out)
                      /\ out \notin s[k - 1].outs
      BY <2>1 DEF LeavesAt
    <3>2. t[k] = c /\ c.elem = s[k].elem /\ c.edges \subseteq s[k].edges /\ ~(k < Len(t))
      BY <1>1, <2>3
    <3>3. c.outs # {} => c.at \in EdgesAt(s[k].elem, out) /\ c.at \notin c.edges
      BY <2>3, <3>1
    <3> QED BY <2>2, <3>1, <3>2, <3>3 DEF LeavesAt
  <2>4. CASE k # Len(s)
    <3>1. k \in 1..Len(s) - 1 /\ t[k] = s[k]
      BY <1>1, <2>4
    <3> QED BY <1>1, <2>1, <2>2, <3>1 DEF LeavesAt
  <2> QED BY <2>3, <2>4
<1>4. IsStack(t)
  BY <1>3 DEF IsStack
<1>5. \A p : BeginsWith(p, s) => BeginsWith(p, t)
  BY <1>1, <1>2 DEF BeginsWith
<1> QED BY <1>1, <1>4, <1>5 DEF t

LEMMA FollowEdgeKeepsSearch ==
  ASSUME TrackerInv, NEW e \in edges, FollowEdge(e)
  PROVE  IsSearch(frames', path', reported') /\ aborted' \in BOOLEAN
<1> DEFINE c == [top EXCEPT !.edges = @ \ {e}, !.at = e, !.outs = OutputsOf(e.to)]
<1>1. /\ frames # <<>> /\ top.outs = {} /\ e \in top.edges
      /\ frames' = [frames EXCEPT ![Len(frames)] = c]
      /\ UNCHANGED <<path, reported, aborted>>
  BY DEF FollowEdge, WithTop
<1>2. IsSearch(frames, path, reported) /\ aborted \in BOOLEAN /\ frames \in Seq(Calls)
  BY DEF TrackerInv, IsSearch, GraphInv
<1>3. top \in Calls /\ top = frames[Len(frames)]
  BY <1>1, <1>2 DEF top
<1>4. OutputsOf(e.to) \subseteq Nat
  BY EdgesAreTyped DEF TrackerInv, OutputsOf
<1>5. /\ c \in Calls /\ c.elem = top.elem /\ c.edges = top.edges \ {e} /\ c.at = e
  BY <1>3, <1>4 DEF Calls
<1> HIDE DEF c
<1>6. /\ frames' \in Seq(Calls) /\ IsStack(frames')
      /\ \A p : BeginsWith(p, frames) => BeginsWith(p, frames')
  BY <1>1, <1>2, <1>3, <1>5, TopChanged DEF IsSearch
<1> QED BY <1>1, <1>2, <1>6 DEF IsSearch

LEMMA VisitSinkKeepsSearch ==
  ASSUME TrackerInv, NEW e \in edges, NEW goOn \in BOOLEAN, VisitSink(e, goOn)
  PROVE  IsSearch(frames', path', reported') /\ aborted' \in BOOLEAN
<1>1. frames # <<>> /\ top.outs = {} /\ e \in top.edges /\ IsSink(e.to)
  BY DEF VisitSink
<1>2. IsSearch(frames, path, reported) /\ aborted \in BOOLEAN /\ frames \in Seq(Calls)
  BY DEF TrackerInv, IsSearch, GraphInv
<1>3. top \in Calls /\ top = frames[Len(frames)] /\ Len(frames) \in Nat \ {0}
  BY <1>1, <1>2 DEF top
<1>4. ASSUME NEW S \in SUBSET top.edges
      PROVE  LET t == WithTop([top EXCEPT !.edges = S])
             IN /\ t \in Seq(Calls) /\ IsStack(t) /\ Len(t) = Len(frames)
                /\ \A p : BeginsWith(p, frames) => BeginsWith(p, t)
  <2> DEFINE c == [top EXCEPT !.edges = S]
             t == [frames EXCEPT ![Len(frames)] = c]
  <2>1. c \in Calls /\ c.elem = top.elem /\ c.edges = S /\ c.outs = top.outs
    BY <1>3 DEF Calls
  <2> HIDE DEF c
  <2>2. /\ t \in Seq(Calls) /\ IsStack(t)
        /\ \A p : BeginsWith(p, frames) => BeginsWith(p, t)
    BY <1>1, <1>2, <1>3, <2>1, TopChanged DEF IsSearch
  <2>3. Len(t) = Len(frames)
    BY <1>1, <1>2, <2>1, TopReplaced
  <2> QED BY <2>2, <2>3 DEF WithTop, c
<1>5. CASE ~Passes(e.to, e.in, Unconnected)
  <2>1. frames' = WithTop([top EXCEPT !.edges = {}]) /\ UNCHANGED <<path, reported, aborted>>
    BY <1>5 DEF VisitSink
  <2> QED BY <1>2, <1>4, <2>1 DEF IsSearch
<1>6. CASE Passes(e.to, e.in, Unconnected)
  <2> DEFINE q == Extended(e.to, Len(frames))
  <2>1. /\ frames' = WithTop([top EXCEPT !.edges = top.edges \ {e}])
        /\ VisitPassing(e.to, Len(frames), goOn)
    BY <1>6 DEF VisitSink
  <2>2. /\ frames' \in Seq(Calls) /\ IsStack(frames')
        /\ \A p : BeginsWith(p, frames) => BeginsWith(p, frames')
    BY <1>4, <2>1
  <2>3. PICK out : LeavesAt(frames, Len(frames), out)
    <3>1. IsStack(frames) /\ Len(frames) \in 1..Len(frames)
      BY <1>2, <1>3 DEF IsSearch
    <3> QED BY <3>1 DEF IsStack
  <2>4. e \in EdgesAt(frames[Len(frames)].elem, out)
    BY <1>1, <1>3, <2>3 DEF LeavesAt
  <2>5. path \in Seq(PathElem) /\ Len(frames) \in 0..Len(path) /\ e.to \in Elements
    <3>1. Len(frames) \in 1..Len(frames)
      BY <1>3
    <3>2. Len(frames) <= Len(path) /\ path \in Seq(PathElem)
      BY <1>2, <3>1 DEF IsSearch, BeginsWith
    <3> QED BY <1>3, <3>2, EdgesAreTyped DEF TrackerInv
  <2>6. /\ q \in Seq(PathElem) /\ Len(q) = Len(frames) + 1
        /\ q[Len(frames) + 1].elem = e.to
        /\ \A i \in 1..Len(frames) : q[i] = path[i]
    BY <2>5, PathExtended
  <2>7. Ends(e)
    BY <1>1, <1>6 DEF Ends
  <2> HIDE DEF q
  <2>8. IsChain(q) /\ BeginsWith(q, frames) /\ IsActivePath(q)
    BY <1>1, <1>2, <2>3, <2>4, <2>6, <2>7, ChainExtended DEF IsSearch
  <2>9. /\ path' \in Seq(PathElem) /\ IsChain(path')
        /\ reported' \in Seq(Seq(PathElem))
        /\ \A i \in 1..Len(reported') : IsActivePath(reported'[i])
        /\ aborted' \in BOOLEAN
        /\ \A s : s \in Seq(Calls) /\ BeginsWith(q, s) => BeginsWith(path', s)
    BY <2>1, <2>5, <2>8, CallbackKeepsSearch DEF q
  <2> QED BY <2>2, <2>8, <2>9 DEF IsSearch
<1> QED BY <1>5, <1>6

\* A call of down() for the element an edge was followed to.
LEMMA VisitOutputKeepsSearch ==
  ASSUME TrackerInv, VisitOutput
  PROVE  IsSearch(frames', path', reported') /\ aborted' \in BOOLEAN
<1> DEFINE e == top.at
           out == Min(top.outs)
           c == [top EXCEPT !.outs = @ \ {out}]
           left == [frames EXCEPT ![Len(frames)] = c]
<1>1. /\ frames # <<>> /\ top.outs # {} /\ UNCHANGED <<reported, aborted>>
      /\ IF Passes(e.to, e.in, out)
         THEN /\ frames' = Append(left, Down(e.to, out))
              /\ path' = Extended(e.to, Len(frames))
         ELSE /\ frames' = left
              /\ UNCHANGED path
  BY DEF VisitOutput, WithTop
<1>2. IsSearch(frames, path, reported) /\ aborted \in BOOLEAN /\ frames \in Seq(Calls)
  BY DEF TrackerInv, IsSearch, GraphInv
<1>3. top \in Calls /\ top = frames[Len(frames)] /\ Len(frames) \in Nat \ {0}
      /\ Len(frames) \in 1..Len(frames)
  BY <1>1, <1>2 DEF top
<1>4. /\ c \in Calls /\ c.elem = top.elem /\ c.edges = top.edges /\ c.at = top.at
      /\ out \notin c.outs
  BY <1>3 DEF Calls
<1> HIDE DEF c, out
<1>5. /\ left \in Seq(Calls) /\ IsStack(left)
      /\ \A p : BeginsWith(p, frames) => BeginsWith(p, left)
  BY <1>1, <1>2, <1>3, <1>4, TopChanged DEF IsSearch
<1>6. /\ Len(left) = Len(frames) /\ left[Len(frames)] = c
      /\ \A i \in 1..Len(frames) - 1 : left[i] = frames[i]
  BY <1>1, <1>2, <1>4, TopReplaced
<1> HIDE DEF left
<1>7. CASE ~Passes(e.to, e.in, out)
  BY <1>1, <1>2, <1>5, <1>7 DEF IsSearch
<1>8. CASE Passes(e.to, e.in, out)
  <2> DEFINE call == Down(e.to, out)
             new == Append(left, call)
             q == Extended(e.to, Len(frames))
  <2>1. PICK o : LeavesAt(frames, Len(frames), o)
    BY <1>2, <1>3 DEF IsSearch, IsStack
  <2>2. e \in EdgesAt(frames[Len(frames)].elem, o) /\ e \in edges
    BY <1>1, <1>3, <2>1 DEF LeavesAt, EdgesAt
  <2>3. path \in Seq(PathElem) /\ Len(frames) \in 0..Len(path) /\ e.to \in Elements
    <3>1. Len(frames) <= Len(path) /\ path \in Seq(PathElem)
      BY <1>2, <1>3 DEF IsSearch, BeginsWith
    <3> QED BY <1>3, <2>2, <3>1, EdgesAreTyped DEF TrackerInv
  <2>4. call \in Calls /\ call.elem = e.to /\ call.edges = EdgesAt(e.to, out) /\ call.outs = {}
    BY <2>3, DownIsCall
  <2>5. /\ q \in Seq(PathElem) /\ Len(q) = Len(frames) + 1
        /\ q[Len(frames) + 1].elem = e.to
        /\ \A i \in 1..Len(frames) : q[i] = path[i]
    BY <2>3, PathExtended
  <2>6. frames' = new /\ path' = q
    BY <1>1, <1>8
  <2> HIDE DEF call, q
  <2>7. /\ new \in Seq(Calls) /\ Len(new) = Len(frames) + 1 /\ new[Len(frames) + 1] = call
        /\ \A i \in 1..Len(frames) : new[i] = left[i]
    BY <1>5, <1>6, <2>4, Pushed
  <2> HIDE DEF new
  <2>8. IsChain(q) /\ BeginsWith(q, frames)
    BY <1>1, <1>2, <2>1, <2>2, <2>5, ChainExtended DEF IsSearch
  <2>9. \A k \in 1..Len(new) : k = Len(frames) + 1 \/ k = Len(frames) \/ k \in 1..Len(frames) - 1
    BY <1>3, <2>7
  <2>10. BeginsWith(q, new)
    <3>1. BeginsWith(q, left)
      BY <1>5, <2>8
    <3>2. \A k \in 1..Len(new) : k = Len(frames) + 1 \/ k \in 1..Len(left)
      BY <1>3, <1>6, <2>7
    <3> SUFFICES ASSUME NEW k \in 1..Len(new) PROVE k <= Len(q) /\ q[k].elem = new[k].elem
      BY DEF BeginsWith
    <3>3. CASE k = Len(frames) + 1
      <4>1. Len(frames) + 1 \in Nat
        BY <1>3
      <4> QED BY <2>4, <2>5, <2>7, <3>3, <4>1
    <3>4. CASE k \in 1..Len(left)
      <4>1. k <= Len(q) /\ q[k].elem = left[k].elem
        BY <3>1, <3>4 DEF BeginsWith
      <4>2. new[k] = left[k]
        BY <1>6, <2>7, <3>4
      <4> QED BY <4>1, <4>2
    <3> QED BY <3>2, <3>3, <3>4
  <2>11. ASSUME NEW k \in 1..Len(new) PROVE \E f : LeavesAt(new, k, f)
    <3>1. CASE k = Len(frames) + 1
      <4>1. k > 1 /\ k - 1 = Len(frames) /\ new[k] = call /\ new[k - 1] = c /\ ~(k < Len(new))
        BY <1>3, <1>6, <2>7, <3>1
      <4>2. c.at.to = call.elem /\ Passes(call.elem, c.at.in, out) /\ out \notin c.outs
        BY <1>4, <1>8, <2>4
      <4>3. call.edges \subseteq EdgesAt(call.elem, out) /\ call.outs = {}
        BY <2>4
      <4>4. LeavesAt(new, k, out)
        BY <4>1, <4>2, <4>3 DEF LeavesAt
      <4> QED BY <4>4
    <3>2. CASE k = Len(frames)
      <4>1. new[k] = c /\ (k > 1 => new[k - 1] = frames[k - 1])
        <5>1. k > 1 => k - 1 \in 1..Len(frames) /\ k - 1 \in 1..Len(frames) - 1
          BY <1>3, <3>2
        <5> QED BY <1>3, <1>6, <2>7, <3>2, <5>1
      <4>2. /\ frames[k].edges \subseteq EdgesAt(frames[k].elem, o)
            /\ frames[k].at \notin frames[k].edges
            /\ k = 1 => o = 0 /\ Starts(frames[k].elem)
            /\ k > 1 => /\ frames[k - 1].at.to = frames[k].elem
                        /\ Passes(frames[k].elem, frames[k - 1].at.in, o)
                        /\ o \notin frames[k - 1].outs
        BY <1>1, <1>3, <2>1, <3>2 DEF LeavesAt
      <4>3. c.elem = frames[k].elem /\ c.edges = frames[k].edges /\ c.at \in EdgesAt(frames[k].elem, o)
            /\ c.at = frames[k].at
        BY <1>3, <1>4, <2>2, <3>2
      <4>4. LeavesAt(new, k, o)
        BY <4>1, <4>2, <4>3 DEF LeavesAt
      <4> QED BY <4>4
    <3>3. CASE k \in 1..Len(frames) - 1
      <4>1. /\ k \in 1..Len(frames) /\ k < Len(frames) /\ k < Len(new)
            /\ k > 1 => k - 1 \in 1..Len(frames) /\ k - 1 \in 1..Len(frames) - 1
        BY <1>3, <2>7, <3>3
      <4>2. new[k] = frames[k] /\ (k > 1 => new[k - 1] = frames[k - 1])
        BY <1>6, <2>7, <3>3, <4>1
      <4>3. PICK f : LeavesAt(frames, k, f)
        BY <1>2, <4>1 DEF IsSearch, IsStack
      <4>4. LeavesAt(new, k, f)
        BY <4>1, <4>2, <4>3 DEF LeavesAt
      <4> QED BY <4>4
    <3> QED BY <2>9, <3>1, <3>2, <3>3
  <2>12. IsStack(new)
    BY <2>11 DEF IsStack
  <2> QED BY <1>1, <1>2, <2>5, <2>6, <2>7, <2>8, <2>10, <2>12 DEF IsSearch
<1> QED BY <1>7, <1>8

LEMMA ReturnKeepsSearch ==
  ASSUME TrackerInv, Return
  PROVE  IsSearch(frames', path', reported') /\ aborted' \in BOOLEAN
<1> DEFINE n == Len(frames) - 1
           new == SubSeq(frames, 1, n)
<1>1. frames # <<>> /\ frames' = new /\ UNCHANGED <<path, reported, aborted>>
  BY DEF Return
<1>2. IsSearch(frames, path, reported) /\ aborted \in BOOLEAN /\ frames \in Seq(Calls)
  BY DEF TrackerInv, IsSearch, GraphInv
<1>3. Len(frames) \in Nat \ {0} /\ n \in 0..Len(frames)
  BY <1>1, <1>2
<1>4. \A k \in 1..n : k \in 1..Len(frames) /\ k < Len(frames) /\ (k > 1 => k - 1 \in 1..n)
  BY <1>3
<1> HIDE DEF n
<1>5. new \in Seq(Calls) /\ Len(new) = n /\ \A i \in 1..n : new[i] = frames[i]
  BY <1>2, <1>3, Cut
<1> HIDE DEF new
<1>6. IsStack(new)
  <2> SUFFICES ASSUME NEW k \in 1..n PROVE \E out : LeavesAt(new, k, out)
    BY <1>5 DEF IsStack
  <2>1. PICK out : LeavesAt(frames, k, out)
    BY <1>2, <1>4 DEF IsSearch, IsStack
  <2>2. new[k] = frames[k] /\ (k > 1 => new[k - 1] = frames[k - 1]) /\ k < Len(frames)
    BY <1>4, <1>5
  <2>3. LeavesAt(new, k, out)
    BY <2>1, <2>2 DEF LeavesAt
  <2> QED BY <2>3
<1>7. BeginsWith(path, new)
  BY <1>2, <1>4, <1>5 DEF IsSearch, BeginsWith
<1> QED BY <1>1, <1>2, <1>5, <1>6, <1>7 DEF IsSearch

(***************************************************************************)
(* The invariant                                                           *)
(***************************************************************************)
\* What is known of a search depends on graph and selectors only.
LEMMA SameGraphSameSearch ==
  ASSUME UNCHANGED <<edges, mapping, selector>>, IsSearch(frames', path', reported')
  PROVE  IsSearch(frames, path, reported)'
<1> PICK f, p, r : f = frames' /\ p = path' /\ r = reported'
  OBVIOUS
<1>1. /\ \A x, out : EdgesAt(x, out)' = EdgesAt(x, out)
      /\ \A x : IsSource(x)' <=> IsSource(x)
      /\ \A x : IsSink(x)' <=> IsSink(x)
      /\ \A x, in, out : Passes(x, in, out)' <=> Passes(x, in, out)
  BY DEF EdgesAt, IsSource, SourcesOf, IsSink, OutputsOf, Passes
<1>2. /\ \A x : Starts(x)' <=> Starts(x)
      /\ \A e : Begins(e)' <=> Begins(e)
      /\ \A e : Ends(e)' <=> Ends(e)
      /\ \A e, g : Continues(e, g)' <=> Continues(e, g)
  BY <1>1 DEF Starts, Begins, Ends, Continues
<1>3. \A q : IsChain(q)' <=> IsChain(q)
  BY <1>2 DEF IsChain
<1>4. \A q : IsActivePath(q)' <=> IsActivePath(q)
  BY <1>1, <1>2, <1>3 DEF IsActivePath
<1>5. \A k, out : LeavesAt(f, k, out)' <=> LeavesAt(f, k, out)
  BY <1>1, <1>2 DEF LeavesAt
<1>6. IsStack(f)' <=> IsStack(f)
  BY <1>5 DEF IsStack
<1>7. Calls' = Calls
  BY DEF Calls
<1>8. IsSearch(f, p, r)
  OBVIOUS
<1>9. IsSearch(f, p, r)'
  BY <1>3, <1>4, <1>6, <1>7, <1>8 DEF IsSearch, BeginsWith
<1> QED BY <1>9 DEF IsSearch, BeginsWith, IsStack, LeavesAt

\* Before a search, there is nothing to be known.
LEMMA NoSearch ==
  ASSUME frames = <<>>, path = <<>>, reported = <<>>
  PROVE  IsSearch(frames, path, reported)
<1>1. /\ frames \in Seq(Calls) /\ Len(frames) = 0
      /\ path \in Seq(PathElem) /\ Len(path) = 0
      /\ reported \in Seq(Seq(PathElem)) /\ Len(reported) = 0
  OBVIOUS
<1>2. IsStack(frames) /\ IsChain(path) /\ BeginsWith(path, frames)
  BY <1>1 DEF IsStack, IsChain, BeginsWith
<1> QED BY <1>1, <1>2 DEF IsSearch

LEMMA NoSearchNext ==
  ASSUME frames' = <<>>, path' = <<>>, reported' = <<>>
  PROVE  IsSearch(frames, path, reported)'
<1>1. /\ frames' \in Seq(Calls') /\ Len(frames') = 0
      /\ path' \in Seq(PathElem) /\ Len(path') = 0
      /\ reported' \in Seq(Seq(PathElem)) /\ Len(reported') = 0
  OBVIOUS
<1>2. IsStack(frames)' /\ IsChain(path)' /\ BeginsWith(path, frames)'
  BY <1>1 DEF IsStack, IsChain, BeginsWith
<1> QED BY <1>1, <1>2 DEF IsSearch, PathElem

\* What the graph is, elements find in its edges.
LEMMA SameEdgesFit ==
  ASSUME UNCHANGED <<edges, mapping>>
  PROVE  /\ \A x : Finalizes(x)' <=> Finalizes(x)
         /\ \A x : IsSource(x)' <=> IsSource(x)
BY DEF Finalizes, IsSource, SourcesOf, OutputsOf

\* The source the search has begun at is none of those yet to visit.
LEMMA StartIsTaken ==
  ASSUME TrackerInv, Walk, ~Finish
  PROVE  frames' # <<>> => frames'[1].elem \notin sources'
<1>1. frames \in Seq(Calls) /\ (frames # <<>> => frames[1].elem \notin sources)
  BY DEF TrackerInv, PhaseInv, IsSearch
<1>2. ASSUME NEW c, frames # <<>>, c.elem = top.elem
      PROVE  /\ Len(frames) \in Nat \ {0} /\ WithTop(c) # <<>>
             /\ Len(WithTop(c)) = Len(frames) /\ WithTop(c)[1].elem = frames[1].elem
  <2>1. Len(frames) \in Nat \ {0} /\ DOMAIN frames = 1..Len(frames)
    BY <1>1, <1>2
  <2>2. WithTop(c) = [frames EXCEPT ![Len(frames)] = c]
    BY DEF WithTop
  <2>3. WithTop(c) # <<>> /\ Len(WithTop(c)) = Len(frames)
    BY <1>1, <2>1, <2>2
  <2>4. WithTop(c)[1].elem = frames[1].elem
    BY <1>2, <2>1, <2>2 DEF top
  <2> QED BY <2>1, <2>3, <2>4
<1>3. ASSUME NEW x \in Elements, NEW goOn \in BOOLEAN, VisitSource(x, goOn)
      PROVE  frames' # <<>> => frames'[1].elem \notin sources'
  BY <1>3 DEF VisitSource, Down
<1>4. ASSUME NEW e \in edges, NEW goOn \in BOOLEAN, VisitSink(e, goOn) \/ FollowEdge(e)
      PROVE  frames' # <<>> => frames'[1].elem \notin sources'
  <2>1. frames # <<>> /\ top \in Calls /\ sources' = sources
    BY <1>1, <1>4 DEF VisitSink, FollowEdge, top
  <2>2. \E c : c.elem = top.elem /\ frames' = WithTop(c)
    BY <1>4, <2>1 DEF VisitSink, FollowEdge, Calls
  <2> QED BY <1>1, <1>2, <2>1, <2>2
<1>5. CASE VisitOutput
  <2>1. frames # <<>> /\ top \in Calls /\ sources' = sources
    BY <1>1, <1>5 DEF VisitOutput, top
  <2>2. \E c, d : c.elem = top.elem /\ frames' \in {WithTop(c), Append(WithTop(c), d)}
    BY <1>5, <2>1 DEF VisitOutput, Calls
  <2>3. PICK c, d : c.elem = top.elem /\ frames' \in {WithTop(c), Append(WithTop(c), d)}
    BY <2>2
  <2>4. /\ Len(frames) \in Nat \ {0}
        /\ Len(WithTop(c)) = Len(frames) /\ WithTop(c)[1].elem = frames[1].elem
    BY <1>2, <2>1, <2>3
  <2>5. Append(WithTop(c), d)[1] = WithTop(c)[1]
    BY ONLY <2>4
  <2> QED BY <1>1, <2>1, <2>3, <2>4, <2>5
<1>6. CASE Return
  <2>1. frames # <<>> /\ frames' = SubSeq(frames, 1, Len(frames) - 1) /\ sources' = sources
    BY <1>6 DEF Return
  <2>2. frames' # <<>> => frames'[1] = frames[1]
    BY <1>1, <2>1
  <2> QED BY <1>1, <2>1, <2>2
<1> QED BY <1>3, <1>4, <1>5, <1>6 DEF Walk

\* Building the graph.
LEMMA BuildingKeepsInv ==
  ASSUME TrackerInv, (\E e \in Candidates : Connect(e)) \/ Build
  PROVE  TrackerInv'
<1>1. /\ phase = "building" /\ frames = <<>> /\ path = <<>> /\ reported = <<>>
      /\ phase' \in {"building", "rejected", "idle"}
      /\ edges' \subseteq Candidates
      /\ UNCHANGED <<mapping, selector, walkVars>>
  BY DEF TrackerInv, PhaseInv, GraphInv, Connect, Build, graphVars
<1>2. UNCHANGED <<sources, frames, path, reported, aborted>>
  BY <1>1 DEF walkVars
<1>3. IsSearch(frames, path, reported)'
  BY <1>1, <1>2, NoSearchNext
<1>4. GraphInv'
  BY <1>1, <1>2 DEF TrackerInv, GraphInv
<1>5. phase' = "idle" => \A x \in Switching : Finalizes(x)'
  <2> SUFFICES ASSUME phase' = "idle" PROVE \A x \in Switching : Finalizes(x)'
    OBVIOUS
  <2>1. Build /\ \A x \in Switching : Finalizes(x)
    BY <1>1 DEF Build, Connect
  <2>2. UNCHANGED <<edges, mapping>>
    BY <2>1 DEF Build, graphVars
  <2> QED BY <2>1, <2>2, SameEdgesFit
<1>6. PhaseInv'
  BY <1>1, <1>2, <1>5 DEF PhaseInv
<1> QED BY <1>3, <1>4, <1>6 DEF TrackerInv

\* Setting or releasing a selector.
LEMMA SelectorsKeepInv ==
  ASSUME TrackerInv, NEW x \in Switching, Float(x) \/ \E c : Select(x, c)
  PROVE  TrackerInv'
<1>1. /\ phase \in {"idle", "done"} /\ phase' = "idle" /\ path' = <<>> /\ reported' = <<>>
      /\ aborted' = FALSE /\ UNCHANGED <<edges, mapping, sources, frames>>
      /\ \E c \in ChoicesOf(mapping[x]) \cup {Floating} : selector' = [selector EXCEPT ![x] = c]
  BY DEF Float, Select, Forgotten, graphVars
<1>2. frames' = <<>>
  BY <1>1 DEF TrackerInv, PhaseInv
<1>3. IsSearch(frames, path, reported)'
  BY <1>1, <1>2, NoSearchNext
<1>4. /\ DOMAIN selector' = Switching
      /\ \A y \in Switching : selector'[y] \in ChoicesOf(mapping[y]) \cup {Floating}
  BY <1>1 DEF TrackerInv, GraphInv
<1>5. GraphInv'
  BY <1>1, <1>4 DEF TrackerInv, GraphInv, ChoicesOf
<1>6. PhaseInv'
  BY <1>1, <1>2, SameEdgesFit DEF TrackerInv, PhaseInv
<1> QED BY <1>3, <1>5, <1>6 DEF TrackerInv

\* A search begins with the sources that have no parent.
LEMMA EnumerationKeepsInv ==
  ASSUME TrackerInv, EnumerateActiveSignalPaths
  PROVE  TrackerInv'
<1>1. /\ phase = "idle" /\ phase' = "walking"
      /\ sources' = {x \in Elements \ Sub : IsSource(x)}
      /\ UNCHANGED <<edges, mapping, selector, frames, path, reported, aborted>>
  BY DEF EnumerateActiveSignalPaths, graphVars
<1>2. IsSearch(frames, path, reported)'
  BY <1>1, SameGraphSameSearch DEF TrackerInv
<1>3. GraphInv'
  BY <1>1 DEF TrackerInv, GraphInv
<1>4. PhaseInv'
  BY <1>1, SameEdgesFit DEF TrackerInv, PhaseInv
<1> QED BY <1>2, <1>3, <1>4 DEF TrackerInv

\* The search goes on, or it is over.
LEMMA WalkKeepsInv ==
  ASSUME TrackerInv, Walk
  PROVE  TrackerInv'
<1>1. CASE Finish
  <2>1. /\ phase = "walking" /\ phase' = "done" /\ sources' = {} /\ frames' = <<>>
        /\ UNCHANGED <<edges, mapping, selector, path, reported, aborted>>
    BY <1>1 DEF Finish, graphVars
  <2>2. frames' \in Seq(Calls) /\ Len(frames') = 0
    BY <2>1
  <2>3. IsSearch(frames', path', reported')
    BY <2>1, <2>2 DEF TrackerInv, IsSearch, IsStack, BeginsWith
  <2>4. IsSearch(frames, path, reported)'
    BY <2>1, <2>3, SameGraphSameSearch
  <2>5. GraphInv'
    BY <2>1 DEF TrackerInv, GraphInv
  <2>6. PhaseInv'
    BY <2>1, SameEdgesFit DEF TrackerInv, PhaseInv
  <2> QED BY <2>4, <2>5, <2>6 DEF TrackerInv
<1>2. CASE ~Finish
  <2>1. IsSearch(frames', path', reported') /\ aborted' \in BOOLEAN
    BY <1>2, VisitSourceKeepsSearch, VisitSinkKeepsSearch, FollowEdgeKeepsSearch,
       VisitOutputKeepsSearch, ReturnKeepsSearch DEF Walk
  <2>2. /\ phase = "walking" /\ phase' = "walking" /\ sources' \subseteq sources
        /\ UNCHANGED <<edges, mapping, selector>>
    BY <1>2 DEF Walk, VisitSource, VisitSink, FollowEdge, VisitOutput, Return, Walking, graphVars
  <2>3. IsSearch(frames, path, reported)'
    BY <2>1, <2>2, SameGraphSameSearch
  <2>4. GraphInv'
    BY <2>1, <2>2 DEF TrackerInv, GraphInv
  <2>5. PhaseInv'
    BY <1>2, <2>2, SameEdgesFit, StartIsTaken DEF TrackerInv, PhaseInv
  <2> QED BY <2>3, <2>4, <2>5 DEF TrackerInv
<1> QED BY <1>1, <1>2

LEMMA InitTrackerInv == Init => TrackerInv
<1> SUFFICES ASSUME Init PROVE TrackerInv
  OBVIOUS
<1>1. IsSearch(frames, path, reported)
  BY NoSearch DEF Init
<1>2. GraphInv
  BY DEF Init, GraphInv
<1>3. PhaseInv
  BY DEF Init, PhaseInv
<1> QED BY <1>1, <1>2, <1>3 DEF TrackerInv

LEMMA NextKeepsTrackerInv == TrackerInv /\ [Next]_vars => TrackerInv'
<1> SUFFICES ASSUME TrackerInv, [Next]_vars PROVE TrackerInv'
  OBVIOUS
<1>1. CASE (\E e \in Candidates : Connect(e)) \/ Build
  BY <1>1, BuildingKeepsInv
<1>2. CASE \E x \in Switching :
             \/ Float(x)
             \/ \E c \in 0..Cardinality(ChoicesOf(mapping[x])) : Select(x, c)
  BY <1>2, SelectorsKeepInv
<1>3. CASE EnumerateActiveSignalPaths
  BY <1>3, EnumerationKeepsInv
<1>4. CASE Walk
  BY <1>4, WalkKeepsInv
<1>5. CASE UNCHANGED vars
  <2>1. UNCHANGED <<phase, edges, mapping, selector, sources, frames, path, reported, aborted>>
    BY <1>5 DEF vars, graphVars, walkVars
  <2>2. IsSearch(frames, path, reported)'
    BY <2>1, SameGraphSameSearch DEF TrackerInv
  <2>3. PhaseInv'
    BY <2>1, SameEdgesFit DEF TrackerInv, PhaseInv
  <2> QED BY <2>1, <2>2, <2>3 DEF TrackerInv, GraphInv
<1> QED BY <1>1, <1>2, <1>3, <1>4, <1>5 DEF Next

(***************************************************************************)
(* Completeness: a route is a chain of edges from a source to a sink, with *)
(* the element it starts at.  Reports name elements only, and there may be *)
(* several edges between two elements, so each report is given its route.  *)
(***************************************************************************)
IsRoute(r) ==
  /\ Starts(r.from)
  /\ r.along = <<>> => IsSink(r.from)
  /\ r.along # <<>> => /\ r.along[1].from = r.from /\ r.along[1].out = 0
                       /\ Ends(r.along[Len(r.along)])
  /\ \A i \in 1..Len(r.along) - 1 : Continues(r.along[i], r.along[i + 1])

Routes == {r \in [from: Elements, along: Seq(edges)] : IsRoute(r)}

RunsAlong(p, r) ==
  /\ Len(p) = Len(r.along) + 1 /\ p[1].elem = r.from
  /\ \A i \in 1..Len(r.along) : p[i + 1].elem = r.along[i].to

\* The route leads through the first k calls, and the k-th is still to take it.
Reaches(s, k, r) ==
  k <= Len(r.along) /\ s[1].elem = r.from /\ \A j \in 1..k - 1 : r.along[j] = s[j].at

IsLeft(c, k, r) ==
  \/ r.along[k] \in c.edges
  \/ k < Len(r.along) /\ r.along[k] = c.at /\ r.along[k + 1].out \in c.outs

IsToDo(r, s, src) ==
  r.from \in src \/ \E k \in 1..Len(s) : Reaches(s, k, r) /\ IsLeft(s[k], k, r)

\* Each report has a route of its own, which is no longer to do.
IsLog(w, s, src, rep) ==
  /\ w \in Seq(Routes) /\ Len(w) = Len(rep)
  /\ \A i \in 1..Len(w) : RunsAlong(rep[i], w[i]) /\ ~IsToDo(w[i], s, src)
  /\ \A i, j \in 1..Len(w) : w[i] = w[j] => i = j

NoneMissed(w, s, src) ==
  \A r \in Routes : IsToDo(r, s, src) \/ \E i \in 1..Len(w) : w[i] = r

\* The search goes to all ends, or it has done so.
IsThorough ==
  phase \in {"walking", "done"} /\ ~aborted /\ ~(\E x \in Switching : IsSink(x))

LogInv ==
  \E w : /\ IsLog(w, frames, sources, reported)
         /\ IsThorough => NoneMissed(w, frames, sources)

\* Routes are fields of their records.
LEMMA RoutesAreTyped ==
  ASSUME GraphInv, NEW r \in Routes
  PROVE  /\ r.from \in Elements /\ r.along \in Seq(edges) /\ Len(r.along) \in Nat
         /\ \A i \in 1..Len(r.along) : r.along[i] \in edges
         /\ IsRoute(r)
         /\ \A q \in Routes : q.from = r.from /\ q.along = r.along => q = r
<1>1. \A q \in Routes : q \in [from: Elements, along: Seq(edges)]
  BY DEF Routes
<1>2. r.from \in Elements /\ r.along \in Seq(edges) /\ IsRoute(r)
  BY DEF Routes
<1> QED BY <1>1, <1>2

\* A route goes on from each edge but those to sinks.
LEMMA RouteGoesOn ==
  ASSUME GraphInv, NEW r \in Routes, NEW k \in 1..Len(r.along)
  PROVE  /\ IsSink(r.along[k].to) <=> k = Len(r.along)
         /\ k < Len(r.along) =>
              /\ r.along[k + 1] \in EdgesAt(r.along[k].to, r.along[k + 1].out)
              /\ Passes(r.along[k].to, r.along[k].in, r.along[k + 1].out)
              /\ r.along[k + 1].out \in OutputsOf(r.along[k].to)
         /\ k = Len(r.along) => Ends(r.along[k])
<1>1. /\ Len(r.along) \in Nat /\ IsRoute(r)
      /\ \A i \in 1..Len(r.along) : r.along[i] \in edges
      /\ r.along # <<>>
  BY RoutesAreTyped
<1>2. CASE k < Len(r.along)
  <2>1. k \in 1..Len(r.along) - 1 /\ k + 1 \in 1..Len(r.along)
    BY <1>1, <1>2
  <2>2. Continues(r.along[k], r.along[k + 1]) /\ r.along[k + 1] \in edges
    BY <1>1, <2>1 DEF IsRoute
  <2>3. PICK e, f : e = r.along[k] /\ f = r.along[k + 1]
    OBVIOUS
  <2>4. f \in edges /\ f.from = e.to /\ Passes(e.to, e.in, f.out)
    BY <2>2, <2>3 DEF Continues
  <2>5. f \in EdgesAt(e.to, f.out) /\ f.out \in OutputsOf(e.to)
    BY <2>4 DEF EdgesAt, OutputsOf
  <2> QED BY <1>2, <2>3, <2>4, <2>5 DEF IsSink
<1>3. CASE k = Len(r.along)
  BY <1>1, <1>3 DEF IsRoute, Ends
<1>4. k < Len(r.along) \/ k = Len(r.along)
  BY <1>1
<1> QED BY <1>2, <1>3, <1>4


(***************************************************************************)
(* Steps of the log                                                        *)
(***************************************************************************)
\* Nothing is reported.
LEMMA LogKept ==
  ASSUME NEW w, NEW s, NEW t, NEW src, NEW tsrc, NEW rep, IsLog(w, s, src, rep),
         \A r \in Routes : IsToDo(r, t, tsrc) => IsToDo(r, s, src)
  PROVE  /\ IsLog(w, t, tsrc, rep)
         /\ (\A r \in Routes : IsToDo(r, s, src) => IsToDo(r, t, tsrc)) =>
              (NoneMissed(w, s, src) => NoneMissed(w, t, tsrc))
<1>1. \A i \in 1..Len(w) : w[i] \in Routes
  BY DEF IsLog
<1>2. IsLog(w, t, tsrc, rep)
  BY <1>1 DEF IsLog
<1> QED BY <1>2 DEF NoneMissed

\* A route that was to do is reported.
LEMMA LogExtended ==
  ASSUME NEW w, NEW s, NEW t, NEW src, NEW tsrc, NEW rep, IsLog(w, s, src, rep),
         NEW r \in Routes, IsToDo(r, s, src), NEW p, RunsAlong(p, r), rep \in Seq(Seq(PathElem)),
         p \in Seq(PathElem),
         \A q \in Routes : IsToDo(q, t, tsrc) <=> IsToDo(q, s, src) /\ q # r
  PROVE  /\ IsLog(Append(w, r), t, tsrc, Append(rep, p))
         /\ NoneMissed(w, s, src) => NoneMissed(Append(w, r), t, tsrc)
<1> DEFINE v == Append(w, r)
           l == Append(rep, p)
<1>1. /\ v \in Seq(Routes) /\ Len(w) \in Nat /\ Len(v) = Len(w) + 1 /\ v[Len(w) + 1] = r
      /\ \A i \in 1..Len(w) : v[i] = w[i] /\ w[i] \in Routes
  BY Pushed DEF IsLog
<1>2. /\ Len(rep) = Len(w) /\ Len(l) = Len(rep) + 1 /\ l[Len(rep) + 1] = p
      /\ \A i \in 1..Len(rep) : l[i] = rep[i]
  BY Pushed DEF IsLog
<1> HIDE DEF v, l
<1>3. \A i \in 1..Len(v) : i \in 1..Len(w) \/ i = Len(w) + 1
  BY <1>1
<1>4. \A i \in 1..Len(w) : RunsAlong(rep[i], w[i]) /\ ~IsToDo(w[i], s, src) /\ w[i] # r
  BY DEF IsLog
<1>5. ASSUME NEW i \in 1..Len(v) PROVE RunsAlong(l[i], v[i]) /\ ~IsToDo(v[i], t, tsrc)
  <2>1. CASE i \in 1..Len(w)
    BY <1>1, <1>2, <1>4, <2>1
  <2>2. CASE i = Len(w) + 1
    BY <1>1, <1>2, <2>2
  <2> QED BY <1>3, <2>1, <2>2
<1>6. ASSUME NEW i \in 1..Len(v), NEW j \in 1..Len(v), v[i] = v[j] PROVE i = j
  <2>1. \A a, b \in 1..Len(w) : w[a] = w[b] => a = b
    BY DEF IsLog
  <2>2. CASE i \in 1..Len(w) /\ j \in 1..Len(w)
    BY <1>1, <1>6, <2>1, <2>2
  <2>3. CASE i = Len(w) + 1 /\ j \in 1..Len(w)
    BY <1>1, <1>4, <1>6, <2>3
  <2>4. CASE i \in 1..Len(w) /\ j = Len(w) + 1
    BY <1>1, <1>4, <1>6, <2>4
  <2> QED BY <1>3, <2>2, <2>3, <2>4
<1>7. IsLog(v, t, tsrc, l)
  BY <1>1, <1>2, <1>5, <1>6 DEF IsLog
<1>8. ASSUME NoneMissed(w, s, src), NEW q \in Routes
      PROVE  IsToDo(q, t, tsrc) \/ \E i \in 1..Len(v) : v[i] = q
  <2>1. CASE q = r
    <3>1. Len(w) + 1 \in 1..Len(v)
      BY <1>1
    <3> QED BY <1>1, <2>1, <3>1
  <2>2. CASE \E i \in 1..Len(w) : w[i] = q
    <3>1. \A i \in 1..Len(w) : i \in 1..Len(v)
      BY <1>1
    <3> QED BY <1>1, <2>2, <3>1
  <2>3. IsToDo(q, s, src) \/ \E i \in 1..Len(w) : w[i] = q
    BY <1>8 DEF NoneMissed
  <2> QED BY <2>1, <2>2, <2>3
<1> QED BY <1>7, <1>8 DEF v, l, NoneMissed

\* A change to the top of the stack concerns routes that go on from there.
LEMMA ToDoAtTop ==
  ASSUME NEW s \in Seq(Calls), s # <<>>, NEW t \in Seq(Calls), Len(t) = Len(s),
         \A i \in 1..Len(s) - 1 : t[i] = s[i], t[Len(s)].elem = s[Len(s)].elem,
         NEW src, NEW r
  PROVE  /\ Reaches(t, Len(s), r) <=> Reaches(s, Len(s), r)
         /\ ~(Reaches(s, Len(s), r) /\ IsLeft(s[Len(s)], Len(s), r)) /\ IsToDo(r, s, src) =>
              IsToDo(r, t, src)
         /\ (Reaches(s, Len(s), r) => (IsLeft(t[Len(s)], Len(s), r) => IsLeft(s[Len(s)], Len(s), r))) =>
              (IsToDo(r, t, src) => IsToDo(r, s, src))
         /\ (Reaches(s, Len(s), r) => (IsLeft(s[Len(s)], Len(s), r) => IsLeft(t[Len(s)], Len(s), r))) =>
              (IsToDo(r, s, src) => IsToDo(r, t, src))
<1> DEFINE n == Len(s)
<1>1. n \in Nat \ {0} /\ t[1].elem = s[1].elem
  <2>1. n \in Nat \ {0} /\ (n = 1 \/ 1 \in 1..n - 1)
    OBVIOUS
  <2> QED BY <2>1
<1> HIDE DEF n
<1>2. \A k \in 1..n : k = n \/ k \in 1..n - 1
  BY <1>1
<1>3. \A k \in 1..n : \A j \in 1..k - 1 : j \in 1..n - 1
  BY <1>1
<1>4. \A k \in 1..n : Reaches(t, k, r) <=> Reaches(s, k, r)
  BY <1>1, <1>3 DEF Reaches, n
<1>5. n \in 1..n /\ \A k \in 1..n - 1 : k \in 1..n
  BY <1>1
<1>6. IsToDo(r, s, src) <=> \/ r.from \in src
                            \/ \E k \in 1..n - 1 : Reaches(s, k, r) /\ IsLeft(s[k], k, r)
                            \/ Reaches(s, n, r) /\ IsLeft(s[n], n, r)
  BY <1>2, <1>5 DEF IsToDo, n
<1>7. IsToDo(r, t, src) <=> \/ r.from \in src
                            \/ \E k \in 1..n - 1 : Reaches(t, k, r) /\ IsLeft(t[k], k, r)
                            \/ Reaches(t, n, r) /\ IsLeft(t[n], n, r)
  BY <1>2, <1>5 DEF IsToDo, n
<1>8. \A k \in 1..n - 1 : t[k] = s[k]
  BY DEF n
<1> QED BY <1>4, <1>5, <1>6, <1>7, <1>8 DEF n


(***************************************************************************)
(* Numbers                                                                 *)
(***************************************************************************)
LEMMA NatIsWellFounded ==
  \E R : IsWellFoundedOn(R, Nat) /\ \A x, y \in Nat : x < y => <<x, y>> \in R
<1> DEFINE R == {ss \in Nat \X Nat : ss[1] < ss[2]}
<1>1. IsWellFoundedOn(R, Nat)
  BY NatLessThanWellFounded, Zenon DEF OpToRel
<1>2. \A x, y \in Nat : x < y => <<x, y>> \in R
  OBVIOUS
<1> QED BY <1>1, <1>2

LEMMA MinimalElement ==
  ASSUME NEW R, NEW T, IsWellFoundedOn(R, Nat), T \subseteq Nat, T # {}
  PROVE  \E x \in T : \A y \in T : ~(<<y, x>> \in R)
BY WFMin, Zenon

LEMMA LeastNumber ==
  ASSUME NEW T, T \subseteq Nat, T # {}
  PROVE  \E x \in T : \A y \in T : x <= y
<1>1. PICK R : IsWellFoundedOn(R, Nat) /\ \A x, y \in Nat : x < y => <<x, y>> \in R
  BY NatIsWellFounded
<1>2. PICK x \in T : \A y \in T : ~(<<y, x>> \in R)
  BY ONLY <1>1, MinimalElement, T \subseteq Nat, T # {}
<1>3. \A y \in T : ~(y < x)
  BY <1>1, <1>2
<1>4. \A y \in T : x <= y
  BY <1>3
<1> QED BY <1>4

LEMMA MinIsMember ==
  ASSUME NEW T, T \subseteq Nat, T # {}
  PROVE  Min(T) \in T
<1>1. \E x \in T : \A y \in T : x <= y
  BY LeastNumber
<1> QED BY <1>1 DEF Min


LEMMA FollowEdgeKeepsToDo ==
  ASSUME TrackerInv, NEW e \in edges, FollowEdge(e), NEW r \in Routes
  PROVE  IsToDo(r, frames', sources) <=> IsToDo(r, frames, sources)
<1> DEFINE n == Len(frames)
           c == [top EXCEPT !.edges = @ \ {e}, !.at = e, !.outs = OutputsOf(e.to)]
<1>1. /\ frames # <<>> /\ top.outs = {} /\ e \in top.edges /\ ~IsSink(e.to)
      /\ frames' = [frames EXCEPT ![n] = c]
  BY DEF FollowEdge, WithTop
<1>2. frames \in Seq(Calls) /\ GraphInv
  BY DEF TrackerInv, IsSearch
<1>3. top \in Calls /\ top = frames[n] /\ n \in Nat \ {0}
  BY <1>1, <1>2 DEF top
<1>4. OutputsOf(e.to) \subseteq Nat
  BY EdgesAreTyped DEF TrackerInv, OutputsOf
<1>5. /\ c \in Calls /\ c.elem = top.elem /\ c.edges = top.edges \ {e} /\ c.at = e
      /\ c.outs = OutputsOf(e.to)
  BY <1>3, <1>4 DEF Calls
<1> HIDE DEF c
<1>6. /\ frames' \in Seq(Calls) /\ Len(frames') = n /\ frames'[n] = c
      /\ \A i \in 1..n - 1 : frames'[i] = frames[i]
  BY <1>1, <1>2, <1>5, TopReplaced
<1>7. ASSUME Reaches(frames, n, r) PROVE IsLeft(c, n, r) <=> IsLeft(top, n, r)
  <2>1. n \in 1..Len(r.along)
    BY <1>2, <1>3, <1>7, RoutesAreTyped DEF Reaches
  <2>2. r.along[n] = e => n < Len(r.along) /\ r.along[n + 1].out \in OutputsOf(e.to)
    BY <1>1, <1>2, <2>1, RouteGoesOn, RoutesAreTyped
  <2> QED BY <1>1, <1>5, <2>2 DEF IsLeft
<1> QED BY <1>1, <1>2, <1>3, <1>5, <1>6, <1>7, ToDoAtTop

\* With one output less, and a call of down() for it if it is active.
LEMMA VisitOutputKeepsToDo ==
  ASSUME TrackerInv, VisitOutput, NEW r \in Routes
  PROVE  IsToDo(r, frames', sources) <=> IsToDo(r, frames, sources)
<1> DEFINE n == Len(frames)
           e == top.at
           out == Min(top.outs)
           c == [top EXCEPT !.outs = @ \ {out}]
           left == [frames EXCEPT ![n] = c]
           call == Down(e.to, out)
           new == Append(left, call)
<1>1. /\ frames # <<>> /\ top.outs # {}
      /\ frames' = IF Passes(e.to, e.in, out) THEN new ELSE left
  BY DEF VisitOutput, WithTop
<1>2. frames \in Seq(Calls) /\ GraphInv /\ IsStack(frames)
  BY DEF TrackerInv, IsSearch
<1>3. top \in Calls /\ top = frames[n] /\ n \in Nat \ {0}
  BY <1>1, <1>2 DEF top
<1>4. c \in Calls /\ c.elem = top.elem /\ c.edges = top.edges /\ c.at = e /\ c.outs = top.outs \ {out}
  BY <1>3 DEF Calls
<1>5. out \in top.outs
  <2>1. top.outs \subseteq Nat
    BY <1>3 DEF Calls
  <2> QED BY <1>1, <2>1, MinIsMember
<1>6. e \in edges /\ e.to \in Elements
  <2>1. PICK o : LeavesAt(frames, n, o)
    BY <1>2, <1>3 DEF IsStack
  <2>2. e \in edges
    BY <1>1, <1>3, <2>1 DEF LeavesAt, EdgesAt
  <2> QED BY <1>2, <2>2, EdgesAreTyped
<1> HIDE DEF c, out
<1>7. /\ left \in Seq(Calls) /\ Len(left) = n /\ left[n] = c
      /\ \A i \in 1..n - 1 : left[i] = frames[i]
  BY <1>1, <1>2, <1>4, TopReplaced
<1> HIDE DEF left
<1>8. ASSUME Reaches(frames, n, r)
      PROVE  IsLeft(top, n, r) <=>
               \/ IsLeft(c, n, r)
               \/ n < Len(r.along) /\ r.along[n] = e /\ r.along[n + 1].out = out
  BY <1>4, <1>5 DEF IsLeft
<1>9. CASE ~Passes(e.to, e.in, out)
  <2>1. ASSUME Reaches(frames, n, r) PROVE IsLeft(c, n, r) <=> IsLeft(top, n, r)
    <3>1. n \in 1..Len(r.along)
      BY <1>2, <1>3, <2>1, RoutesAreTyped DEF Reaches
    <3>2. ~(n < Len(r.along) /\ r.along[n] = e /\ r.along[n + 1].out = out)
      BY <1>2, <1>9, <3>1, RouteGoesOn
    <3> QED BY <1>8, <2>1, <3>2
  <2> QED BY <1>1, <1>2, <1>3, <1>4, <1>7, <1>9, <2>1, ToDoAtTop
<1>10. CASE Passes(e.to, e.in, out)
  <2>1. /\ call \in Calls /\ call.elem = e.to /\ call.edges = EdgesAt(e.to, out) /\ call.outs = {}
    BY <1>6, DownIsCall
  <2> HIDE DEF call
  <2>2. /\ new \in Seq(Calls) /\ Len(new) = n + 1 /\ new[n + 1] = call
        /\ \A i \in 1..n : new[i] = left[i]
    BY <1>7, <2>1, Pushed
  <2> HIDE DEF new
  <2>3. \A k \in 1..n : Reaches(new, k, r) <=> Reaches(left, k, r)
    <3>1. 1 \in 1..n /\ \A k \in 1..n : \A j \in 1..k - 1 : j \in 1..n
      BY <1>3
    <3> QED BY <2>2, <3>1 DEF Reaches
  <2>4. IsToDo(r, new, sources) <=>
          IsToDo(r, left, sources) \/ (Reaches(new, n + 1, r) /\ IsLeft(call, n + 1, r))
    <3>1. /\ \A k \in 1..n + 1 : k \in 1..n \/ k = n + 1
          /\ \A k \in 1..n : k \in 1..n + 1
          /\ n + 1 \in 1..n + 1
      BY <1>3
    <3> QED BY <1>7, <2>2, <2>3, <3>1 DEF IsToDo
  <2>5. Reaches(new, n + 1, r) <=> Reaches(left, n, r) /\ n + 1 <= Len(r.along) /\ r.along[n] = e
    <3>1. Len(r.along) \in Nat
      BY <1>2, RoutesAreTyped
    <3>2. /\ \A j \in 1..(n + 1) - 1 : j = n \/ j \in 1..n - 1
          /\ n \in 1..(n + 1) - 1 /\ \A j \in 1..n - 1 : j \in 1..(n + 1) - 1 /\ j \in 1..n
          /\ 1 \in 1..n /\ n \in 1..n
          /\ n + 1 <= Len(r.along) => n <= Len(r.along)
      BY <1>3, <3>1
    <3>3. new[1] = left[1] /\ new[n].at = e /\ \A j \in 1..n - 1 : new[j] = left[j]
      BY <1>4, <1>7, <2>2, <3>2
    <3>4. ASSUME NEW m, m = (n + 1) - 1, new[n].at = e,
                 \A j \in 1..n - 1 : new[j] = left[j],
                 \A j \in 1..m : j = n \/ j \in 1..n - 1,
                 n \in 1..m, \A j \in 1..n - 1 : j \in 1..m
          PROVE  (\A j \in 1..m : r.along[j] = new[j].at) <=>
                   r.along[n] = e /\ \A j \in 1..n - 1 : r.along[j] = left[j].at
      BY <3>4
    <3> QED BY <3>2, <3>3, <3>4 DEF Reaches
  <2>6. ASSUME Reaches(left, n, r)
        PROVE  (n + 1 <= Len(r.along) /\ r.along[n] = e) /\ IsLeft(call, n + 1, r) <=>
               (n < Len(r.along) /\ r.along[n] = e /\ r.along[n + 1].out = out)
    <3>1. n \in 1..Len(r.along) /\ Len(r.along) \in Nat
      BY <1>2, <1>3, <2>6, RoutesAreTyped DEF Reaches
    <3>2. n + 1 <= Len(r.along) <=> n < Len(r.along)
      BY <1>3, <3>1
    <3>3. IsLeft(call, n + 1, r) <=> r.along[n + 1] \in EdgesAt(e.to, out)
      BY <2>1 DEF IsLeft
    <3>4. r.along[n + 1] \in EdgesAt(e.to, out) => r.along[n + 1].out = out
      BY DEF EdgesAt
    <3>5. n < Len(r.along) /\ r.along[n] = e /\ r.along[n + 1].out = out =>
            r.along[n + 1] \in EdgesAt(e.to, out)
      BY <1>2, <3>1, RouteGoesOn
    <3> QED BY <3>2, <3>3, <3>4, <3>5
  <2>7. Reaches(left, n, r) <=> Reaches(frames, n, r)
    BY <1>1, <1>2, <1>3, <1>4, <1>7, ToDoAtTop
  <2>8. Reaches(new, n + 1, r) /\ IsLeft(call, n + 1, r) <=>
          Reaches(frames, n, r) /\ n < Len(r.along) /\ r.along[n] = e /\ r.along[n + 1].out = out
    BY <2>5, <2>6, <2>7
  <2>9. IsToDo(r, left, sources) => IsToDo(r, frames, sources)
    BY <1>1, <1>2, <1>3, <1>4, <1>7, <1>8, ToDoAtTop
  <2>10. Reaches(frames, n, r) /\ IsLeft(top, n, r) => IsToDo(r, frames, sources)
    BY <1>3 DEF IsToDo
  <2>11. Reaches(left, n, r) /\ IsLeft(c, n, r) => IsToDo(r, left, sources)
    BY <1>3, <1>7 DEF IsToDo
  <2>12. IsToDo(r, frames, sources) /\ ~(Reaches(frames, n, r) /\ IsLeft(top, n, r)) =>
           IsToDo(r, left, sources)
    BY <1>1, <1>2, <1>3, <1>4, <1>7, ToDoAtTop
  <2> QED BY <1>1, <1>8, <1>10, <2>4, <2>7, <2>8, <2>9, <2>10, <2>11, <2>12
<1> QED BY <1>9, <1>10

LEMMA ReturnKeepsToDo ==
  ASSUME TrackerInv, Return, NEW r \in Routes
  PROVE  IsToDo(r, frames', sources) <=> IsToDo(r, frames, sources)
<1> DEFINE n == Len(frames)
           m == n - 1
           new == SubSeq(frames, 1, m)
<1>1. frames # <<>> /\ top.outs = {} /\ top.edges = {} /\ frames' = new
  BY DEF Return
<1>2. frames \in Seq(Calls) /\ GraphInv
  BY DEF TrackerInv, IsSearch
<1>3. top = frames[n] /\ n \in Nat \ {0} /\ m \in 0..n
  BY <1>1, <1>2 DEF top
<1>4. Len(new) = m /\ \A i \in 1..m : new[i] = frames[i]
  BY <1>2, <1>3, Cut
<1> HIDE DEF new
<1>5. ~IsLeft(top, n, r)
  BY <1>1 DEF IsLeft
<1>6. \A k \in 1..m : Reaches(new, k, r) <=> Reaches(frames, k, r)
  <2>1. \A k \in 1..m : 1 \in 1..m /\ \A j \in 1..k - 1 : j \in 1..m
    BY <1>3
  <2> QED BY <1>4, <2>1 DEF Reaches
<1>7. (\A k \in 1..n : k \in 1..m \/ k = n) /\ (\A k \in 1..m : k \in 1..n)
  BY <1>3
<1> QED BY <1>1, <1>3, <1>4, <1>5, <1>6, <1>7 DEF IsToDo


\* A source that passes nothing begins no route; one that passes begins those
\* along its edges, and is a route itself if it is a sink.
LEMMA VisitSourceKeepsLog ==
  ASSUME TrackerInv, NEW x \in Elements, NEW goOn \in BOOLEAN, VisitSource(x, goOn),
         NEW w, IsLog(w, frames, sources, reported)
  PROVE  \E v : /\ IsLog(v, frames', sources', reported')
                /\ NoneMissed(w, frames, sources) => NoneMissed(v, frames', sources')
<1>1. /\ frames = <<>> /\ x \in sources /\ sources' = sources \ {x}
      /\ IF Passes(x, Unconnected, 0)
         THEN VisitPassing(x, 0, goOn) /\ frames' = <<Down(x, 0)>>
         ELSE frames' = frames /\ reported' = reported
  BY DEF VisitSource
<1>2. /\ GraphInv /\ path \in Seq(PathElem) /\ reported \in Seq(Seq(PathElem))
      /\ x \notin Sub /\ IsSource(x)
  BY DEF TrackerInv, IsSearch, PhaseInv, VisitSource, Walking
<1>3. \A r \in Routes : IsToDo(r, frames, sources) <=> r.from \in sources
  <2>1. \A k \in 1..Len(frames) : FALSE
    BY <1>1
  <2> QED BY <2>1 DEF IsToDo
<1>4. CASE ~Passes(x, Unconnected, 0)
  <2>1. \A r \in Routes : r.from # x
    BY <1>2, <1>4, RoutesAreTyped DEF IsRoute, Starts
  <2>2. \A r \in Routes : IsToDo(r, frames', sources') <=> r.from \in sources'
    <3>1. \A k \in 1..Len(frames') : FALSE
      BY <1>1, <1>4
    <3> QED BY <3>1 DEF IsToDo
  <2>3. \A r \in Routes : IsToDo(r, frames', sources') <=> IsToDo(r, frames, sources)
    BY <1>1, <1>3, <2>1, <2>2
  <2>4. PICK t, tsrc : t = frames' /\ tsrc = sources'
    OBVIOUS
  <2>5. IsLog(w, t, tsrc, reported) /\ (NoneMissed(w, frames, sources) => NoneMissed(w, t, tsrc))
    BY <2>3, <2>4, LogKept
  <2> QED BY <1>1, <1>4, <2>4, <2>5
<1>5. CASE Passes(x, Unconnected, 0)
  <2> DEFINE call == Down(x, 0)
             t == <<call>>
             tsrc == sources \ {x}
  <2>1. call \in Calls /\ call.elem = x /\ call.edges = EdgesAt(x, 0) /\ call.outs = {}
    BY DownIsCall
  <2> HIDE DEF call
  <2>2. frames' = t /\ sources' = tsrc /\ VisitPassing(x, 0, goOn)
    BY <1>1, <1>5 DEF call
  <2>3. Len(t) = 1 /\ t[1] = call
    OBVIOUS
  <2> HIDE DEF t
  <2>4. ASSUME NEW r \in Routes
        PROVE  IsToDo(r, t, tsrc) <=> r.from \in tsrc \/ (r.from = x /\ r.along # <<>>)
    <3>1. IsRoute(r) /\ r.along \in Seq(edges) /\ Len(r.along) \in Nat
      BY <1>2, RoutesAreTyped
    <3>2. IsToDo(r, t, tsrc) <=> r.from \in tsrc \/ (Reaches(t, 1, r) /\ IsLeft(call, 1, r))
      <4>1. \A k : k \in 1..1 <=> k = 1
        OBVIOUS
      <4> QED BY <2>3, <4>1 DEF IsToDo
    <3>3. Reaches(t, 1, r) <=> r.from = x /\ r.along # <<>>
      <4>1. (1 <= Len(r.along) <=> r.along # <<>>) /\ \A j \in 1..1 - 1 : FALSE
        BY <3>1
      <4> QED BY <2>1, <2>3, <4>1 DEF Reaches
    <3>4. r.from = x /\ r.along # <<>> => IsLeft(call, 1, r)
      <4>1. r.along # <<>> => r.along[1] \in edges
        BY <3>1
      <4> QED BY <2>1, <3>1, <4>1 DEF IsRoute, IsLeft, EdgesAt
    <3> QED BY <3>2, <3>3, <3>4
  <2>5. \A r \in Routes : r.from = x => (IsSink(x) <=> r.along = <<>>)
    <3> SUFFICES ASSUME NEW r \in Routes, r.from = x PROVE IsSink(x) <=> r.along = <<>>
      OBVIOUS
    <3>1. IsRoute(r) /\ r.along \in Seq(edges)
      BY <1>2, RoutesAreTyped
    <3>2. ASSUME r.along # <<>> PROVE ~IsSink(x)
      <4>1. PICK e : e = r.along[1]
        OBVIOUS
      <4>2. e \in edges /\ e.from = x
        BY <3>1, <3>2, <4>1 DEF IsRoute
      <4>3. e.out \in OutputsOf(x)
        BY <4>2 DEF OutputsOf
      <4> QED BY <4>3 DEF IsSink
    <3> QED BY <3>1, <3>2 DEF IsRoute
  <2>6. CASE ~IsSink(x)
    <3>1. reported' = reported
      BY <2>2, <2>6 DEF VisitPassing
    <3>2. \A r \in Routes : IsToDo(r, t, tsrc) <=> IsToDo(r, frames, sources)
      BY <1>1, <1>3, <2>4, <2>5, <2>6
    <3>3. IsLog(w, t, tsrc, reported) /\ (NoneMissed(w, frames, sources) => NoneMissed(w, t, tsrc))
      BY <3>2, LogKept
    <3> QED BY <2>2, <3>1, <3>3
  <2>7. CASE IsSink(x)
    <3> DEFINE r == [from |-> x, along |-> <<>>]
               p == Extended(x, 0)
    <3>1. r.from = x /\ r.along = <<>> /\ Len(r.along) = 0 /\ r \in [from: Elements, along: Seq(edges)]
      OBVIOUS
    <3> HIDE DEF r
    <3>2. r \in Routes
      <4>1. IsRoute(r)
        BY <1>2, <1>5, <2>7, <3>1 DEF IsRoute, Starts
      <4> QED BY <3>1, <4>1 DEF Routes
    <3>3. reported' = Append(reported, p)
      BY <2>2, <2>7 DEF VisitPassing
    <3>4. p \in Seq(PathElem) /\ Len(p) = 0 + 1 /\ p[0 + 1].elem = x
      <4>1. 0 \in 0..Len(path)
        BY <1>2
      <4> QED BY <1>2, <4>1, PathExtended
    <3> HIDE DEF p
    <3>5. RunsAlong(p, r)
      BY <3>1, <3>4 DEF RunsAlong
    <3>6. \A q \in Routes : q = r <=> q.from = x
      BY <1>2, <2>5, <2>7, <3>1, <3>2, RoutesAreTyped
    <3>7. /\ IsToDo(r, frames, sources)
          /\ \A q \in Routes : IsToDo(q, t, tsrc) <=> IsToDo(q, frames, sources) /\ q # r
      BY <1>1, <1>3, <2>4, <2>5, <2>7, <3>1, <3>2, <3>6
    <3>8. /\ IsLog(Append(w, r), t, tsrc, Append(reported, p))
          /\ NoneMissed(w, frames, sources) => NoneMissed(Append(w, r), t, tsrc)
      BY <1>2, <3>2, <3>4, <3>5, <3>7, LogExtended
    <3> QED BY <2>2, <3>3, <3>8
  <2> QED BY <2>6, <2>7
<1> QED BY <1>4, <1>5

\* The edges followed by the calls and one of those left to the topmost are a
\* route if they end at a sink.
LEMMA StackIsRoute ==
  ASSUME TrackerInv, frames # <<>>, NEW e \in top.edges, Ends(e)
  PROVE  \E r \in Routes :
           /\ r.from = frames[1].elem /\ Len(r.along) = Len(frames)
           /\ \A j \in 1..Len(frames) - 1 : r.along[j] = frames[j].at
           /\ r.along[Len(frames)] = e
<1> DEFINE n == Len(frames)
           c == [j \in 1..n |-> IF j < n THEN frames[j].at ELSE e]
           r == [from |-> frames[1].elem, along |-> c]
<1>1. frames \in Seq(Calls) /\ n \in Nat \ {0} /\ top = frames[n] /\ IsStack(frames) /\ GraphInv
  BY DEF TrackerInv, IsSearch, top
<1>2. \A j \in 1..n - 1 : j \in 1..n /\ j < n /\ j + 1 \in 1..n /\ j + 1 > 1 /\ (j + 1) - 1 = j
  BY <1>1
<1>3. /\ \A j \in 1..n - 1 : c[j] = frames[j].at
      /\ c[n] = e
      /\ \A j \in 1..n : j = n \/ j \in 1..n - 1
  BY <1>1, <1>2
<1>4. ASSUME NEW j \in 1..n
      PROVE  \E out : LeavesAt(frames, j, out) /\ c[j] \in EdgesAt(frames[j].elem, out)
  <2>1. PICK out : LeavesAt(frames, j, out)
    BY <1>1 DEF IsStack
  <2>2. CASE j = n
    BY <1>1, <1>3, <2>1, <2>2 DEF LeavesAt
  <2>3. CASE j \in 1..n - 1
    BY <1>2, <1>3, <2>1, <2>3 DEF LeavesAt
  <2> QED BY <1>3, <2>1, <2>2, <2>3
<1>5. \A j \in 1..n : c[j] \in edges
  BY <1>4 DEF EdgesAt
<1>6. c \in Seq(edges) /\ Len(c) = n /\ c # <<>>
  BY <1>1, <1>5
<1> HIDE DEF c
<1>7. 1 \in 1..n /\ frames[1].elem \in Elements
  <2>1. 1 \in 1..n /\ frames[1] \in Calls
    BY <1>1
  <2> QED BY <2>1 DEF Calls
<1>8. Starts(frames[1].elem) /\ c[1].from = frames[1].elem /\ c[1].out = 0
  <2>1. PICK out : LeavesAt(frames, 1, out) /\ c[1] \in EdgesAt(frames[1].elem, out)
    BY <1>4, <1>7
  <2> QED BY <2>1 DEF LeavesAt, EdgesAt
<1>9. ASSUME NEW j \in 1..n - 1 PROVE Continues(c[j], c[j + 1])
  <2>1. PICK out : LeavesAt(frames, j + 1, out) /\ c[j + 1] \in EdgesAt(frames[j + 1].elem, out)
    BY <1>2, <1>4
  <2>2. /\ frames[j].at.to = frames[j + 1].elem
        /\ Passes(frames[j + 1].elem, frames[j].at.in, out)
    BY <1>2, <2>1 DEF LeavesAt
  <2>3. c[j + 1].from = frames[j + 1].elem /\ c[j + 1].out = out /\ c[j] = frames[j].at
    BY <1>3, <2>1 DEF EdgesAt
  <2> QED BY <2>2, <2>3 DEF Continues
<1>10. r.from = frames[1].elem /\ r.along = c /\ r \in [from: Elements, along: Seq(edges)]
  BY <1>6, <1>7
<1> HIDE DEF r
<1>11. IsRoute(r)
  BY <1>3, <1>6, <1>8, <1>9, <1>10 DEF IsRoute
<1>12. r \in Routes
  BY <1>10, <1>11 DEF Routes
<1> QED BY <1>3, <1>6, <1>10, <1>12

\* A call below the top has nothing left to do with the edge it follows.
LEMMA StackIsNotToDo ==
  ASSUME TrackerInv, frames # <<>>, NEW e \in top.edges, NEW r \in Routes,
         \A j \in 1..Len(frames) - 1 : r.along[j] = frames[j].at,
         r.along[Len(frames)] = e, NEW k \in 1..Len(frames) - 1
  PROVE  ~IsLeft(frames[k], k, r)
<1> DEFINE n == Len(frames)
<1>1. frames \in Seq(Calls) /\ n \in Nat \ {0} /\ top = frames[n] /\ IsStack(frames) /\ GraphInv
  BY DEF TrackerInv, IsSearch, top
<1>2. /\ k \in 1..n /\ k < n /\ k + 1 \in 1..n /\ k + 1 > 1 /\ (k + 1) - 1 = k
      /\ k + 1 = n \/ (k + 1 \in 1..n - 1 /\ k + 1 < n)
  BY <1>1
<1>3. PICK out : LeavesAt(frames, k, out)
  BY <1>1, <1>2 DEF IsStack
<1>4. r.along[k] = frames[k].at /\ frames[k].at \notin frames[k].edges
  BY <1>2, <1>3 DEF LeavesAt
<1>5. PICK o : LeavesAt(frames, k + 1, o)
  BY <1>1, <1>2 DEF IsStack
<1>6. r.along[k + 1] \in EdgesAt(frames[k + 1].elem, o)
  <2>1. CASE k + 1 = n
    BY <1>1, <1>5, <2>1 DEF LeavesAt
  <2>2. CASE k + 1 \in 1..n - 1 /\ k + 1 < n
    BY <1>5, <2>2 DEF LeavesAt
  <2> QED BY <1>2, <2>1, <2>2
<1>7. r.along[k + 1].out = o /\ o \notin frames[k].outs
  BY <1>2, <1>5, <1>6 DEF LeavesAt, EdgesAt
<1> QED BY <1>4, <1>7 DEF IsLeft

\* The route to a sink that passes is reported, and nothing else is done; the
\* routes behind a sink that does not pass may be missed.
LEMMA VisitSinkKeepsLog ==
  ASSUME TrackerInv, NEW e \in edges, NEW goOn \in BOOLEAN, VisitSink(e, goOn),
         NEW w, IsLog(w, frames, sources, reported)
  PROVE  \E v : /\ IsLog(v, frames', sources, reported')
                /\ NoneMissed(w, frames, sources) /\ e.to \notin Switching =>
                     NoneMissed(v, frames', sources)
<1> DEFINE n == Len(frames)
<1>1. frames # <<>> /\ top.outs = {} /\ e \in top.edges /\ IsSink(e.to)
  BY DEF VisitSink
<1>2. frames \in Seq(Calls) /\ GraphInv /\ reported \in Seq(Seq(PathElem))
      /\ path \in Seq(PathElem) /\ BeginsWith(path, frames) /\ IsStack(frames)
  BY DEF TrackerInv, IsSearch
<1>3. top \in Calls /\ top = frames[n] /\ n \in Nat \ {0}
  BY <1>1, <1>2 DEF top
<1>4. ASSUME NEW S \in SUBSET top.edges
      PROVE  LET t == WithTop([top EXCEPT !.edges = S])
             IN /\ t \in Seq(Calls) /\ Len(t) = n /\ t[n].elem = top.elem
                /\ t[n].edges = S /\ t[n].at = top.at /\ t[n].outs = {}
                /\ \A i \in 1..n - 1 : t[i] = frames[i]
  <2> DEFINE c == [top EXCEPT !.edges = S]
             t == [frames EXCEPT ![n] = c]
  <2>1. c \in Calls /\ c.elem = top.elem /\ c.edges = S /\ c.at = top.at /\ c.outs = {}
    BY <1>1, <1>3 DEF Calls
  <2> HIDE DEF c
  <2>2. t \in Seq(Calls) /\ Len(t) = n /\ t[n] = c /\ \A i \in 1..n - 1 : t[i] = frames[i]
    BY <1>1, <1>2, <2>1, TopReplaced
  <2> QED BY <2>1, <2>2 DEF WithTop, c
<1>5. CASE ~Passes(e.to, e.in, Unconnected)
  <2> DEFINE t == WithTop([top EXCEPT !.edges = {}])
  <2>1. frames' = t /\ reported' = reported
    BY <1>5 DEF VisitSink
  <2>2. e.to \in Switching
    <3>1. e.to \in Elements
      BY <1>2, EdgesAreTyped
    <3> QED BY <1>5, <3>1 DEF Passes, Elements
  <2>3. /\ t \in Seq(Calls) /\ Len(t) = n /\ t[n].elem = top.elem
        /\ t[n].edges = {} /\ t[n].outs = {}
        /\ \A i \in 1..n - 1 : t[i] = frames[i]
    BY <1>4
  <2> HIDE DEF t
  <2>4. \A r : ~IsLeft(t[n], n, r)
    BY <2>3 DEF IsLeft
  <2>5. \A r \in Routes : IsToDo(r, t, sources) => IsToDo(r, frames, sources)
    BY <1>1, <1>2, <1>3, <2>3, <2>4, ToDoAtTop
  <2>6. IsLog(w, t, sources, reported)
    BY <2>5, LogKept
  <2> QED BY <2>1, <2>2, <2>6
<1>6. CASE Passes(e.to, e.in, Unconnected)
  <2> DEFINE t == WithTop([top EXCEPT !.edges = top.edges \ {e}])
             p == Extended(e.to, n)
  <2>1. frames' = t /\ reported' = Append(reported, p)
    BY <1>1, <1>6 DEF VisitSink, VisitPassing
  <2>2. /\ t \in Seq(Calls) /\ Len(t) = n /\ t[n].elem = top.elem
        /\ t[n].edges = top.edges \ {e} /\ t[n].outs = {}
        /\ \A i \in 1..n - 1 : t[i] = frames[i]
    BY <1>4
  <2> HIDE DEF t
  <2>3. Ends(e)
    BY <1>1, <1>6 DEF Ends
  <2>4. PICK r \in Routes : /\ r.from = frames[1].elem /\ Len(r.along) = n
                            /\ \A j \in 1..n - 1 : r.along[j] = frames[j].at
                            /\ r.along[n] = e
    BY <1>1, <2>3, StackIsRoute
  <2>5. path \in Seq(PathElem) /\ n \in 0..Len(path) /\ e.to \in Elements
    <3>1. n \in 1..n
      BY <1>3
    <3>2. n <= Len(path)
      BY <1>2, <3>1 DEF BeginsWith
    <3> QED BY <1>2, <1>3, <3>2, EdgesAreTyped
  <2>6. /\ p \in Seq(PathElem) /\ Len(p) = n + 1 /\ p[n + 1].elem = e.to
        /\ \A i \in 1..n : p[i] = path[i]
    BY <2>5, PathExtended
  <2> HIDE DEF p
  <2>7. RunsAlong(p, r)
    <3>1. \A i \in 1..n : p[i].elem = frames[i].elem
      BY <1>2, <2>6 DEF BeginsWith
    <3>2. ASSUME NEW i \in 1..n PROVE p[i + 1].elem = r.along[i].to
      <4>1. CASE i = n
        BY <2>4, <2>6, <4>1
      <4>2. CASE i # n
        <5>1. i \in 1..n - 1 /\ i + 1 \in 1..n /\ i + 1 > 1 /\ (i + 1) - 1 = i
          BY <1>3, <4>2
        <5>2. PICK out : LeavesAt(frames, i + 1, out)
          BY <1>2, <5>1 DEF IsStack
        <5>3. frames[i].at.to = frames[i + 1].elem
          BY <5>1, <5>2 DEF LeavesAt
        <5> QED BY <2>4, <3>1, <5>1, <5>3
      <4> QED BY <4>1, <4>2
    <3>3. p[1].elem = r.from
      <4>1. 1 \in 1..n
        BY <1>3
      <4> QED BY <2>4, <3>1, <4>1
    <3> QED BY <2>4, <2>6, <3>2, <3>3 DEF RunsAlong
  <2>8. Reaches(frames, n, r) /\ IsLeft(top, n, r)
    BY <1>1, <1>3, <2>4 DEF Reaches, IsLeft
  <2>9. IsToDo(r, frames, sources)
    <3>1. n \in 1..n
      BY <1>3
    <3> QED BY <1>3, <2>8, <3>1 DEF IsToDo
  <2>10. ~IsToDo(r, t, sources)
    <3>1. r.from \notin sources
      BY <1>1, <2>4 DEF TrackerInv, PhaseInv
    <3>2. ASSUME NEW k \in 1..n PROVE ~IsLeft(t[k], k, r)
      <4>1. CASE k = n
        BY <2>2, <2>4, <4>1 DEF IsLeft
      <4>2. CASE k # n
        <5>1. k \in 1..n - 1
          BY <1>3, <4>2
        <5> QED BY <1>1, <2>2, <2>4, <5>1, StackIsNotToDo
      <4> QED BY <4>1, <4>2
    <3> QED BY <2>2, <3>1, <3>2 DEF IsToDo
  <2>11. ASSUME NEW q \in Routes, q # r
         PROVE  IsToDo(q, t, sources) <=> IsToDo(q, frames, sources)
    <3>1. ASSUME Reaches(frames, n, q) PROVE IsLeft(t[n], n, q) <=> IsLeft(top, n, q)
      <4>1. n \in 1..Len(q.along) /\ Len(q.along) \in Nat /\ q.along \in Seq(edges)
        BY <1>2, <1>3, <3>1, RoutesAreTyped DEF Reaches
      <4>2. ASSUME q.along[n] = e PROVE FALSE
        <5>1. Len(q.along) = n
          BY <1>1, <1>2, <4>1, <4>2, RouteGoesOn
        <5>2. \A j \in 1..n : j = n \/ j \in 1..n - 1
          BY <1>3
        <5>3. \A j \in 1..n : q.along[j] = r.along[j]
          BY <2>4, <3>1, <4>2, <5>2 DEF Reaches
        <5>4. r.along \in Seq(edges)
          BY <1>2, RoutesAreTyped
        <5>5. q.along = r.along
          BY <2>4, <4>1, <5>1, <5>3, <5>4
        <5>6. q.from = r.from
          BY <2>4, <3>1 DEF Reaches
        <5> QED BY <1>2, <2>11, <5>5, <5>6, RoutesAreTyped
      <4> QED BY <1>1, <2>2, <4>2 DEF IsLeft
    <3> QED BY <1>1, <1>2, <1>3, <2>2, <3>1, ToDoAtTop
  <2>12. \A q \in Routes : IsToDo(q, t, sources) <=> IsToDo(q, frames, sources) /\ q # r
    BY <2>10, <2>11
  <2>13. /\ IsLog(Append(w, r), t, sources, Append(reported, p))
         /\ NoneMissed(w, frames, sources) => NoneMissed(Append(w, r), t, sources)
    BY <1>2, <2>6, <2>7, <2>9, <2>12, LogExtended
  <2> QED BY <2>1, <2>13
<1> QED BY <1>5, <1>6


(***************************************************************************)
(* The log is kept                                                         *)
(***************************************************************************)
\* Which routes there are depends on graph and selectors only.
LEMMA SameGraphSameLog ==
  ASSUME UNCHANGED <<edges, mapping, selector>>, NEW CONSTANT w
  PROVE  /\ IsLog(w, frames', sources', reported') => IsLog(w, frames, sources, reported)'
         /\ NoneMissed(w, frames', sources') => NoneMissed(w, frames, sources)'
         /\ \A x : IsSink(x)' <=> IsSink(x)
<1>1. /\ \A x : IsSource(x)' <=> IsSource(x)
      /\ \A x : IsSink(x)' <=> IsSink(x)
      /\ \A x, in, out : Passes(x, in, out)' <=> Passes(x, in, out)
  BY DEF IsSource, SourcesOf, IsSink, OutputsOf, Passes
<1>2. /\ \A x : Starts(x)' <=> Starts(x)
      /\ \A e : Ends(e)' <=> Ends(e)
      /\ \A e, f : Continues(e, f)' <=> Continues(e, f)
  BY <1>1 DEF Starts, Ends, Continues
<1>3. \A r : IsRoute(r)' <=> IsRoute(r)
  BY <1>1, <1>2 DEF IsRoute
<1>4. Routes' = Routes
  BY <1>3 DEF Routes
<1> QED BY <1>1, <1>4 DEF IsLog, NoneMissed, IsToDo, Reaches, IsLeft, RunsAlong

\* Without a report there is nothing to log.
LEMMA NoLog ==
  ASSUME NEW s, NEW src
  PROVE  IsLog(<<>>, s, src, <<>>)
<1>1. /\ <<>> \in Seq(Routes) /\ Len(<<>>) = 0 /\ \A i \in 1..0 : FALSE
  OBVIOUS
<1> QED BY <1>1 DEF IsLog

LEMMA NoLogNext ==
  ASSUME reported' = <<>>, phase' \notin {"walking", "done"}
  PROVE  LogInv'
<1>1. IsLog(<<>>, frames, sources, reported)'
  <2>1. /\ <<>> \in Seq(Routes') /\ Len(<<>>) = 0 /\ \A i \in 1..0 : FALSE
    OBVIOUS
  <2> QED BY <2>1 DEF IsLog
<1>2. ~IsThorough'
  BY DEF IsThorough
<1> QED BY <1>1, <1>2 DEF LogInv

\* At the beginning, all routes are to do, since their sources are.
LEMMA EnumerationStartsLog ==
  ASSUME TrackerInv, EnumerateActiveSignalPaths
  PROVE  LogInv'
<1>1. /\ reported' = <<>> /\ sources' = {x \in Elements \ Sub : IsSource(x)}
      /\ UNCHANGED <<edges, mapping, selector>>
  BY DEF EnumerateActiveSignalPaths, graphVars, TrackerInv, PhaseInv
<1>2. PICK t, tsrc : t = frames' /\ tsrc = sources'
  OBVIOUS
<1>3. IsLog(<<>>, t, tsrc, <<>>)
  BY NoLog
<1>4. NoneMissed(<<>>, t, tsrc)
  <2> SUFFICES ASSUME NEW r \in Routes PROVE r.from \in tsrc
    BY DEF NoneMissed, IsToDo
  <2>1. r.from \in Elements /\ Starts(r.from)
    BY RoutesAreTyped DEF TrackerInv, IsRoute
  <2> QED BY <1>1, <1>2, <2>1 DEF Starts
<1>5. IsLog(<<>>, frames, sources, reported)' /\ NoneMissed(<<>>, frames, sources)'
  BY <1>1, <1>2, <1>3, <1>4, SameGraphSameLog
<1> QED BY <1>5 DEF LogInv

LEMMA WalkKeepsLog ==
  ASSUME TrackerInv, LogInv, Walk
  PROVE  LogInv'
<1>1. PICK w : /\ IsLog(w, frames, sources, reported)
               /\ IsThorough => NoneMissed(w, frames, sources)
  BY DEF LogInv
<1>2. UNCHANGED <<edges, mapping, selector>>
  BY DEF Walk, VisitSource, VisitSink, FollowEdge, VisitOutput, Return, Finish, graphVars
<1>3. \A x : IsSink(x)' <=> IsSink(x)
  BY <1>2, SameGraphSameLog
<1>4. PICK t, tsrc, rep : t = frames' /\ tsrc = sources' /\ rep = reported'
  OBVIOUS
<1>5. ASSUME NEW v, IsLog(v, t, tsrc, rep), IsThorough' => NoneMissed(v, t, tsrc)
      PROVE  LogInv'
  BY <1>2, <1>4, <1>5, SameGraphSameLog DEF LogInv
<1>6. Walking => (IsThorough' => IsThorough)
  BY <1>3 DEF Walking, IsThorough
<1>7. ASSUME Walking, tsrc = sources, rep = reported,
             \A r \in Routes : IsToDo(r, t, sources) <=> IsToDo(r, frames, sources)
      PROVE  LogInv'
  <2>1. IsLog(w, t, tsrc, rep) /\ (NoneMissed(w, frames, sources) => NoneMissed(w, t, tsrc))
    BY <1>1, <1>7, LogKept
  <2> QED BY <1>1, <1>5, <1>6, <1>7, <2>1
<1>8. ASSUME NEW x \in Elements, NEW goOn \in BOOLEAN, VisitSource(x, goOn) PROVE LogInv'
  <2>1. Walking
    BY <1>8 DEF VisitSource
  <2> QED BY <1>1, <1>4, <1>5, <1>6, <1>8, <2>1, VisitSourceKeepsLog
<1>9. ASSUME NEW e \in edges, NEW goOn \in BOOLEAN, VisitSink(e, goOn) PROVE LogInv'
  <2>1. Walking /\ IsSink(e.to) /\ tsrc = sources
    BY <1>4, <1>9 DEF VisitSink
  <2>2. PICK v : /\ IsLog(v, t, tsrc, rep)
                 /\ NoneMissed(w, frames, sources) /\ e.to \notin Switching => NoneMissed(v, t, tsrc)
    BY <1>1, <1>4, <1>9, <2>1, VisitSinkKeepsLog
  <2>3. IsThorough' => e.to \notin Switching
    BY <1>3, <2>1 DEF IsThorough
  <2> QED BY <1>1, <1>5, <1>6, <2>1, <2>2, <2>3
<1>10. ASSUME NEW e \in edges, FollowEdge(e) PROVE LogInv'
  <2>1. Walking /\ tsrc = sources /\ rep = reported
    BY <1>4, <1>10 DEF FollowEdge
  <2> QED BY <1>4, <1>7, <1>10, <2>1, FollowEdgeKeepsToDo
<1>11. CASE VisitOutput
  <2>1. Walking /\ tsrc = sources /\ rep = reported
    BY <1>4, <1>11 DEF VisitOutput
  <2> QED BY <1>4, <1>7, <1>11, <2>1, VisitOutputKeepsToDo
<1>12. CASE Return
  <2>1. Walking /\ tsrc = sources /\ rep = reported
    BY <1>4, <1>12 DEF Return
  <2> QED BY <1>4, <1>7, <1>12, <2>1, ReturnKeepsToDo
<1>13. CASE Finish
  <2>1. /\ phase = "walking" /\ t = <<>> /\ tsrc = {} /\ rep = reported /\ aborted' = aborted
        /\ aborted \/ (frames = <<>> /\ sources = {})
    BY <1>4, <1>13 DEF Finish
  <2>2. \A r : ~IsToDo(r, t, tsrc)
    <3>1. \A k \in 1..Len(t) : FALSE
      BY <2>1
    <3> QED BY <2>1, <3>1 DEF IsToDo
  <2>3. IsLog(w, t, tsrc, rep)
    BY <1>1, <2>1, <2>2, LogKept
  <2>4. IsThorough' => NoneMissed(w, t, tsrc)
    BY <1>1, <1>3, <2>1 DEF IsThorough
  <2> QED BY <1>5, <2>3, <2>4
<1> QED BY <1>8, <1>9, <1>10, <1>11, <1>12, <1>13 DEF Walk

LEMMA InitLogInv == Init => LogInv
<1> SUFFICES ASSUME Init PROVE LogInv
  OBVIOUS
<1>1. reported = <<>> /\ phase = "building"
  BY DEF Init
<1>2. IsLog(<<>>, frames, sources, reported) /\ ~IsThorough
  BY <1>1, NoLog DEF IsThorough
<1> QED BY <1>2 DEF LogInv

LEMMA NextKeepsLogInv == TrackerInv /\ LogInv /\ [Next]_vars => LogInv'
<1> SUFFICES ASSUME TrackerInv, LogInv, [Next]_vars PROVE LogInv'
  OBVIOUS
<1>1. CASE (\E e \in Candidates : Connect(e)) \/ Build
  <2>1. reported' = <<>> /\ phase' \notin {"walking", "done"}
    BY <1>1 DEF Connect, Build, TrackerInv, PhaseInv, walkVars
  <2> QED BY <2>1, NoLogNext
<1>2. CASE \E x \in Switching :
             \/ Float(x)
             \/ \E c \in 0..Cardinality(ChoicesOf(mapping[x])) : Select(x, c)
  <2>1. reported' = <<>> /\ phase' \notin {"walking", "done"}
    BY <1>2 DEF Float, Select, Forgotten
  <2> QED BY <2>1, NoLogNext
<1>3. CASE EnumerateActiveSignalPaths
  BY <1>3, EnumerationStartsLog
<1>4. CASE Walk
  BY <1>4, WalkKeepsLog
<1>5. CASE UNCHANGED vars
  <2>1. UNCHANGED <<phase, edges, mapping, selector, sources, frames, path, reported, aborted>>
    BY <1>5 DEF vars, graphVars, walkVars
  <2>2. PICK w : /\ IsLog(w, frames, sources, reported)
                 /\ IsThorough => NoneMissed(w, frames, sources)
    BY DEF LogInv
  <2>3. \A x : IsSink(x)' <=> IsSink(x)
    BY <2>1, SameGraphSameLog
  <2>4. IsThorough' => IsThorough
    BY <2>1, <2>3 DEF IsThorough
  <2>5. /\ IsLog(w, frames, sources, reported)'
        /\ NoneMissed(w, frames, sources) => NoneMissed(w, frames, sources)'
    BY <2>1, <2>2, SameGraphSameLog
  <2> QED BY <2>2, <2>4, <2>5 DEF LogInv
<1> QED BY <1>1, <1>2, <1>3, <1>4, <1>5 DEF Next


(***************************************************************************)
(* Routes and walks: in a graph without cycles, which is to say that edges *)
(* lead to elements of higher rank, a route is known by the set of its     *)
(* edges, and the walks of the reference definition are these sets.        *)
(***************************************************************************)
EdgesIn(c) == {c[i] : i \in 1..Len(c)}

IsLinked(c) == \A i \in 1..Len(c) - 1 : Continues(c[i], c[i + 1])

Rises(rank) ==
  rank \in [Elements -> Nat] /\ \A e \in Candidates : rank[e.from] < rank[e.to]

LEMMA SetInduction ==
  ASSUME NEW S \in SUBSET Nat, 0 \in S, \A n \in S : n + 1 \in S
  PROVE  \A n \in Nat : n \in S
<1> SUFFICES ASSUME Nat \ S # {} PROVE FALSE
  OBVIOUS
<1>1. PICK x \in Nat \ S : \A y \in Nat \ S : x <= y
  <2>1. Nat \ S \subseteq Nat /\ Nat \ S # {}
    OBVIOUS
  <2> QED BY ONLY <2>1, LeastNumber
<1>2. x # 0 /\ x - 1 \in Nat /\ ~(x <= x - 1) /\ (x - 1) + 1 = x
  BY <1>1
<1> QED BY <1>1, <1>2

\* Ranks grow from edge to edge.
LEMMA EdgesRise ==
  ASSUME GraphInv, NEW rank, Rises(rank), NEW e \in edges
  PROVE  /\ rank[e.from] \in Nat /\ rank[e.to] \in Nat /\ rank[e.from] < rank[e.to]
         /\ \A f : Continues(e, f) => rank[e.from] < rank[f.from]
<1>1. e \in Candidates /\ e.from \in Elements /\ e.to \in Elements
  BY EdgesAreTyped DEF GraphInv
<1>2. rank[e.from] \in Nat /\ rank[e.to] \in Nat /\ rank[e.from] < rank[e.to]
  BY <1>1 DEF Rises
<1> QED BY <1>2 DEF Continues

LEMMA LinksRise ==
  ASSUME GraphInv, NEW rank, Rises(rank), NEW c \in Seq(edges), IsLinked(c),
         NEW i \in 1..Len(c), NEW j \in 1..Len(c), i < j
  PROVE  rank[c[i].from] < rank[c[j].from]
<1>1. Len(c) \in Nat /\ \A k \in 1..Len(c) : c[k] \in edges
  OBVIOUS
<1>2. \A k \in 1..Len(c) : rank[c[k].from] \in Nat
  BY <1>1, EdgesRise
<1> DEFINE S == {d \in Nat : i + d + 1 <= Len(c) => rank[c[i].from] < rank[c[i + d + 1].from]}
<1>3. ASSUME NEW k \in 1..Len(c), k + 1 <= Len(c) PROVE rank[c[k].from] < rank[c[k + 1].from]
  <2>1. k \in 1..Len(c) - 1
    BY <1>1, <1>3
  <2> QED BY <1>1, <2>1, EdgesRise DEF IsLinked
<1>4. 0 \in S
  BY <1>3
<1>5. ASSUME NEW d \in S PROVE d + 1 \in S
  <2> SUFFICES ASSUME i + (d + 1) + 1 <= Len(c)
               PROVE  rank[c[i].from] < rank[c[i + (d + 1) + 1].from]
    OBVIOUS
  <2> DEFINE k == i + d + 1
  <2>1. k \in 1..Len(c) /\ k + 1 \in 1..Len(c) /\ k + 1 <= Len(c) /\ i + (d + 1) + 1 = k + 1
    BY <1>1
  <2>2. rank[c[i].from] < rank[c[k].from]
    BY <1>5, <2>1
  <2> HIDE DEF k
  <2>3. rank[c[k].from] < rank[c[k + 1].from]
    BY <1>3, <2>1
  <2>4. /\ rank[c[i].from] \in Nat /\ rank[c[k].from] \in Nat /\ rank[c[k + 1].from] \in Nat
    BY <1>2, <2>1
  <2>5. rank[c[i].from] < rank[c[k + 1].from]
    BY ONLY <2>2, <2>3, <2>4
  <2> QED BY <2>1, <2>5
<1>6. (j - i) - 1 \in Nat /\ i + ((j - i) - 1) + 1 = j
  OBVIOUS
<1>7. S \in SUBSET Nat
  OBVIOUS
<1>8. (j - i) - 1 \in S
  <2> HIDE DEF S
  <2> QED BY <1>4, <1>5, <1>6, <1>7, SetInduction
<1> QED BY <1>6, <1>8

\* The edges of a route are linked, from one which begins to one which ends.
LEMMA RouteIsLinked ==
  ASSUME GraphInv, NEW r \in Routes, r.along # <<>>
  PROVE  /\ r.along \in Seq(edges) /\ Len(r.along) \in Nat \ {0} /\ IsLinked(r.along)
         /\ Begins(r.along[1]) /\ Ends(r.along[Len(r.along)])
         /\ EdgesIn(r.along) \subseteq edges
<1>1. IsRoute(r) /\ r.along \in Seq(edges) /\ Len(r.along) \in Nat \ {0}
  BY RoutesAreTyped
<1>2. IsLinked(r.along) /\ Ends(r.along[Len(r.along)]) /\ Begins(r.along[1])
  BY <1>1 DEF IsRoute, IsLinked, Begins, Starts
<1> QED BY <1>1, <1>2 DEF EdgesIn

\* Each edge is known by its predecessor among the edges of its route.
LEMMA LinksAreUnique ==
  ASSUME GraphInv, NEW rank, Rises(rank), NEW c \in Seq(edges), IsLinked(c), c # <<>>
  PROVE  /\ \A f \in EdgesIn(c) : Begins(f) => f = c[1]
         /\ \A i \in 1..Len(c) : \A f \in EdgesIn(c) :
              Continues(c[i], f) => i < Len(c) /\ f = c[i + 1]
<1>1. Len(c) \in Nat \ {0} /\ \A k \in 1..Len(c) : c[k] \in edges
  OBVIOUS
<1>2. ASSUME NEW f \in EdgesIn(c), Begins(f) PROVE f = c[1]
  <2>1. PICK j \in 1..Len(c) : f = c[j]
    BY <1>2 DEF EdgesIn
  <2>2. ASSUME j # 1 PROVE FALSE
    <3>1. j - 1 \in 1..Len(c) - 1 /\ j - 1 \in 1..Len(c) /\ (j - 1) + 1 = j
      BY <1>1, <2>2
    <3>2. PICK e : e = c[j - 1]
      OBVIOUS
    <3>3. e \in edges /\ f.from = e.to
      BY <1>1, <2>1, <3>1, <3>2 DEF IsLinked, Continues
    <3>4. e.from \in SourcesOf(f.from)
      BY <3>3 DEF SourcesOf
    <3> QED BY <1>2, <3>4 DEF Begins, IsSource
  <2> QED BY <2>1, <2>2
<1>3. ASSUME NEW i \in 1..Len(c), NEW f \in EdgesIn(c), Continues(c[i], f)
      PROVE  i < Len(c) /\ f = c[i + 1]
  <2>1. PICK j \in 1..Len(c) : f = c[j]
    BY DEF EdgesIn
  <2>2. /\ \A k \in 1..Len(c) : rank[c[k].from] \in Nat
        /\ rank[c[i].from] < rank[c[j].from]
    BY <1>1, <1>3, <2>1, EdgesRise
  <2>3. i < j
    <3>1. CASE j < i
      <4>1. rank[c[j].from] < rank[c[i].from]
        BY <3>1, LinksRise
      <4> QED BY <2>2, <4>1
    <3>2. CASE j = i
      BY <2>2, <3>2
    <3> QED BY <1>1, <3>1, <3>2
  <2>4. i < Len(c) /\ i \in 1..Len(c) - 1 /\ i + 1 \in 1..Len(c)
    BY <1>1, <2>3
  <2>5. rank[c[i + 1].from] = rank[c[j].from]
    <3>1. Continues(c[i], c[i + 1])
      BY <2>4 DEF IsLinked
    <3> QED BY <1>3, <2>1, <3>1 DEF Continues
  <2>6. j = i + 1
    <3>1. CASE i + 1 < j
      <4>1. rank[c[i + 1].from] < rank[c[j].from]
        BY <2>4, <3>1, LinksRise
      <4> QED BY <2>2, <2>4, <2>5, <4>1
    <3> QED BY <1>1, <2>3, <3>1
  <2> QED BY <2>1, <2>4, <2>6
<1> QED BY <1>2, <1>3

LEMMA RouteIsWalk ==
  ASSUME GraphInv, NEW rank, Rises(rank), NEW r \in Routes, r.along # <<>>
  PROVE  EdgesIn(r.along) \in Walks
<1> DEFINE c == r.along
           S == EdgesIn(c)
<1>1. /\ c \in Seq(edges) /\ Len(c) \in Nat \ {0} /\ IsLinked(c)
      /\ Begins(c[1]) /\ Ends(c[Len(c)]) /\ S \subseteq edges
  BY RouteIsLinked
<1>2. /\ \A f \in S : Begins(f) => f = c[1]
      /\ \A i \in 1..Len(c) : \A f \in S : Continues(c[i], f) => i < Len(c) /\ f = c[i + 1]
  BY <1>1, LinksAreUnique
<1> HIDE DEF c
<1>3. /\ \A i \in 1..Len(c) : c[i] \in S
      /\ \A f \in S : \E i \in 1..Len(c) : f = c[i]
  BY DEF EdgesIn
<1> HIDE DEF S
<1>4. Cardinality({e \in S : Begins(e)}) = 1
  <2>1. c[1] \in S
    BY <1>1, <1>3
  <2>2. {e \in S : Begins(e)} = {c[1]}
    BY <1>1, <1>2, <2>1
  <2> QED BY <2>2, FS_Singleton
<1>5. ASSUME NEW e \in S PROVE Ends(e) \/ Cardinality({f \in S : Continues(e, f)}) = 1
  <2>1. PICK i \in 1..Len(c) : e = c[i]
    BY <1>3
  <2>2. CASE i = Len(c)
    BY <1>1, <2>1, <2>2
  <2>3. CASE i # Len(c)
    <3>1. i \in 1..Len(c) - 1 /\ i + 1 \in 1..Len(c)
      BY <1>1, <2>3
    <3>2. Continues(e, c[i + 1]) /\ c[i + 1] \in S
      BY <1>1, <1>3, <2>1, <3>1 DEF IsLinked
    <3>3. {f \in S : Continues(e, f)} = {c[i + 1]}
      BY <1>2, <2>1, <3>2
    <3> QED BY <3>3, FS_Singleton
  <2> QED BY <2>2, <2>3
<1>6. ASSUME NEW f \in S PROVE Begins(f) \/ \E e \in S : Continues(e, f)
  <2>1. PICK i \in 1..Len(c) : f = c[i]
    BY <1>3
  <2>2. CASE i = 1
    BY <1>1, <2>1, <2>2
  <2>3. CASE i # 1
    <3>1. i - 1 \in 1..Len(c) - 1 /\ i - 1 \in 1..Len(c) /\ (i - 1) + 1 = i
      BY <1>1, <2>3
    <3>2. Continues(c[i - 1], f) /\ c[i - 1] \in S
      BY <1>1, <1>3, <2>1, <3>1 DEF IsLinked
    <3> QED BY <3>2
  <2> QED BY <2>2, <2>3
<1>7. IsWalk(S)
  BY <1>4, <1>5, <1>6 DEF IsWalk
<1> QED BY <1>1, <1>7 DEF Walks, S, c

\* Two routes along the same edges are the same.
LEMMA RouteIsKnownByEdges ==
  ASSUME GraphInv, NEW rank, Rises(rank), NEW r \in Routes, NEW q \in Routes,
         r.along # <<>>, q.along # <<>>, EdgesIn(r.along) = EdgesIn(q.along)
  PROVE  r = q
<1> PICK c, d : c = r.along /\ d = q.along
  OBVIOUS
<1>1. /\ c \in Seq(edges) /\ Len(c) \in Nat \ {0} /\ IsLinked(c)
      /\ d \in Seq(edges) /\ Len(d) \in Nat \ {0} /\ IsLinked(d)
      /\ Begins(c[1]) /\ Begins(d[1])
  BY RouteIsLinked
<1>2. /\ \A f \in EdgesIn(c) : Begins(f) => f = c[1]
      /\ \A i \in 1..Len(c) : \A f \in EdgesIn(c) :
           Continues(c[i], f) => i < Len(c) /\ f = c[i + 1]
  BY <1>1, LinksAreUnique
<1>3. /\ \A k \in 1..Len(c) : IsSink(c[k].to) <=> k = Len(c)
      /\ \A k \in 1..Len(d) : IsSink(d[k].to) <=> k = Len(d)
  BY RouteGoesOn
<1>4. \A k \in 1..Len(d) : d[k] \in EdgesIn(c)
  BY DEF EdgesIn
<1>5. c[1] = d[1]
  BY <1>1, <1>2, <1>4
<1> DEFINE S == {n \in Nat : n + 1 \in 1..Len(c) => n + 1 \in 1..Len(d) /\ c[n + 1] = d[n + 1]}
<1>6. 0 \in S
  BY <1>1, <1>5
<1>7. ASSUME NEW n \in S PROVE n + 1 \in S
  <2> DEFINE m == n + 1
  <2> SUFFICES ASSUME m + 1 \in 1..Len(c) PROVE m + 1 \in 1..Len(d) /\ c[m + 1] = d[m + 1]
    OBVIOUS
  <2>1. m \in 1..Len(c) /\ m # Len(c)
    BY <1>1
  <2>2. m \in 1..Len(d) /\ c[m] = d[m]
    BY <1>7, <2>1
  <2> HIDE DEF m
  <2>3. m # Len(d)
    BY <1>3, <2>1, <2>2
  <2>4. m \in 1..Len(d) - 1 /\ m + 1 \in 1..Len(d)
    BY <1>1, <2>2, <2>3
  <2>5. Continues(c[m], d[m + 1]) /\ d[m + 1] \in EdgesIn(c)
    BY <1>1, <1>4, <2>2, <2>4 DEF IsLinked
  <2> QED BY <1>2, <2>1, <2>4, <2>5
<1>8. S \in SUBSET Nat
  OBVIOUS
<1>9. \A n \in Nat : n \in S
  <2> HIDE DEF S
  <2> QED BY <1>6, <1>7, <1>8, SetInduction
<1>10. \A k \in 1..Len(c) : k \in 1..Len(d) /\ c[k] = d[k]
  <2> SUFFICES ASSUME NEW k \in 1..Len(c) PROVE k \in 1..Len(d) /\ c[k] = d[k]
    OBVIOUS
  <2>1. k - 1 \in Nat /\ (k - 1) + 1 = k
    OBVIOUS
  <2> QED BY <1>9, <2>1
<1>11. Len(c) = Len(d)
  <2>1. Len(c) \in 1..Len(c)
    BY <1>1
  <2> QED BY <1>3, <1>10, <2>1
<1>12. c = d
  BY <1>1, <1>10, <1>11
<1>13. r.from = c[1].from /\ q.from = d[1].from
  BY RoutesAreTyped DEF IsRoute
<1> QED BY <1>12, <1>13, RoutesAreTyped


\* The edges of a walk are those of a route: the one which leads as far as
\* edges of the walk continue each other.
LEMMA WalkIsRoute ==
  ASSUME GraphInv, NEW rank, Rises(rank), NEW S \in Walks
  PROVE  \E r \in Routes : r.along # <<>> /\ EdgesIn(r.along) = S
<1>1. S \subseteq edges /\ IsWalk(S)
  BY DEF Walks
<1>2. IsFiniteSet(S)
  <2>1. edges \in SUBSET Candidates /\ S \in SUBSET Candidates
    BY <1>1 DEF GraphInv
  <2> QED BY <2>1, GraphAssumption, FS_Subset
<1>3. \A T \in SUBSET S : IsFiniteSet(T) /\ Cardinality(T) \in Nat
  BY <1>2, FS_Subset, FS_CardinalityType
<1>4. PICK b : {e \in S : Begins(e)} = {b}
  <2>1. {e \in S : Begins(e)} \in SUBSET S
    OBVIOUS
  <2>2. PICK T : T = {e \in S : Begins(e)}
    OBVIOUS
  <2>3. IsFiniteSet(T) /\ Cardinality(T) = 1
    BY <1>1, <1>3, <2>1, <2>2 DEF IsWalk
  <2>4. \E b : T = {b}
    BY <2>3, FS_Singleton
  <2> QED BY <2>2, <2>4
<1>5. b \in S /\ Begins(b) /\ \A e \in S : Begins(e) => e = b
  BY <1>4
<1>6. ASSUME NEW e \in S, NEW f \in S, NEW g \in S, Continues(e, f), Continues(e, g) PROVE f = g
  <2>1. ~Ends(e)
    <3>1. f \in edges /\ f.from = e.to
      BY <1>1, <1>6 DEF Continues
    <3>2. f.out \in OutputsOf(e.to)
      BY <3>1 DEF OutputsOf
    <3> QED BY <3>2 DEF Ends, IsSink
  <2>2. PICK T : T = {h \in S : Continues(e, h)}
    OBVIOUS
  <2>3. T \in SUBSET S /\ Cardinality(T) = 1
    BY <1>1, <2>1, <2>2 DEF IsWalk
  <2>4. \E x : T = {x}
    BY <1>3, <2>3, FS_Singleton
  <2> QED BY <1>6, <2>2, <2>4
<1> DEFINE IsPart(c) == /\ c \in Seq(edges) /\ c # <<>> /\ c[1] = b /\ IsLinked(c)
                        /\ EdgesIn(c) \subseteq S
           Parts == {c \in Seq(edges) : IsPart(c)}
           Rest(c) == S \ EdgesIn(c)
           Sizes == {Cardinality(Rest(c)) : c \in Parts}
<1>7. \A c \in Parts : IsFiniteSet(Rest(c)) /\ Cardinality(Rest(c)) \in Nat
  BY <1>3
<1>8. Sizes # {}
  <2>1. <<b>> \in Seq(edges) /\ <<b>> # <<>> /\ Len(<<b>>) = 1 /\ <<b>>[1] = b
    BY <1>1, <1>5
  <2>2. IsLinked(<<b>>) /\ EdgesIn(<<b>>) \subseteq S
    BY <1>5, <2>1 DEF IsLinked, EdgesIn
  <2> QED BY <2>1, <2>2
<1>9. PICK m \in Sizes : \A n \in Sizes : m <= n
  <2>1. Sizes \subseteq Nat
    BY <1>7
  <2> HIDE DEF Sizes
  <2> QED BY <1>8, <2>1, LeastNumber
<1>10. PICK c \in Parts : \A d \in Parts : Cardinality(Rest(c)) <= Cardinality(Rest(d))
  BY <1>9
<1>11. /\ c \in Seq(edges) /\ Len(c) \in Nat \ {0} /\ c # <<>> /\ c[1] = b /\ IsLinked(c)
       /\ EdgesIn(c) \subseteq S
       /\ \A i \in 1..Len(c) : c[i] \in EdgesIn(c) /\ c[i] \in S /\ c[i] \in edges
  BY <1>1, <1>10 DEF EdgesIn
<1>12. Ends(c[Len(c)])
  <2> SUFFICES ASSUME ~Ends(c[Len(c)]) PROVE FALSE
    OBVIOUS
  <2> DEFINE e == c[Len(c)]
  <2>1. Len(c) \in 1..Len(c) /\ e \in S
    BY <1>11
  <2>2. PICK T : T = {h \in S : Continues(e, h)}
    OBVIOUS
  <2>3. T \in SUBSET S /\ Cardinality(T) = 1
    BY <1>1, <2>1, <2>2 DEF IsWalk
  <2>4. \E x : T = {x}
    BY <1>3, <2>3, FS_Singleton
  <2>5. PICK f \in S : Continues(e, f)
    BY <2>2, <2>4
  <2> DEFINE d == Append(c, f)
  <2>6. /\ d \in Seq(edges) /\ Len(d) = Len(c) + 1 /\ d[Len(c) + 1] = f
        /\ \A i \in 1..Len(c) : d[i] = c[i]
    BY <1>1, <1>11, Pushed
  <2> HIDE DEF d
  <2>7. \A i \in 1..Len(d) : i \in 1..Len(c) \/ i = Len(c) + 1
    BY <1>11, <2>6
  <2>8. EdgesIn(d) = EdgesIn(c) \cup {f}
    <3>1. EdgesIn(d) \subseteq EdgesIn(c) \cup {f}
      BY <2>6, <2>7 DEF EdgesIn
    <3>2. \A i \in 1..Len(c) : i \in 1..Len(d)
      BY <1>11, <2>6
    <3>3. Len(c) + 1 \in 1..Len(d)
      BY <1>11, <2>6
    <3> QED BY <2>6, <3>1, <3>2, <3>3 DEF EdgesIn
  <2>9. IsLinked(d)
    <3> SUFFICES ASSUME NEW i \in 1..Len(d) - 1 PROVE Continues(d[i], d[i + 1])
      BY DEF IsLinked
    <3>1. CASE i = Len(c)
      BY <2>1, <2>5, <2>6, <3>1
    <3>2. CASE i # Len(c)
      <4>1. i \in 1..Len(c) - 1 /\ i \in 1..Len(c) /\ i + 1 \in 1..Len(c)
        BY <1>11, <2>6, <3>2
      <4> QED BY <1>11, <2>6, <4>1 DEF IsLinked
    <3> QED BY <3>1, <3>2
  <2>10. d \in Parts
    <3>1. d # <<>> /\ d[1] = b
      <4>1. 1 \in 1..Len(c)
        BY <1>11
      <4> QED BY <1>11, <2>6, <4>1
    <3> QED BY <1>11, <2>6, <2>8, <2>9, <3>1
  <2>11. f \notin EdgesIn(c)
    <3>1. ASSUME f \in EdgesIn(c) PROVE FALSE
      <4>1. Len(c) < Len(c)
        BY <1>11, <2>1, <2>5, <3>1, LinksAreUnique
      <4> QED BY <1>11, <4>1
    <3> QED BY <3>1
  <2>12. Cardinality(Rest(d)) = Cardinality(Rest(c)) - 1
    <3>1. PICK R : R = Rest(c)
      OBVIOUS
    <3>2. IsFiniteSet(R) /\ f \in R
      BY <1>7, <2>11, <3>1
    <3>3. Cardinality(R \ {f}) = Cardinality(R) - 1
      BY <3>2, FS_RemoveElement
    <3>4. Rest(d) = R \ {f}
      BY <2>8, <3>1
    <3> QED BY <3>1, <3>3, <3>4
  <2>13. Cardinality(Rest(c)) <= Cardinality(Rest(d)) /\ Cardinality(Rest(c)) \in Nat
    BY <1>7, <1>10, <2>10
  <2> HIDE DEF Rest
  <2> QED BY <2>12, <2>13
<1>13. S \subseteq EdgesIn(c)
  <2> SUFFICES ASSUME Rest(c) # {} PROVE FALSE
    OBVIOUS
  <2> DEFINE Ranks == {rank[f.from] : f \in Rest(c)}
  <2>1. Ranks \subseteq Nat /\ Ranks # {}
    BY <1>1, EdgesRise
  <2>2. PICK n \in Ranks : \A k \in Ranks : n <= k
    <3> HIDE DEF Ranks
    <3> QED BY <2>1, LeastNumber
  <2>3. PICK f \in Rest(c) : \A g \in Rest(c) : rank[f.from] <= rank[g.from]
    BY <2>2
  <2>4. f \in S /\ f \notin EdgesIn(c)
    OBVIOUS
  <2>5. ~Begins(f)
    <3>1. 1 \in 1..Len(c)
      BY <1>11
    <3> QED BY <1>5, <1>11, <2>4, <3>1
  <2>6. PICK e \in S : Continues(e, f)
    BY <1>1, <2>4, <2>5 DEF IsWalk
  <2>7. rank[e.from] < rank[f.from] /\ rank[e.from] \in Nat /\ rank[f.from] \in Nat
    BY <1>1, <2>4, <2>6, EdgesRise
  <2>8. e \in EdgesIn(c)
    <3>1. ~(rank[f.from] <= rank[e.from])
      BY ONLY <2>7
    <3> QED BY <2>3, <3>1
  <2>9. PICK i \in 1..Len(c) : e = c[i]
    BY <2>8 DEF EdgesIn
  <2>10. i # Len(c)
    <3>1. f.out \in OutputsOf(e.to)
      BY <1>1, <2>4, <2>6 DEF Continues, OutputsOf
    <3> QED BY <1>12, <2>9, <3>1 DEF Ends, IsSink
  <2>11. i \in 1..Len(c) - 1 /\ i + 1 \in 1..Len(c)
    BY <1>11, <2>10
  <2>12. Continues(e, c[i + 1]) /\ c[i + 1] \in EdgesIn(c) /\ c[i + 1] \in S
    BY <1>11, <2>9, <2>11 DEF IsLinked
  <2> QED BY <1>6, <2>4, <2>6, <2>12
<1> DEFINE r == [from |-> b.from, along |-> c]
<1>14. r.from = b.from /\ r.along = c /\ r \in [from: Elements, along: Seq(edges)]
  <2>1. b.from \in Elements
    BY <1>1, <1>5, EdgesAreTyped
  <2> QED BY <1>11, <2>1
<1> HIDE DEF r
<1>15. IsRoute(r)
  BY <1>5, <1>11, <1>12, <1>14 DEF IsRoute, IsLinked, Begins, Starts
<1>16. r \in Routes
  BY <1>14, <1>15 DEF Routes
<1>17. EdgesIn(c) = S /\ c # <<>>
  BY <1>11, <1>13
<1> QED BY <1>14, <1>16, <1>17

(***************************************************************************)
(* Elements which are source and sink                                      *)
(***************************************************************************)
\* A mapping connects none of its pads with what is not connected.
LEMMA SwitchesAreNoSources ==
  ASSUME GraphInv, NEW x \in Switching, Finalizes(x)
  PROVE  ~Passes(x, Unconnected, 0)
<1>1. x \notin Static /\ mapping[x] \in Mappings[x] /\ Unconnected \notin Nat
  BY GraphAssumption DEF GraphInv
<1> PICK m, c : m = mapping[x] /\ c = selector[x]
  OBVIOUS
<1>2. m.kind \in {"mux", "demux", "table"} /\ c \in ChoicesOf(m) \cup {Floating}
  BY <1>1, GraphAssumption DEF GraphInv
<1>3. ASSUME m.kind = "table", c \in ChoicesOf(m) PROVE <<Unconnected, 0>> \notin m.by[c]
  <2>1. PICK i, o : /\ i = Cardinality(SourcesOf(x)) /\ o = Cardinality(OutputsOf(x))
    OBVIOUS
  <2>2. m.by[c] \subseteq (0..i - 1) \X (0..o - 1)
    BY <1>3, <2>1 DEF Finalizes, FitsEdges
  <2>3. Unconnected \notin 0..i - 1
    BY <1>1
  <2> QED BY <2>2, <2>3
<1>4. ASSUME c # Floating PROVE ~IsConnected(m, c, Unconnected, 0)
  <2>1. CASE m.kind = "mux"
    BY <2>1 DEF IsConnected
  <2>2. CASE m.kind = "demux"
    BY <1>1, <2>2 DEF IsConnected
  <2>3. CASE m.kind = "table"
    BY <1>2, <1>3, <1>4, <2>3 DEF IsConnected
  <2> QED BY <1>2, <2>1, <2>2, <2>3
<1> QED BY <1>1, <1>4 DEF Passes

\* Routes without edges are the lonely elements.
LEMMA LonelyAreRoutes ==
  ASSUME GraphInv, \A x \in Switching : Finalizes(x)
  PROVE  /\ \A r \in Routes : r.along = <<>> => r.from \in Lonely
         /\ \A x \in Lonely : \E r \in Routes : r.along = <<>> /\ r.from = x
<1>1. ASSUME NEW r \in Routes, r.along = <<>> PROVE r.from \in Lonely
  <2>1. r.from \in Elements /\ Starts(r.from) /\ IsSink(r.from)
    BY <1>1, RoutesAreTyped DEF IsRoute
  <2>2. r.from \in Static
    BY <2>1, SwitchesAreNoSources DEF Starts, Elements
  <2> QED BY <2>1, <2>2 DEF Starts, Lonely
<1>2. ASSUME NEW x \in Lonely PROVE \E r \in Routes : r.along = <<>> /\ r.from = x
  <2> DEFINE r == [from |-> x, along |-> <<>>]
  <2>1. x \in Static /\ x \in Elements /\ x \notin Sub /\ IsSource(x) /\ IsSink(x)
    BY DEF Lonely, Elements
  <2>2. r.from = x /\ r.along = <<>> /\ Len(r.along) = 0 /\ r \in [from: Elements, along: Seq(edges)]
    BY <2>1
  <2> HIDE DEF r
  <2>3. IsRoute(r)
    BY <2>1, <2>2 DEF IsRoute, Starts, Passes
  <2> QED BY <2>2, <2>3 DEF Routes
<1> QED BY <1>1, <1>2


(***************************************************************************)
(* What a finished enumeration has reported                                *)
(***************************************************************************)
\* The elements of a report are those of its route.
LEMMA ElementsOfRoute ==
  ASSUME GraphInv, NEW r \in Routes, NEW p \in Seq(PathElem), RunsAlong(p, r)
  PROVE  ElementsIn(p) = IF r.along = <<>> THEN {r.from} ELSE ElementsOf(EdgesIn(r.along))
<1> PICK c, x : c = r.along /\ x = r.from
  OBVIOUS
<1>1. c \in Seq(edges) /\ Len(c) \in Nat /\ \A i \in 1..Len(c) : c[i] \in edges
  BY RoutesAreTyped
<1>2. /\ Len(p) = Len(c) + 1 /\ DOMAIN p = 1..Len(c) + 1 /\ p[1].elem = x
      /\ \A i \in 1..Len(c) : p[i + 1].elem = c[i].to
  BY DEF RunsAlong
<1>3. ElementsIn(p) = {p[i].elem : i \in 1..Len(c) + 1}
  BY <1>2 DEF ElementsIn
<1>4. ElementsIn(p) = {x} \cup {c[i].to : i \in 1..Len(c)}
  <2>1. \A i \in 1..Len(c) + 1 : i = 1 \/ (i - 1 \in 1..Len(c) /\ (i - 1) + 1 = i)
    BY <1>1
  <2>2. 1 \in 1..Len(c) + 1 /\ \A i \in 1..Len(c) : i + 1 \in 1..Len(c) + 1
    BY <1>1
  <2>3. ASSUME NEW i \in 1..Len(c) + 1
        PROVE  p[i].elem \in {x} \cup {c[j].to : j \in 1..Len(c)}
    BY <1>2, <2>1
  <2>4. ASSUME NEW y \in {x} \cup {c[j].to : j \in 1..Len(c)}
        PROVE  y \in {p[i].elem : i \in 1..Len(c) + 1}
    <3>1. CASE y = x
      BY <1>2, <2>2, <3>1
    <3>2. CASE \E j \in 1..Len(c) : y = c[j].to
      BY <1>2, <2>2, <3>2
    <3> QED BY <3>1, <3>2
  <2>5. \A y : y \in ElementsIn(p) => y \in {x} \cup {c[j].to : j \in 1..Len(c)}
    BY <1>3, <2>3
  <2>6. \A y : y \in {x} \cup {c[j].to : j \in 1..Len(c)} => y \in ElementsIn(p)
    BY <1>3, <2>4
  <2> QED BY <2>5, <2>6
<1>5. CASE c = <<>>
  <2>1. \A i \in 1..Len(c) : FALSE
    BY <1>5
  <2> QED BY <1>4, <1>5, <2>1
<1>6. CASE c # <<>>
  <2>1. 1 \in 1..Len(c) /\ c[1].from = x /\ IsRoute(r)
    BY <1>1, <1>6, RoutesAreTyped DEF IsRoute
  <2>2. \A i \in 1..Len(c) : c[i].from \in {x} \cup {c[j].to : j \in 1..Len(c)}
    <3> SUFFICES ASSUME NEW i \in 1..Len(c)
                 PROVE  c[i].from = x \/ \E j \in 1..Len(c) : c[i].from = c[j].to
      OBVIOUS
    <3>1. CASE i = 1
      BY <2>1, <3>1
    <3>2. CASE i # 1
      <4>1. i - 1 \in 1..Len(c) - 1 /\ i - 1 \in 1..Len(c) /\ (i - 1) + 1 = i
        BY <1>1, <3>2
      <4> QED BY <2>1, <4>1 DEF IsRoute, Continues
    <3> QED BY <3>1, <3>2
  <2>3. ASSUME NEW y
        PROVE  y \in ElementsOf(EdgesIn(c)) <=> \E i \in 1..Len(c) : y = c[i].from \/ y = c[i].to
    BY DEF ElementsOf, EdgesIn
  <2>4. ElementsOf(EdgesIn(c)) = {x} \cup {c[i].to : i \in 1..Len(c)}
    <3>1. \A y : y \in ElementsOf(EdgesIn(c)) => y \in {x} \cup {c[i].to : i \in 1..Len(c)}
      BY <2>2, <2>3
    <3>2. \A y : y \in {x} \cup {c[i].to : i \in 1..Len(c)} => y \in ElementsOf(EdgesIn(c))
      BY <2>1, <2>3
    <3> QED BY <3>1, <3>2
  <2> QED BY <1>4, <1>6, <2>4
<1> QED BY <1>5, <1>6

\* If each route occurs once in a sequence, its length is the number of walks
\* and lonely elements.
LEMMA RoutesAreCounted ==
  ASSUME GraphInv, \A x \in Switching : Finalizes(x), NEW rank, Rises(rank),
         NEW w \in Seq(Routes), \A i, j \in 1..Len(w) : w[i] = w[j] => i = j,
         \A r \in Routes : \E i \in 1..Len(w) : w[i] = r
  PROVE  Len(w) = Cardinality(Walks) + Cardinality(Lonely)
<1> DEFINE All == 1..Len(w)
           N == {i \in All : w[i].along # <<>>}
           M == {i \in All : w[i].along = <<>>}
           f == [i \in N |-> EdgesIn(w[i].along)]
           g == [i \in M |-> w[i].from]
<1>1. Len(w) \in Nat /\ \A i \in All : w[i] \in Routes
  OBVIOUS
<1>2. IsFiniteSet(All) /\ Cardinality(All) = Len(w)
  <2>1. 1 \in Int /\ Len(w) \in Int
    BY <1>1
  <2>2. IsFiniteSet(All) /\ Cardinality(All) = IF 1 > Len(w) THEN 0 ELSE Len(w) - 1 + 1
    BY <2>1, FS_Interval
  <2> QED BY <1>1, <2>2
<1> HIDE DEF All
<1>3. IsFiniteSet(N) /\ IsFiniteSet(M) /\ Cardinality(N) \in Nat /\ Cardinality(M) \in Nat
  <2>1. N \in SUBSET All /\ M \in SUBSET All
    OBVIOUS
  <2> HIDE DEF N, M
  <2> QED BY <1>2, <2>1, FS_Subset, FS_CardinalityType
<1>4. Cardinality(All) = Cardinality(N) + Cardinality(M)
  <2>1. N \cup M = All /\ N \cap M = {}
    OBVIOUS
  <2> HIDE DEF N, M
  <2>2. Cardinality(N \cup M) = Cardinality(N) + Cardinality(M) - Cardinality(N \cap M)
    BY <1>3, FS_Union
  <2>3. Cardinality(N \cap M) = 0
    BY <2>1, FS_EmptySet
  <2>4. PICK a, b : a = Cardinality(N) /\ b = Cardinality(M)
    OBVIOUS
  <2>5. a \in Nat /\ b \in Nat /\ Cardinality(All) = a + b - 0
    BY <1>3, <2>1, <2>2, <2>3, <2>4
  <2>6. Cardinality(All) = a + b
    BY ONLY <2>5
  <2> QED BY <2>4, <2>6
<1>5. Cardinality(Walks) = Cardinality(N)
  <2>1. \A i \in N : w[i] \in Routes /\ w[i].along # <<>>
    BY <1>1
  <2>2. f \in [N -> Walks]
    BY <2>1, RouteIsWalk
  <2>3. ASSUME NEW i \in N, NEW j \in N, f[i] = f[j] PROVE i = j
    <3>1. EdgesIn(w[i].along) = EdgesIn(w[j].along)
      BY <2>3
    <3>2. w[i] = w[j]
      BY <2>1, <3>1, RouteIsKnownByEdges
    <3> QED BY <3>2 DEF All
  <2>4. ASSUME NEW S \in Walks PROVE \E i \in N : f[i] = S
    <3>1. PICK r \in Routes : r.along # <<>> /\ EdgesIn(r.along) = S
      BY WalkIsRoute
    <3>2. PICK i \in All : w[i] = r
      BY DEF All
    <3>3. i \in N /\ f[i] = S
      BY <3>1, <3>2
    <3> QED BY <3>3
  <2> HIDE DEF f, N
  <2>5. f \in Bijection(N, Walks)
    BY <2>2, <2>3, <2>4 DEF Bijection, Injection, Surjection, IsInjective
  <2> QED BY <1>3, <2>5, FS_Bijection DEF ExistsBijection
<1>6. Cardinality(Lonely) = Cardinality(M)
  <2>1. \A i \in M : w[i] \in Routes /\ w[i].along = <<>>
    BY <1>1
  <2>2. g \in [M -> Lonely]
    BY <2>1, LonelyAreRoutes
  <2>3. ASSUME NEW i \in M, NEW j \in M, g[i] = g[j] PROVE i = j
    <3>1. w[i].from = w[j].from /\ w[i].along = w[j].along
      BY <2>1, <2>3
    <3>2. w[i] = w[j]
      BY <2>1, <3>1, RoutesAreTyped
    <3> QED BY <3>2 DEF All
  <2>4. ASSUME NEW x \in Lonely PROVE \E i \in M : g[i] = x
    <3>1. PICK r \in Routes : r.along = <<>> /\ r.from = x
      BY LonelyAreRoutes
    <3>2. PICK i \in All : w[i] = r
      BY DEF All
    <3>3. i \in M /\ g[i] = x
      BY <3>1, <3>2
    <3> QED BY <3>3
  <2> HIDE DEF g, M
  <2>5. g \in Bijection(M, Lonely)
    BY <2>2, <2>3, <2>4 DEF Bijection, Injection, Surjection, IsInjective
  <2> QED BY <1>3, <2>5, FS_Bijection DEF ExistsBijection
<1> QED BY <1>2, <1>4, <1>5, <1>6

\* Reports are active paths, in the sense of the reference definition.
LEMMA ReportIsActivePath ==
  ASSUME GraphInv, \A x \in Switching : Finalizes(x), NEW rank, Rises(rank),
         NEW r \in Routes, NEW p \in Seq(PathElem), RunsAlong(p, r)
  PROVE  ElementsIn(p) \in ActivePaths
<1>1. CASE r.along = <<>>
  BY <1>1, ElementsOfRoute, LonelyAreRoutes DEF ActivePaths
<1>2. CASE r.along # <<>>
  BY <1>2, ElementsOfRoute, RouteIsWalk DEF ActivePaths
<1> QED BY <1>1, <1>2

\* The routes cover the active paths.
LEMMA ActivePathHasRoute ==
  ASSUME GraphInv, \A x \in Switching : Finalizes(x), NEW rank, Rises(rank),
         NEW E \in ActivePaths
  PROVE  \E r \in Routes : \A p \in Seq(PathElem) : RunsAlong(p, r) => ElementsIn(p) = E
<1>1. CASE \E S \in Walks : E = ElementsOf(S)
  <2>1. PICK S \in Walks : E = ElementsOf(S)
    BY <1>1
  <2>2. PICK r \in Routes : r.along # <<>> /\ EdgesIn(r.along) = S
    BY WalkIsRoute
  <2> QED BY <2>1, <2>2, ElementsOfRoute
<1>2. CASE \E x \in Lonely : E = {x}
  <2>1. PICK x \in Lonely : E = {x}
    BY <1>2
  <2>2. PICK r \in Routes : r.along = <<>> /\ r.from = x
    BY LonelyAreRoutes
  <2> QED BY <2>1, <2>2, ElementsOfRoute
<1> QED BY <1>1, <1>2 DEF ActivePaths

LEMMA LogIsExact ==
  ASSUME TrackerInv, LogInv, NEW rank, Rises(rank)
  PROVE  EnumerationIsExact
<1>1. PICK w : /\ IsLog(w, frames, sources, reported)
               /\ IsThorough => NoneMissed(w, frames, sources)
  BY DEF LogInv
<1>2. /\ w \in Seq(Routes) /\ Len(w) = Len(reported) /\ Len(w) \in Nat
      /\ \A i \in 1..Len(w) : w[i] \in Routes /\ RunsAlong(reported[i], w[i])
      /\ \A i, j \in 1..Len(w) : w[i] = w[j] => i = j
  BY <1>1 DEF IsLog
<1>3. /\ GraphInv /\ reported \in Seq(Seq(PathElem)) /\ DOMAIN reported = 1..Len(w)
      /\ \A i \in 1..Len(w) : reported[i] \in Seq(PathElem)
  BY <1>2 DEF TrackerInv, IsSearch
<1>4. (\E i \in 1..Len(w) : TRUE) \/ phase = "done" => \A x \in Switching : Finalizes(x)
  <2>1. ASSUME NEW i \in 1..Len(w) PROVE phase \in {"idle", "walking", "done"}
    <3>1. reported # <<>>
      BY <1>2, <1>3
    <3> QED BY <1>3, <3>1 DEF TrackerInv, PhaseInv, GraphInv
  <2> QED BY <2>1 DEF TrackerInv, PhaseInv
<1>5. \A i \in DOMAIN reported : ElementsIn(reported[i]) \in ActivePaths
  BY <1>2, <1>3, <1>4, ReportIsActivePath
<1>6. ASSUME phase = "done", ~aborted, ~(\E x \in Switching : IsSink(x))
      PROVE  /\ ActivePaths = {ElementsIn(reported[i]) : i \in DOMAIN reported}
             /\ Len(reported) = Cardinality(Walks) + Cardinality(Lonely)
  <2>1. \A x \in Switching : Finalizes(x)
    BY <1>4, <1>6
  <2>2. \A r \in Routes : \E i \in 1..Len(w) : w[i] = r
    <3>1. frames = <<>> /\ sources = {}
      BY <1>6 DEF TrackerInv, PhaseInv
    <3>2. \A r : ~IsToDo(r, frames, sources)
      <4>1. \A k \in 1..Len(frames) : FALSE
        BY <3>1
      <4> QED BY <3>1, <4>1 DEF IsToDo
    <3> QED BY <1>1, <1>6, <3>2 DEF IsThorough, NoneMissed
  <2>3. Len(w) = Cardinality(Walks) + Cardinality(Lonely)
    BY <1>2, <1>3, <2>1, <2>2, RoutesAreCounted
  <2>4. ASSUME NEW E \in ActivePaths PROVE \E i \in DOMAIN reported : E = ElementsIn(reported[i])
    <3>1. PICK r \in Routes : \A p \in Seq(PathElem) : RunsAlong(p, r) => ElementsIn(p) = E
      BY <1>3, <2>1, ActivePathHasRoute
    <3>2. PICK i \in 1..Len(w) : w[i] = r
      BY <2>2
    <3> QED BY <1>2, <1>3, <3>1, <3>2
  <2> QED BY <1>2, <1>5, <2>3, <2>4
<1> QED BY <1>5, <1>6 DEF EnumerationIsExact

(***************************************************************************)
(* Theorems                                                                *)
(***************************************************************************)
\* The active calls of down() and the path vector are a descent through the
\* graph from a source, at any time of any enumeration.
THEOREM SearchIsOrdered == Spec => []TrackerInv
BY InitTrackerInv, NextKeepsTrackerInv, PTL DEF Spec

\* So does the log: reports are for different routes, and no route is forgotten.
LEMMA LogIsKept == Spec => []LogInv
<1>1. Init => TrackerInv /\ LogInv
  BY InitTrackerInv, InitLogInv
<1>2. TrackerInv /\ LogInv /\ [Next]_vars => (TrackerInv /\ LogInv)'
  BY NextKeepsTrackerInv, NextKeepsLogInv
<1> QED BY <1>1, <1>2, PTL DEF Spec

\* Selectors stay in range for their mappings, and the parts of the graph, the
\* search and its reports are of their types.
THEOREM TypeCorrect == Spec => []TypeOK
<1>1. TrackerInv => TypeOK
  <2> SUFFICES ASSUME TrackerInv PROVE TypeOK
    OBVIOUS
  <2>1. GraphInv /\ path \in Seq(PathElem) /\ reported \in Seq(Seq(PathElem)) /\ frames \in Seq(Calls)
    BY DEF TrackerInv, IsSearch
  <2>2. \A i \in DOMAIN frames : frames[i].elem \in Elements /\ frames[i].edges \subseteq edges
    <3>1. \A i \in DOMAIN frames : frames[i] \in Calls
      BY <2>1
    <3> QED BY <3>1 DEF Calls
  <2> QED BY <2>1, <2>2 DEF GraphInv, TypeOK
<1> QED BY <1>1, SearchIsOrdered, PTL

\* The path vector is a chain of active edges and begins with the elements of
\* the active calls: no element of a branch left behind stays in between.
THEOREM PathIsChain == Spec => []PathIsActiveChain
<1>1. TrackerInv => PathIsActiveChain
  <2> SUFFICES ASSUME TrackerInv PROVE PathIsActiveChain
    OBVIOUS
  <2>1. IsChain(path) /\ BeginsWith(path, frames) /\ frames \in Seq(Calls)
    BY DEF TrackerInv, IsSearch
  <2>2. DOMAIN frames = 1..Len(frames)
    BY <2>1
  <2> QED BY <2>1, <2>2 DEF PathIsActiveChain, IsChain, BeginsWith
<1> QED BY <1>1, SearchIsOrdered, PTL

\* Whatever the callback gets is active from a source without parent to a
\* sink (the part of EnumerationIsExact that says: nothing else is reported).
ReportsAreActive == \A i \in 1..Len(reported) : IsActivePath(reported[i])

THEOREM OnlyActivePathsAreReported == Spec => []ReportsAreActive
<1>1. TrackerInv => ReportsAreActive
  BY DEF TrackerInv, IsSearch, ReportsAreActive
<1> QED BY <1>1, SearchIsOrdered, PTL

\* Each report has a route of its own, a chain of active edges which no other
\* report is for; an enumeration that was not ended by its callback has
\* reported all routes, if no switching element is without outputs.  Graphs
\* may have cycles here.
EachRouteIsReportedOnce ==
  \E w \in Seq(Routes) :
    /\ Len(w) = Len(reported)
    /\ \A i \in 1..Len(w) : RunsAlong(reported[i], w[i])
    /\ \A i, j \in 1..Len(w) : w[i] = w[j] => i = j
    /\ phase = "done" /\ ~aborted /\ ~(\E x \in Switching : IsSink(x)) =>
         \A r \in Routes : \E i \in 1..Len(w) : w[i] = r

THEOREM AllActivePathsAreReported == Spec => []EachRouteIsReportedOnce
<1>1. TrackerInv /\ LogInv => EachRouteIsReportedOnce
  <2> SUFFICES ASSUME TrackerInv, LogInv PROVE EachRouteIsReportedOnce
    OBVIOUS
  <2>1. PICK w : /\ IsLog(w, frames, sources, reported)
                 /\ IsThorough => NoneMissed(w, frames, sources)
    BY DEF LogInv
  <2>2. ASSUME phase = "done" PROVE \A r : ~IsToDo(r, frames, sources)
    <3>1. frames = <<>> /\ sources = {}
      BY <2>2 DEF TrackerInv, PhaseInv
    <3>2. \A k \in 1..Len(frames) : FALSE
      BY <3>1
    <3> QED BY <3>1, <3>2 DEF IsToDo
  <2>3. phase = "done" /\ ~aborted /\ ~(\E x \in Switching : IsSink(x)) =>
          \A r \in Routes : \E i \in 1..Len(w) : w[i] = r
    BY <2>1, <2>2 DEF IsThorough, NoneMissed
  <2> QED BY <2>1, <2>3 DEF IsLog, EachRouteIsReportedOnce
<1> QED BY <1>1, LogIsKept, SearchIsOrdered, PTL

\* The same as the runs check it, against sets of edges: reports are active
\* paths, and a finished enumeration has reported each walk exactly once.  This
\* needs that edges form no cycle (down() does not look for any): there is a
\* rank of elements that grows along the edges.
THEOREM PathsAreEnumerated ==
  ASSUME NEW rank \in [Elements -> Nat], \A e \in Candidates : rank[e.from] < rank[e.to]
  PROVE  Spec => []EnumerationIsExact
<1>1. Rises(rank)
  BY DEF Rises
<1>2. TrackerInv /\ LogInv => EnumerationIsExact
  BY <1>1, LogIsExact
<1> QED BY <1>2, LogIsKept, SearchIsOrdered, PTL

\* Neither the path vector nor a report has an element twice, nor is there a
\* call of down() for an element that has one, as long as edges form no cycle:
\* the recursion is not deeper than there are elements, and it has an end.
VisitsOnce(p) == \A i, j \in 1..Len(p) : p[i].elem = p[j].elem => i = j

ElementsAreVisitedOnce ==
  /\ VisitsOnce(path) /\ VisitsOnce(frames)
  /\ \A i \in 1..Len(reported) : VisitsOnce(reported[i])

THEOREM RecursionIsBounded ==
  ASSUME NEW rank \in [Elements -> Nat], \A e \in Candidates : rank[e.from] < rank[e.to]
  PROVE  Spec => []ElementsAreVisitedOnce
<1>1. ASSUME TrackerInv, NEW p \in Seq(PathElem), IsChain(p) PROVE VisitsOnce(p)
  <2>1. PICK n \in Nat : n = Len(p) /\ \A i \in 1..n : p[i].elem \in Elements
    <3>1. Len(p) \in Nat /\ \A i \in 1..Len(p) : p[i] \in PathElem
      OBVIOUS
    <3> QED BY <3>1 DEF PathElem
  <2>2. \A i \in 1..n - 1 : rank[p[i].elem] < rank[p[i + 1].elem]
    BY <1>1, <2>1 DEF IsChain, TrackerInv, GraphInv
  <2>3. \A i \in 1..n : rank[p[i].elem] \in Nat
    BY <2>1
  <2> DEFINE S == {j \in Nat : j \in 1..n => \A i \in 1..j - 1 : rank[p[i].elem] < rank[p[j].elem]}
  <2>4. 0 \in S
    OBVIOUS
  <2>5. ASSUME NEW j \in S PROVE j + 1 \in S
    <3> SUFFICES ASSUME j + 1 \in 1..n, NEW i \in 1..(j + 1) - 1
                 PROVE  rank[p[i].elem] < rank[p[j + 1].elem]
      OBVIOUS
    <3>1. j \in 1..n - 1 /\ j \in 1..n /\ i \in 1..n /\ (i = j \/ i \in 1..j - 1)
      OBVIOUS
    <3>2. rank[p[j].elem] < rank[p[j + 1].elem]
      BY <2>2, <3>1
    <3>3. i # j => rank[p[i].elem] < rank[p[j].elem]
      BY <3>1
    <3>4. /\ rank[p[i].elem] \in Nat /\ rank[p[j].elem] \in Nat
          /\ rank[p[j + 1].elem] \in Nat
      BY <2>3, <3>1
    <3> QED BY <3>2, <3>3, <3>4
  <2>6. S \in SUBSET Nat
    OBVIOUS
  <2> HIDE DEF S
  <2>7. \A j \in Nat : j \in S
    BY <2>4, <2>5, <2>6, SetInduction
  <2>8. ASSUME NEW i \in 1..n, NEW j \in 1..n, i < j PROVE p[i].elem # p[j].elem
    <3>1. j \in S /\ i \in 1..j - 1
      BY <2>7, <2>8
    <3>2. rank[p[i].elem] < rank[p[j].elem]
      BY <3>1 DEF S
    <3> QED BY <2>3, <3>2
  <2>9. \A i, j \in 1..n : i = j \/ i < j \/ j < i
    OBVIOUS
  <2> QED BY <2>1, <2>8, <2>9 DEF VisitsOnce
<1>2. TrackerInv => ElementsAreVisitedOnce
  <2> SUFFICES ASSUME TrackerInv PROVE ElementsAreVisitedOnce
    OBVIOUS
  <2>1. /\ path \in Seq(PathElem) /\ IsChain(path) /\ BeginsWith(path, frames)
        /\ frames \in Seq(Calls) /\ reported \in Seq(Seq(PathElem))
        /\ \A i \in 1..Len(reported) : IsActivePath(reported[i])
    BY DEF TrackerInv, IsSearch
  <2>2. VisitsOnce(path)
    BY <1>1, <2>1
  <2>3. VisitsOnce(frames)
    <3>1. \A i \in 1..Len(frames) : i \in 1..Len(path) /\ path[i].elem = frames[i].elem
      BY <2>1 DEF BeginsWith
    <3> QED BY <2>2, <3>1 DEF VisitsOnce
  <2>4. ASSUME NEW i \in 1..Len(reported) PROVE VisitsOnce(reported[i])
    <3>1. reported[i] \in Seq(PathElem) /\ IsChain(reported[i])
      BY <2>1 DEF IsActivePath
    <3> QED BY <1>1, <3>1
  <2> QED BY <2>2, <2>3, <2>4 DEF ElementsAreVisitedOnce
<1> QED BY <1>2, SearchIsOrdered, PTL
=============================================================================
