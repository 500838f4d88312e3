-------------------------- MODULE SignalPathTracker --------------------------
(***************************************************************************)
(* The signal path graph of a device model (src/src/signal_paths.hh) and   *)
(* the enumeration of its active paths                                     *)
(* (src/src/signal_path_tracker.cc).                                       *)
(*                                                                         *)
(* A graph is built edge by edge and finalized.  After that, the selectors *)
(* of its switching elements are set and released, and in between the      *)
(* active paths are enumerated by a depth first search.  The search calls  *)
(* back with its one path vector, which it extends and cuts on its way.    *)
(* Each call of down() is a frame of a stack here, so that the state of    *)
(* the vector can be related to the state of the search at every visit.    *)
(*                                                                         *)
(* Edges of an output are kept in an unordered map: the search takes them  *)
(* in any order.  Outputs are taken in ascending order.                    *)
(***************************************************************************)
EXTENDS SignalPathMappings, Sequences, FiniteSetsExt

CONSTANTS
  Static,      \* elements without mapping
  Switching,   \* elements with a mapping
  Sub,         \* elements which are connected to a parent only
  Candidates,  \* edges a model definition may contain
  Mappings,    \* switching element -> mappings it may have
  Floating     \* Selector::mk_invalid()

Elements == Static \cup Switching

ASSUME GraphAssumption ==
  /\ Static \cap Switching = {}
  /\ Sub \subseteq Elements
  /\ IsFiniteSet(Candidates)
  /\ Candidates \subseteq [from: Elements, out: Nat, to: Elements, in: Nat]
  /\ \A x \in Switching : \A m \in Mappings[x] : m.kind \in {"mux", "demux", "table"}
  /\ {Unconnected, Floating} \cap Nat = {}

VARIABLES
  phase,      \* building, rejected, idle, walking, or done
  edges,      \* PathElement::edges_by_output_ of all elements
  mapping,    \* SwitchingElement::mapping_
  selector,   \* SignalPathTracker::selector_values_, Floating if not there
  sources,    \* sources traverse() has yet to visit
  frames,     \* active calls of down()
  path,       \* the path vector of enumerate_active_signal_paths()
  reported,   \* history: paths the callback got in this enumeration
  aborted     \* the callback has returned false

graphVars == <<edges, mapping>>
walkVars == <<sources, frames, path, reported, aborted>>
vars == <<phase, graphVars, selector, walkVars>>

(***************************************************************************)
(* Graphs                                                                  *)
(***************************************************************************)
EdgesAt(x, out) == {e \in edges : e.from = x /\ e.out = out}
OutputsOf(x) == {e.out : e \in {f \in edges : f.from = x}}
SourcesOf(x) == {e.from : e \in {f \in edges : f.to = x}}

IsSource(x) == SourcesOf(x) = {}
IsSink(x) == OutputsOf(x) = {}

Finalizes(x) ==
  FitsEdges(mapping[x], Cardinality(SourcesOf(x)), Cardinality(OutputsOf(x)))

Init ==
  /\ phase = "building"
  /\ edges = {}
  /\ mapping \in {m \in [Switching -> UNION {Mappings[x] : x \in Switching}] :
                    \A x \in Switching : m[x] \in Mappings[x]}
  /\ selector = [x \in Switching |-> Floating]
  /\ sources = {}
  /\ frames = <<>>
  /\ path = <<>>
  /\ reported = <<>>
  /\ aborted = FALSE

\* PathElement::connect(); unreasonable pads are ignored, and so is a second
\* edge from an output to the same element, even if it ends at another pad.
Connect(e) ==
  /\ phase = "building"
  /\ e.out < UNREASONABLE /\ e.in < UNREASONABLE
  /\ \A f \in EdgesAt(e.from, e.out) : f.to # e.to
  /\ edges' = edges \cup {e}
  /\ UNCHANGED <<phase, mapping, selector, walkVars>>

\* ApplianceBuilder::build() throws if a mapping does not fit the edges.
Build ==
  /\ phase = "building"
  /\ phase' = IF \A x \in Switching : Finalizes(x) THEN "idle" ELSE "rejected"
  /\ UNCHANGED <<graphVars, selector, walkVars>>

(***************************************************************************)
(* Selectors                                                               *)
(***************************************************************************)
Forgotten ==
  /\ phase' = "idle"
  /\ path' = <<>>
  /\ reported' = <<>>
  /\ aborted' = FALSE
  /\ UNCHANGED <<graphVars, sources, frames>>

\* Selectors out of range are rejected.
Select(x, c) ==
  /\ phase \in {"idle", "done"}
  /\ c \in ChoicesOf(mapping[x])
  /\ selector' = [selector EXCEPT ![x] = c]
  /\ Forgotten

Float(x) ==
  /\ phase \in {"idle", "done"}
  /\ selector[x] # Floating
  /\ selector' = [selector EXCEPT ![x] = Floating]
  /\ Forgotten

(***************************************************************************)
(* Visits                                                                  *)
(***************************************************************************)
\* Seeded fault: a switching element without selector lets anything pass.
PassesIfFloating(x, in, out) ==
  \/ x \in Static
  \/ selector[x] = Floating
  \/ IsConnected(mapping[x], selector[x], in, out)

Passes(x, in, out) ==
  \/ x \in Static
  \/ /\ selector[x] # Floating
     /\ IsConnected(mapping[x], selector[x], in, out)

\* Seeded fault: the path is cut one element too late.
ExtendedLate(x, depth) ==
  Append(IF depth < Len(path) THEN SubSeq(path, 1, depth + 1) ELSE path,
         [elem |-> x, seen |-> FALSE])

\* collect(): what is behind depth belongs to a branch visited before.
Extended(x, depth) ==
  Append(IF depth <= Len(path) THEN SubSeq(path, 1, depth) ELSE path,
         [elem |-> x, seen |-> FALSE])

AllSeen(p) == [i \in DOMAIN p |-> [p[i] EXCEPT !.seen = TRUE]]

\* The callback for an element which passes: sinks end a path.
VisitPassing(x, depth, goOn) ==
  IF IsSink(x)
  THEN /\ reported' = Append(reported, Extended(x, depth))
       /\ aborted' = ~goOn
       /\ path' = IF goOn THEN AllSeen(Extended(x, depth)) ELSE Extended(x, depth)
  ELSE /\ path' = Extended(x, depth)
       /\ UNCHANGED <<reported, aborted>>

Down(x, out) ==
  [elem |-> x, edges |-> EdgesAt(x, out), at |-> Unconnected, outs |-> {}]

top == frames[Len(frames)]
WithTop(frame) == [frames EXCEPT ![Len(frames)] = frame]

Walking == phase = "walking" /\ ~aborted

EnumerateActiveSignalPaths ==
  /\ phase = "idle"
  /\ phase' = "walking"
  /\ sources' = {x \in Elements \ Sub : IsSource(x)}
  /\ UNCHANGED <<graphVars, selector, frames, path, reported, aborted>>

\* Only the first output of a source is followed.
VisitSource(x, goOn) ==
  /\ Walking
  /\ frames = <<>>
  /\ x \in sources
  /\ sources' = sources \ {x}
  /\ IF Passes(x, Unconnected, 0)
     THEN /\ VisitPassing(x, 0, goOn)
          /\ frames' = <<Down(x, 0)>>
     ELSE UNCHANGED <<frames, path, reported, aborted>>
  /\ UNCHANGED <<phase, graphVars, selector>>

\* Seeded fault: the search does not advance behind a sink.
VisitSinkAgain(e, goOn) ==
  /\ Walking
  /\ frames # <<>> /\ top.outs = {}
  /\ e \in top.edges /\ IsSink(e.to)
  /\ IF Passes(e.to, e.in, Unconnected)
     THEN /\ path' = Extended(e.to, Len(frames))
          /\ UNCHANGED <<frames, reported, aborted>>
     ELSE /\ frames' = WithTop([top EXCEPT !.edges = {}])
          /\ UNCHANGED <<path, reported, aborted>>
  /\ UNCHANGED <<phase, graphVars, selector, sources>>

\* A switching element is no sink for any choice of its selector; the search
\* skips it together with the edges not yet taken from the same output.
VisitSink(e, goOn) ==
  /\ Walking
  /\ frames # <<>> /\ top.outs = {}
  /\ e \in top.edges /\ IsSink(e.to)
  /\ IF Passes(e.to, e.in, Unconnected)
     THEN /\ frames' = WithTop([top EXCEPT !.edges = @ \ {e}])
          /\ VisitPassing(e.to, Len(frames), goOn)
     ELSE /\ frames' = WithTop([top EXCEPT !.edges = {}])
          /\ UNCHANGED <<path, reported, aborted>>
  /\ UNCHANGED <<phase, graphVars, selector, sources>>

FollowEdge(e) ==
  /\ Walking
  /\ frames # <<>> /\ top.outs = {}
  /\ e \in top.edges /\ ~IsSink(e.to)
  /\ frames' = WithTop([top EXCEPT !.edges = @ \ {e}, !.at = e,
                                       !.outs = OutputsOf(e.to)])
  /\ UNCHANGED <<phase, graphVars, selector, sources, path, reported, aborted>>

\* Seeded fault: an output that is not active ends the search for others.
VisitFirstOutput ==
  LET e == top.at
      out == Min(top.outs)
  IN /\ Walking
     /\ frames # <<>> /\ top.outs # {}
     /\ IF Passes(e.to, e.in, out)
        THEN /\ frames' = Append(WithTop([top EXCEPT !.outs = @ \ {out}]),
                                 Down(e.to, out))
             /\ path' = Extended(e.to, Len(frames))
        ELSE /\ frames' = WithTop([top EXCEPT !.outs = {}])
             /\ UNCHANGED path
     /\ UNCHANGED <<phase, graphVars, selector, sources, reported, aborted>>

VisitOutput ==
  LET e == top.at
      out == Min(top.outs)
      left == WithTop([top EXCEPT !.outs = @ \ {out}])
  IN /\ Walking
     /\ frames # <<>> /\ top.outs # {}
     /\ IF Passes(e.to, e.in, out)
        THEN /\ frames' = Append(left, Down(e.to, out))
             /\ path' = Extended(e.to, Len(frames))
        ELSE /\ frames' = left
             /\ UNCHANGED path
     /\ UNCHANGED <<phase, graphVars, selector, sources, reported, aborted>>

Return ==
  /\ Walking
  /\ frames # <<>> /\ top.outs = {} /\ top.edges = {}
  /\ frames' = SubSeq(frames, 1, Len(frames) - 1)
  /\ UNCHANGED <<phase, graphVars, selector, sources, path, reported, aborted>>

\* The search is over, or an abort ends all calls of down() and traverse().
Finish ==
  /\ phase = "walking"
  /\ aborted \/ (frames = <<>> /\ sources = {})
  /\ phase' = "done"
  /\ sources' = {}
  /\ frames' = <<>>
  /\ UNCHANGED <<graphVars, selector, path, reported, aborted>>

Walk ==
  \/ \E x \in Elements, goOn \in BOOLEAN : VisitSource(x, goOn)
  \/ \E e \in edges, goOn \in BOOLEAN : VisitSink(e, goOn)
  \/ \E e \in edges : FollowEdge(e)
  \/ VisitOutput
  \/ Return
  \/ Finish

Next ==
  \/ \E e \in Candidates : Connect(e)
  \/ Build
  \/ \E x \in Switching :
       \/ Float(x)
       \/ \E c \in 0..Cardinality(ChoicesOf(mapping[x])) : Select(x, c)
  \/ EnumerateActiveSignalPaths
  \/ Walk

Spec == Init /\ [][Next]_vars

\* An enumeration is one call: it goes on until it returns.
FairSpec == Spec /\ WF_vars(Walk)

-----------------------------------------------------------------------------
(***************************************************************************)
(* What is active, without a search: a walk is a set of edges which form a *)
(* chain from a source to a sink, as graphs have no cycles.                *)
(***************************************************************************)
Begins(e) ==
  /\ IsSource(e.from) /\ e.from \notin Sub /\ e.out = 0
  /\ Passes(e.from, Unconnected, 0)
Ends(e) == IsSink(e.to) /\ Passes(e.to, e.in, Unconnected)
Continues(e, f) == f.from = e.to /\ Passes(e.to, e.in, f.out)

IsWalk(S) ==
  /\ Cardinality({e \in S : Begins(e)}) = 1
  /\ \A e \in S :
       \/ Ends(e)
       \/ Cardinality({f \in S : Continues(e, f)}) = 1
  /\ \A f \in S : Begins(f) \/ \E e \in S : Continues(e, f)

Walks == {S \in SUBSET edges : IsWalk(S)}
Lonely == {x \in Static \ Sub : IsSource(x) /\ IsSink(x)}

ElementsOf(S) == UNION {{e.from, e.to} : e \in S}
ActivePaths == {ElementsOf(S) : S \in Walks} \cup {{x} : x \in Lonely}

ElementsIn(p) == {p[i].elem : i \in DOMAIN p}
PathElem == [elem: Elements, seen: BOOLEAN]

\* Type invariant; selectors are in range for the mapping of their element.
TypeOK ==
  /\ phase \in {"building", "rejected", "idle", "walking", "done"}
  /\ edges \subseteq Candidates
  /\ \A x \in Switching : /\ mapping[x] \in Mappings[x]
                          /\ selector[x] \in ChoicesOf(mapping[x]) \cup {Floating}
  /\ sources \subseteq Elements
  /\ path \in Seq(PathElem)
  /\ reported \in Seq(Seq(PathElem))
  /\ aborted \in BOOLEAN
  /\ \A i \in DOMAIN frames :
       frames[i].elem \in Elements /\ frames[i].edges \subseteq edges

\* Whenever the callback may look at it, the path vector is a chain of edges
\* from a source, through elements which are switched the way they are
\* passed, and it starts with the elements the search is descending through:
\* nothing of a branch left behind stays in front of a new element.
PathIsActiveChain ==
  /\ \A i \in 1..Len(path) - 1 :
       \E e \in edges :
         /\ e.from = path[i].elem /\ e.to = path[i + 1].elem
         /\ i = 1 => Begins(e)
         /\ i > 1 => \E f \in edges : f.from = path[i - 1].elem /\ Continues(f, e)
  /\ \A k \in DOMAIN frames : k <= Len(path) /\ path[k].elem = frames[k].elem

\* Every path in a report is active, and an enumeration which was not ended
\* by its callback reports each active walk exactly once, no matter how the
\* branches left and rejoined each other (unless there is a switching element
\* without outputs, behind which the search gives up an output).
EnumerationIsExact ==
  /\ \A i \in DOMAIN reported : ElementsIn(reported[i]) \in ActivePaths
  /\ phase = "done" /\ ~aborted /\ ~(\E x \in Switching : IsSink(x)) =>
       /\ ActivePaths = {ElementsIn(reported[i]) : i \in DOMAIN reported}
       /\ Len(reported) = Cardinality(Walks) + Cardinality(Lonely)

\* Each enumeration comes to its end.
EnumerationEnds == phase = "walking" ~> phase = "done"
=============================================================================
