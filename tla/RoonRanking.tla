------------------------------ MODULE RoonRanking ------------------------------
(***************************************************************************)
(* Which of the active paths the Roon plugin reports                       *)
(* (src/src/report_roon.cc): the one whose sink has the lowest rank.       *)
(*                                                                         *)
(* The rank of a sink comes from the definition of its device model.  The  *)
(* plugin remembers it under the address of the sink object, for as long   *)
(* as the plugin lives.  Sink objects live in the models of the store;     *)
(* these are built when a device ID is first used, kept until the store is *)
(* cleared, and may then come to lie at any address that is free.          *)
(***************************************************************************)
EXTENDS Naturals, FiniteSets

CONSTANTS
  Sinks,      \* audio sinks in the device models
  SinkRank,   \* sink -> rank in its definition, INVALID_RANK without one
  SinkMethod, \* sink -> output method in its definition
  Ends,       \* sinks and other elements at which active paths end
  Addresses,  \* addresses of sink objects
  Free,       \* there is no sink object at an address
  NULL,       \* the address of what is not defined as a sink
  NoMethod    \* the output method of a cache without a path

INVALID_RANK == 65535

ASSUME RankingAssumption ==
  /\ Sinks \subseteq Ends
  /\ SinkRank \in [Sinks -> 0..INVALID_RANK]
  /\ SinkMethod \in [Sinks -> {SinkMethod[s] : s \in Sinks}]
  /\ IsFiniteSet(Sinks)
  /\ Free \notin Sinks /\ NULL \notin Addresses

VARIABLES
  sinkAt,   \* sinks in the models of the store, by their addresses
  ranks,    \* Roon::ranks_, the cache of ranks and methods
  cleared,  \* history: the store was cleared while ranks were cached
  todo,     \* sinks of the active paths enumeration has yet to come to
  active,   \* history: sinks of the paths in this enumeration
  best,     \* Cache::path_rank_, and the sink and method of Cache::path_
  stage     \* idle, enumerating, or done

cacheVars == <<todo, active, best, stage>>
rankingVars == <<sinkAt, ranks, cleared, cacheVars>>

Loaded == {sinkAt[a] : a \in Addresses} \ {Free}
AddressOf(s) == IF s \in Loaded THEN CHOOSE a \in Addresses : sinkAt[a] = s ELSE NULL

\* Cache::Cache()
EmptyCache == [rank |-> INVALID_RANK, sink |-> Free, method |-> NoMethod]

RankingInit ==
  /\ sinkAt = [a \in Addresses |-> Free]
  /\ ranks = [a \in {} |-> EmptyCache]
  /\ cleared = FALSE
  /\ todo = {}
  /\ active = {}
  /\ best = EmptyCache
  /\ stage = "idle"

(***************************************************************************)
(* The models in the store                                                 *)
(***************************************************************************)
\* A model is built, and its sinks come to lie at free addresses.
LoadModel(s, a) ==
  /\ stage = "idle"
  /\ s \notin Loaded
  /\ sinkAt[a] = Free
  /\ sinkAt' = [sinkAt EXCEPT ![a] = s]
  /\ UNCHANGED <<ranks, cleared, cacheVars>>

\* Settings::clear()
ClearStore ==
  /\ stage = "idle"
  /\ sinkAt' = [a \in Addresses |-> Free]
  /\ cleared' = (cleared \/ DOMAIN ranks # {})
  /\ UNCHANGED <<ranks, cacheVars>>

(***************************************************************************)
(* Reports                                                                 *)
(***************************************************************************)
\* compute_sorted_result() starts with an empty cache; the active paths end
\* at any sinks of the models, and at elements which are no audio sinks.
BeginEnumeration(S) ==
  /\ stage = "idle"
  /\ S \cap Sinks \subseteq Loaded
  /\ stage' = "enumerating"
  /\ todo' = S
  /\ active' = S
  /\ best' = EmptyCache
  /\ UNCHANGED <<sinkAt, ranks, cleared>>

DefinedEntry(s) == [rank |-> SinkRank[s], method |-> SinkMethod[s]]
UndefinedEntry == [rank |-> INVALID_RANK, method |-> NoMethod]

\* determine_path_rank_and_output_method(): the entry for the sink, and the
\* cache with that entry; a sink without rank has an entry as well, which is
\* of no use to put_path().
RankEntry(e) ==
  IF AddressOf(e) \in DOMAIN ranks THEN ranks[AddressOf(e)]
  ELSE IF e \in Loaded THEN DefinedEntry(e)
  ELSE UndefinedEntry

Remembered(a, entry) ==
  [b \in DOMAIN ranks \cup {a} |-> IF b \in DOMAIN ranks THEN ranks[b] ELSE entry]

\* Seeded fault: the last of the paths wins.
PutPathAnyway(e, entry) ==
  best' = [rank |-> entry.rank, sink |-> e, method |-> entry.method]

\* Cache::put_path(): of equally ranked paths, the first one stays.
PutPath(e, entry) ==
  best' = IF entry.rank >= best.rank THEN best
          ELSE [rank |-> entry.rank, sink |-> e, method |-> entry.method]

EnumeratePath(e) ==
  /\ stage = "enumerating"
  /\ e \in todo
  /\ todo' = todo \ {e}
  /\ ranks' = Remembered(AddressOf(e), RankEntry(e))
  /\ PutPath(e, RankEntry(e))
  /\ UNCHANGED <<sinkAt, cleared, active, stage>>

\* The report is made for the path in the cache, if there is one.
EndEnumeration ==
  /\ stage = "enumerating"
  /\ todo = {}
  /\ stage' = "done"
  /\ UNCHANGED <<sinkAt, ranks, cleared, todo, active, best>>

Emit ==
  /\ stage = "done"
  /\ stage' = "idle"
  /\ active' = {}
  /\ best' = EmptyCache
  /\ UNCHANGED <<sinkAt, ranks, cleared, todo>>

RankingNext ==
  \/ \E s \in Sinks, a \in Addresses : LoadModel(s, a)
  \/ ClearStore
  \/ \E S \in SUBSET Ends : BeginEnumeration(S)
  \/ \E e \in Ends : EnumeratePath(e)
  \/ EndEnumeration
  \/ Emit

RankingSpec == RankingInit /\ [][RankingNext]_rankingVars

-----------------------------------------------------------------------------
Entry == [rank: 0..INVALID_RANK, method: {SinkMethod[s] : s \in Sinks} \cup {NoMethod}]

\* Type invariant.
RankingTypeOK ==
  /\ sinkAt \in [Addresses -> Sinks \cup {Free}]
  /\ DOMAIN ranks \subseteq Addresses \cup {NULL}
  /\ \A a \in DOMAIN ranks : ranks[a] \in Entry
  /\ cleared \in BOOLEAN
  /\ todo \subseteq active /\ active \subseteq Ends
  /\ best.rank \in 0..INVALID_RANK /\ best.sink \in Ends \cup {Free}
  /\ stage \in {"idle", "enumerating", "done"}

RankedSinks == {s \in active \cap Sinks : SinkRank[s] < INVALID_RANK}

\* What is reported is a path of the lowest rank, with the method of its own
\* sink, whatever the order of enumeration and whatever was reported before;
\* nothing is reported only if no path has a rank.
BestPath ==
  IF RankedSinks = {}
  THEN best = EmptyCache
  ELSE /\ best.sink \in RankedSinks
       /\ \A s \in RankedSinks : SinkRank[best.sink] <= SinkRank[s]
       /\ best.method = SinkMethod[best.sink]

\* As long as the store is not cleared, this holds for all reports.
BestPathIsReportedUntilClear ==
  stage = "done" /\ ~cleared => BestPath

-----------------------------------------------------------------------------
(* A statement of a comment that the code contradicts.                     *)

\* Comment in compute_sorted_result(), "find active path with highest rank":
\* also after the store was cleared and filled again.
BestPathIsReported ==
  stage = "done" => BestPath
=============================================================================
