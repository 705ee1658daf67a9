----------------------------- MODULE GraphPaths ------------------------------
(***************************************************************************)
(* GraphPath of src/library/Graph.h.  The edges are added one by one, and  *)
(* countPaths is asked of a copy after each.  The counts are far below     *)
(* 10^9, so the remainder is left out.                                     *)
(***************************************************************************)
EXTENDS Integers, Sequences, FiniteSets

CONSTANTS
  N,        (* the nodes are 1 .. N; paths are asked from 1 to N           *)
  MaxEdges  (* bounds the edges                                            *)

ASSUME GraphAssumption == N \in Nat \ {0, 1} /\ MaxEdges \in Nat

VARIABLE adjList

graphVars == <<adjList>>

Nodes == 1 .. N

RECURSIVE SumUp(_)
SumUp(s) == IF s = <<>> THEN 0 ELSE Head(s) + SumUp(Tail(s))

GraphInit == adjList = [u \in Nodes |-> <<>>]

(* add_edge_direct *)
AddEdge(u, v) ==
  /\ SumUp([w \in Nodes |-> Len(adjList[w])]) < MaxEdges
  /\ adjList' = [adjList EXCEPT ![u] = Append(@, v)]

(* The edges that leave N are never looked at: there are none. *)
GraphNext == \E u \in Nodes \ {N}, v \in Nodes : AddEdge(u, v)

GraphSpec == GraphInit /\ [][GraphNext]_graphVars
-----------------------------------------------------------------------------
(* countPaths: what a call returns (result; -1 for a node of the path so   *)
(* far) and leaves in ways and infinite.                                   *)
RECURSIVE CountPaths(_, _, _), CountEach(_, _, _)

(* The loop over the neighbours to.  acc collects the count, whether a     *)
(* cycle was met, ways and infinite.                                       *)
CountEach(to, path, acc) ==
  IF to = <<>> THEN acc
  ELSE LET got == CountPaths(Head(to), path, acc)
       IN CountEach(Tail(to), path,
            [got EXCEPT !.count = acc.count + (IF got.result < 0 THEN 0 ELSE got.result),
                        !.cycle = acc.cycle \/ got.result < 0])

(* The end of a call: u is off the path again, and remembered. *)
PathCount(u, done) ==
  [done EXCEPT !.result = done.count,
               !.ways = [done.ways EXCEPT ![u] = done.count],
               !.infinite = done.infinite \/ (done.cycle /\ done.count > 0)]

CountPaths(u, path, st) ==
  CASE u = N -> [st EXCEPT !.result = 1]
    [] u # N /\ st.ways[u] >= 0 -> [st EXCEPT !.result = st.ways[u]]
    [] u # N /\ st.ways[u] < 0 /\ u \in path -> [st EXCEPT !.result = -1]
    [] OTHER -> PathCount(u, CountEach(adjList[u], path \cup {u},
                                    [st EXCEPT !.count = 0, !.cycle = FALSE]))

FromOne ==
  CountPaths(1, {}, [result |-> 0, count |-> 0, cycle |-> FALSE,
                     ways |-> [u \in Nodes |-> -1], infinite |-> FALSE])
-----------------------------------------------------------------------------
(* What it stands for: how many ways there are to get from u to N for the  *)
(* first time with the k-th edge.                                          *)
RECURSIVE Walks(_, _)
Walks(u, k) ==
  CASE u = N -> IF k = 0 THEN 1 ELSE 0
    [] u # N /\ k = 0 -> 0
    [] OTHER -> SumUp([i \in DOMAIN adjList[u] |-> Walks(adjList[u][i], k - 1)])

(* Some way from 1 to N is longer than one that meets no node twice.       *)
Endless == \E k \in N .. 2 * N - 1 : Walks(1, k) > 0

(* countPaths is right on every graph without endless paths, cycles off    *)
(* the way and parallel edges included (Graph.h:81-105).                   *)
CountIsExact ==
  ~Endless => /\ ~FromOne.infinite
              /\ FromOne.result = SumUp([k \in 1 .. N |-> Walks(1, k)])

(* "if there is a cycle in a valid path, path is infinite" (Graph.h:69).   *)
CycleIsInfinite == Endless => FromOne.infinite
=============================================================================
