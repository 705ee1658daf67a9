------------------------------- MODULE Forests ------------------------------
(***************************************************************************)
(* Trees in which something is looked up: the classes of a partition, words *)
(* and numbers in tries, request paths in a tree of patterns; and the text *)
(* editor beside the last one.                                             *)
(***************************************************************************)
EXTENDS Integers, FiniteSets, Sequences, SequencesExt

-----------------------------------------------------------------------------
(***************************************************************************)
(* The union-find classes of src/library/UnionFind.h: UnionFindSimple      *)
(* (simple), UnionFind_Map (map), UnionFind (counting) and UnionFind3      *)
(* (third).  All of them are given the same pairs to join.                 *)
(***************************************************************************)

CONSTANTS
  NumNodes,
  MaxSelf   (* bounds the pairs of an isolated vertex with itself          *)

ASSUME UnionAssumption == NumNodes \in Nat \ {0} /\ MaxSelf \in Nat

VARIABLES
  parent,      (* of each class: its parents (a root is its own parent)    *)
  size,        (* of each class: its sizes                                 *)
  union_count, (* of UnionFindSimple                                       *)
  max_size,    (* of UnionFind_Map                                         *)
  nodes_added, (* of UnionFind                                             *)
  group,       (* what they stand for: the vertices each one is joined to  *)
  selfs        (* history: pairs of an isolated vertex with itself         *)

unionVars == <<parent, size, union_count, max_size, nodes_added, group, selfs>>

Classes == {"simple", "map", "counting", "third"}
Vertices == 1 .. NumNodes

UnionInit ==
  /\ parent = [c \in Classes |-> [u \in Vertices |-> u]]
  /\ size = [c \in Classes |-> [u \in Vertices |-> IF c \in {"simple", "map"} THEN 0 ELSE 1]]
  /\ union_count = 0 /\ max_size = 0 /\ nodes_added = 0
  /\ group = [u \in Vertices |-> {u}] /\ selfs = 0
-----------------------------------------------------------------------------
(* Mutant: only one step towards the root. *)
FindOneUp(parents, u) == parents[u]

(* find and find_parent *)
RECURSIVE Find(_, _)
Find(parents, u) == IF parents[u] = u THEN u ELSE Find(parents, parents[u])

(* The sizes join compares: UnionFind_Map counts a root it has not seen as 1. *)
SizeAt(c, u) == IF c = "map" /\ size[c][u] = 0 THEN 1 ELSE size[c][u]

(* Whether the root of v goes below the root of u. *)
Hangs(c, pu, pv) == SizeAt(c, pu) > SizeAt(c, pv)

(* The new parents and sizes of class c when roots pu and pv are joined. *)
Merged(c, pu, pv) ==
  LET top == IF Hangs(c, pu, pv) THEN pu ELSE pv
      low == IF top = pu THEN pv ELSE pu
      sum == SizeAt(c, pu) + SizeAt(c, pv)
  IN [p |-> [parent[c] EXCEPT ![low] = top],
      s |-> [u \in Vertices |-> IF u = top THEN sum
                                ELSE IF u = low /\ c = "third" THEN 0
                                ELSE IF u = low THEN SizeAt(c, low) ELSE size[c][u]]]

(* update_count *)
Isolated(u) == parent["counting"][u] = u /\ size["counting"][u] <= 1
NewNodes(u, v) == (IF Isolated(u) THEN 1 ELSE 0) + (IF Isolated(v) THEN 1 ELSE 0)

Larger(a, b) == IF a > b THEN a ELSE b

(* add_edge, join, union_ and connect: a pair already connected is counted *)
(* by UnionFind and changes nothing else                                   *)
JoinPair(u, v) ==
  LET pu == [c \in Classes |-> Find(parent[c], u)]
      pv == [c \in Classes |-> Find(parent[c], v)]
      new == [c \in Classes |->
                IF pu[c] = pv[c] THEN [p |-> parent[c], s |-> size[c]]
                ELSE Merged(c, pu[c], pv[c])]
  IN /\ parent' = [c \in Classes |-> new[c].p]
     /\ size' = [c \in Classes |-> new[c].s]
     /\ union_count' = IF pu["simple"] = pv["simple"] THEN union_count ELSE union_count + 1
     /\ max_size' = IF pu["map"] = pv["map"] THEN max_size
                    ELSE Larger(max_size, SizeAt("map", pu["map"]) + SizeAt("map", pv["map"]))
     /\ nodes_added' = nodes_added + NewNodes(u, v)
     /\ group' = [w \in Vertices |-> IF w \in group[u] \cup group[v]
                                     THEN group[u] \cup group[v] ELSE group[w]]
     /\ selfs' = IF u = v /\ group[u] = {u} THEN selfs + 1 ELSE selfs

UnionNext ==
  \E u, v \in Vertices :
    (u = v /\ group[u] = {u} => selfs < MaxSelf) /\ JoinPair(u, v)

UnionSpec == UnionInit /\ [][UnionNext]_unionVars
-----------------------------------------------------------------------------
(* components, largest_CC, get_size and get_count *)
NumComponents == NumNodes - union_count
GetSize(u) ==
  LET s == size["counting"][Find(parent["counting"], u)] IN IF s = 1 THEN 0 ELSE s

(* Two vertices have the same root exactly when the joined pairs connect   *)
(* them, in each of the four classes (UnionFind.h:17-35, 47-74, 85-104,    *)
(* 148-164).                                                               *)
SamePartition ==
  \A c \in Classes : \A u, v \in Vertices :
    (Find(parent[c], u) = Find(parent[c], v)) = (v \in group[u])

(* Each class's counters tell the number and the sizes of the components,  *)
(* with one exception: UnionFind counts an isolated vertex that is joined  *)
(* with itself, which stays isolated, and counts it twice each time        *)
(* (UnionFind.h:36-38, 75, 91-94, 105-116, 165-169).                       *)
CountersTell ==
  LET groups == {group[u] : u \in Vertices}
      sizes == {Cardinality(g) : g \in groups}
      largest == CHOOSE n \in sizes : \A m \in sizes : m <= n
  IN /\ NumComponents = Cardinality(groups)
     /\ max_size = IF largest = 1 THEN 0 ELSE largest
     /\ nodes_added = Cardinality({u \in Vertices : Cardinality(group[u]) > 1}) + 2 * selfs
     /\ \A u \in Vertices :
          /\ GetSize(u) = IF group[u] = {u} THEN 0 ELSE Cardinality(group[u])
          /\ Find(parent["third"], u) = u => size["third"][u] = Cardinality(group[u])

RECURSIVE Depth(_, _)
Depth(parents, u) == IF parents[u] = u THEN 0 ELSE 1 + Depth(parents, parents[u])

(* A tree of n vertices is at most log2(n) deep: the smaller goes below    *)
(* the larger.  Not so in UnionFindSimple, whose sizes start at 0 and stay *)
(* there (UnionFind.h:14, 27-30).                                          *)
Shallow ==
  \A c \in Classes \ {"simple"} : \A u \in Vertices :
    2 ^ Depth(parent[c], u) <= Cardinality(group[u])

-----------------------------------------------------------------------------
(***************************************************************************)
(* Trie::Node<bool> and BinaryTrie of src/library/trie.h.  A node is the   *)
(* path to it, a sequence of letters or binary digits.                     *)
(***************************************************************************)

CONSTANTS
  Letters, MaxLetters, (* the words that are put have 1 to MaxLetters      *)
  bits,                (* of BinaryTrie: its numbers are below 2^bits      *)
  Dot                  (* the wild character                               *)

ASSUME TrieAssumption == MaxLetters \in Nat /\ bits \in Nat \ {0} /\ Dot \notin Letters

VARIABLES
  nodes, marked, (* Trie: its nodes, and those with the value true         *)
  put,           (* the words that were put                                *)
  paths,         (* BinaryTrie: its nodes                                  *)
  added          (* the numbers that were added                            *)

wordVars == <<nodes, marked, put>>
numberVars == <<paths, added>>

WordsOf(letters) == UNION {[1 .. n -> letters] : n \in 1 .. MaxLetters}

TrieInit ==
  /\ nodes = {<<>>} /\ marked = {} /\ put = {}
  /\ paths = {<<>>} /\ added = {}
-----------------------------------------------------------------------------
(* Node::put: the missing nodes on the way, and the label *)
PutWord(word) ==
  /\ nodes' = nodes \cup {SubSeq(word, 1, n) : n \in 0 .. Len(word)}
  /\ marked' = marked \cup {word}
  /\ put' = put \cup {word}

(* Node::find *)
FindWord(word) == word \in nodes /\ word \in marked

(* The children find_wild goes on with at a character. *)
NextNodes(node, char) ==
  {node \o <<l>> : l \in IF char = Dot THEN Letters ELSE {char}} \cap nodes

(* Node::find_wild, for the pattern from its pos-th character on *)
RECURSIVE FindWild(_, _, _)
FindWild(node, pattern, pos) ==
  IF pos > Len(pattern) THEN node \in marked
  ELSE \E child \in NextNodes(node, pattern[pos]) : FindWild(child, pattern, pos + 1)

WordsMove == \E word \in WordsOf(Letters) : PutWord(word)
-----------------------------------------------------------------------------
(* num_to_binary: the digits, the most significant first *)
Digits(num) == [i \in 1 .. bits |-> (num \div 2 ^ (bits - i)) % 2]

(* BinaryTrie::add and put *)
AddBits(num) ==
  /\ paths' = paths \cup {SubSeq(Digits(num), 1, n) : n \in 0 .. bits}
  /\ added' = added \cup {num}

(* find_xor_max below a node: the opposite digit where there is one *)
RECURSIVE FindXorMax(_, _, _, _)
FindXorMax(node, digits, idx, value) ==
  IF idx > bits THEN value
  ELSE LET d == IF node \o <<1 - digits[idx]>> \in paths THEN 1 - digits[idx] ELSE digits[idx]
       IN FindXorMax(node \o <<d>>, digits, idx + 1, value * 2 + d)

NumbersAllowed == 0 .. 2 ^ bits - 1
Xor(a, b) ==
  LET differ == [i \in 1 .. bits |-> IF (a \div 2 ^ (i - 1)) % 2 = (b \div 2 ^ (i - 1)) % 2
                                     THEN 0 ELSE 2 ^ (i - 1)]
  IN FoldLeft(LAMBDA x, y : x + y, 0, differ)

(* Only a trie with a number is asked: below the root of an empty one the  *)
(* null child is followed.                                                 *)
XorMax(num) == Xor(num, FindXorMax(<<>>, Digits(num), 1, 0))

NumbersMove == \E num \in NumbersAllowed : AddBits(num)

-----------------------------------------------------------------------------
(* find knows the words that were put and none of their prefixes, and      *)
(* find_wild those a pattern stands for, letter by letter (trie.h:19-57).  *)
FindsWhatWasPut ==
  /\ \A word \in WordsOf(Letters) : FindWord(word) = (word \in put)
  /\ \A pattern \in WordsOf(Letters \cup {Dot}) :
       FindWild(<<>>, pattern, 1) =
         \E word \in put : Len(word) = Len(pattern)
                           /\ \A i \in 1 .. Len(word) : pattern[i] \in {word[i], Dot}

(* Going for the opposite digit from the top finds the largest xor with    *)
(* any of the numbers that were added (trie.h:115-138).                    *)
FindsLargestXor ==
  added # {} => \A num \in NumbersAllowed :
    /\ XorMax(num) \in {Xor(num, a) : a \in added}
    /\ \A a \in added : Xor(num, a) <= XorMax(num)

-----------------------------------------------------------------------------
(***************************************************************************)
(* Two exercises of src/HackerRank: the EndPointDispatch of FourSquare.cpp *)
(* that finds the end point of a request path in a tree of patterns, and   *)
(* the SimpleTextEditor of HackerRank.cpp with its stack of undo commands. *)
(***************************************************************************)

CONSTANTS
  Components, Wild,  (* the components of a path; Wild is "X"              *)
  MaxPath, MaxPatterns, (* bound the components of a path, and the patterns *)
  EndPoints, NoPoint,(* NoPoint is the empty string                        *)
  Characters, MaxText, MaxCommands   (* bound the text and the commands    *)

ASSUME DispatchAssumption ==
  Wild \notin Components /\ NoPoint \notin EndPoints /\ MaxPath \in Nat /\ MaxText \in Nat

VARIABLES
  endPoint,    (* the pattern of a node with an end point -> the end point *)
  S, commands, (* of the editor                                            *)
  past         (* the text before each command                             *)

dispatchVars == <<endPoint>>
editorVars == <<S, commands, past>>

Paths(C) == UNION {[1 .. n -> C] : n \in 1 .. MaxPath}

DispatchInit == endPoint = [p \in {} |-> NoPoint]

(* add_config; put makes the nodes on the way.                             *)
AddConfig(pattern, point) ==
  /\ Cardinality(DOMAIN endPoint \cup {pattern}) <= MaxPatterns
  /\ endPoint' = [p \in DOMAIN endPoint \cup {pattern} |-> IF p = pattern THEN point ELSE endPoint[p]]

DispatchNext ==
  \E pattern \in Paths(Components \cup {Wild}), point \in EndPoints : AddConfig(pattern, point)

IsNode(node) == \E p \in DOMAIN endPoint : IsPrefix(node, p)

(* Whether find goes on to the wildcard after what the exact match found.  *)
TriesWild(node, component, result) == result = NoPoint

(* find, from the node of a pattern *)
RECURSIVE FindPoint(_, _)
FindPoint(node, request) ==
  IF ~IsNode(node) THEN NoPoint
  ELSE IF Len(node) = Len(request) THEN IF node \in DOMAIN endPoint THEN endPoint[node] ELSE NoPoint
  ELSE LET component == request[Len(node) + 1]
           exact == FindPoint(Append(node, component), request)
       IN IF TriesWild(node, component, exact) THEN FindPoint(Append(node, Wild), request) ELSE exact
-----------------------------------------------------------------------------
EditorInit == S = <<>> /\ commands = <<>> /\ past = <<>>

Command(c) ==
  /\ Len(commands) < MaxCommands
  /\ commands' = Append(commands, c) /\ past' = Append(past, S)

AppendText(W) ==
  Len(S) + Len(W) <= MaxText /\ Command([type |-> 1, size |-> Len(W)]) /\ S' = S \o W

EraseText(k) ==
  /\ Command([type |-> 2, text |-> SubSeq(S, Len(S) - k + 1, Len(S))])
  /\ S' = SubSeq(S, 1, Len(S) - k)

Undone(text, c) ==
  IF c.type = 1 THEN SubSeq(text, 1, Len(text) - c.size) ELSE text \o c.text

Undo ==
  /\ commands # <<>>
  /\ S' = Undone(S, Last(commands))
  /\ commands' = Front(commands) /\ past' = Front(past)

EditorNext ==
  \/ \E W \in {<<c>> : c \in Characters} \cup {<<c, d>> : c, d \in Characters} : AppendText(W)
  \/ \E k \in 1 .. Len(S) : EraseText(k)
  \/ Undo
-----------------------------------------------------------------------------
(* A request gets the end point of a pattern it matches, if there is one,  *)
(* and of several the one that is exact at the first component where they  *)
(* differ; a wildcard stands for one component (FourSquare.cpp:97-112).    *)
FindsBestPattern ==
  \A request \in Paths(Components) :
    LET matching == {p \in DOMAIN endPoint :
                       /\ Len(p) = Len(request)
                       /\ \A i \in DOMAIN p : p[i] \in {request[i], Wild}}
        better(p, q) == \E i \in DOMAIN p :
                          /\ p[i] # Wild /\ q[i] = Wild
                          /\ \A j \in 1 .. i - 1 : p[j] = q[j]
    IN FindPoint(<<>>, request) =
         IF matching = {} THEN NoPoint
         ELSE endPoint[CHOOSE p \in matching : \A q \in matching \ {p} : better(p, q)]

(* undo restores the text before the last command, however many commands   *)
(* and undos there were (HackerRank.cpp:175-202).                          *)
UndoRestores == commands # <<>> => Undone(S, Last(commands)) = Last(past)
=============================================================================
