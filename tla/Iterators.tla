------------------------------ MODULE Iterators ------------------------------
(***************************************************************************)
(* IterIterator and IteratorX of src/cpp11/Iterator.cpp, which go through  *)
(* several ranges in turn; BSTIterator, NestedIterator and PeekingIterator *)
(* of src/leetcode/designIterator.cpp.  The callers ask hasNext, any       *)
(* number of times, before each next.                                      *)
(***************************************************************************)
EXTENDS Integers, Sequences, FiniteSets, SequencesExt, TLC

CONSTANTS
  Ranges,  (* the lists of sizes the ranges of the range iterators may have *)
  Nested,  (* the nested lists: [isInt |-> FALSE, list |-> what is in it]  *)
  NumKeys  (* of a binary search tree, at most                             *)

ASSUME IteratorAssumption == NumKeys \in Nat

VARIABLES
  ranges,        (* the sizes of the ranges                                *)
  idx, at,       (* IterIterator: the current range, each one's idx        *)
  idxX, start,   (* IteratorX: the current range, the place in it          *)
  base,          (* how many elements PeekingIterator's base gave out      *)
  peeked, cache, (* PeekingIterator                                        *)
  got,           (* the elements each of the three gave out                *)
  asked          (* hasNext was true and next was not called since         *)

rangeVars == <<ranges, idx, at, idxX, start, base, peeked, cache, got, asked>>

(* The elements are <<range, place>>; places start at 0. *)
Size(r) == ranges[r]
InRanges(i) == i <= Len(ranges)
Elements == FlattenSeq([r \in 1 .. Len(ranges) |-> [i \in 1 .. Size(r) |-> <<r, i - 1>>]])

RangesInit ==
  /\ ranges \in Ranges
  /\ idx = 1 /\ at = [r \in 1 .. Len(ranges) |-> 0]
  /\ idxX = 1 /\ start = 0
  /\ base = 0 /\ peeked = FALSE /\ cache = <<>>
  /\ got = [plain |-> <<>>, x |-> <<>>, peeking |-> <<>>] /\ asked = FALSE

(* IterIterator::hasNext: the first range from i on that has elements left *)
RECURSIVE NextRange(_)
NextRange(i) == IF InRanges(i) /\ at[i] >= Size(i) THEN NextRange(i + 1) ELSE i

(* IteratorX::hasNext: the next range with elements after i *)
RECURSIVE NextRangeX(_)
NextRangeX(i) == IF InRanges(i + 1) /\ Size(i + 1) = 0 THEN NextRangeX(i + 1) ELSE i + 1

HasNext ==
  /\ idx' = NextRange(idx)
  /\ IF InRanges(idxX) /\ start # Size(idxX)
     THEN UNCHANGED <<idxX, start>>
     ELSE /\ idxX' = IF InRanges(idxX) THEN NextRangeX(idxX) ELSE idxX
          /\ start' = IF InRanges(idxX') THEN 0 ELSE start
  /\ asked' = InRanges(idx')
  /\ UNCHANGED <<ranges, at, base, peeked, cache, got>>

(* PeekingIterator::peek, of what was not peeked at before *)
Peek ==
  /\ asked /\ ~peeked
  /\ peeked' = TRUE /\ base' = base + 1 /\ cache' = Elements[base + 1]
  /\ UNCHANGED <<ranges, idx, at, idxX, start, got, asked>>

(* next of each *)
NextElement ==
  /\ asked
  /\ got' = [plain |-> Append(got.plain, <<idx, at[idx]>>),
             x |-> Append(got.x, <<idxX, start>>),
             peeking |-> Append(got.peeking, IF peeked THEN cache ELSE Elements[base + 1])]
  /\ at' = [at EXCEPT ![idx] = @ + 1]
  /\ start' = start + 1
  /\ base' = IF peeked THEN base ELSE base + 1
  /\ peeked' = FALSE /\ asked' = FALSE
  /\ UNCHANGED <<ranges, idx, idxX, cache>>

RangesMove == HasNext \/ Peek \/ NextElement
-----------------------------------------------------------------------------
VARIABLES
  nested,  (* the nested list                                              *)
  stack,   (* of NestedIterator: paths to elements, one level each         *)
  ints     (* the paths to the ints it gave out                            *)

nestedVars == <<nested, stack, ints>>

(* The element a path leads to, and what is in it. *)
ElementAt(p) == FoldLeft(LAMBDA e, i : e.list[i], nested, p)
IsInt(p) == ElementAt(p).isInt
GetList(p) == ElementAt(p).list

(* seekNext: the next element of the list, or of those around it *)
RECURSIVE SeekNext(_)
SeekNext(s) ==
  IF s = <<>> THEN s
  ELSE LET p == Last(s)
       IN IF Last(p) < Len(GetList(Front(p)))
          THEN Append(Front(s), Append(Front(p), Last(p) + 1))
          ELSE SeekNext(Front(s))

(* findNextInt: down the lists that are not empty *)
RECURSIVE FindNextInt(_)
FindNextInt(s) ==
  CASE s = <<>> \/ IsInt(Last(s)) -> s
    [] s # <<>> /\ GetList(Last(s)) = <<>> -> FindNextInt(SeekNext(s))
    [] OTHER -> FindNextInt(Append(s, Append(Last(s), 1)))

NestedInit ==
  /\ nested \in Nested
  /\ stack = IF nested.list = <<>> THEN <<>> ELSE FindNextInt(<< <<1>> >>)
  /\ ints = <<>>

NestedMove ==
  /\ stack # <<>>
  /\ ints' = Append(ints, Last(stack))
  /\ stack' = FindNextInt(SeekNext(stack))
  /\ UNCHANGED nested

RECURSIVE IntsBelow(_)
IntsBelow(p) ==
  IF IsInt(p) THEN <<p>>
  ELSE FlattenSeq([i \in 1 .. Len(GetList(p)) |-> IntsBelow(Append(p, i))])
-----------------------------------------------------------------------------
VARIABLES tree, roots, keys

treeVars == <<tree, roots, keys>>

(* The keys on the way down to the left from k are pushed. *)
RECURSIVE PushLeft(_, _)
PushLeft(s, k) == IF k = 0 THEN s ELSE PushLeft(Append(s, k), tree.left[k])

(* The trees of the keys lo .. hi: their root, left and right (0: none). *)
RECURSIVE TreesOf(_, _)
TreesOf(lo, hi) ==
  IF lo > hi THEN {[root |-> 0, left |-> <<>>, right |-> <<>>]}
  ELSE UNION {{[root |-> k,
                left |-> (k :> l.root) @@ l.left @@ r.left,
                right |-> (k :> r.root) @@ l.right @@ r.right] :
                 l \in TreesOf(lo, k - 1), r \in TreesOf(k + 1, hi)} : k \in lo .. hi}

TreesInit ==
  /\ tree \in UNION {TreesOf(1, n) : n \in 0 .. NumKeys}
  /\ roots = PushLeft(<<>>, tree.root) /\ keys = <<>>

(* BSTIterator::next *)
TreesMove ==
  /\ roots # <<>>
  /\ keys' = Append(keys, Last(roots))
  /\ roots' = PushLeft(Front(roots), tree.right[Last(roots)])
  /\ UNCHANGED tree
-----------------------------------------------------------------------------
(* Each iterator gives out every element once and in order, across empty   *)
(* ranges, however often hasNext and peek are called in between, and all   *)
(* agree on where the end is (Iterator.cpp:24-43, 76-105,                  *)
(* designIterator.cpp:208-241).                                            *)
RangesInTurn ==
  /\ \A i \in {"plain", "x", "peeking"} :
       got[i] = SubSeq(Elements, 1, Len(got[i])) /\ Len(got[i]) = Len(got.plain)
  /\ asked => /\ Len(got.plain) < Len(Elements)
              /\ InRanges(idxX) /\ start < Size(idxX)
  /\ ~InRanges(idx) => got.plain = Elements /\ ~peeked /\ ~InRanges(idxX)

(* The nested iterator gives out every int once, from left to right, and   *)
(* rests on one of them or is at the end (designIterator.cpp:84-129).      *)
NestedInTurn ==
  /\ ints = SubSeq(IntsBelow(<<>>), 1, Len(ints))
  /\ stack = <<>> => ints = IntsBelow(<<>>)
  /\ stack # <<>> => IsInt(Last(stack))

(* The tree iterator gives out the keys in order, and keeps on its stack   *)
(* those that are left above the next one (designIterator.cpp:11-38).      *)
TreeInTurn ==
  /\ keys = [i \in 1 .. Len(keys) |-> i]
  /\ roots = <<>> => Len(keys) = Cardinality(DOMAIN tree.left)
=============================================================================
