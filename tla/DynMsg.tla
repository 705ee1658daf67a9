------------------------------- MODULE DynMsg --------------------------------
(***************************************************************************)
(* CDynMsg on CDynBuffer (src/cpp11/DynMsg.h, DynBuffer.h): messages, each *)
(* behind its length, in a buffer that grows by half up to a maximum, and  *)
(* is read by moving its start.  A cell stands for the bytes that are      *)
(* copied together.                                                        *)
(***************************************************************************)
EXTENDS Integers, Sequences, FiniteSets

CONSTANTS
  initSize, maxSize,   (* the constructor's arguments                      *)
  HeaderSize,          (* sizeof(unsigned long), in cells                  *)
  MinGrowth,           (* 100: what the last growth must gain              *)
  Tags,                (* what AddMsg and AddMsgCliData put before a       *)
                       (* message: nothing, its type, or a client address  *)
  Texts,               (* the messages                                     *)
  Reserves             (* the sizes asked of Reserve                       *)

ASSUME DynAssumption ==
  /\ initSize \in Nat /\ maxSize \in Nat /\ initSize <= maxSize
  /\ HeaderSize \in Nat \ {0} /\ MinGrowth \in Nat /\ Reserves \subseteq Nat
  /\ \A text \in Tags \cup Texts : text \in Seq({text[i] : i \in DOMAIN text})

VARIABLES
  buf,     (* the buffer: what is in it, where that starts (m_pCur), its   *)
           (* m_lSize, its m_lMaxSize, and whether m_pBuffer is null       *)
  msgs

dynVars == <<buf, msgs>>

DynInit ==
  /\ buf = [data |-> <<>>, cur |-> 0, size |-> initSize, max |-> maxSize, null |-> FALSE]
  /\ msgs = 0
-----------------------------------------------------------------------------
Grown(size) == (size \div 2) * 3 + 2

Wanted(b, need) == IF Grown(b.size) < need THEN Grown(need) ELSE Grown(b.size)

NewSize(b, need) == IF Wanted(b, need) > b.max THEN b.max ELSE Wanted(b, need)

(* The branch of resize that gives up after m_pBuffer has been moved from. *)
TooLittle(b, need) == Wanted(b, need) > b.max /\ b.max - b.size < MinGrowth

(* resize(len): the buffers it may leave, and whether it succeeds.  A new  *)
(* buffer may not be had (bad_alloc): then the old one is put back.        *)
Resize(b, len) ==
  LET need == Len(b.data) + len
  IN CASE need > b.max -> {[ok |-> FALSE, b |-> b]}
       [] need <= b.max /\ need > b.size /\ TooLittle(b, need) ->
            {[ok |-> FALSE, b |-> [b EXCEPT !.null = TRUE]]}
       [] need <= b.max /\ need > b.size /\ ~TooLittle(b, need) ->
            {[ok |-> FALSE, b |-> b],
             [ok |-> TRUE, b |-> [b EXCEPT !.size = NewSize(b, need), !.cur = 0]]}
       [] need <= b.max /\ need <= b.size ->
            {[ok |-> TRUE, b |-> IF b.size - b.cur < need THEN [b EXCEPT !.cur = 0] ELSE b]}

(* AppendData *)
AppendData(b, cells) ==
  {[ok |-> r.ok, b |-> IF r.ok THEN [r.b EXCEPT !.data = @ \o cells] ELSE r.b] :
     r \in Resize(b, Len(cells))}

Shortened(b, n) == [b EXCEPT !.data = SubSeq(@, 1, Len(@) - n)]

Header(n) == [i \in 1 .. HeaderSize |-> [is |-> "len", of |-> n]]
Bytes(text) == [i \in 1 .. Len(text) |-> [is |-> "byte", of |-> text[i]]]

Result(b, n) == buf' = b /\ msgs' = msgs + n

(* Mutant: the text goes in before what tells its type or its client. *)
AddMsgTextFirst(prefix, text) ==
  \E h \in AppendData(buf, Header(Len(prefix) + Len(text))) :
    \/ ~h.ok /\ Result(h.b, 0)
    \/ /\ h.ok
       /\ \E p \in AppendData(h.b, Bytes(text)) :
            \/ ~p.ok /\ Result(Shortened(p.b, HeaderSize), 0)
            \/ /\ p.ok
               /\ \E t \in AppendData(p.b, Bytes(prefix)) :
                    \/ ~t.ok /\ Result(Shortened(t.b, HeaderSize + Len(text)), 0)
                    \/ t.ok /\ Result(t.b, 1)

(* AddMsg, with and without a type, and AddMsgCliData *)
AddMsg(prefix, text) ==
  \E h \in AppendData(buf, Header(Len(prefix) + Len(text))) :
    \/ ~h.ok /\ Result(h.b, 0)
    \/ /\ h.ok
       /\ \E p \in AppendData(h.b, Bytes(prefix)) :
            \/ ~p.ok /\ Result(Shortened(p.b, HeaderSize), 0)
            \/ /\ p.ok
               /\ \E t \in AppendData(p.b, Bytes(text)) :
                    \/ ~t.ok /\ Result(Shortened(t.b, HeaderSize + Len(prefix)), 0)
                    \/ t.ok /\ Result(t.b, 1)

(* SetDataConsumed *)
Consumed(b, n) ==
  [b EXCEPT !.data = SubSeq(@, n + 1, Len(@)),
            !.cur = IF Len(b.data) = n THEN 0 ELSE @ + n]

FirstLen(b) == HeaderSize + b.data[1].of

(* RemoveMsg, and one round of the loop of RemoveMsg(n, bytes), which ends *)
(* early, as RemoveAll does, when nothing is left                          *)
RemoveMsg ==
  /\ buf.data # <<>>
  /\ buf' = Consumed(buf, FirstLen(buf))
  /\ msgs' = msgs - 1

(* RemoveAll *)
RemoveAll ==
  /\ buf' = [buf EXCEPT !.data = <<>>, !.cur = 0]
  /\ msgs' = 0

(* Reserve: the maximum may rise; two thirds of it are asked for *)
Reserve(max_) ==
  LET raised == [buf EXCEPT !.max = IF max_ > @ THEN max_ ELSE @]
  IN IF max_ < Len(buf.data)
       THEN UNCHANGED dynVars
       ELSE \E r \in Resize(raised, ((max_ - Len(buf.data)) * 2) \div 3) : Result(r.b, 0)

(* What is copied (copyFrom) starts at the start of the new buffer. *)
Copy == buf' = [buf EXCEPT !.cur = 0] /\ UNCHANGED msgs

DynNext ==
  \/ RemoveAll
  \/ /\ ~buf.null
     /\ \/ \E prefix \in Tags, text \in Texts : AddMsg(prefix, text)
        \/ RemoveMsg
        \/ \E max_ \in Reserves : Reserve(max_)
        \/ Copy

DynSpec == DynInit /\ [][DynNext]_dynVars
-----------------------------------------------------------------------------
(* Where a reader that stands at the length of a message goes next. *)
NextEnd(cells) ==
  [at \in 0 .. Len(cells) |->
     IF /\ at < Len(cells)
        /\ cells[at + 1].is = "len"
        /\ at + HeaderSize + cells[at + 1].of <= Len(cells)
     THEN at + HeaderSize + cells[at + 1].of ELSE at]

(* Where it stands after i messages. *)
Ends(cells) ==
  LET end[i \in 0 .. Len(cells)] == IF i = 0 THEN 0 ELSE NextEnd(cells)[end[i - 1]]
  IN end

(* The messages it finds. *)
Parsed(cells) ==
  [i \in {j \in 1 .. Len(cells) : Ends(cells)[j - 1] # Ends(cells)[j]} |->
     SubSeq(cells, Ends(cells)[i - 1] + HeaderSize + 1, Ends(cells)[i])]

Framed == {Bytes(p \o t) : p \in Tags, t \in Texts}

Readable == IF buf.null THEN <<>> ELSE Parsed(buf.data)

Queue == INSTANCE MessageQueue WITH Bodies <- Framed, queue <- Readable

(* The messages leave in order and whole, and one that is refused at any   *)
(* of its parts changes nothing, unless the buffer has come so near its    *)
(* maximum that resize gives it up (DynMsg.h:44-95, DynBuffer.h:93-97).    *)
ImplementsQueueOrNull == [][buf'.null \/ Queue!QueueNext]_dynVars

(* What is in the buffer lies inside it, is exactly the messages counted,  *)
(* and the buffer is inside its limits (DynBuffer.h:202, DynMsg.h:15).     *)
WellFramed ==
  /\ ~buf.null => buf.cur + Len(buf.data) <= buf.size
  /\ buf.size <= buf.max
  /\ Len(Parsed(buf.data)) = msgs
  /\ Ends(buf.data)[Len(buf.data)] = Len(buf.data)
=============================================================================
