-------------------------------- MODULE Games -------------------------------
(***************************************************************************)
(* The two games of src/cpp11.                                             *)
(***************************************************************************)
EXTENDS Integers, Sequences, FiniteSets, SequencesExt

-----------------------------------------------------------------------------
(***************************************************************************)
(* Board and the game loop of src/cpp11/MineSweeper.cpp, on square boards: *)
(* the constructor and shuffleBoard index with i / r, i % c and i / rows,  *)
(* i % rows, which leave other boards.  Moves that are refused (off the    *)
(* board, an open cell) change nothing.                                    *)
(***************************************************************************)

CONSTANTS rows, mines, MaxMarked  (* MaxMarked bounds the marked cells     *)

ASSUME BoardAssumption == rows \in Nat \ {0} /\ mines \in 0 .. rows * rows

VARIABLES
  bomb,    (* the cells with a mine                                        *)
  state, opened,
  game     (* "on", "lost" or "won"                                        *)

boardVars == <<bomb, state, opened, game>>

Places == (0 .. rows - 1) \X (0 .. rows - 1)
dir == {-1, 0, 1} \X {-1, 0, 1} \ {<<0, 0>>}
Around(p) == {<<p[1] + d[1], p[2] + d[2]>> : d \in dir} \cap Places

(* computeMinesAroundCell, where there is no mine *)
MinesAround(p) == Cardinality(Around(p) \cap bomb)
Blank(p) == p \notin bomb /\ MinesAround(p) = 0

(* The mines shuffleBoard may leave: any. *)
BoardInit ==
  /\ bomb \in {B \in SUBSET Places : Cardinality(B) = mines}
  /\ state = [p \in Places |-> "Unopened"]
  /\ opened = 0 /\ game = "on"
-----------------------------------------------------------------------------
(* The neighbours of a blank cell openBlankCells opens. *)
ToOpen(p, open) == {c \in Around(p) : c \notin open /\ c \notin bomb}

(* openBlankCells: queue q of blank cells, the open cells and how many     *)
(* were opened; the order within a neighbourhood changes nothing           *)
RECURSIVE OpenBlankCells(_, _, _)
OpenBlankCells(q, open, n) ==
  IF q = <<>> THEN [open |-> open, n |-> n]
  ELSE LET new == ToOpen(Head(q), open)
       IN OpenBlankCells(Tail(q) \o SetToSeq({c \in new \ open : Blank(c)}),
                         open \cup new, n + Cardinality(new))

OpenCells == {p \in Places : state[p] = "Opened"}

Play(p) ==
  /\ game = "on" /\ state[p] # "Opened"
  /\ IF p \in bomb
     THEN game' = "lost" /\ UNCHANGED <<state, opened>>
     ELSE LET now == OpenCells \cup {p}
              all == IF Blank(p) THEN OpenBlankCells(<<p>>, now, opened + 1)
                     ELSE [open |-> now, n |-> opened + 1]
          IN /\ state' = [c \in Places |-> IF c \in all.open THEN "Opened" ELSE state[c]]
             /\ opened' = all.n
             /\ game' = IF all.n + mines = rows * rows THEN "won" ELSE "on"
  /\ UNCHANGED bomb

Mark(p) ==
  /\ game = "on"
  /\ \/ /\ state[p] = "Unopened" /\ state' = [state EXCEPT ![p] = "Marked"]
        /\ Cardinality({c \in Places : state[c] = "Marked"}) < MaxMarked
     \/ state[p] = "Marked" /\ state' = [state EXCEPT ![p] = "Unopened"]
  /\ UNCHANGED <<bomb, opened, game>>

BoardNext == \E p \in Places : Play(p) \/ Mark(p)

BoardSpec == BoardInit /\ [][BoardNext]_boardVars
-----------------------------------------------------------------------------
(* The game is won exactly when every cell without a mine is open: each    *)
(* opened cell is counted once, however the blank areas meet, marked cells *)
(* in them included (MineSweeper.cpp:54-71, 82-94, 126-128).               *)
WonMeansCleared ==
  /\ OpenCells \cap bomb = {}
  /\ (game = "won") = (OpenCells = Places \ bomb)

(* Nothing next to an open blank cell is left closed                       *)
(* (MineSweeper.cpp:54-71).                                                *)
BlanksAreCleared == \A p \in OpenCells : Blank(p) => Around(p) \subseteq OpenCells

-----------------------------------------------------------------------------
(***************************************************************************)
(* TicTacToeBoard of src/cpp11/TicTacToe.cpp: a game of the player "X" and *)
(* the computer "O", who move in turn, and the move find_best_move         *)
(* proposes, with minimax and alpha-beta pruning.                          *)
(***************************************************************************)

CONSTANTS
  Start,   (* the boards a game may start from                             *)
  MaxBlank (* the most blank cells find_best_move is asked about           *)

VARIABLES board, turn

gameVars == <<board, turn>>

BoardCells == 0 .. 8
Lines == {<<0, 1, 2>>, <<3, 4, 5>>, <<6, 7, 8>>, <<0, 3, 6>>, <<1, 4, 7>>,
          <<2, 5, 8>>, <<2, 4, 6>>, <<0, 4, 8>>}

Other(p) == IF p = "X" THEN "O" ELSE "X"
BlankCells(b) == {s \in BoardCells : b[s] = " "}
Won(b, p) == \E l \in Lines : \A i \in 1 .. 3 : b[l[i]] = p

(* evaluate and game_over *)
Evaluate(b) == IF Won(b, "X") THEN 10 ELSE IF Won(b, "O") THEN -10 ELSE 0
GameOver(b) == BlankCells(b) = {}

BestScore(p, a, b) == IF (p = "X") = (a > b) THEN a ELSE b
-----------------------------------------------------------------------------
(* Mutant: every node narrows the window at both ends. *)
NarrowedBoth(p, alpha, beta, score) ==
  <<IF score > alpha THEN score ELSE alpha, IF score < beta THEN score ELSE beta>>

(* alpha and beta after a move that brings the score of the node to score *)
Narrowed(p, alpha, beta, score) ==
  <<IF p = "X" /\ score > alpha THEN score ELSE alpha,
    IF p = "O" /\ score < beta THEN score ELSE beta>>

RECURSIVE Minimax(_, _, _, _, _), TryFrom(_, _, _, _, _, _, _)

(* The two loops of minimax from square s on, with the score so far.  The  *)
(* break leaves the row: the next square is the first of the next row.     *)
TryFrom(s, b, depth, p, alpha, beta, score) ==
  IF s > 8 THEN score
  ELSE IF b[s] # " " THEN TryFrom(s + 1, b, depth, p, alpha, beta, score)
  ELSE LET new == BestScore(p, score, Minimax([b EXCEPT ![s] = p], depth + 1, Other(p), alpha, beta))
           w == Narrowed(p, alpha, beta, new)
       IN TryFrom(IF w[2] <= w[1] THEN 3 * (s \div 3) + 3 ELSE s + 1,
                  b, depth, p, w[1], w[2], new)

Minimax(b, depth, p, alpha, beta) ==
  CASE Evaluate(b) = 10 -> 10 - depth
    [] Evaluate(b) = -10 -> -10 + depth
    [] Evaluate(b) = 0 /\ GameOver(b) -> 0
    [] OTHER -> TryFrom(0, b, depth, p, alpha, beta, IF p = "X" THEN -1000 ELSE 1000)

(* find_best_move: the first square with the best score *)
Score(b, p, s) == Minimax([b EXCEPT ![s] = p], 0, Other(p), -10000, 10000)

FindBestMove(b, p) ==
  CHOOSE s \in BlankCells(b) :
    \A t \in BlankCells(b) :
      /\ BestScore(p, Score(b, p, s), Score(b, p, t)) = Score(b, p, s)
      /\ t < s => Score(b, p, t) # Score(b, p, s)
-----------------------------------------------------------------------------
GameInit == board \in Start /\ turn \in {"X", "O"}

(* set_move *)
SetMove(s) ==
  /\ Evaluate(board) = 0 /\ board[s] = " "
  /\ board' = [board EXCEPT ![s] = turn]
  /\ turn' = Other(turn)

GameNext == \E s \in BoardCells : SetMove(s)

GameSpec == GameInit /\ [][GameNext]_gameVars
-----------------------------------------------------------------------------
(* How a game ends when both sides play for the soonest win and the latest *)
(* loss, without pruning.                                                  *)
RECURSIVE Worth(_, _, _)
Worth(b, p, depth) ==
  IF Evaluate(b) # 0 THEN (IF Evaluate(b) > 0 THEN 10 - depth ELSE depth - 10)
  ELSE IF GameOver(b) THEN 0
  ELSE LET ends == {Worth([b EXCEPT ![s] = p], Other(p), depth + 1) : s \in BlankCells(b)}
       IN CHOOSE w \in ends : \A v \in ends : BestScore(p, w, v) = w

(* Pruning does not change the move: find_best_move proposes one with the  *)
(* best end for the side that is to move (TicTacToe.cpp:48-98).            *)
ProposesBest ==
  (Evaluate(board) = 0 /\ Cardinality(BlankCells(board)) \in 1 .. MaxBlank) =>
    LET ends == [s \in BlankCells(board) |-> Worth([board EXCEPT ![s] = turn], Other(turn), 0)]
        proposed == FindBestMove(board, turn)
    IN \A s \in BlankCells(board) : BestScore(turn, ends[proposed], ends[s]) = ends[proposed]
=============================================================================
