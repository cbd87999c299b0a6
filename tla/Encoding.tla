------------------------------ MODULE Encoding ------------------------------
(***************************************************************************)
(* internal/engine/encode.go: moves as indices of the 4096-way policy head *)
(* and back.  The index keeps the two squares and drops the piece a pawn   *)
(* promotes to; the way back restores a queen.  A move stands for its UCI  *)
(* string.                                                                 *)
(***************************************************************************)
EXTENDS Integers

Squares == 0..63            \* a1 is 0, h1 is 7, h8 is 63

PolicySize == 4096

ChessMove == [from : Squares, to : Squares, promo : {"", "q", "r", "b", "n"}]

LastRank(sq) == sq \div 8 \in {0, 7}

(***************************************************************************)
(* A move carries a promotion piece exactly if it takes a pawn to a last   *)
(* rank; pawns is the set of squares that hold one.                        *)
(***************************************************************************)
PromotesRightly(m, pawns) ==
  m.promo # "" <=> m.from \in pawns /\ LastRank(m.to)

MoveIndex(m) == m.from * 64 + m.to

(***************************************************************************)
(* The way back with the promotion forgotten.                              *)
(***************************************************************************)
IndexUCINoQueen(idx, pawns) ==
  [from |-> idx \div 64, to |-> idx % 64, promo |-> ""]

IndexUCI(idx, pawns) ==
  LET from == idx \div 64
      to   == idx % 64
  IN  [from |-> from, to |-> to,
       promo |-> IF from \in pawns /\ LastRank(to) THEN "q" ELSE ""]

Folded(m) ==
  [from |-> m.from, to |-> m.to, promo |-> IF m.promo = "" THEN "" ELSE "q"]

=============================================================================
