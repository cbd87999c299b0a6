------------------------------ MODULE MCEngine ------------------------------
(***************************************************************************)
(* Boards for Engine: White has a king move and a pawn on a7 that may      *)
(* promote to a queen or a knight; Black answers with one of two moves.    *)
(***************************************************************************)
EXTENDS Engine, TLC

Queen  == [from |-> 48, to |-> 56, promo |-> "q"]
Knight == [from |-> 48, to |-> 56, promo |-> "n"]
King   == [from |-> 1,  to |-> 9,  promo |-> ""]
Left   == [from |-> 63, to |-> 62, promo |-> ""]
Down   == [from |-> 63, to |-> 55, promo |-> ""]
Again  == [from |-> 9,  to |-> 17, promo |-> ""]

SmallPawns == {48}

Lines ==
  {<<>>, <<Queen>>, <<Knight>>, <<King>>,
   <<Queen, Left>>, <<Queen, Down>>, <<King, Left>>, <<King, Down>>,
   <<Knight, Left>>, <<Queen, Left, Again>>, <<King, Left, Again>>}

(***************************************************************************)
(* The lines up to the positions in ends, where the game is over.          *)
(***************************************************************************)
Board(ends) ==
  [p \in {q \in Lines : \A e \in DOMAIN ends : ~IsStrictPrefix(e, q)} |->
     IF p \in DOMAIN ends THEN ends[p] ELSE "open"]

Sidelines ==
  <<Queen, Down>> :> "stalemate" @@ <<King, Down>> :> "checkmate" @@
  <<Knight, Left>> :> "stalemate"

NoMateInOne == {Board(Sidelines),
                Board(Sidelines @@ <<King>> :> "stalemate"),
                Board(Sidelines @@ <<Queen, Left>> :> "checkmate")}

PlainMates == {Board(Sidelines @@ <<King>> :> "checkmate"),
               Board(Sidelines @@ <<Queen>> :> "checkmate")}

SmallBoards == NoMateInOne \cup PlainMates

KnightMates == {Board(Sidelines @@ <<Knight>> :> "checkmate")}

SmallScores == {-1, 1}

=============================================================================
