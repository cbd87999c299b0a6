-------------------------------- MODULE Game --------------------------------
(***************************************************************************)
(* The chess domain of internal/game: a game is a list of moves plus       *)
(* metadata, and two operations change it, ApplyMove and Resign.           *)
(*                                                                         *)
(* The rules of chess come from the library notnil/chess.  Here they are   *)
(* two constants: Positions, the move lists the library can replay, and    *)
(* Outcome, the result it reports after each of them.  Chess is finite     *)
(* (the seventy-five-move rule ends every game), so Positions is a finite  *)
(* prefix-closed set of sequences; a run takes a small one.                *)
(***************************************************************************)
EXTENDS Integers, Sequences

CONSTANTS GameIds,    \* the identifiers uuid.NewString can return
          Moves,      \* moves in UCI notation, trimmed and lower-cased
          Positions,  \* the move lists that are legal from the first move on
          Outcome     \* Outcome[ms]: the library's verdict after ms

Colors    == {"white", "black"}
Results   == {"1-0", "0-1", "1/2-1/2"}
NoOutcome == "*"

(***************************************************************************)
(* What the code relies on in the library: legality of a list implies      *)
(* legality of what came before, and a game that is not over can go on     *)
(* (a position without legal moves is mate or stalemate).                  *)
(***************************************************************************)
ASSUME RulesAssumption ==
  /\ Positions \subseteq Seq(Moves)
  /\ <<>> \in Positions
  /\ \A ms \in Positions :
       ms # <<>> => SubSeq(ms, 1, Len(ms) - 1) \in Positions
  /\ Outcome \in [Positions -> Results \cup {NoOutcome}]
  /\ Outcome[<<>>] = NoOutcome
  /\ \A ms \in Positions :
       Outcome[ms] = NoOutcome => \E m \in Moves : Append(ms, m) \in Positions

LegalMoves(ms) == {m \in Moves : Append(ms, m) \in Positions}

(***************************************************************************)
(* The stored record.  Times are left out, and Termination keeps only what *)
(* distinguishes its origin: "board" stands for the names methodString     *)
(* gives to the endings the library reports.                               *)
(***************************************************************************)
Game == [moves       : Seq(Moves),
         ply         : Nat,
         playerColor : Colors,
         status      : {"ongoing", "finished"},
         result      : Results \cup {""},
         termination : {"board", "resignation", ""}]

NewGame(playerColor) ==
  [moves |-> <<>>, ply |-> 0, playerColor |-> playerColor,
   status |-> "ongoing", result |-> "", termination |-> ""]

OtherColor(color) == IF color = "white" THEN "black" ELSE "white"

EngineColor(g) == OtherColor(g.playerColor)

Turn(g) == IF Len(g.moves) % 2 = 0 THEN "white" ELSE "black"

(***************************************************************************)
(* Two versions of the same checks with one forgotten, and a version of    *)
(* ApplyMove that stores the outcome before it looks whether there is one. *)
(* They are what the properties are there to notice.                       *)
(***************************************************************************)
ApplyToFinished(g, color, uci) ==
  Turn(g) = color /\ uci \in LegalMoves(g.moves)

ApplyOutOfTurn(g, color, uci) ==
  g.status # "finished" /\ uci \in LegalMoves(g.moves)

ApplyStoresNoOutcome(g, uci) ==
  LET moves == Append(g.moves, uci)
      over  == Outcome[moves] # NoOutcome
  IN  [g EXCEPT !.moves       = moves,
                !.ply         = Len(moves),
                !.status      = IF over THEN "finished" ELSE @,
                !.result      = Outcome[moves],
                !.termination = IF over THEN "board" ELSE @]

(***************************************************************************)
(* The checks of ApplyMove, in the code's order.  A call that fails one of *)
(* them returns that error and leaves the game as it was.                  *)
(***************************************************************************)
CanApplyMove(g, color, uci) ==
  /\ g.status # "finished"          \* ErrFinished
  /\ Turn(g) = color                \* ErrNotYourTurn
  /\ g.moves \in Positions          \* replay error
  /\ uci \in LegalMoves(g.moves)    \* ErrIllegalMove

ApplyMove(g, uci) ==
  LET moves == Append(g.moves, uci)
      over  == Outcome[moves] # NoOutcome
  IN  [g EXCEPT !.moves       = moves,
                !.ply         = Len(moves),
                !.status      = IF over THEN "finished" ELSE @,
                !.result      = IF over THEN Outcome[moves] ELSE @,
                !.termination = IF over THEN "board" ELSE @]

(***************************************************************************)
(* Resign fails on a finished game only.  It does not touch Ply.           *)
(***************************************************************************)
CanResign(g) == g.status # "finished"

Resign(g, color) ==
  [g EXCEPT !.status      = "finished",
            !.termination = "resignation",
            !.result      = IF color = "white" THEN "0-1" ELSE "1-0"]

=============================================================================
