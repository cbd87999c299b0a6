----------------------------- MODULE GameProofs -----------------------------
(***************************************************************************)
(* Facts about the operations of Game, for every set of rules that meets   *)
(* RulesAssumption.                                                        *)
(***************************************************************************)
EXTENDS Game, SequencesExt, SequenceTheorems, TLAPS

(***************************************************************************)
(* New returns a well-formed game.                                         *)
(***************************************************************************)
LEMMA NewGameType ==
  ASSUME NEW color \in Colors
  PROVE  NewGame(color) \in Game
BY DEF NewGame, Game, Results

(***************************************************************************)
(* A move that ApplyMove accepts extends the list by one legal move, keeps *)
(* the ply equal to its length, and ends the game exactly when the rules   *)
(* say so.                                                                 *)
(***************************************************************************)
LEMMA ApplyMoveType ==
  ASSUME NEW g \in Game, NEW color, NEW uci \in Moves, CanApplyMove(g, color, uci)
  PROVE  /\ ApplyMove(g, uci) \in Game
         /\ ApplyMove(g, uci).moves = Append(g.moves, uci)
         /\ ApplyMove(g, uci).moves \in Positions
         /\ ApplyMove(g, uci).ply = Len(g.moves) + 1
         /\ ApplyMove(g, uci).playerColor = g.playerColor
         /\ ApplyMove(g, uci).status = "ongoing" <=>
              Outcome[Append(g.moves, uci)] = NoOutcome
<1> DEFINE moves == Append(g.moves, uci)
           over  == Outcome[moves] # NoOutcome
<1>1. g.moves \in Seq(Moves) /\ g.ply \in Nat /\ g.status = "ongoing"
  BY DEF Game, CanApplyMove
<1>2. moves \in Positions /\ moves \in Seq(Moves) /\ Len(moves) = Len(g.moves) + 1
  BY <1>1 DEF CanApplyMove, LegalMoves
<1>3. Outcome[moves] \in Results \cup {NoOutcome}
  BY <1>2, RulesAssumption
<1>4. ApplyMove(g, uci) =
        [g EXCEPT !.moves = moves, !.ply = Len(moves),
                  !.status = IF over THEN "finished" ELSE @,
                  !.result = IF over THEN Outcome[moves] ELSE @,
                  !.termination = IF over THEN "board" ELSE @]
  BY DEF ApplyMove
<1> HIDE DEF moves
<1>5. Len(moves) \in Nat
  BY <1>2
<1>6. ApplyMove(g, uci) \in Game
  BY <1>2, <1>3, <1>4, <1>5 DEF Game
<1> QED
  BY <1>1, <1>2, <1>4, <1>6 DEF moves

(***************************************************************************)
(* A resignation finishes the game and changes neither moves nor ply.      *)
(***************************************************************************)
LEMMA ResignType ==
  ASSUME NEW g \in Game, NEW color \in Colors
  PROVE  /\ Resign(g, color) \in Game
         /\ Resign(g, color).moves = g.moves
         /\ Resign(g, color).ply = g.ply
         /\ Resign(g, color).playerColor = g.playerColor
         /\ Resign(g, color).status = "finished"
BY DEF Resign, Game, Results

-----------------------------------------------------------------------------
(***************************************************************************)
(* Prefixes.                                                               *)
(***************************************************************************)
LEMMA PrefixOfAppend ==
  ASSUME NEW ms \in Seq(Moves), NEW uci \in Moves, NEW n \in 0..Len(ms)
  PROVE  SubSeq(Append(ms, uci), 1, n) = SubSeq(ms, 1, n)
OBVIOUS

LEMMA PrefixReflexive ==
  ASSUME NEW ms \in Seq(Moves)
  PROVE  IsPrefix(ms, ms)
BY DEF IsPrefix

LEMMA PrefixGrows ==
  ASSUME NEW ms \in Seq(Moves), NEW before \in Seq(Moves), NEW uci \in Moves,
         IsPrefix(ms, before)
  PROVE  IsPrefix(ms, Append(before, uci))
<1>1. Len(ms) \in 0..Len(before) /\ SubSeq(ms, 1, Len(ms)) = SubSeq(before, 1, Len(ms))
  BY DEF IsPrefix
<1>2. Len(Append(before, uci)) = Len(before) + 1
  OBVIOUS
<1>3. SubSeq(Append(before, uci), 1, Len(ms)) = SubSeq(before, 1, Len(ms))
  BY <1>1, PrefixOfAppend
<1> QED
  BY <1>1, <1>2, <1>3 DEF IsPrefix

LEMMA PrefixTransitive ==
  ASSUME NEW s \in Seq(Moves), NEW t \in Seq(Moves), NEW u \in Seq(Moves),
         IsPrefix(s, t), IsPrefix(t, u)
  PROVE  IsPrefix(s, u)
<1>1. PICK n \in Nat, m \in Nat : n = Len(s) /\ m = Len(t)
  OBVIOUS
<1>2. n <= m /\ m <= Len(u) /\ s = SubSeq(t, 1, n) /\ t = SubSeq(u, 1, m)
  BY <1>1, SubSeqFull DEF IsPrefix
<1>3. SubSeq(t, 1, n) = SubSeq(u, 1, n)
  BY <1>1, <1>2
<1> QED
  BY <1>1, <1>2, <1>3, SubSeqFull DEF IsPrefix

(***************************************************************************)
(* A prefix that is not shorter is the whole list.                         *)
(***************************************************************************)
LEMMA WholePrefix ==
  ASSUME NEW ms \in Seq(Moves), NEW all \in Seq(Moves), IsPrefix(ms, all),
         Len(ms) = Len(all)
  PROVE  ms = all
BY SubSeqFull DEF IsPrefix

(***************************************************************************)
(* Of two prefixes of one list the shorter is a prefix of the longer.      *)
(***************************************************************************)
LEMMA PrefixesCompare ==
  ASSUME NEW s \in Seq(Moves), NEW t \in Seq(Moves), NEW all \in Seq(Moves),
         IsPrefix(s, all), IsPrefix(t, all), Len(s) <= Len(t)
  PROVE  IsPrefix(s, t)
<1>1. PICK n \in Nat, m \in Nat : n = Len(s) /\ m = Len(t)
  OBVIOUS
<1>2. n <= m /\ m <= Len(all) /\ s = SubSeq(all, 1, n) /\ t = SubSeq(all, 1, m)
  BY <1>1, SubSeqFull DEF IsPrefix
<1>3. SubSeq(t, 1, n) = SubSeq(all, 1, n)
  BY <1>1, <1>2
<1> QED
  BY <1>1, <1>2, <1>3, SubSeqFull DEF IsPrefix

=============================================================================
