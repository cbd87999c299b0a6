------------------------------- MODULE MCArena ------------------------------
(***************************************************************************)
(* Instances of Arena for TLC.                                             *)
(***************************************************************************)
EXTENDS Arena, TLC

CONSTANTS a, b, g1, g2, h1, h2, w1, w2, c1

(***************************************************************************)
(* A chess small enough to exhaust.  Playing a, b, a mates black; black    *)
(* mates with a, a; b is a draw by a rule that leaves legal moves on the   *)
(* board, so <<b, a>> can be replayed although nobody may play it.  A      *)
(* black player sees the engine move twice, at ply 0 and at ply 2.         *)
(***************************************************************************)
SmallOutcome ==
  << >>    :> "*"   @@ <<a>>    :> "*" @@ <<b>>       :> "1/2-1/2" @@
  <<b, a>> :> "0-1" @@
  <<a, a>> :> "0-1" @@ <<a, b>> :> "*" @@ <<a, b, a>> :> "1-0"

SmallPositions == DOMAIN SmallOutcome

AllFaults == FaultKinds

Symmetry == Permutations(Handlers) \cup Permutations(Workers)
              \cup Permutations(Watchers)

=============================================================================
