----------------------------- MODULE MCWebClient ----------------------------
(***************************************************************************)
(* Instances of WebClient for TLC.                                         *)
(***************************************************************************)
EXTENDS WebClient, TLC

CONSTANTS a, b

(***************************************************************************)
(* White wins with a, a, a; the only way to lose or draw is to resign, or  *)
(* to play b.                                                              *)
(***************************************************************************)
ShortOutcome == <<>>     :> "*" @@ <<a>>       :> "*" @@
                <<a, a>> :> "*" @@ <<a, a, a>> :> "1-0"

SmallOutcome == ShortOutcome @@ <<b>> :> "0-1" @@ <<a, b>> :> "1/2-1/2"

ShortPositions == DOMAIN ShortOutcome
SmallPositions == DOMAIN SmallOutcome

=============================================================================
