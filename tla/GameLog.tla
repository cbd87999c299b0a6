------------------------------- MODULE GameLog ------------------------------
(***************************************************************************)
(* What the arena promises about the moves of a game, with no processes,   *)
(* queues or failures in it: each game is a log of legal moves.  A game    *)
(* starts with an empty log, each step appends one move that the rules     *)
(* allow in a position that is not over, and a forgotten game is gone for  *)
(* good.  Arena implements this under every failure it models.             *)
(***************************************************************************)
EXTENDS Game

CONSTANTS NotStarted,   \* the log of a game that has not started
          Gone          \* the log of a game that was forgotten

VARIABLE log

LogInit == log = [id \in GameIds |-> NotStarted]

Start(id) ==
  /\ log[id] = NotStarted
  /\ log' = [log EXCEPT ![id] = <<>>]

Play(id, uci) ==
  /\ log[id] \in Positions
  /\ Outcome[log[id]] = NoOutcome
  /\ uci \in LegalMoves(log[id])
  /\ log' = [log EXCEPT ![id] = Append(@, uci)]

Forget(id) == log' = [log EXCEPT ![id] = Gone]

LogNext ==
  \E id \in GameIds : Start(id) \/ Forget(id) \/ \E uci \in Moves : Play(id, uci)

LogSpec == LogInit /\ [][LogNext]_log

=============================================================================
