------------------------------- MODULE Engine -------------------------------
(***************************************************************************)
(* internal/engine: one call of BestMove, for each of the three engines    *)
(* NewFromEnv may build: the material searcher, the network's policy, and  *)
(* the tree search over the network (MCTS).                                *)
(*                                                                         *)
(* The call searches a tree of positions, each named by the moves that     *)
(* lead to it from the position of the call, <<>>.  What the network or    *)
(* the material count says of a position is any integer, from the side to  *)
(* move; which child the search descends to is any child, because the      *)
(* priors of the PUCT formula are the network's.                           *)
(***************************************************************************)
EXTENDS Encoding, Sequences, SequencesExt, FiniteSets

CONSTANTS Boards,       \* what the calls see: pos.Status() of every position
          PawnSquares,  \* where pawns stand in the position of the call
          Scores,       \* what an evaluation may answer
          Budgets,      \* values of ENGINE_SIMS
          Horizon,      \* length at which a board's tree may be cut off
          Pending,      \* the reply of a call that has not returned
          Failed        \* the reply of a call that returned an error

FirstMoves(b) == {Last(p) : p \in {q \in DOMAIN b : q # <<>> /\ Front(q) = <<>>}}

(***************************************************************************)
(* A tree of lines that stops only where the game ends or at the horizon.  *)
(* A pawn that may promote may promote to a queen.                         *)
(***************************************************************************)
ASSUME EngineAssumption ==
  /\ Horizon \in Nat /\ Horizon >= 2
  /\ Budgets \subseteq 0..Horizon
  /\ Scores \subseteq Int
  /\ PawnSquares \subseteq Squares

ASSUME BoardsAssumption ==
  \A b \in Boards :
    /\ DOMAIN b \subseteq Seq(ChessMove) /\ IsFiniteSet(DOMAIN b)
    /\ <<>> \in DOMAIN b /\ b[<<>>] = "open"
    /\ \A p \in DOMAIN b :
         /\ b[p] \in {"open", "checkmate", "stalemate"}
         /\ p # <<>> => Front(p) \in DOMAIN b /\ b[Front(p)] = "open"
         /\ b[p] = "open" /\ Len(p) < Horizon =>
              \E q \in DOMAIN b : q # <<>> /\ Front(q) = p

ASSUME MovesAssumption ==
  \A b \in Boards : \A m \in FirstMoves(b) :
    m \in ChessMove /\ PromotesRightly(m, PawnSquares) /\ Folded(m) \in FirstMoves(b)

VARIABLES kind,         \* the engine NewFromEnv built
          budget,       \* MCTS.sims
          status,       \* the board of this call
          score,        \* the evaluator's or the material count's answers
          node,         \* where the running simulation has descended to
          expanded,     \* tree nodes that have children
          visits, valueSum,
          reply         \* Pending, Failed or the move returned

input == <<kind, budget, status, score>>
tree  == <<node, expanded, visits, valueSum>>
vars  == <<input, tree, reply>>

Tree  == DOMAIN status
Open  == {p \in Tree : status[p] = "open"}
Children(p) == {q \in Tree : q # <<>> /\ Front(q) = p}
ValidMoves  == FirstMoves(status)
Played(m)   == <<m>>

(***************************************************************************)
(* The model file and the runtime library decide whether there is a        *)
(* network, ENGINE_SIMS whether its policy is searched with.               *)
(***************************************************************************)
NewFromEnv(hasNetwork, sims) ==
  IF ~hasNetwork THEN "material" ELSE IF sims > 1 THEN "mcts" ELSE "policy"

Init ==
  /\ budget \in Budgets
  /\ \E hasNetwork \in BOOLEAN : kind = NewFromEnv(hasNetwork, budget)
  /\ status \in Boards
  /\ score \in [Open -> Scores]
  /\ node = <<>> /\ expanded = {}
  /\ visits = [p \in Tree |-> 0] /\ valueSum = [p \in Tree |-> 0]
  /\ reply = Pending

Return(m) == reply' = IndexUCI(MoveIndex(m), PawnSquares)

-----------------------------------------------------------------------------
(***************************************************************************)
(* The material searcher: negamax to two plies.  Its count of a position   *)
(* is taken from the side to move.                                         *)
(***************************************************************************)
MateScore == 100000

(***************************************************************************)
(* The same search with one side's sign forgotten.                         *)
(***************************************************************************)
NegamaxKeepsSign(pos) ==
  LET value[p \in {q \in Tree : Len(q) <= 2}] ==
        IF status[p] = "checkmate" THEN -MateScore
        ELSE IF status[p] = "stalemate" THEN 0
        ELSE IF Len(p) = 2 THEN score[p]
        ELSE Max({value[q] : q \in Children(p)})
  IN  value[pos]

Negamax(pos) ==
  LET value[p \in {q \in Tree : Len(q) <= 2}] ==
        IF status[p] = "checkmate" THEN -MateScore
        ELSE IF status[p] = "stalemate" THEN 0
        ELSE IF Len(p) = 2 THEN score[p]
        ELSE Max({-value[q] : q \in Children(p)})
  IN  value[pos]

PlayMaterial ==
  /\ kind = "material" /\ reply = Pending
  /\ \E m \in ValidMoves :
       /\ \A n \in ValidMoves : -Negamax(Played(m)) >= -Negamax(Played(n))
       /\ Return(m)
  /\ UNCHANGED <<input, tree>>

(***************************************************************************)
(* The policy alone: the legal move with the highest logit.                *)
(***************************************************************************)
PlayPolicy ==
  /\ kind = "policy" /\ reply = Pending
  /\ \E m \in ValidMoves : Return(m)
  /\ UNCHANGED <<input, tree>>

-----------------------------------------------------------------------------
(***************************************************************************)
(* The tree search.  Before it starts, a move that mates is returned.      *)
(***************************************************************************)
Mates == {m \in ValidMoves : status[Played(m)] = "checkmate"}

MateProbe ==
  /\ kind = "mcts" /\ reply = Pending /\ expanded = {}
  /\ \E m \in Mates : Return(m)
  /\ UNCHANGED <<input, tree>>

(***************************************************************************)
(* A search that starts without the probe.                                 *)
(***************************************************************************)
ExpandRootUnprobed ==
  /\ kind = "mcts" /\ reply = Pending /\ expanded = {}
  /\ expanded' = {<<>>}
  /\ UNCHANGED <<input, node, visits, valueSum, reply>>

ExpandRoot ==
  /\ kind = "mcts" /\ reply = Pending /\ expanded = {}
  /\ Mates = {}
  /\ expanded' = {<<>>}
  /\ UNCHANGED <<input, node, visits, valueSum, reply>>

Searching ==
  kind = "mcts" /\ reply = Pending /\ expanded # {} /\ visits[<<>>] < budget

(***************************************************************************)
(* 1. Select: one step of the walk from the root to a leaf.                *)
(***************************************************************************)
Descend ==
  /\ Searching /\ node \in expanded
  /\ node' \in Children(node)
  /\ UNCHANGED <<input, expanded, visits, valueSum, reply>>

(***************************************************************************)
(* 3. Backpropagate along the path to leaf.  The value is the side to      *)
(* move's at the leaf and changes sign at every ply above it; the root     *)
(* counts its visits only.                                                 *)
(***************************************************************************)
OnPath(p, leaf) == IsPrefix(p, leaf)

Sign(p, leaf) == IF (Len(leaf) - Len(p)) % 2 = 0 THEN 1 ELSE -1

(***************************************************************************)
(* The same with the change of sign forgotten.                             *)
(***************************************************************************)
BackpropagateUnsigned(leaf, value) ==
  /\ visits' = [p \in Tree |-> visits[p] + IF OnPath(p, leaf) THEN 1 ELSE 0]
  /\ valueSum' = [p \in Tree |->
       valueSum[p] + IF p # <<>> /\ OnPath(p, leaf) THEN value ELSE 0]

Backpropagate(leaf, value) ==
  /\ visits' = [p \in Tree |-> visits[p] + IF OnPath(p, leaf) THEN 1 ELSE 0]
  /\ valueSum' = [p \in Tree |->
       valueSum[p] + IF p # <<>> /\ OnPath(p, leaf)
                     THEN Sign(p, leaf) * value ELSE 0]

TerminalValue(p) == IF status[p] = "checkmate" THEN -1 ELSE 0

(***************************************************************************)
(* 2. A leaf is expanded and evaluated unless the game ends there, and the *)
(* next simulation starts at the root.                                     *)
(***************************************************************************)
Simulate ==
  /\ Searching /\ node \notin expanded
  /\ IF node \in Open
     THEN expanded' = expanded \cup {node} /\ Backpropagate(node, score[node])
     ELSE UNCHANGED expanded /\ Backpropagate(node, TerminalValue(node))
  /\ node' = <<>>
  /\ UNCHANGED <<input, reply>>

MostVisited ==
  /\ kind = "mcts" /\ reply = Pending
  /\ expanded # {} /\ visits[<<>>] = budget
  /\ \E m \in ValidMoves :
       /\ \A n \in ValidMoves : visits[Played(m)] >= visits[Played(n)]
       /\ Return(m)
  /\ UNCHANGED <<input, tree>>

(***************************************************************************)
(* An inference that fails ends the call, whatever was searched so far.    *)
(***************************************************************************)
EvaluateFails ==
  /\ reply = Pending
  /\ \/ kind = "policy"
     \/ kind = "mcts" /\ expanded = {} /\ Mates = {}
     \/ Searching /\ node \in Open \ expanded
  /\ reply' = Failed
  /\ UNCHANGED <<input, tree>>

Next ==
  \/ PlayMaterial \/ PlayPolicy
  \/ MateProbe \/ ExpandRoot \/ Descend \/ Simulate \/ MostVisited
  \/ EvaluateFails

Spec == Init /\ [][Next]_vars

-----------------------------------------------------------------------------
Returned == reply \notin {Pending, Failed}

(***************************************************************************)
(* Whatever the engine, the network and the search do, the move returned   *)
(* is legal, although its promotion piece went through the policy index.   *)
(* (The worker relies on it: ApplyMove would fail every redelivery.)       *)
(***************************************************************************)
ReplyIsLegal == Returned => reply \in ValidMoves

(***************************************************************************)
(* "guarantees an immediate mate is never overlooked", mcts.go.            *)
(***************************************************************************)
MateNotOverlooked ==
  kind = "mcts" /\ Returned /\ Mates # {} => status[<<reply>>] = "checkmate"

(***************************************************************************)
(* Nothing is lost or counted twice between a node and its children, over  *)
(* all simulations: an expanded node was visited once to evaluate it and   *)
(* once for every visit of a child, and its value is its own evaluation    *)
(* less what its children are worth to the other side; a position where    *)
(* the game is over is worth its result at every visit.                    *)
(***************************************************************************)
SumOver(f, S) == FoldFunctionOnSet(+, 0, f, S)

TreeConsistent ==
  \A p \in Tree :
    LET below == Children(p)
    IN  IF p = <<>> THEN visits[p] = SumOver(visits, below)
        ELSE IF p \in expanded
        THEN /\ visits[p] = 1 + SumOver(visits, below)
             /\ valueSum[p] = score[p] - SumOver(valueSum, below)
        ELSE IF p \in Open THEN visits[p] = 0 /\ valueSum[p] = 0
        ELSE valueSum[p] = visits[p] * TerminalValue(p)

(***************************************************************************)
(* The material searcher plays a move whose worst reply is best for it.    *)
(* The reference says this without negamax: a mate given is worth the      *)
(* most, a mate received the least, and other positions after two plies    *)
(* what the count says to the side that moves in them, which is ours.      *)
(***************************************************************************)
ResultOf(q) ==
  IF status[q] = "checkmate" THEN -MateScore
  ELSE IF status[q] = "stalemate" THEN 0 ELSE score[q]

Guarantees(m, n) ==
  CASE status[Played(m)] = "checkmate" -> n <= MateScore
    [] status[Played(m)] = "stalemate" -> n <= 0
    [] OTHER -> \A q \in Children(Played(m)) : ResultOf(q) >= n

MaterialPlaysMaximin ==
  kind = "material" /\ Returned =>
    \E m \in ValidMoves :
      /\ reply = Folded(m)
      /\ \A n \in Scores \cup {0, MateScore, -MateScore} :
           (\E k \in ValidMoves : Guarantees(k, n)) => Guarantees(m, n)

=============================================================================
