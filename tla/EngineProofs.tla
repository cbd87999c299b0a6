---------------------------- MODULE EngineProofs ----------------------------
(***************************************************************************)
(* For every board, network and number of simulations, BestMove returns a  *)
(* legal move: what the way through the policy index loses, the promotion  *)
(* piece, never makes a legal move illegal.                                *)
(***************************************************************************)
EXTENDS Engine, FiniteSetTheorems, TLAPS

(***************************************************************************)
(* A move's index is one of the policy head's outputs.                     *)
(***************************************************************************)
LEMMA IndexInRange ==
  ASSUME NEW m \in ChessMove
  PROVE  MoveIndex(m) \in 0..PolicySize - 1
<1>1. PICK x \in 0..63, y \in 0..63 : m.from = x /\ m.to = y
  BY DEF ChessMove, Squares
<1>2. MoveIndex(m) = x * 64 + y
  BY <1>1 DEF MoveIndex
<1>3. x * 64 + y \in 0..PolicySize - 1
  BY DEF PolicySize
<1>. QED
  BY <1>2, <1>3

(***************************************************************************)
(* The two squares can be read off the index.                              *)
(***************************************************************************)
LEMMA SquaresOfIndex ==
  ASSUME NEW m \in ChessMove
  PROVE  MoveIndex(m) \div 64 = m.from /\ MoveIndex(m) % 64 = m.to
<1>1. m.from \in 0..63 /\ m.to \in 0..63
  BY DEF ChessMove, Squares
<1>2. \A x, y \in 0..63 : (x * 64 + y) \div 64 = x /\ (x * 64 + y) % 64 = y
  BY SMT
<1>. QED
  BY <1>1, <1>2 DEF MoveIndex

(***************************************************************************)
(* IndexUCI gives back every legal move with its promotion folded into a   *)
(* queen: a queen promotion and a plain move exactly, an underpromotion as *)
(* the queen promotion between the same squares.                           *)
(***************************************************************************)
THEOREM RoundTrip ==
  ASSUME NEW pawns \in SUBSET Squares,
         NEW m \in ChessMove, PromotesRightly(m, pawns)
  PROVE  IndexUCI(MoveIndex(m), pawns) = Folded(m)
<1>1. IndexUCI(MoveIndex(m), pawns) =
        [from |-> m.from, to |-> m.to,
         promo |-> IF m.from \in pawns /\ LastRank(m.to) THEN "q" ELSE ""]
  BY SquaresOfIndex DEF IndexUCI
<1>2. Folded(m) = [from |-> m.from, to |-> m.to,
                   promo |-> IF m.promo = "" THEN "" ELSE "q"]
  BY DEF Folded
<1>3. CASE m.promo = ""
  BY <1>1, <1>2, <1>3 DEF PromotesRightly
<1>4. CASE m.promo # ""
  BY <1>1, <1>2, <1>4 DEF PromotesRightly
<1>. QED
  BY <1>3, <1>4

(***************************************************************************)
(* Two legal moves share an index exactly if they differ in the promotion  *)
(* piece only ("only via promotion folding", onnx.go).                     *)
(***************************************************************************)
THEOREM OnlyPromotionsShareAnIndex ==
  ASSUME NEW m \in ChessMove, NEW n \in ChessMove
  PROVE  MoveIndex(m) = MoveIndex(n) <=> m.from = n.from /\ m.to = n.to
<1>1. MoveIndex(m) = MoveIndex(n) => m.from = n.from /\ m.to = n.to
  BY SquaresOfIndex
<1>2. m.from = n.from /\ m.to = n.to => MoveIndex(m) = MoveIndex(n)
  BY DEF MoveIndex
<1>. QED
  BY <1>1, <1>2

-----------------------------------------------------------------------------
LegalInv == status \in Boards /\ ReplyIsLegal

(***************************************************************************)
(* Returning a legal move through its index leaves a legal reply.          *)
(***************************************************************************)
LEMMA ReturnIsLegal ==
  ASSUME status \in Boards, NEW m \in ValidMoves, Return(m)
  PROVE  reply' \in ValidMoves
<1>1. m \in ChessMove /\ PromotesRightly(m, PawnSquares)
  BY MovesAssumption DEF ValidMoves
<1>2. PawnSquares \in SUBSET Squares
  BY EngineAssumption
<1>3. reply' = Folded(m)
  BY <1>1, <1>2, RoundTrip DEF Return
<1>. QED
  BY <1>3, MovesAssumption DEF ValidMoves

(***************************************************************************)
(* Whatever engine is built, a move it returns is one the position allows. *)
(***************************************************************************)
THEOREM BestMoveIsLegal == Spec => []ReplyIsLegal
<1>1. Init => LegalInv
  BY DEF Init, LegalInv, ReplyIsLegal, Returned
<1>2. LegalInv /\ [Next]_vars => LegalInv'
  <2>. SUFFICES ASSUME LegalInv, [Next]_vars PROVE LegalInv'
    OBVIOUS
  <2>1. CASE PlayMaterial
    <3>1. PICK m \in ValidMoves : Return(m)
      BY <2>1 DEF PlayMaterial
    <3>. QED
      BY <2>1, <3>1, ReturnIsLegal
      DEF PlayMaterial, LegalInv, ReplyIsLegal, Returned, ValidMoves, input
  <2>2. CASE PlayPolicy
    <3>1. PICK m \in ValidMoves : Return(m)
      BY <2>2 DEF PlayPolicy
    <3>. QED
      BY <2>2, <3>1, ReturnIsLegal
      DEF PlayPolicy, LegalInv, ReplyIsLegal, Returned, ValidMoves, input
  <2>3. CASE MateProbe
    <3>1. PICK m \in ValidMoves : Return(m)
      BY <2>3 DEF MateProbe, Mates
    <3>. QED
      BY <2>3, <3>1, ReturnIsLegal
      DEF MateProbe, LegalInv, ReplyIsLegal, Returned, ValidMoves, input
  <2>4. CASE MostVisited
    <3>1. PICK m \in ValidMoves : Return(m)
      BY <2>4 DEF MostVisited
    <3>. QED
      BY <2>4, <3>1, ReturnIsLegal
      DEF MostVisited, LegalInv, ReplyIsLegal, Returned, ValidMoves, input
  <2>5. CASE ExpandRoot \/ Descend \/ Simulate \/ UNCHANGED vars
    <3>1. reply' = reply /\ status' = status
      BY <2>5 DEF ExpandRoot, Descend, Simulate, vars, input
    <3>. QED
      BY <3>1 DEF LegalInv, ReplyIsLegal, Returned, ValidMoves
  <2>6. CASE EvaluateFails
    BY <2>6 DEF EvaluateFails, LegalInv, ReplyIsLegal, Returned, input
  <2>. QED
    BY <2>1, <2>2, <2>3, <2>4, <2>5, <2>6 DEF Next
<1>3. LegalInv => ReplyIsLegal
  BY DEF LegalInv
<1>. QED
  BY <1>1, <1>2, <1>3, PTL DEF Spec

-----------------------------------------------------------------------------
(***************************************************************************)
(* Least elements.  They stand for induction: of the sets or numbers that  *)
(* are an exception, a least one is looked at.                             *)
(***************************************************************************)
LEMMA LeastNat ==
  ASSUME NEW B, B \subseteq Nat, B # {}
  PROVE  \E n \in B : \A m \in B : n <= m
<1>1. PICK n \in B : \A m \in B : ~(<<m, n>> \in OpToRel(<, Nat))
  BY NatLessThanWellFounded, WFMin, Zenon
<1>2. \A m \in B : ~(<<m, n>> \in {ss \in Nat \X Nat : ss[1] < ss[2]})
  BY <1>1, Zenon DEF OpToRel
<1>3. \A m \in B : n <= m
  <2> SUFFICES ASSUME NEW m \in B, m < n PROVE FALSE
    OBVIOUS
  <2>1. <<m, n>> \in {ss \in Nat \X Nat : ss[1] < ss[2]}
    OBVIOUS
  <2> QED
    BY <1>2, <2>1
<1> QED
  BY <1>3

LEMMA LargestValue ==
  ASSUME NEW S, IsFiniteSet(S), S # {}, NEW f \in [S -> Int]
  PROVE  \E x \in S : \A y \in S : f[x] >= f[y]
<1> DEFINE Good(T) == \E x \in T : \A y \in T : f[x] >= f[y]
           Bad == {T \in SUBSET S : T # {} /\ ~Good(T)}
<1>1. SUFFICES ASSUME Bad # {} PROVE FALSE
  OBVIOUS
<1>2. PICK T \in Bad : \A U \in Bad : ~(<<U, T>> \in StrictSubsetOrdering(S))
  <2>1. IsWellFoundedOn(StrictSubsetOrdering(S), FiniteSubsetsOf(S))
    BY FS_StrictSubsetOrderingWellFounded
  <2>2. Bad \subseteq FiniteSubsetsOf(S)
    BY FS_FiniteSubsetsOfFinite
  <2> HIDE DEF Bad
  <2> QED
    BY <1>1, <2>1, <2>2, WFMin
<1>3. PICK a \in T : TRUE
  BY <1>2
<1>4. CASE T = {a}
  BY <1>2, <1>4
<1>5. CASE T # {a}
  <2>1. T \ {a} \notin Bad
    <3>1. <<T \ {a}, T>> \in StrictSubsetOrdering(S)
      BY <1>2, <1>3 DEF StrictSubsetOrdering
    <3> HIDE DEF Bad
    <3> QED
      BY <1>2, <3>1
  <2>2. PICK x \in T \ {a} : \A y \in T \ {a} : f[x] >= f[y]
    BY <1>2, <1>3, <1>5, <2>1
  <2>3. f[x] \in Int /\ f[a] \in Int /\ \A y \in T : f[y] \in Int
    BY <1>2, <1>3, <2>2
  <2>4. CASE f[a] >= f[x]
    <3>1. \A y \in T : f[a] >= f[y]
      BY <2>2, <2>3, <2>4
    <3> QED
      BY <1>2, <1>3, <3>1
  <2>5. CASE f[x] >= f[a]
    <3>1. \A y \in T : f[x] >= f[y]
      BY <2>2, <2>3, <2>5
    <3> QED
      BY <1>2, <2>2, <3>1
  <2> QED
    BY <2>3, <2>4, <2>5
<1> QED
  BY <1>4, <1>5


Pick(s) == CHOOSE x \in s : TRUE

LEMMA SmallestSet ==
  ASSUME NEW S, IsFiniteSet(S), NEW Bad, Bad \subseteq SUBSET S, Bad # {}
  PROVE  \E T \in Bad : T # {} => Pick(T) \in T /\ T \ {Pick(T)} \notin Bad
<1>1. PICK T \in Bad : \A U \in Bad : ~(<<U, T>> \in StrictSubsetOrdering(S))
  <2>1. IsWellFoundedOn(StrictSubsetOrdering(S), FiniteSubsetsOf(S))
    BY FS_StrictSubsetOrderingWellFounded
  <2>2. Bad \subseteq FiniteSubsetsOf(S)
    BY FS_FiniteSubsetsOfFinite
  <2> QED
    BY <2>1, <2>2, WFMin
<1>2. ASSUME NEW x \in T PROVE <<T \ {x}, T>> \in StrictSubsetOrdering(S)
  BY DEF StrictSubsetOrdering
<1>3. T # {} => Pick(T) \in T
  BY DEF Pick
<1> QED
  BY <1>1, <1>2, <1>3

(***************************************************************************)
(* it gives the sum of f over each subset of S, as SumOver computes it.    *)
(***************************************************************************)
SumFrom(it, f, s) == IF s = {} THEN 0 ELSE f[Pick(s)] + it[s \ {Pick(s)}]
Sums(it, f, S)    == it = [s \in SUBSET S |-> SumFrom(it, f, s)]
Summable(f, S)    == IsFiniteSet(S) /\ \A x \in S : f[x] \in Int

LEMMA SumsExist ==
  ASSUME NEW f, NEW S, Summable(f, S)
  PROVE  \E it \in [SUBSET S -> Int] : Sums(it, f, S)
<1> DEFINE Upto(it, n) == \A s \in SUBSET S :
                            Cardinality(s) <= n => it[s] = SumFrom(it, f, s)
           Bad == {n \in Nat : ~\E it \in [SUBSET S -> Int] : Upto(it, n)}
<1> USE DEF Summable
<1>0. \A s \in SUBSET S : /\ IsFiniteSet(s) /\ Cardinality(s) \in Nat
                          /\ Cardinality(s) = 0 <=> s = {}
                          /\ Cardinality(s) <= Cardinality(S)
                          /\ \A x \in s : Cardinality(s \ {x}) = Cardinality(s) - 1
  BY FS_Subset, FS_CardinalityType, FS_EmptySet, FS_RemoveElement
<1>1. ASSUME NEW it \in [SUBSET S -> Int], NEW s \in SUBSET S
      PROVE  /\ SumFrom(it, f, s) \in Int
             /\ s # {} => Pick(s) \in s
  BY DEF SumFrom, Pick
<1>2. Bad = {}
  <2> SUFFICES ASSUME Bad # {} PROVE FALSE
    OBVIOUS
  <2>1. PICK n \in Bad : \A m \in Bad : n <= m
    BY LeastNat
  <2>2. CASE n = 0
    <3>1. [s \in SUBSET S |-> 0] \in [SUBSET S -> Int]
      OBVIOUS
    <3>2. Upto([s \in SUBSET S |-> 0], 0)
      BY <1>0 DEF SumFrom
    <3> QED
      BY <2>1, <2>2, <3>1, <3>2
  <2>3. CASE n # 0
    <3>1. n \in Nat /\ n - 1 \in Nat /\ n - 1 \notin Bad
      <4>1. n \in Nat
        BY <2>1
      <4>2. n - 1 \in Nat /\ ~(n <= n - 1)
        BY <4>1, <2>3
      <4> HIDE DEF Bad
      <4> QED
        BY <2>1, <4>1, <4>2
    <3>2. PICK it \in [SUBSET S -> Int] : Upto(it, n - 1)
      BY <3>1
    <3> DEFINE on == [s \in SUBSET S |-> SumFrom(it, f, s)]
    <3>3. on \in [SUBSET S -> Int]
      BY <1>1
    <3>4. ASSUME NEW s \in SUBSET S, Cardinality(s) <= n
          PROVE  on[s] = SumFrom(on, f, s)
      <4>1. CASE s = {}
        BY <4>1 DEF SumFrom
      <4>2. CASE s # {}
        <5>1. /\ Pick(s) \in s /\ s \ {Pick(s)} \in SUBSET S
              /\ Cardinality(s \ {Pick(s)}) <= n - 1
          <6>1. Pick(s) \in s
            BY <1>1, <3>2, <4>2
          <6>2. Cardinality(s \ {Pick(s)}) = Cardinality(s) - 1 /\ Cardinality(s) \in Nat
            BY <1>0, <6>1
          <6>3. s \ {Pick(s)} \in SUBSET S
            OBVIOUS
          <6> QED
            BY <3>1, <3>4, <6>1, <6>2, <6>3
        <5>2. it[s \ {Pick(s)}] = on[s \ {Pick(s)}]
          BY <3>2, <5>1
        <5> QED
          BY <4>2, <5>2 DEF SumFrom
      <4> QED
        BY <4>1, <4>2
    <3>5. Upto(on, n)
      BY <3>4
    <3> HIDE DEF on
    <3> QED
      BY <2>1, <3>3, <3>5
  <2> QED
    BY <2>2, <2>3
<1>3. Cardinality(S) \in Nat
  BY <1>0
<1>4. PICK it \in [SUBSET S -> Int] : Upto(it, Cardinality(S))
  BY <1>2, <1>3
<1>5. \A s \in SUBSET S : it[s] = SumFrom(it, f, s)
  BY <1>0, <1>4
<1>6. it = [s \in SUBSET S |-> it[s]]
  OBVIOUS
<1> QED
  BY <1>5, <1>6 DEF Sums

(***************************************************************************)
(* A summation: a number for every subset, none for the empty one and, for *)
(* the others, what one element adds to the rest.                          *)
(***************************************************************************)
IsSummation(it, f, S) ==
  /\ \A s \in SUBSET S : it[s] \in Int
  /\ it[{}] = 0
  /\ \A s \in SUBSET S : s # {} => it[s] = f[Pick(s)] + it[s \ {Pick(s)}]

LEMMA SumUnfolds ==
  ASSUME NEW f, NEW S, Summable(f, S)
  PROVE  \E it : IsSummation(it, f, S) /\ SumOver(f, S) = it[S]
<1> DEFINE it == CHOOSE it : Sums(it, f, S)
<1>1. Sums(it, f, S)
  BY SumsExist
<1>2. SumOver(f, S) = it[S]
  BY DEF SumOver, FoldFunctionOnSet, MapThenFoldSet, Sums, SumFrom, Pick
<1> HIDE DEF it
<1>3. \A s \in SUBSET S : it[s] = SumFrom(it, f, s)
  BY <1>1 DEF Sums
<1>4. /\ it[{}] = 0
      /\ \A s \in SUBSET S : s # {} => it[s] = f[Pick(s)] + it[s \ {Pick(s)}]
  BY <1>3 DEF SumFrom
<1>5. \A s \in SUBSET S : it[s] \in Int
  <2> DEFINE Bad == {s \in SUBSET S : it[s] \notin Int}
  <2> SUFFICES ASSUME Bad # {} PROVE FALSE
    OBVIOUS
  <2>1. Bad \subseteq SUBSET S /\ IsFiniteSet(S)
    BY DEF Summable
  <2>2. PICK s \in Bad : s # {} => Pick(s) \in s /\ s \ {Pick(s)} \notin Bad
    <3> HIDE DEF Bad
    <3> QED
      BY <2>1, SmallestSet
  <2>3. s # {}
    <3>1. it[{}] \in Int
      BY <1>4
    <3> QED
      BY <2>2, <3>1
  <2>4. f[Pick(s)] \in Int /\ it[s \ {Pick(s)}] \in Int
    BY <2>2, <2>3 DEF Summable
  <2>5. it[s] = f[Pick(s)] + it[s \ {Pick(s)}]
    BY <1>4, <2>2, <2>3
  <2>6. it[s] \in Int
    BY <2>4, <2>5
  <2> QED
    BY <2>2, <2>6
<1> QED
  BY <1>2, <1>4, <1>5 DEF IsSummation

(***************************************************************************)
(* Adding d to the value at c adds d to the sum over the sets that have c. *)
(***************************************************************************)
LEMMA SumChanges ==
  ASSUME NEW f, NEW g, NEW S, Summable(f, S), Summable(g, S), NEW c, NEW d \in Int,
         \A x \in S : g[x] = f[x] + IF x = c THEN d ELSE 0
  PROVE  SumOver(g, S) = SumOver(f, S) + IF c \in S THEN d ELSE 0
<1>1. PICK it : IsSummation(it, f, S) /\ SumOver(f, S) = it[S]
  BY SumUnfolds
<1>2. PICK jt : IsSummation(jt, g, S) /\ SumOver(g, S) = jt[S]
  BY SumUnfolds
<1> DEFINE More(s) == IF c \in s THEN d ELSE 0
           Bad == {s \in SUBSET S : jt[s] # it[s] + More(s)}
<1>3. Bad = {}
  <2> SUFFICES ASSUME Bad # {} PROVE FALSE
    OBVIOUS
  <2>1. Bad \subseteq SUBSET S /\ IsFiniteSet(S)
    BY DEF Summable
  <2>2. PICK s \in Bad : s # {} => Pick(s) \in s /\ s \ {Pick(s)} \notin Bad
    <3> HIDE DEF Bad
    <3> QED
      BY <2>1, SmallestSet
  <2>3. s # {}
    <3>1. jt[{}] = it[{}] + More({})
      BY <1>1, <1>2 DEF IsSummation
    <3> HIDE DEF More
    <3> QED
      BY <2>2, <3>1
  <2>4. PICK x : x = Pick(s)
    OBVIOUS
  <2>5. x \in s /\ x \in S /\ s \in SUBSET S /\ s \ {x} \in SUBSET S
    BY <2>2, <2>3, <2>4
  <2>6. /\ it[s] = f[x] + it[s \ {x}]
        /\ jt[s] = g[x] + jt[s \ {x}]
    BY <1>1, <1>2, <2>3, <2>4, <2>5 DEF IsSummation
  <2>7. jt[s \ {x}] = it[s \ {x}] + More(s \ {x})
    BY <2>2, <2>3, <2>4, <2>5
  <2>8. g[x] = f[x] + IF x = c THEN d ELSE 0
    BY <2>5
  <2>9. /\ f[x] \in Int /\ g[x] \in Int
        /\ it[s \ {x}] \in Int /\ jt[s \ {x}] \in Int
    BY <1>1, <1>2, <2>5 DEF Summable, IsSummation
  <2>10. More(s) = (IF x = c THEN d ELSE 0) + More(s \ {x})
    BY <2>5
  <2>11. More(s) \in Int /\ More(s \ {x}) \in Int
    OBVIOUS
  <2>12. jt[s] = it[s] + More(s)
    <3> HIDE DEF More
    <3>1. CASE x = c
      BY <2>6, <2>7, <2>8, <2>9, <2>10, <2>11, <3>1
    <3>2. CASE x # c
      BY <2>6, <2>7, <2>8, <2>9, <2>10, <2>11, <3>2
    <3> QED
      BY <3>1, <3>2
  <2> QED
    BY <2>2, <2>12
<1> QED
  BY <1>1, <1>2, <1>3

LEMMA SumUnchanged ==
  ASSUME NEW f, NEW g, NEW S, Summable(f, S), Summable(g, S),
         \A x \in S : g[x] = f[x]
  PROVE  SumOver(g, S) = SumOver(f, S)
<1>1. PICK zero \in Int : zero = 0
  OBVIOUS
<1>2. \A x \in S : g[x] = f[x] + IF x = S THEN zero ELSE 0
  BY <1>1 DEF Summable
<1>3. SumOver(g, S) = SumOver(f, S) + IF S \in S THEN zero ELSE 0
  BY <1>2, SumChanges
<1>4. SumOver(f, S) \in Int
  <2>1. PICK it : IsSummation(it, f, S) /\ SumOver(f, S) = it[S]
    BY SumUnfolds
  <2> QED
    BY <2>1 DEF IsSummation
<1> QED
  BY <1>1, <1>3, <1>4

LEMMA SumOfZeros ==
  ASSUME NEW f, NEW S, IsFiniteSet(S), \A x \in S : f[x] = 0
  PROVE  SumOver(f, S) = 0
<1>1. Summable(f, S)
  BY DEF Summable
<1>2. PICK it : IsSummation(it, f, S) /\ SumOver(f, S) = it[S]
  BY <1>1, SumUnfolds
<1> DEFINE Bad == {s \in SUBSET S : it[s] # 0}
<1>3. Bad = {}
  <2> SUFFICES ASSUME Bad # {} PROVE FALSE
    OBVIOUS
  <2>1. Bad \subseteq SUBSET S
    OBVIOUS
  <2>2. PICK s \in Bad : s # {} => Pick(s) \in s /\ s \ {Pick(s)} \notin Bad
    <3> HIDE DEF Bad
    <3> QED
      BY <2>1, SmallestSet
  <2>3. s # {}
    BY <1>2, <2>2 DEF IsSummation
  <2>4. f[Pick(s)] = 0 /\ it[s \ {Pick(s)}] = 0
    BY <2>2, <2>3
  <2>5. it[s] = f[Pick(s)] + it[s \ {Pick(s)}]
    BY <1>2, <2>2, <2>3 DEF IsSummation
  <2> QED
    BY <2>2, <2>4, <2>5
<1> QED
  BY <1>2, <1>3

-----------------------------------------------------------------------------
(***************************************************************************)
(* Boards on which a mate stays one when its promotion piece becomes a     *)
(* queen, as IndexUCI makes it.  (It is not so on every board.)            *)
(***************************************************************************)
MatesSurviveFolding ==
  \A b \in Boards : \A m \in FirstMoves(b) :
    b[<<m>>] = "checkmate" => b[<<Folded(m)>>] = "checkmate"

MateInv ==
  /\ status \in Boards
  /\ expanded # {} => Mates = {}
  /\ MateNotOverlooked

(***************************************************************************)
(* On such boards the tree search answers with a mate whenever there is    *)
(* one: the search itself starts only where the probe found none.          *)
(***************************************************************************)
THEOREM MatesArePlayed ==
  ASSUME MatesSurviveFolding
  PROVE  Spec => []MateNotOverlooked
<1>1. Init => MateInv
  BY DEF Init, MateInv, MateNotOverlooked, Returned
<1>2. MateInv /\ [Next]_vars => MateInv'
  <2> SUFFICES ASSUME MateInv, [Next]_vars PROVE MateInv'
    OBVIOUS
  <2> USE DEF MateInv
  <2>1. status' = status /\ kind' = kind /\ status' \in Boards
    BY DEF Next, PlayMaterial, PlayPolicy, MateProbe, ExpandRoot, Descend, Simulate,
           MostVisited, EvaluateFails, vars, input
  <2>2. Mates' = Mates
    BY <2>1 DEF Mates, ValidMoves, Played
  <2>3. expanded' # {} => Mates = {}
    BY DEF Next, PlayMaterial, PlayPolicy, MateProbe, ExpandRoot, Descend, Simulate,
           Searching, MostVisited, EvaluateFails, vars, tree
  <2>4. MateNotOverlooked'
    <3>1. CASE reply' = reply
      BY <2>1, <2>2, <3>1 DEF MateNotOverlooked, Returned
    <3>2. CASE kind # "mcts" \/ Mates = {}
      BY <2>1, <2>2, <3>2 DEF MateNotOverlooked
    <3>3. CASE MateProbe
      <4>1. PICK m \in Mates : Return(m)
        BY <3>3 DEF MateProbe
      <4>2. /\ m \in FirstMoves(status) /\ status[<<m>>] = "checkmate"
            /\ m \in ChessMove /\ PromotesRightly(m, PawnSquares)
        BY <4>1, MovesAssumption DEF Mates, ValidMoves, Played
      <4>3. reply' = Folded(m)
        BY <4>1, <4>2, EngineAssumption, RoundTrip DEF Return
      <4> QED
        BY <2>1, <4>2, <4>3 DEF MatesSurviveFolding, MateNotOverlooked
    <3>4. CASE EvaluateFails
      BY <3>4 DEF EvaluateFails, MateNotOverlooked, Returned
    <3>5. MostVisited => Mates = {}
      BY DEF MostVisited
    <3> QED
      BY <3>1, <3>2, <3>3, <3>4, <3>5
      DEF Next, PlayMaterial, PlayPolicy, ExpandRoot, Descend, Simulate, MostVisited, vars
  <2> QED
    BY <2>1, <2>2, <2>3, <2>4
<1>3. MateInv => MateNotOverlooked
  BY DEF MateInv
<1> QED
  BY <1>1, <1>2, <1>3, PTL DEF Spec

-----------------------------------------------------------------------------
LEMMA FrontIsShorter ==
  ASSUME NEW q \in Seq(ChessMove), q # <<>>
  PROVE  Len(q) = Len(Front(q)) + 1
<1>1. PICK n \in Nat : n = Len(q)
  OBVIOUS
<1>2. n # 0
  BY <1>1
<1>3. Len(SubSeq(q, 1, n - 1)) = n - 1
  BY <1>1, <1>2
<1> QED
  BY <1>1, <1>2, <1>3 DEF Front

(***************************************************************************)
(* Every line of a board's tree, and where its beginnings are in it.       *)
(***************************************************************************)
LEMMA TreeFacts ==
  ASSUME status \in Boards
  PROVE  /\ Tree \subseteq Seq(ChessMove) /\ IsFiniteSet(Tree)
         /\ <<>> \in Open /\ Open \subseteq Tree
         /\ \A p \in Tree : /\ status[p] \in {"open", "checkmate", "stalemate"}
                            /\ p # <<>> => Front(p) \in Open
                            /\ Children(p) \subseteq Tree /\ IsFiniteSet(Children(p))
                            /\ p \in Open /\ Len(p) < Horizon => Children(p) # {}
                            /\ p \notin Open => Children(p) = {}
<1>1. /\ Tree \subseteq Seq(ChessMove) /\ IsFiniteSet(Tree)
      /\ <<>> \in Open /\ Open \subseteq Tree
      /\ \A p \in Tree : /\ status[p] \in {"open", "checkmate", "stalemate"}
                         /\ p # <<>> => Front(p) \in Open
  BY BoardsAssumption DEF Tree, Open
<1>2. ASSUME NEW p \in Tree
      PROVE  /\ Children(p) \subseteq Tree /\ IsFiniteSet(Children(p))
             /\ p \in Open /\ Len(p) < Horizon => Children(p) # {}
             /\ p \notin Open => Children(p) = {}
  <2>1. Children(p) \subseteq Tree
    BY DEF Children
  <2>2. IsFiniteSet(Children(p))
    BY <1>1, <2>1, FS_Subset
  <2>3. ASSUME p \in Open, Len(p) < Horizon PROVE Children(p) # {}
    <3>1. \E q \in DOMAIN status : q # <<>> /\ Front(q) = p
      BY <2>3, BoardsAssumption DEF Open, Tree
    <3> QED
      BY <3>1 DEF Children, Tree
  <2>4. p \notin Open => Children(p) = {}
    BY <1>1 DEF Children
  <2> QED
    BY <2>1, <2>2, <2>3, <2>4
<1> QED
  BY <1>1, <1>2

(***************************************************************************)
(* What negamax makes of a position from what it made of the next ones.    *)
(***************************************************************************)
Near == {q \in Tree : Len(q) <= 2}

FromChildren(value, p) ==
  IF status[p] = "checkmate" THEN -MateScore
  ELSE IF status[p] = "stalemate" THEN 0
  ELSE IF Len(p) = 2 THEN score[p]
  ELSE Max({-value[q] : q \in Children(p)})

LEMMA NearFacts ==
  ASSUME status \in Boards
  PROVE  \A p \in Near :
           /\ p \in Tree /\ Len(p) \in {0, 1, 2}
           /\ Len(p) # 2 => \A q \in Children(p) : q \in Near /\ Len(q) = Len(p) + 1
<1> SUFFICES ASSUME NEW p \in Near
             PROVE  /\ p \in Tree /\ Len(p) \in {0, 1, 2}
                    /\ Len(p) # 2 =>
                         \A q \in Children(p) : q \in Near /\ Len(q) = Len(p) + 1
  OBVIOUS
<1>1. p \in Tree /\ p \in Seq(ChessMove) /\ Len(p) <= 2
  BY TreeFacts DEF Near
<1>2. PICK n \in Nat : n = Len(p)
  BY <1>1
<1>3. n \in {0, 1, 2}
  BY <1>1, <1>2
<1>4. ASSUME NEW q \in Children(p), n # 2 PROVE q \in Near /\ Len(q) = n + 1
  <2>1. q \in Tree /\ q # <<>> /\ Front(q) = p /\ q \in Seq(ChessMove)
    BY <1>1, TreeFacts DEF Children
  <2>2. Len(q) = n + 1
    BY <1>2, <2>1 DEF Front
  <2>3. Len(q) <= 2
    BY <1>3, <1>4, <2>2
  <2> QED
    BY <2>1, <2>2, <2>3 DEF Near
<1> QED
  BY <1>1, <1>2, <1>3, <1>4

(***************************************************************************)
(* The recursion to two plies is well defined: three rounds compute it.    *)
(***************************************************************************)
LEMMA NegamaxUnfolds ==
  ASSUME status \in Boards
  PROVE  \A p \in Near : Negamax(p) = FromChildren([q \in Near |-> Negamax(q)], p)
<1> DEFINE Is(value) == value = [p \in Near |-> FromChildren(value, p)]
           v2 == [p \in Near |-> FromChildren(<<>>, p)]
           v1 == [p \in Near |-> FromChildren(v2, p)]
           v0 == [p \in Near |-> FromChildren(v1, p)]
<1>1. ASSUME NEW v, NEW w, NEW p \in Near, \A q \in Children(p) : v[q] = w[q]
      PROVE  FromChildren(v, p) = FromChildren(w, p)
  <2>1. {-v[q] : q \in Children(p)} = {-w[q] : q \in Children(p)}
    BY <1>1
  <2> QED
    BY <2>1 DEF FromChildren
<1>2. ASSUME NEW p \in Near, Len(p) = 2, NEW v, NEW w
      PROVE  FromChildren(v, p) = FromChildren(w, p)
  BY <1>2 DEF FromChildren
<1>3. \A p \in Near : Len(p) \in {0, 1, 2}
  BY NearFacts
<1>4. \A p \in Near : Len(p) # 2 =>
        \A q \in Children(p) : q \in Near /\ Len(q) = Len(p) + 1
  BY NearFacts
<1>5. \A p \in Near : Len(p) = 2 => v2[p] = v1[p] /\ v1[p] = v0[p]
  BY <1>2
<1>6. ASSUME NEW p \in Near, Len(p) = 1 PROVE v1[p] = v0[p]
  <2>1. \A q \in Children(p) : v2[q] = v1[q]
    <3> SUFFICES ASSUME NEW q \in Children(p) PROVE v2[q] = v1[q]
      OBVIOUS
    <3> HIDE DEF v2, v1, v0
    <3>1. q \in Near /\ Len(q) = 2
      <4>1. Len(p) # 2
        BY <1>6
      <4>2. q \in Near /\ Len(q) = Len(p) + 1
        BY <1>4, <4>1
      <4> QED
        BY <1>6, <4>2
    <3> QED
      BY <1>5, <3>1
  <2>2. FromChildren(v2, p) = FromChildren(v1, p)
    BY <1>1, <2>1
  <2> QED
    BY <2>2
<1>7. ASSUME NEW p \in Near PROVE FromChildren(v1, p) = FromChildren(v0, p)
  <2>1. CASE Len(p) = 2
    BY <1>2, <2>1
  <2>2. CASE Len(p) # 2
    <3>1. \A q \in Children(p) : v1[q] = v0[q]
      BY <1>3, <1>4, <1>5, <1>6, <2>2
    <3> HIDE DEF v1, v0
    <3> QED
      BY <1>1, <3>1
  <2> QED
    BY <2>1, <2>2
<1>8. Is(v0)
  BY <1>7
<1> DEFINE value == CHOOSE v : Is(v)
<1>9. Is(value)
  <2> HIDE DEF v0
  <2> QED
    BY <1>8
<1>10. \A p : Negamax(p) = value[p]
  BY DEF Negamax, FromChildren, Near
<1> HIDE DEF value
<1>11. value = [q \in Near |-> Negamax(q)]
  BY <1>9, <1>10
<1> QED
  BY <1>9, <1>10, <1>11

(***************************************************************************)
(* What the two plies say of a position after one move, or after two.      *)
(***************************************************************************)
LEMMA NegamaxValues ==
  ASSUME status \in Boards, score \in [Open -> Scores], NEW p \in Tree, Len(p) \in {1, 2}
  PROVE  /\ Len(p) = 2 => Negamax(p) = ResultOf(p) /\ ResultOf(p) \in Int
         /\ Len(p) = 1 /\ p \notin Open => Negamax(p) = ResultOf(p)
         /\ Len(p) = 1 /\ p \in Open =>
              /\ \A q \in Children(p) : -Negamax(p) <= ResultOf(q)
              /\ \E q \in Children(p) : -Negamax(p) = ResultOf(q)
<1>1. \A q \in Near : Negamax(q) = FromChildren([r \in Near |-> Negamax(r)], q)
  BY NegamaxUnfolds
<1>2. ASSUME NEW q \in Near, Len(q) = 2
      PROVE  Negamax(q) = ResultOf(q) /\ ResultOf(q) \in Int
  <2>1. q \in Tree /\ Negamax(q) = FromChildren([r \in Near |-> Negamax(r)], q)
    BY <1>1 DEF Near
  <2>2. Negamax(q) = ResultOf(q)
    BY <1>2, <2>1 DEF FromChildren, ResultOf
  <2>3. q \in Open => score[q] \in Int
    BY EngineAssumption
  <2>4. q \in Open <=> status[q] = "open"
    BY <2>1 DEF Open
  <2>5. status[q] \in {"open", "checkmate", "stalemate"}
    BY <2>1, TreeFacts
  <2> QED
    BY <2>2, <2>3, <2>4, <2>5 DEF ResultOf, MateScore
<1>3. p \in Near
  <2>1. PICK n \in {1, 2} : n = Len(p)
    OBVIOUS
  <2>2. n <= 2
    OBVIOUS
  <2> QED
    BY <2>1, <2>2 DEF Near
<1>4. ASSUME Len(p) = 1, p \notin Open PROVE Negamax(p) = ResultOf(p)
  <2>1. Negamax(p) = FromChildren([r \in Near |-> Negamax(r)], p)
    BY <1>1, <1>3
  <2>2. status[p] \in {"checkmate", "stalemate"}
    BY <1>4, TreeFacts DEF Open
  <2> QED
    BY <2>1, <2>2 DEF FromChildren, ResultOf
<1>5. ASSUME Len(p) = 1, p \in Open
      PROVE  /\ \A q \in Children(p) : -Negamax(p) <= ResultOf(q)
             /\ \E q \in Children(p) : -Negamax(p) = ResultOf(q)
  <2> DEFINE C == Children(p)
             f == [q \in C |-> -ResultOf(q)]
             S == {-[r \in Near |-> Negamax(r)][q] : q \in C}
  <2>1. /\ C # {} /\ IsFiniteSet(C)
        /\ \A q \in C : q \in Near /\ Len(q) = 2
    <3>1. C # {} /\ IsFiniteSet(C)
      <4>1. Len(p) < Horizon
        BY <1>5, EngineAssumption
      <4> QED
        BY <1>5, <4>1, TreeFacts
    <3>2. Len(p) # 2
      BY <1>5
    <3>3. \A q \in Children(p) : q \in Near /\ Len(q) = Len(p) + 1
      BY <1>3, <3>2, NearFacts
    <3> QED
      BY <1>5, <3>1, <3>3
  <2>2. \A q \in C : ResultOf(q) \in Int /\ Negamax(q) = ResultOf(q)
    BY <1>2, <2>1
  <2>3. f \in [C -> Int]
    BY <2>2
  <2>4. PICK x \in C : \A y \in C : f[x] >= f[y]
    <3> HIDE DEF C, f
    <3> QED
      BY <2>1, <2>3, LargestValue
  <2>5. S = {f[q] : q \in C}
    BY <2>1, <2>2
  <2>6. Negamax(p) = Max(S)
    <3>1. Negamax(p) = FromChildren([r \in Near |-> Negamax(r)], p)
      BY <1>1, <1>3
    <3>2. status[p] = "open"
      BY <1>5 DEF Open
    <3> QED
      BY <1>5, <3>1, <3>2 DEF FromChildren
  <2> HIDE DEF S, f, C
  <2>7. Max(S) \in S /\ \A y \in S : Max(S) >= y
    <3>1. \E m \in S : \A y \in S : m >= y
      BY <2>4, <2>5
    <3> QED
      BY <3>1 DEF Max
  <2>8. PICK z \in C : Max(S) = f[z]
    BY <2>5, <2>7
  <2>9. \A q \in C : f[z] >= f[q]
    BY <2>5, <2>7, <2>8
  <2>10. \A q \in C : f[q] = -ResultOf(q) /\ ResultOf(q) \in Int
    BY <2>2 DEF f
  <2>11. -Negamax(p) = ResultOf(z)
    BY <2>6, <2>8, <2>10
  <2>12. \A q \in C : -Negamax(p) <= ResultOf(q)
    BY <2>9, <2>10, <2>11
  <2> QED
    BY <2>11, <2>12 DEF C
<1> QED
  BY <1>2, <1>3, <1>4, <1>5

(***************************************************************************)
(* A move guarantees exactly what negamax says it is worth, and less.      *)
(***************************************************************************)
LEMMA WorthIsGuaranteed ==
  ASSUME status \in Boards, score \in [Open -> Scores], NEW m \in ValidMoves
  PROVE  /\ -Negamax(Played(m)) \in Int
         /\ \A n \in Int : Guarantees(m, n) <=> n <= -Negamax(Played(m))
<1> DEFINE p == Played(m)
<1>1. p \in Tree /\ Len(p) = 1
  <2>1. PICK q \in Tree : q # <<>> /\ Front(q) = <<>> /\ m = Last(q)
    BY DEF ValidMoves, FirstMoves, Tree
  <2>2. q \in Seq(ChessMove) /\ Len(q) = 1
    <3>1. q \in Seq(ChessMove)
      BY <2>1, TreeFacts
    <3>2. Len(q) = Len(<<>>) + 1
      BY <2>1, <3>1, FrontIsShorter
    <3> QED
      BY <3>1, <3>2
  <2>3. q = <<m>>
    BY <2>1, <2>2 DEF Last
  <2> QED
    BY <2>1, <2>3 DEF Played
<1> HIDE DEF p
<1>2. status[p] \in {"open", "checkmate", "stalemate"}
  BY <1>1, TreeFacts
<1>3. p \in Open <=> status[p] = "open"
  BY <1>1 DEF Open
<1>4. CASE status[p] = "checkmate"
  <2>1. Negamax(p) = -MateScore
    BY <1>1, <1>3, <1>4, NegamaxValues DEF ResultOf
  <2> QED
    BY <1>4, <2>1 DEF p, Guarantees, MateScore
<1>5. CASE status[p] = "stalemate"
  <2>1. Negamax(p) = 0
    BY <1>1, <1>3, <1>5, NegamaxValues DEF ResultOf
  <2> QED
    BY <1>5, <2>1 DEF p, Guarantees
<1>6. CASE status[p] = "open"
  <2>1. /\ \A q \in Children(p) : -Negamax(p) <= ResultOf(q)
        /\ \E q \in Children(p) : -Negamax(p) = ResultOf(q)
    BY <1>1, <1>3, <1>6, NegamaxValues
  <2>2. \A q \in Children(p) : ResultOf(q) \in Int
    <3> SUFFICES ASSUME NEW q \in Children(p) PROVE ResultOf(q) \in Int
      OBVIOUS
    <3>1. q \in Tree /\ q # <<>> /\ Front(q) = p /\ q \in Seq(ChessMove)
      BY <1>1, TreeFacts DEF Children
    <3>2. Len(q) = Len(p) + 1
      BY <3>1, FrontIsShorter
    <3>3. Len(q) = 2
      BY <1>1, <3>2
    <3> QED
      BY <3>1, <3>3, NegamaxValues
  <2>3. \A n : Guarantees(m, n) <=> \A q \in Children(p) : ResultOf(q) >= n
    BY <1>6 DEF p, Guarantees
  <2>4. PICK v : v = -Negamax(p)
    OBVIOUS
  <2>5. v \in Int
    BY <2>1, <2>2, <2>4
  <2>6. \A n \in Int : Guarantees(m, n) <=> n <= v
    BY <2>1, <2>2, <2>3, <2>4, <2>5
  <2> QED
    BY <2>4, <2>5, <2>6 DEF p
<1> QED
  BY <1>2, <1>4, <1>5, <1>6

MaximinInv ==
  /\ status \in Boards
  /\ score \in [Open -> Scores]
  /\ MaterialPlaysMaximin

(***************************************************************************)
(* Whatever the count says of the positions after two plies, the material  *)
(* searcher answers with a move whose worst reply is best for it.          *)
(***************************************************************************)
THEOREM MaximinIsPlayed == Spec => []MaterialPlaysMaximin
<1>1. Init => MaximinInv
  BY DEF Init, MaximinInv, MaterialPlaysMaximin, Returned
<1>2. MaximinInv /\ [Next]_vars => MaximinInv'
  <2> SUFFICES ASSUME MaximinInv, [Next]_vars PROVE MaximinInv'
    OBVIOUS
  <2> USE DEF MaximinInv
  <2>1. status' = status /\ score' = score /\ kind' = kind
    BY DEF Next, PlayMaterial, PlayPolicy, MateProbe, ExpandRoot, Descend, Simulate,
           MostVisited, EvaluateFails, vars, input
  <2>2. status' \in Boards /\ (score \in [Open -> Scores])'
    BY <2>1 DEF Open, Tree
  <2>3. MaterialPlaysMaximin'
    <3>0. /\ ValidMoves' = ValidMoves
          /\ \A m, n : Guarantees(m, n)' <=> Guarantees(m, n)
      BY <2>1 DEF ValidMoves, Guarantees, Played, ResultOf, Children, Tree
    <3>1. CASE kind # "material"
      BY <2>1, <3>1 DEF MaterialPlaysMaximin
    <3>2. CASE UNCHANGED reply
      BY <2>1, <3>0, <3>2 DEF MaterialPlaysMaximin, Returned
    <3>3. CASE PlayMaterial
      <4>1. PICK m \in ValidMoves :
              /\ \A k \in ValidMoves : -Negamax(Played(m)) >= -Negamax(Played(k))
              /\ Return(m)
        BY <3>3 DEF PlayMaterial
      <4>2. reply' = Folded(m)
        <5>1. m \in ChessMove /\ PromotesRightly(m, PawnSquares)
          BY MovesAssumption DEF ValidMoves
        <5> QED
          BY <4>1, <5>1, EngineAssumption, RoundTrip DEF Return
      <4>3. Scores \cup {0, MateScore, -MateScore} \subseteq Int
        BY EngineAssumption DEF MateScore
      <4>4. ASSUME NEW n \in Int, NEW k \in ValidMoves, Guarantees(k, n)
            PROVE  Guarantees(m, n)
        <5>1. n <= -Negamax(Played(k)) /\ -Negamax(Played(k)) \in Int
          BY <4>4, WorthIsGuaranteed
        <5>2. -Negamax(Played(m)) \in Int
          BY WorthIsGuaranteed
        <5>3. n <= -Negamax(Played(m))
          BY <4>1, <5>1, <5>2
        <5> QED
          BY <5>3, WorthIsGuaranteed
      <4>5. \E l \in ValidMoves :
              /\ reply' = Folded(l)
              /\ \A n \in Scores \cup {0, MateScore, -MateScore} :
                   (\E k \in ValidMoves : Guarantees(k, n)) => Guarantees(l, n)
        BY <4>2, <4>3, <4>4
      <4> QED
        BY <3>0, <4>5 DEF MaterialPlaysMaximin
    <3>4. CASE EvaluateFails
      BY <3>4 DEF EvaluateFails, MaterialPlaysMaximin, Returned
    <3>5. PlayPolicy \/ MateProbe \/ MostVisited => kind # "material"
      BY DEF PlayPolicy, MateProbe, MostVisited
    <3> QED
      BY <3>1, <3>2, <3>3, <3>4, <3>5 DEF Next, ExpandRoot, Descend, Simulate, vars
  <2> QED
    BY <2>2, <2>3
<1>3. MaximinInv => MaterialPlaysMaximin
  BY DEF MaximinInv
<1> QED
  BY <1>1, <1>2, <1>3, PTL DEF Spec

-----------------------------------------------------------------------------
(***************************************************************************)
(* The inductive invariant of the tree search: the walk has come through   *)
(* expanded nodes, every node above an expanded one is expanded, and below *)
(* a node that is not, nothing was visited yet.                            *)
(***************************************************************************)
TreeShape ==
  /\ status \in Boards /\ score \in [Open -> Scores]
  /\ visits \in [Tree -> Nat] /\ valueSum \in [Tree -> Int]
  /\ node \in Tree /\ expanded \subseteq Open
  /\ expanded # {} => <<>> \in expanded
  /\ \A k \in 0..Len(node) - 1 : SubSeq(node, 1, k) \in expanded
  /\ \A p \in expanded : \A k \in 0..Len(p) : SubSeq(p, 1, k) \in expanded

Unvisited ==
  \A p \in Tree : p # <<>> /\ Front(p) \notin expanded => visits[p] = 0 /\ valueSum[p] = 0

TreeInv == TreeShape /\ Unvisited /\ TreeConsistent

(***************************************************************************)
(* The path from the root to the node the walk has come to.                *)
(***************************************************************************)
LEMMA OnThePath ==
  ASSUME TreeShape, NEW p \in Tree
  PROVE  /\ p \in Seq(ChessMove) /\ node \in Seq(ChessMove)
         /\ OnPath(p, node) <=> Len(p) <= Len(node) /\ p = SubSeq(node, 1, Len(p))
         /\ OnPath(p, node) /\ p # node => p \in expanded /\ Len(p) < Len(node)
         /\ OnPath(node, node)
<1>1. p \in Seq(ChessMove) /\ node \in Seq(ChessMove)
  BY TreeFacts DEF TreeShape
<1>2. SubSeq(p, 1, Len(p)) = p /\ SubSeq(node, 1, Len(node)) = node
  BY <1>1
<1>3. OnPath(p, node) <=> Len(p) <= Len(node) /\ p = SubSeq(node, 1, Len(p))
  BY <1>2 DEF OnPath, IsPrefix
<1>4. OnPath(node, node)
  BY <1>1 DEF OnPath, IsPrefix
<1>5. ASSUME OnPath(p, node), p # node PROVE p \in expanded /\ Len(p) < Len(node)
  <2>1. PICK n \in Nat : n = Len(p)
    BY <1>1
  <2>2. PICK l \in Nat : l = Len(node)
    BY <1>1
  <2>3. n <= l /\ p = SubSeq(node, 1, n)
    BY <1>3, <1>5, <2>1, <2>2
  <2>4. n # l
    BY <1>2, <1>5, <2>2, <2>3
  <2>5. n < l /\ n \in 0..l - 1
    BY <2>3, <2>4
  <2>6. \A k \in 0..l - 1 : SubSeq(node, 1, k) \in expanded
    BY <2>2 DEF TreeShape
  <2> QED
    BY <2>1, <2>2, <2>3, <2>5, <2>6
<1> QED
  BY <1>1, <1>3, <1>4, <1>5

LEMMA NoChildOnPath ==
  ASSUME TreeShape, NEW p \in Tree, ~OnPath(p, node) \/ p = node, NEW q \in Children(p)
  PROVE  ~OnPath(q, node)
<1>1. /\ q \in Tree /\ q # <<>> /\ Front(q) = p
      /\ q \in Seq(ChessMove) /\ node \in Seq(ChessMove) /\ p \in Seq(ChessMove)
  BY TreeFacts, OnThePath DEF Children, TreeShape
<1>2. Len(q) = Len(p) + 1
  BY <1>1, FrontIsShorter
<1> SUFFICES ASSUME OnPath(q, node) PROVE FALSE
  OBVIOUS
<1>3. Len(q) <= Len(node) /\ q = SubSeq(node, 1, Len(q))
  BY <1>1, OnThePath
<1>4. p = SubSeq(node, 1, Len(p)) /\ Len(p) < Len(node)
  <2>1. PICK n \in Nat : n = Len(p)
    BY <1>1
  <2>2. n + 1 <= Len(node) /\ q = SubSeq(node, 1, n + 1) /\ Len(node) \in Nat
    BY <1>1, <1>2, <1>3, <2>1
  <2>3. SubSeq(SubSeq(node, 1, n + 1), 1, n) = SubSeq(node, 1, n)
    BY <1>1, <2>2
  <2>4. Front(q) = SubSeq(q, 1, n)
    BY <1>2, <2>1 DEF Front
  <2> QED
    BY <1>1, <2>1, <2>2, <2>3, <2>4
<1> QED
  BY <1>1, <1>4, OnThePath

(***************************************************************************)
(* Below every node of the path but its end, one child is on it.           *)
(***************************************************************************)
LEMMA OneChildOnPath ==
  ASSUME TreeShape, NEW p \in Tree, OnPath(p, node), p # node
  PROVE  \E c \in Children(p) : /\ Len(c) = Len(p) + 1 /\ Len(c) <= Len(node)
                                /\ \A q \in Children(p) : OnPath(q, node) <=> q = c
<1>0. p \in Seq(ChessMove) /\ node \in Seq(ChessMove)
  BY OnThePath
<1>1. p = SubSeq(node, 1, Len(p)) /\ Len(p) < Len(node)
  BY OnThePath
<1>2. PICK n \in Nat : n = Len(p)
  BY <1>0
<1>3. n + 1 <= Len(node) /\ Len(node) \in Nat
  BY <1>0, <1>1, <1>2
<1> DEFINE c == SubSeq(node, 1, n + 1)
<1>4. c \in Tree
  <2>1. CASE n + 1 = Len(node)
    <3>1. SubSeq(node, 1, Len(node)) = node
      BY <1>0
    <3> QED
      BY <2>1, <3>1 DEF TreeShape
  <2>2. CASE n + 1 # Len(node)
    <3>1. n + 1 \in 0..Len(node) - 1
      BY <1>3, <2>2
    <3>2. expanded \subseteq Tree
      BY TreeFacts DEF TreeShape
    <3> QED
      BY <3>1, <3>2 DEF TreeShape
  <2> QED
    BY <2>1, <2>2
<1>5. c \in Seq(ChessMove) /\ Len(c) = n + 1
  BY <1>0, <1>3
<1>6. SubSeq(c, 1, n) = SubSeq(node, 1, n)
  BY <1>0, <1>3
<1> HIDE DEF c
<1>7. Front(c) = p /\ c # <<>>
  <2>1. n + 1 - 1 = n
    BY <1>2
  <2>2. Front(c) = SubSeq(c, 1, n)
    BY <1>5, <2>1 DEF Front
  <2>3. Len(c) # 0
    BY <1>2, <1>5
  <2> QED
    BY <1>1, <1>2, <1>6, <2>2, <2>3
<1>8. c \in Children(p)
  BY <1>4, <1>7 DEF Children
<1>9. ASSUME NEW q \in Children(p) PROVE OnPath(q, node) <=> q = c
  <2>1. q \in Tree /\ q # <<>> /\ Front(q) = p /\ q \in Seq(ChessMove)
    BY TreeFacts DEF Children, TreeShape
  <2>2. Len(q) = n + 1
    BY <1>2, <2>1, FrontIsShorter
  <2>3. OnPath(q, node) <=> Len(q) <= Len(node) /\ q = SubSeq(node, 1, Len(q))
    BY <2>1, OnThePath
  <2> QED
    BY <1>3, <2>2, <2>3 DEF c
<1> QED
  BY <1>2, <1>3, <1>5, <1>8, <1>9

LEMMA SignAlternates ==
  ASSUME NEW l \in Nat, NEW k \in Nat, k < l, NEW v \in Int,
         NEW p, NEW c, NEW leaf, Len(leaf) = l, Len(p) = k, Len(c) = k + 1
  PROVE  /\ Sign(p, leaf) * v \in Int
         /\ Sign(c, leaf) * v = -(Sign(p, leaf) * v)
<1>1. PICK d \in Nat : d = l - k - 1
  OBVIOUS
<1>2. l - (k + 1) = d /\ l - k = d + 1
  BY <1>1
<1>3. d % 2 = 0 <=> (d + 1) % 2 # 0
  OBVIOUS
<1>4. CASE d % 2 = 0
  <2>1. Sign(c, leaf) = 1 /\ Sign(p, leaf) = -1
    BY <1>2, <1>3, <1>4 DEF Sign
  <2> QED
    BY <2>1
<1>5. CASE d % 2 # 0
  <2>1. Sign(c, leaf) = -1 /\ Sign(p, leaf) = 1
    BY <1>2, <1>3, <1>5 DEF Sign
  <2> QED
    BY <2>1
<1> QED
  BY <1>4, <1>5

(***************************************************************************)
(* What a backpropagation adds to the children of a node: one visit and    *)
(* the value with the other sign, if the node is above the leaf, and       *)
(* nothing otherwise.                                                      *)
(***************************************************************************)
LEMMA BackpropagateTypes ==
  ASSUME TreeShape, NEW v \in Int, Backpropagate(node, v), status' = status
  PROVE  /\ visits' \in [Tree -> Nat] /\ valueSum' \in [Tree -> Int]
         /\ \A p \in Tree :
              /\ OnPath(p, node) => visits'[p] = visits[p] + 1
              /\ OnPath(p, node) /\ p # <<>> =>
                   valueSum'[p] = valueSum[p] + Sign(p, node) * v
              /\ ~OnPath(p, node) => visits'[p] = visits[p]
              /\ ~OnPath(p, node) \/ p = <<>> => valueSum'[p] = valueSum[p]
<1>1. \A p \in Tree : Sign(p, node) * v \in Int
  <2> SUFFICES ASSUME NEW p \in Tree PROVE Sign(p, node) * v \in Int
    OBVIOUS
  <2>1. Sign(p, node) = 1 \/ Sign(p, node) = -1
    BY DEF Sign
  <2>2. CASE Sign(p, node) = 1
    BY <2>2
  <2>3. CASE Sign(p, node) = -1
    BY <2>3
  <2> QED
    BY <2>1, <2>2, <2>3
<1>2. /\ visits' = [p \in Tree |-> visits[p] + IF OnPath(p, node) THEN 1 ELSE 0]
      /\ valueSum' = [p \in Tree |->
           valueSum[p] + IF p # <<>> /\ OnPath(p, node) THEN Sign(p, node) * v ELSE 0]
  BY DEF Backpropagate
<1>3. \A p \in Tree : visits[p] \in Nat /\ valueSum[p] \in Int
  BY DEF TreeShape
<1>4. visits' \in [Tree -> Nat]
  BY <1>2, <1>3
<1>5. valueSum' \in [Tree -> Int]
  <2>1. \A p \in Tree :
          valueSum[p] + (IF p # <<>> /\ OnPath(p, node) THEN Sign(p, node) * v ELSE 0) \in Int
    BY <1>1, <1>3
  <2> QED
    BY <1>2, <2>1
<1> QED
  BY <1>2, <1>3, <1>4, <1>5

LEMMA BackpropagateSums ==
  ASSUME TreeShape, NEW v \in Int, Backpropagate(node, v), status' = status,
         NEW p \in Tree
  PROVE  /\ SumOver(visits, Children(p)) \in Int /\ SumOver(valueSum, Children(p)) \in Int
         /\ OnPath(p, node) /\ p # node =>
              /\ SumOver(visits', Children(p)) = SumOver(visits, Children(p)) + 1
              /\ SumOver(valueSum', Children(p)) =
                   SumOver(valueSum, Children(p)) - Sign(p, node) * v
         /\ ~OnPath(p, node) \/ p = node =>
              /\ SumOver(visits', Children(p)) = SumOver(visits, Children(p))
              /\ SumOver(valueSum', Children(p)) = SumOver(valueSum, Children(p))
<1> DEFINE C == Children(p)
<1>1. C \subseteq Tree /\ IsFiniteSet(C) /\ <<>> \notin C
  BY TreeFacts DEF TreeShape, Children
<1>2. /\ visits \in [Tree -> Nat] /\ valueSum \in [Tree -> Int]
      /\ visits' \in [Tree -> Nat] /\ valueSum' \in [Tree -> Int]
  BY BackpropagateTypes DEF TreeShape
<1>3. /\ Summable(visits, C) /\ Summable(valueSum, C)
      /\ Summable(visits', C) /\ Summable(valueSum', C)
  BY <1>1, <1>2 DEF Summable
<1>4. SumOver(visits, C) \in Int /\ SumOver(valueSum, C) \in Int
  <2>1. PICK it : IsSummation(it, visits, C) /\ SumOver(visits, C) = it[C]
    BY <1>3, SumUnfolds
  <2>2. PICK jt : IsSummation(jt, valueSum, C) /\ SumOver(valueSum, C) = jt[C]
    BY <1>3, SumUnfolds
  <2> HIDE DEF C
  <2> QED
    BY <2>1, <2>2 DEF IsSummation
<1>5. ASSUME OnPath(p, node), p # node
      PROVE  /\ SumOver(visits', C) = SumOver(visits, C) + 1
             /\ SumOver(valueSum', C) = SumOver(valueSum, C) - Sign(p, node) * v
  <2>1. PICK c \in C : /\ Len(c) = Len(p) + 1 /\ Len(c) <= Len(node)
                       /\ \A q \in C : OnPath(q, node) <=> q = c
    BY <1>5, OneChildOnPath
  <2>2. /\ Sign(p, node) * v \in Int
        /\ Sign(c, node) * v = -(Sign(p, node) * v)
    <3>1. Len(p) \in Nat /\ Len(node) \in Nat
      BY OnThePath
    <3>2. Len(p) < Len(node)
      BY <2>1, <3>1
    <3> QED
      BY <2>1, <3>1, <3>2, SignAlternates
  <2> DEFINE d == -(Sign(p, node) * v)
  <2>3. d \in Int
    BY <2>2
  <2>4. \A q \in C : visits'[q] = visits[q] + IF q = c THEN 1 ELSE 0
    BY <1>1, <1>2, <2>1, BackpropagateTypes
  <2>5. \A q \in C : valueSum'[q] = valueSum[q] + IF q = c THEN d ELSE 0
    <3> SUFFICES ASSUME NEW q \in C
                 PROVE  valueSum'[q] = valueSum[q] + IF q = c THEN d ELSE 0
      OBVIOUS
    <3>1. q \in Tree /\ q # <<>> /\ valueSum[q] \in Int
      BY <1>1, <1>2
    <3>2. CASE q = c
      <4>1. valueSum'[q] = valueSum[q] + Sign(q, node) * v
        BY <2>1, <3>1, <3>2, BackpropagateTypes
      <4> QED
        BY <2>2, <3>2, <4>1
    <3>3. CASE q # c
      <4>1. valueSum'[q] = valueSum[q]
        BY <2>1, <3>1, <3>3, BackpropagateTypes
      <4> QED
        BY <3>1, <3>3, <4>1
    <3> QED
      BY <3>2, <3>3
  <2> HIDE DEF C, d
  <2>6. SumOver(visits', C) = SumOver(visits, C) + IF c \in C THEN 1 ELSE 0
    BY <1>3, <2>4, SumChanges
  <2>7. SumOver(valueSum', C) = SumOver(valueSum, C) + IF c \in C THEN d ELSE 0
    BY <1>3, <2>3, <2>5, SumChanges
  <2>8. SumOver(valueSum', C) = SumOver(valueSum, C) + d
    BY <2>1, <2>7
  <2> QED
    BY <1>4, <2>1, <2>2, <2>6, <2>8 DEF d
<1>6. ASSUME ~OnPath(p, node) \/ p = node
      PROVE  /\ SumOver(visits', C) = SumOver(visits, C)
             /\ SumOver(valueSum', C) = SumOver(valueSum, C)
  <2>1. \A q \in C : q \in Tree /\ ~OnPath(q, node)
    BY <1>1, <1>6, NoChildOnPath
  <2>2. \A q \in C : /\ visits'[q] = visits[q] /\ valueSum'[q] = valueSum[q]
                     /\ visits[q] \in Int /\ valueSum[q] \in Int
    BY <1>2, <2>1, BackpropagateTypes
  <2> HIDE DEF C
  <2> QED
    BY <1>3, <2>2, SumUnchanged
<1> QED
  BY <1>4, <1>5, <1>6

(***************************************************************************)
(* What TreeConsistent says of one node.                                   *)
(***************************************************************************)
NodeConsistent(p) ==
  IF p = <<>> THEN visits[p] = SumOver(visits, Children(p))
  ELSE IF p \in expanded
  THEN /\ visits[p] = 1 + SumOver(visits, Children(p))
       /\ valueSum[p] = score[p] - SumOver(valueSum, Children(p))
  ELSE IF p \in Open THEN visits[p] = 0 /\ valueSum[p] = 0
  ELSE valueSum[p] = visits[p] * TerminalValue(p)

LEMMA SimulateKeeps ==
  ASSUME TreeInv, Simulate
  PROVE  TreeInv'
<1> USE DEF TreeInv
<1>1. /\ status' = status /\ score' = score /\ node' = <<>>
      /\ expanded # {} /\ node \notin expanded
  BY DEF Simulate, Searching, input
<1>2. node # <<>> /\ node \in Tree /\ Front(node) \in expanded
  <2>1. node # <<>> /\ node \in Tree
    BY <1>1 DEF TreeShape
  <2>2. node \in Seq(ChessMove)
    BY <2>1, TreeFacts DEF TreeShape
  <2>3. PICK l \in Nat : l = Len(node)
    BY <2>2
  <2>4. l # 0
    BY <2>1, <2>2, <2>3
  <2>5. l - 1 \in 0..Len(node) - 1
    BY <2>3, <2>4
  <2> QED
    BY <2>1, <2>3, <2>5 DEF TreeShape, Front
<1>3. PICK v \in Int :
        /\ Backpropagate(node, v)
        /\ node \in Open => v = score[node] /\ expanded' = expanded \cup {node}
        /\ node \notin Open => v = TerminalValue(node) /\ expanded' = expanded
  <2>1. CASE node \in Open
    <3>1. score[node] \in Int
      BY <2>1, EngineAssumption DEF TreeShape
    <3> QED
      BY <2>1, <3>1 DEF Simulate
  <2>2. CASE node \notin Open
    <3>1. TerminalValue(node) \in Int
      BY DEF TerminalValue
    <3> QED
      BY <2>2, <3>1 DEF Simulate
  <2> QED
    BY <2>1, <2>2
<1>4. Tree' = Tree /\ Open' = Open /\ \A p : Children(p)' = Children(p)
  BY <1>1 DEF Tree, Open, Children
<1>5. TreeShape'
  <2>1. /\ (status \in Boards)' /\ (score \in [Open -> Scores])'
        /\ (visits \in [Tree -> Nat])' /\ (valueSum \in [Tree -> Int])'
    BY <1>1, <1>3, <1>4, BackpropagateTypes DEF TreeShape
  <2>2. /\ (node \in Tree)' /\ (expanded \subseteq Open)'
        /\ (expanded # {} => <<>> \in expanded)'
        /\ (\A k \in 0..Len(node) - 1 : SubSeq(node, 1, k) \in expanded)'
    BY <1>1, <1>3, <1>4, TreeFacts DEF TreeShape
  <2>3. (\A p \in expanded : \A k \in 0..Len(p) : SubSeq(p, 1, k) \in expanded)'
    <3> SUFFICES ASSUME NEW p \in expanded', NEW k \in 0..Len(p)
                 PROVE  SubSeq(p, 1, k) \in expanded'
      OBVIOUS
    <3>1. CASE p \in expanded
      BY <1>3, <3>1 DEF TreeShape
    <3>2. CASE p = node
      <4>1. node \in Seq(ChessMove)
        BY <1>2, TreeFacts DEF TreeShape
      <4>2. PICK l \in Nat : l = Len(node)
        BY <4>1
      <4>3. CASE k = l
        <5>1. SubSeq(node, 1, l) = node
          BY <4>1, <4>2
        <5> QED
          BY <3>2, <4>3, <5>1
      <4>4. CASE k # l
        <5>1. k \in 0..l - 1
          BY <3>2, <4>2, <4>4
        <5>2. SubSeq(node, 1, k) \in expanded
          BY <4>2, <5>1 DEF TreeShape
        <5> QED
          BY <1>3, <3>2, <5>2
      <4> QED
        BY <4>3, <4>4
    <3> QED
      BY <1>3, <3>1, <3>2
  <2> QED
    BY <2>1, <2>2, <2>3 DEF TreeShape
<1>6. ASSUME NEW p \in Tree, p # <<>>, Front(p) \notin expanded PROVE ~OnPath(p, node)
  <2>1. CASE p = node
    BY <1>2, <1>6, <2>1
  <2>2. CASE p # node
    <3> SUFFICES ASSUME p \in expanded PROVE FALSE
      BY <2>2, OnThePath
    <3>1. p \in Seq(ChessMove)
      BY TreeFacts DEF TreeShape
    <3>2. PICK n \in Nat : n = Len(p)
      BY <3>1
    <3>3. n # 0
      BY <1>6, <3>1, <3>2
    <3>4. n - 1 \in 0..Len(p)
      BY <3>2, <3>3
    <3> QED
      BY <1>6, <3>2, <3>4 DEF TreeShape, Front
  <2> QED
    BY <2>1, <2>2
<1>7. Unvisited'
  <2> SUFFICES ASSUME NEW p \in Tree, p # <<>>, Front(p) \notin expanded'
               PROVE  visits'[p] = 0 /\ valueSum'[p] = 0
    BY <1>4 DEF Unvisited
  <2>1. Front(p) \notin expanded
    BY <1>3
  <2>2. ~OnPath(p, node)
    BY <1>6, <2>1
  <2> QED
    BY <1>1, <1>3, <2>1, <2>2, BackpropagateTypes DEF Unvisited
<1>8. ASSUME NEW p \in Tree PROVE NodeConsistent(p)'
  <2> DEFINE C == Children(p)
             vs == SumOver(visits, C)
             ws == SumOver(valueSum, C)
  <2>1. /\ vs \in Int /\ ws \in Int
        /\ OnPath(p, node) /\ p # node =>
             /\ SumOver(visits', C) = vs + 1
             /\ SumOver(valueSum', C) = ws - Sign(p, node) * v
        /\ ~OnPath(p, node) \/ p = node =>
             SumOver(visits', C) = vs /\ SumOver(valueSum', C) = ws
    BY <1>1, <1>3, BackpropagateSums
  <2>2. /\ OnPath(p, node) => visits'[p] = visits[p] + 1
        /\ OnPath(p, node) /\ p # <<>> => valueSum'[p] = valueSum[p] + Sign(p, node) * v
        /\ ~OnPath(p, node) => visits'[p] = visits[p]
        /\ ~OnPath(p, node) \/ p = <<>> => valueSum'[p] = valueSum[p]
    BY <1>1, <1>3, BackpropagateTypes
  <2>3. visits[p] \in Nat /\ valueSum[p] \in Int
    BY DEF TreeShape
  <2>4. NodeConsistent(p)
    BY DEF NodeConsistent, TreeConsistent
  <2>5. NodeConsistent(p)' <=>
          IF p = <<>> THEN visits'[p] = SumOver(visits', C)
          ELSE IF p \in expanded'
          THEN /\ visits'[p] = 1 + SumOver(visits', C)
               /\ valueSum'[p] = score[p] - SumOver(valueSum', C)
          ELSE IF p \in Open THEN visits'[p] = 0 /\ valueSum'[p] = 0
          ELSE valueSum'[p] = visits'[p] * TerminalValue(p)
    BY <1>1, <1>4 DEF NodeConsistent, TerminalValue
  <2>6. Sign(node, node) = 1
    <3>1. Len(node) \in Nat
      BY <1>2, OnThePath
    <3>2. Len(node) - Len(node) = 0
      BY <3>1
    <3> QED
      BY <3>2 DEF Sign
  <2> HIDE DEF C, vs, ws
  <2>7. CASE ~OnPath(p, node)
    <3>1. p # node
      BY <1>2, <2>7, OnThePath
    <3>2. p \in expanded' <=> p \in expanded
      BY <1>3, <3>1
    <3> QED
      BY <2>1, <2>2, <2>4, <2>5, <2>7, <3>2 DEF NodeConsistent, C, vs, ws
  <2>8. CASE p = node
    <3>1. OnPath(p, node) /\ p # <<>> /\ p \notin expanded
      BY <1>1, <1>2, <2>8, OnThePath
    <3>2. visits'[p] = visits[p] + 1 /\ valueSum'[p] = valueSum[p] + v
      BY <1>3, <2>2, <2>6, <2>8, <3>1
    <3>3. CASE p \in Open
      <4>1. \A q \in C : visits[q] = 0 /\ valueSum[q] = 0
        BY <3>1, TreeFacts DEF C, Children, Unvisited, TreeShape
      <4>2. IsFiniteSet(C)
        BY TreeFacts DEF C, TreeShape
      <4>3. vs = 0 /\ ws = 0
        BY <4>1, <4>2, SumOfZeros DEF vs, ws
      <4>4. visits[p] = 0 /\ valueSum[p] = 0
        BY <2>4, <3>1, <3>3 DEF NodeConsistent
      <4>5. p \in expanded' /\ v = score[p]
        BY <1>3, <2>8, <3>3
      <4>6. SumOver(visits', C) = 0 /\ SumOver(valueSum', C) = 0
        BY <2>1, <2>8, <4>3
      <4> QED
        BY <1>3, <2>5, <3>1, <3>2, <4>4, <4>5, <4>6
    <3>4. CASE p \notin Open
      <4>1. valueSum[p] = visits[p] * TerminalValue(p)
        BY <2>4, <3>1, <3>4 DEF NodeConsistent
      <4>2. v = TerminalValue(p) /\ p \notin expanded'
        BY <1>3, <2>8, <3>1, <3>4
      <4>3. valueSum'[p] = visits'[p] * TerminalValue(p)
        <5>1. TerminalValue(p) = -1 \/ TerminalValue(p) = 0
          BY DEF TerminalValue
        <5> QED
          BY <2>3, <3>2, <4>1, <4>2, <5>1
      <4> QED
        BY <2>5, <3>1, <3>4, <4>2, <4>3
    <3> QED
      BY <3>3, <3>4
  <2>9. CASE OnPath(p, node) /\ p # node
    <3>1. p \in expanded /\ p \in expanded'
      BY <1>3, <2>9, OnThePath
    <3>2. /\ visits'[p] = visits[p] + 1
          /\ SumOver(visits', C) = vs + 1
          /\ SumOver(valueSum', C) = ws - Sign(p, node) * v
      BY <2>1, <2>2, <2>9
    <3>3. CASE p = <<>>
      <4>1. visits[p] = vs
        BY <2>4, <3>3 DEF NodeConsistent, C, vs
      <4> QED
        BY <2>5, <3>2, <3>3, <4>1
    <3>4. CASE p # <<>>
      <4>1. visits[p] = 1 + vs /\ valueSum[p] = score[p] - ws
        BY <2>4, <3>1, <3>4 DEF NodeConsistent, C, vs, ws
      <4>2. valueSum'[p] = valueSum[p] + Sign(p, node) * v
        BY <2>2, <2>9, <3>4
      <4>3. PICK d \in Int : d = Sign(p, node) * v
        <5>1. Sign(p, node) = 1 \/ Sign(p, node) = -1
          BY DEF Sign
        <5> QED
          BY <5>1
      <4>4. score[p] \in Int
        BY <3>1, EngineAssumption DEF TreeShape
      <4>5. visits'[p] = 1 + SumOver(visits', C)
        BY <2>1, <2>3, <3>2, <4>1
      <4>6. valueSum'[p] = score[p] - SumOver(valueSum', C)
        BY <2>1, <2>3, <3>2, <4>1, <4>2, <4>3, <4>4
      <4> QED
        BY <2>5, <3>1, <3>4, <4>5, <4>6
    <3> QED
      BY <3>3, <3>4
  <2> QED
    BY <2>7, <2>8, <2>9
<1>9. TreeConsistent'
  BY <1>4, <1>8 DEF NodeConsistent, TreeConsistent
<1> QED
  BY <1>5, <1>7, <1>9

(***************************************************************************)
(* Over any number of simulations, visits and values add up between every  *)
(* node and its children, whatever the network answers and whichever child *)
(* the walks choose.                                                       *)
(***************************************************************************)
THEOREM SearchAddsUp == Spec => []TreeConsistent
<1>1. Init => TreeInv
  <2> SUFFICES ASSUME Init PROVE TreeInv
    OBVIOUS
  <2> USE DEF Init
  <2>1. \A p \in Tree : visits[p] = 0 /\ valueSum[p] = 0
    OBVIOUS
  <2>2. \A p \in Tree : IsFiniteSet(Children(p)) /\ Children(p) \subseteq Tree
    BY TreeFacts
  <2>3. \A p \in Tree : SumOver(visits, Children(p)) = 0
    BY <2>1, <2>2, SumOfZeros
  <2>4. TreeConsistent
    BY <2>1, <2>3 DEF TreeConsistent, TerminalValue
  <2>5. TreeShape
    BY TreeFacts DEF TreeShape
  <2> QED
    BY <2>1, <2>4, <2>5 DEF TreeInv, Unvisited
<1>2. TreeInv /\ [Next]_vars => TreeInv'
  <2> SUFFICES ASSUME TreeInv, [Next]_vars PROVE TreeInv'
    OBVIOUS
  <2>1. CASE Simulate
    BY <2>1, SimulateKeeps
  <2>2. CASE UNCHANGED <<input, tree>>
    BY <2>2
    DEF TreeInv, TreeShape, Unvisited, TreeConsistent, Tree, Open, Children,
        TerminalValue, input, tree
  <2>3. CASE ExpandRoot
    <3> USE DEF TreeInv
    <3>1. /\ expanded = {} /\ expanded' = {<<>>}
          /\ UNCHANGED <<status, score, node, visits, valueSum>>
      BY <2>3 DEF ExpandRoot, input
    <3>2. Tree' = Tree /\ Open' = Open /\ \A p : Children(p)' = Children(p)
      BY <3>1 DEF Tree, Open, Children
    <3>3. node = <<>>
      <4>1. node \in Seq(ChessMove)
        BY TreeFacts DEF TreeShape
      <4>2. PICK l \in Nat : l = Len(node)
        BY <4>1
      <4>3. ~(0 \in 0..l - 1)
        BY <3>1, <4>2 DEF TreeShape
      <4> QED
        BY <4>1, <4>2, <4>3
    <3>4. TreeShape'
      BY <3>1, <3>2, <3>3, TreeFacts DEF TreeShape
    <3>5. Unvisited'
      BY <3>1, <3>2 DEF Unvisited
    <3>6. TreeConsistent'
      BY <3>1, <3>2, TreeFacts DEF TreeShape, TreeConsistent, TerminalValue
    <3> QED
      BY <3>4, <3>5, <3>6
  <2>4. CASE Descend
    <3> USE DEF TreeInv
    <3>1. /\ node \in expanded /\ node' \in Children(node)
          /\ UNCHANGED <<status, score, expanded, visits, valueSum>>
      BY <2>4 DEF Descend, input
    <3>2. Tree' = Tree /\ Open' = Open /\ \A p : Children(p)' = Children(p)
      BY <3>1 DEF Tree, Open, Children
    <3>3. /\ node' \in Tree /\ node' # <<>> /\ Front(node') = node
          /\ node' \in Seq(ChessMove) /\ node \in Seq(ChessMove)
      BY <3>1, TreeFacts DEF Children, TreeShape
    <3>4. \A k \in 0..Len(node') - 1 : SubSeq(node', 1, k) \in expanded
      <4> SUFFICES ASSUME NEW k \in 0..Len(node') - 1
                   PROVE  SubSeq(node', 1, k) \in expanded
        OBVIOUS
      <4>1. PICK l \in Nat : l = Len(node)
        BY <3>3
      <4>2. Len(node') = l + 1
        BY <3>3, <4>1, FrontIsShorter
      <4>3. k \in 0..l
        BY <4>1, <4>2
      <4>4. node = SubSeq(node', 1, l)
        BY <3>3, <4>1, <4>2 DEF Front
      <4>5. SubSeq(SubSeq(node', 1, l), 1, k) = SubSeq(node', 1, k)
        BY <3>3, <4>2, <4>3
      <4>6. SubSeq(node, 1, k) \in expanded
        BY <3>1, <4>1, <4>3 DEF TreeShape
      <4> QED
        BY <4>4, <4>5, <4>6
    <3>5. TreeShape'
      BY <3>1, <3>2, <3>3, <3>4 DEF TreeShape
    <3>6. Unvisited' /\ TreeConsistent'
      BY <3>1, <3>2 DEF Unvisited, TreeConsistent, TerminalValue
    <3> QED
      BY <3>5, <3>6
  <2> QED
    BY <2>1, <2>2, <2>3, <2>4
    DEF Next, PlayMaterial, PlayPolicy, MateProbe, MostVisited, EvaluateFails, vars
<1>3. TreeInv => TreeConsistent
  BY DEF TreeInv
<1> QED
  BY <1>1, <1>2, <1>3, PTL DEF Spec

=============================================================================
