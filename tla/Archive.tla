------------------------------- MODULE Archive ------------------------------
(***************************************************************************)
(* internal/store/postgres.go: the table of finished games.  A row is      *)
(* inserted once per game id and never updated.                            *)
(***************************************************************************)
EXTENDS Game, Faults, FiniteSets

CONSTANT NoRow      \* what the table holds for a game that is not archived

Row == [playerColor : Colors,
        result      : Results \cup {""},
        termination : {"board", "resignation", ""},
        moves       : Seq(Moves),
        ply         : Nat]

ASSUME NoRowAssumption == NoRow \notin Row

VARIABLE archive    \* archive[id]: the row of the game, or NoRow

ArchiveTypeOK == archive \in [GameIds -> Row \cup {NoRow}]

ArchiveInit == archive = [id \in GameIds |-> NoRow]

RowOf(g) ==
  [playerColor |-> g.playerColor, result |-> g.result,
   termination |-> g.termination, moves |-> g.moves, ply |-> g.ply]

(***************************************************************************)
(* INSERT ... ON CONFLICT (id) DO NOTHING                                  *)
(***************************************************************************)
SaveFinished(id, g) ==
  archive' = IF archive[id] = NoRow
             THEN [archive EXCEPT ![id] = RowOf(g)]
             ELSE archive

SaveFails == May("pg") /\ UNCHANGED archive

(***************************************************************************)
(* The four counts of GET /api/stats.                                      *)
(***************************************************************************)
Archived   == {id \in GameIds : archive[id] # NoRow}
WinOf(color) == IF color = "white" THEN "1-0" ELSE "0-1"

(***************************************************************************)
(* A count that forgets the games in which the player was black.           *)
(***************************************************************************)
EngineWinsAsBlack ==
  Cardinality({id \in Archived : /\ archive[id].playerColor = "white"
                                 /\ archive[id].result = WinOf("black")})

Total      == Cardinality(Archived)
EngineWins == Cardinality({id \in Archived :
                archive[id].result = WinOf(OtherColor(archive[id].playerColor))})
PlayerWins == Cardinality({id \in Archived :
                archive[id].result = WinOf(archive[id].playerColor)})
Draws      == Cardinality({id \in Archived : archive[id].result = "1/2-1/2"})

=============================================================================
