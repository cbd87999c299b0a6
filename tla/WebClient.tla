------------------------------ MODULE WebClient -----------------------------
(***************************************************************************)
(* web/src/App.jsx: one browser tab, what it shows, the requests it has in *)
(* flight and the socket it listens to.  Its socket is Relay's.  The rest  *)
(* of the system, which Arena has in detail, is here as the browser sees   *)
(* it: a handler's accepted write is one step and its publication another, *)
(* and the engine moves when the job has been enqueued.                    *)
(***************************************************************************)
EXTENDS Relay, SequencesExt

CONSTANTS Calls,        \* requests of the tab in flight at the same time
          Sides,        \* those a user chooses in a run
          Played,       \* games in which the user moves in a run
          Conceded,     \* plies at which the user may press "Concede"
          Overlap       \* kinds of request sent while others are in flight

ASSUME UserAssumption ==
  /\ Sides \subseteq Colors /\ Played \subseteq GameIds /\ Conceded \subseteq Nat
  /\ Absent \notin Moves

VARIABLES screen,       \* React's state and wsRef
          calls,        \* calls[k]: a request or its answer, or Absent
          late,         \* states written and not yet published
          stranded      \* games whose engine nobody calls any more

vars == <<live, relay, screen, calls, late, stranded>>

(***************************************************************************)
(* g is the last state received, of game; ahead is the move that tryMove   *)
(* has put on the board on top of it (it changes fen and turn, not moves). *)
(* hasty is no state of the program: it notes, for MoveFitsScreen, in which*)
(* games the user moved before the socket had brought a first state.       *)
(***************************************************************************)
Screen == [game   : GameIds \cup {Absent},
           g      : Game \cup {Absent},
           ahead  : Moves \cup {Absent},
           socket : Watchers \cup {Absent},
           hasty  : SUBSET GameIds]

Call == [kind : {"create"}, color : Colors]
   \cup [kind : {"created"}, game : GameIds, g : Game]
   \cup [kind : {"move"}, game : GameIds, uci : Moves, seen : Seq(Moves)]
   \cup [kind : {"refused"}, game : GameIds, uci : Moves]
   \cup [kind : {"resign"}, game : GameIds]

ClientTypeOK ==
  /\ screen \in Screen
  /\ calls \in [Calls -> Call \cup {Absent}]
  /\ \A p \in late : p.game \in GameIds /\ p.g \in Game
  /\ stranded \subseteq GameIds

TypeOK == LiveTypeOK /\ RelayTypeOK /\ ClientTypeOK

ClientInit ==
  /\ screen = [game |-> Absent, g |-> Absent, ahead |-> Absent, socket |-> Absent,
               hasty |-> {}]
  /\ calls = [k \in Calls |-> Absent]
  /\ late = {} /\ stranded = {}

Send(k, call) ==
  /\ calls[k] = Absent /\ k = (CHOOSE j \in Calls : calls[j] = Absent)
  /\ call.kind \in Overlap \/ \A j \in Calls : calls[j] = Absent
  /\ calls' = [calls EXCEPT ![k] = call]

Answer(k, call) == calls' = [calls EXCEPT ![k] = call]
Is(k, kind) == calls[k] # Absent /\ calls[k].kind = kind

-----------------------------------------------------------------------------
(***************************************************************************)
(* The buttons of the lobby and of the overlay of a finished game.         *)
(***************************************************************************)
ClickNew(k, color) ==
  /\ color \in Sides
  /\ screen.g # Absent => screen.g.status = "finished"
  /\ Send(k, [kind |-> "create", color |-> color])
  /\ UNCHANGED <<live, relay, screen, late, stranded>>

(***************************************************************************)
(* connect without closing the socket of the game before.                  *)
(***************************************************************************)
ConnectAlso(c, id) ==
  relay' = [relay EXCEPT ![c].peer = "dial", ![c].game = id]

Connect(c, id) ==
  /\ relay[c].peer = "none" /\ c = CHOOSE d \in Watchers : relay[d].peer = "none"
  /\ relay' = [d \in Watchers |->
                 IF d = c THEN [relay[d] EXCEPT !.peer = "dial", !.game = id]
                 ELSE IF d = screen.socket THEN [relay[d] EXCEPT !.peer = "gone"]
                 ELSE relay[d]]

(***************************************************************************)
(* The rest of newGame: the new game is shown and its socket opened.       *)
(***************************************************************************)
ShowNew(k, c) ==
  /\ Is(k, "created")
  /\ Connect(c, calls[k].game)
  /\ screen' = [screen EXCEPT !.game = calls[k].game, !.g = calls[k].g,
                              !.ahead = Absent, !.socket = c]
  /\ Answer(k, Absent)
  /\ UNCHANGED <<live, late, stranded>>

(***************************************************************************)
(* A move does not hand the turn over on the screen.                       *)
(***************************************************************************)
MyTurnKept == /\ screen.g # Absent /\ screen.g.status = "ongoing"
              /\ Turn(screen.g) = screen.g.playerColor

MyTurn == /\ screen.g # Absent /\ screen.g.status = "ongoing"
          /\ Turn(screen.g) = screen.g.playerColor
          /\ screen.ahead = Absent

(***************************************************************************)
(* tryMove: the board shows the move before the server has seen it.  It    *)
(* does not wait for the socket: newGame has shown the board before.       *)
(***************************************************************************)
TryMove(k, uci) ==
  /\ MyTurn /\ screen.game \in Played /\ uci \in LegalMoves(screen.g.moves)
  /\ screen' = [screen EXCEPT !.ahead = uci,
                   !.hasty = IF relay[screen.socket].view = Absent
                             THEN @ \cup {screen.game} ELSE @]
  /\ Send(k, [kind |-> "move", game |-> screen.game, uci |-> uci,
               seen |-> screen.g.moves])
  /\ UNCHANGED <<live, relay, late, stranded>>

(***************************************************************************)
(* The answer to a refused move: an error is shown, and a copy of the same *)
(* state.  Other answers to moves and resignations are not looked at.      *)
(***************************************************************************)
ShowRefusal(k) ==
  /\ Is(k, "refused")
  /\ Answer(k, Absent)
  /\ UNCHANGED <<live, relay, screen, late, stranded>>

ClickResign(k) ==
  /\ screen.g # Absent /\ screen.g.status = "ongoing" /\ screen.g.ply \in Conceded
  /\ Send(k, [kind |-> "resign", game |-> screen.game])
  /\ UNCHANGED <<live, relay, screen, late, stranded>>

(***************************************************************************)
(* ws.onmessage.  A browser drops what arrives after close().              *)
(***************************************************************************)
Receive(c) ==
  /\ WriteSnapshot(c) \/ WriteEvent(c)
  /\ screen' = [screen EXCEPT !.game = relay[c].game, !.g = relay[c].view',
                              !.ahead = Absent]
  /\ UNCHANGED <<live, calls, late, stranded>>

-----------------------------------------------------------------------------
(***************************************************************************)
(* A write that was answered with an error may have been stored.  Nothing  *)
(* comes after it then, and if it was the player's move no job for the     *)
(* engine either.                                                          *)
(***************************************************************************)
Unreported(id, g, expected) ==
  /\ WriteConflict(id, g, expected) \/ WriteError(id, g, expected)
  /\ UNCHANGED late

Strand(id) == stranded' = IF live' = live THEN stranded ELSE stranded \cup {id}

(***************************************************************************)
(* POST /api/games.  Where the player is black a job is sent before the    *)
(* answer, which is an error if that fails.                                *)
(***************************************************************************)
ServeCreate(k, id) ==
  LET g == NewGame(calls[k].color)
  IN  /\ Is(k, "create")
      /\ ~Exists(id) /\ id = CHOOSE i \in GameIds : ~Exists(i)
      /\ \/ /\ WriteOk(id, g, -1)
            /\ Answer(k, [kind |-> "created", game |-> id, g |-> g])
            /\ UNCHANGED <<late, stranded>>
         \/ /\ \/ Unreported(id, g, -1)
               \/ /\ May("sqsSend") /\ g.playerColor = "black"
                  /\ WriteOk(id, g, -1) /\ UNCHANGED late
            /\ Answer(k, Absent) /\ Strand(id)
      /\ UNCHANGED <<relay, screen>>

(***************************************************************************)
(* The copies of the stored ply that a handler or worker may be about to   *)
(* write: a resignation leaves the ply, so what was read before it counts. *)
(***************************************************************************)
Resumed(g) ==
  IF g.termination = "resignation"
  THEN [g EXCEPT !.status = "ongoing", !.result = "", !.termination = ""] ELSE g

Copies(id) == {live[id], Resumed(live[id])}

Write(id, g) ==
  /\ Exists(id) /\ WriteOk(id, g, live[id].ply)
  /\ late' = late \cup {[game |-> id, g |-> g]}

(***************************************************************************)
(* POST .../moves: checked against the stored game, whatever the screen    *)
(* showed.  It is refused if it does not fit, if another request of the tab*)
(* was served since the game was read, or if the write is reported as      *)
(* failed.                                                                 *)
(***************************************************************************)
ServeMove(k) ==
  LET id  == calls[k].game
      uci == calls[k].uci
      refusal == [kind |-> "refused", game |-> id, uci |-> uci]
  IN  /\ Is(k, "move")
      /\ \/ \E g \in Copies(id) :
              /\ Exists(id) /\ CanApplyMove(g, g.playerColor, uci)
              /\ \/ /\ Write(id, ApplyMove(g, uci))
                    /\ Answer(k, Absent) /\ UNCHANGED stranded
                 \/ /\ Unreported(id, ApplyMove(g, uci), live[id].ply)
                    /\ Answer(k, refusal) /\ Strand(id)
         \/ /\ Calls # {k} \/ ~CanApplyMove(live[id], live[id].playerColor, uci)
            /\ Answer(k, refusal)
            /\ UNCHANGED <<live, late, stranded>>
      /\ UNCHANGED <<relay, screen>>

(***************************************************************************)
(* POST .../resign: it is refused if the game is over or has moved on since*)
(* it was read.  Nobody looks at the answer.  (One that has read the game  *)
(* before another resigned it would write and publish the same record.)    *)
(***************************************************************************)
ServeResign(k) ==
  LET id == calls[k].game
      g  == Resign(live[id], live[id].playerColor)
  IN  /\ Is(k, "resign")
      /\ \/ Exists(id) /\ CanResign(live[id]) /\ (Write(id, g) \/ Unreported(id, g, live[id].ply))
         \/ UNCHANGED <<live, late>>
      /\ Answer(k, Absent)
      /\ UNCHANGED <<relay, screen, stranded>>

(***************************************************************************)
(* The engine's move.  Its job is enqueued after the player's move has been*)
(* published (afterChange): of this ply nothing but a resignation is still *)
(* to be published.                                                        *)
(***************************************************************************)
EngineMove(id, uci) ==
  /\ Exists(id) /\ id \notin stranded
  /\ \A p \in late : p.game = id /\ p.g.ply = live[id].ply =>
                      p.g.termination = "resignation"
  /\ \E g \in Copies(id) : /\ CanApplyMove(g, EngineColor(g), uci)
                           /\ Write(id, ApplyMove(g, uci))
  /\ UNCHANGED <<relay, screen, calls, stranded>>

(***************************************************************************)
(* A state is published right after its write.  That of a later write comes*)
(* first only if a process falls behind for as long as others take to read *)
(* the state and to write and publish the next ("overtake").               *)
(***************************************************************************)
PublishLate(p) ==
  /\ ~May("overtake") => \A q \in late : q.game = p.game => q.g.ply >= p.g.ply
  /\ Deliver(p.game, p.g) \/ (May("redisDown") /\ UNCHANGED relay)
  /\ late' = late \ {p}
  /\ UNCHANGED <<live, screen, calls, stranded>>

-----------------------------------------------------------------------------
Tab(k) ==
  \/ \E color \in Colors : ClickNew(k, color)
  \/ \E c \in Watchers : ShowNew(k, c)
  \/ \E uci \in Moves : TryMove(k, uci)
  \/ ShowRefusal(k)
  \/ ClickResign(k)

Server(k) == (\E id \in GameIds : ServeCreate(k, id)) \/ ServeMove(k) \/ ServeResign(k)

Rest == <<live, screen, calls, late, stranded>>

Background(c) ==
  /\ \/ Accept(c) \/ Activate(c) \/ TakeEvent(c) \/ Forward(c) \/ Unsubscribe(c)
     \/ ReaderCancels(c) \/ HandlerReturns(c) \/ Disconnect(c)
  /\ UNCHANGED Rest

Init == LiveInit /\ RelayInit /\ ClientInit

Next ==
  \/ \E k \in Calls : Tab(k) \/ Server(k)
  \/ \E c \in Watchers : Receive(c) \/ Background(c)
  \/ \E id \in GameIds, uci \in Moves : EngineMove(id, uci)
  \/ \E p \in late : PublishLate(p)

Spec == Init /\ [][Next]_vars

(***************************************************************************)
(* Goroutines that can go on do, and the forwarder's two cases, chosen at  *)
(* random when both are ready, are neither passed over for ever.  Answers  *)
(* arrive.  Nothing makes a user click.                                    *)
(***************************************************************************)
Fairness ==
  /\ \A c \in Watchers :
       /\ WF_vars(Receive(c))
       /\ WF_vars(HandlerReturns(c) /\ UNCHANGED Rest)
       /\ WF_vars((TakeEvent(c) \/ Forward(c)) /\ UNCHANGED Rest)
       /\ SF_vars(Unsubscribe(c) /\ UNCHANGED Rest)
  /\ \A k \in Calls : WF_vars(ShowRefusal(k)) /\ WF_vars(Server(k))

FairSpec == Spec /\ Fairness

-----------------------------------------------------------------------------
(***************************************************************************)
(* The tab listens to one socket, and it is that of the game it shows,     *)
(* however often "new game" is pressed while answers are outstanding.      *)
(* (newGame, connect.)                                                     *)
(***************************************************************************)
ListensToItsGame ==
  \A c \in Watchers : relay[c].peer \in {"dial", "open"} =>
    c = screen.socket /\ relay[c].game = screen.game

(***************************************************************************)
(* A move is played in the position its player saw, although the request   *)
(* names neither ply nor position: the screen is never behind on the       *)
(* player's turn.  (tryMove and handleMove.)  This holds for White in games*)
(* in which the first move was not made before the socket had brought a    *)
(* state.  Where it was, an older snapshot takes it off the board, and the *)
(* board offers another; and the engine's first move to Black may arrive   *)
(* twice, in the snapshot and as an event, with the same effect.  In these *)
(* games the move is played later in the same game, never in one that went *)
(* another way.                                                            *)
(***************************************************************************)
MoveFitsScreen ==
  [][\A k \in Calls :
       LET id == calls[k].game
       IN  Is(k, "move") /\ calls'[k] = Absent =>
             /\ IsPrefix(calls[k].seen, live[id].moves)
             /\ live[id].playerColor = "white" /\ id \notin screen.hasty =>
                  live[id].moves = calls[k].seen]_vars

(***************************************************************************)
(* The record of play on the screen only grows while a game is shown: what *)
(* is sent was published in the order of the writes, after the snapshot.   *)
(* Only the news of a resignation can be older than a snapshot, when a move*)
(* has undone it in between.  (afterChange, handleWS, Subscribe.)          *)
(***************************************************************************)
ScreenGrows ==
  [][screen.g # Absent /\ screen'.game = screen.game =>
       \/ screen'.g.termination = "resignation"
       \/ IsPrefix(screen.g.moves, screen'.g.moves)]_vars

(***************************************************************************)
(* The detailed sockets implement the sessions of Fanout.                  *)
(***************************************************************************)
ImplementsFanout ==
  /\ FO!FanoutInit
  /\ [][\/ \E c \in Watchers : FO!SessionStep(c)
        \/ \E p \in late : FO!Publish(p.game, p.g)]_Sessions

(***************************************************************************)
(* "The server is the authority": a move it refused leaves the board.      *)
(* (tryMove, App.jsx.)                                                     *)
(***************************************************************************)
RefusedMoveLeaves ==
  \A id \in GameIds, uci \in Moves :
    (\E k \in Calls : Is(k, "refused") /\ calls[k].game = id /\ calls[k].uci = uci)
      ~> (screen.game # id \/ screen.ahead # uci)

=============================================================================
