----------------------------- MODULE ScreenProofs ---------------------------
(***************************************************************************)
(* What a player sees and plays on, for any number of games, sockets and   *)
(* requests in flight and any capacity of the channel: the record of play  *)
(* on the screen only grows, moves are played in the game they were made   *)
(* in, and White's in the position they were made in, but for a hasty      *)
(* player: one who moves before the socket has brought a state.            *)
(*                                                                         *)
(* The argument: everything on its way to the screen is a prefix of the    *)
(* stored list of moves (GamesKnown), and it is on its way in the order of *)
(* the writes (Ordered).  The snapshot comes in front of it, and cannot be *)
(* newer than what follows: until it is taken either at most one move was  *)
(* made, or the player was hasty, whose board then shows the first move    *)
(* and offers no other (WaitingFits).  As to the moves, there is at most   *)
(* one offer to White at a time, be it written, published, on the screen or*)
(* taken up by a request, and it is an offer to move in the stored position*)
(* (TurnInv).                                                              *)
(***************************************************************************)
EXTENDS WebClientProofs

(***************************************************************************)
(* What is on its way to the screen, in the order in which it arrives.     *)
(***************************************************************************)
Arriving(s) == IF s.snapshot = Absent THEN s.channel ELSE <<s.snapshot>> \o s.channel

Coming ==
  IF screen.socket \in Watchers THEN Arriving(Sessions[screen.socket]) ELSE <<>>

SocketIs(peer) == screen.socket \in Watchers /\ relay[screen.socket].peer = peer

(***************************************************************************)
(* A state of the game id that lies behind the stored one, or is it.       *)
(***************************************************************************)
Resigned(g) == g.termination = "resignation"

Sound(g) == g.ply = Len(g.moves) /\ (Resigned(g) => g.status = "finished")

Known(id, g) ==
  /\ Exists(id) /\ Sound(g)
  /\ g.playerColor = live[id].playerColor
  /\ IsPrefix(g.moves, live[id].moves)

(***************************************************************************)
(* Games whose player has no socket yet.                                   *)
(***************************************************************************)
Created(id)  == \E k \in Calls : Is(k, "created") /\ calls[k].game = id
Asked(k, id) == Is(k, "move") /\ calls[k].game = id
Waiting(id)  == Created(id) \/ (id = screen.game /\ SocketIs("dial"))

GamesKnown ==
  /\ \A id \in GameIds : Exists(id) => Known(id, live[id])
  /\ \A p \in late : Known(p.game, p.g) /\ (Resigned(p.g) \/ p.g.ply >= 1)
  /\ screen.game \in GameIds =>
       screen.g \in Game /\ Known(screen.game, screen.g) /\ screen.socket \in Watchers
  /\ \A i \in DOMAIN Coming : Known(screen.game, Coming[i])

CallsKnown ==
  /\ \A k \in Calls : Is(k, "created") =>
       /\ Known(calls[k].game, calls[k].g) /\ calls[k].g.ply = 0
       /\ calls[k].game # screen.game
       /\ \A j \in Calls : Is(j, "created") /\ calls[j].game = calls[k].game => j = k
  /\ \A k \in Calls : Is(k, "move") =>
       /\ Exists(calls[k].game) /\ ~Created(calls[k].game)
       /\ IsPrefix(calls[k].seen, live[calls[k].game].moves)

(***************************************************************************)
(* The player of the game on the screen has moved before its socket had    *)
(* brought a state, and the move is still on the board.                    *)
(***************************************************************************)
MovedEarly(id) == id = screen.game /\ id \in screen.hasty /\ screen.ahead # Absent

(***************************************************************************)
(* Until the socket opens at most one move is made, or the hasty player's  *)
(* and what follows it; and only the last move can be unpublished.         *)
(***************************************************************************)
OpeningFits(id) ==
  \/ live[id].ply = 0
  \/ live[id].ply = 1 /\ Turn(live[id]) = live[id].playerColor
  \/ MovedEarly(id) /\ \A k \in Calls : ~Asked(k, id)

HastyFits(id) ==
  \A k \in Calls : Asked(k, id) =>
    /\ live[id].ply = 0 /\ Turn(live[id]) = live[id].playerColor /\ MovedEarly(id)
    /\ \A j \in Calls : Asked(j, id) => j = k

LateFits(id) ==
  \A p \in late : p.game = id => Resigned(p.g) \/ p.g.ply = live[id].ply

WaitingFits ==
  /\ SocketIs("dial") => screen.g.ply = 0
  /\ \A id \in GameIds : Waiting(id) => OpeningFits(id) /\ HastyFits(id) /\ LateFits(id)

NotOlder(g, h) == Resigned(h) \/ g.ply <= h.ply

Ordered ==
  /\ \A i, j \in DOMAIN Coming : i < j => NotOlder(Coming[i], Coming[j])
  /\ \A i \in DOMAIN Coming : NotOlder(screen.g, Coming[i])
  /\ SocketIs("open") =>
       \A p \in late : p.game = screen.game =>
         NotOlder(screen.g, p.g) /\ \A i \in DOMAIN Coming : NotOlder(Coming[i], p.g)

OrderInv == GamesKnown /\ CallsKnown /\ WaitingFits /\ Ordered

-----------------------------------------------------------------------------
(***************************************************************************)
(* How the steps of a socket change what is coming.                        *)
(***************************************************************************)
LEMMA FrontFacts ==
  ASSUME NEW g \in Game, NEW s \in Seq(Game)
  PROVE  /\ <<g>> \o s \in Seq(Game) /\ <<g>> \o s # <<>>
         /\ Head(<<g>> \o s) = g /\ Tail(<<g>> \o s) = s
OBVIOUS

LEMMA FrontAppend ==
  ASSUME NEW g \in Game, NEW s \in Seq(Game), NEW e \in Game
  PROVE  <<g>> \o Append(s, e) = Append(<<g>> \o s, e)
OBVIOUS

LEMMA SessionFacts ==
  ASSUME relay \in [Watchers -> FitSocket], NEW c \in Watchers
  PROVE  /\ Sessions[c] \in FO!Session /\ Sessions[c] = SessionOf(relay[c])
         /\ Sessions[c].view = relay[c].view
         /\ relay[c].peer # "open" =>
              Sessions[c].pc # "open" /\ Arriving(Sessions[c]) = <<>>
         /\ relay[c].peer = "open" => Sessions[c].pc = "open" /\ relay[c].handler # "none"
         /\ relay[c].peer = "dial" => relay[c].view = Absent
         /\ Sessions[c].channel \in Seq(Game)
         /\ Sessions[c].snapshot \in Game \cup {Absent}
         /\ Sessions[c].view \in Game \cup {Absent}
<1>1. relay[c] \in Socket /\ Fits(relay[c])
  BY DEF FitSocket
<1>2. Sessions[c] = SessionOf(relay[c])
  BY DEF Sessions
<1>3. SessionOf(relay[c]) \in FO!Session
  BY <1>1, SessionType
<1>4. FO!Game = Game
  BY DEF FO!Game, Game, FO!Colors, Colors, FO!Results, Results
<1>5. /\ Sessions[c].channel \in Seq(Game) /\ Sessions[c].snapshot \in Game \cup {Absent}
      /\ Sessions[c].view \in Game \cup {Absent}
  BY <1>2, <1>3, <1>4 DEF FO!Session
<1> QED
  BY <1>1, <1>2, <1>3, <1>5 DEF SessionOf, Fits, Socket, Arriving

LEMMA SessionsType ==
  ASSUME relay \in [Watchers -> FitSocket]
  PROVE  Sessions \in [Watchers -> FO!Session]
<1>1. \A c \in Watchers : Sessions[c] \in FO!Session
  BY SessionFacts
<1> QED
  BY <1>1 DEF Sessions

LEMMA ArrivingType ==
  ASSUME relay \in [Watchers -> FitSocket], NEW c \in Watchers
  PROVE  Arriving(Sessions[c]) \in Seq(Game)
BY SessionFacts, FrontFacts DEF Arriving

LEMMA ComingType ==
  ASSUME relay \in [Watchers -> FitSocket]
  PROVE  Coming \in Seq(Game)
BY ArrivingType DEF Coming

(***************************************************************************)
(* A step of the goroutines leaves it as it is, ends it, or, if the socket *)
(* was being dialled, begins it with the snapshot.                         *)
(***************************************************************************)
SameComing ==
  /\ Coming' = Coming
  /\ SocketIs("open")' => SocketIs("open")
  /\ SocketIs("dial")' => SocketIs("dial")

NoComing ==
  /\ Coming' = <<>> /\ ~SocketIs("open")'
  /\ SocketIs("dial")' => SocketIs("dial")

SnapshotComing ==
  /\ Coming' = <<live[screen.game]>>
  /\ SocketIs("dial") /\ ~SocketIs("dial")' /\ Exists(screen.game)

LEMMA QuietComing ==
  ASSUME IInv, IInv', NEW c \in Watchers, NEW t,
         relay' = [relay EXCEPT ![c] = t], t.peer = relay[c].peer, t.view = relay[c].view,
         screen' = screen,
         \/ UNCHANGED Sessions
         \/ FO!Subscribe(c)
  PROVE  /\ SameComing
         /\ screen.socket \in Watchers => relay'[screen.socket].view = relay[screen.socket].view
<1>1. \A d \in Watchers : /\ relay'[d].peer = relay[d].peer /\ relay'[d].view = relay[d].view
  BY DEF IInv
<1>2. \A d \in Watchers : Arriving(Sessions'[d]) = Arriving(Sessions[d])
  <2>1. CASE UNCHANGED Sessions
    BY <2>1
  <2>2. CASE FO!Subscribe(c)
    <3>1. Sessions' = [Sessions EXCEPT ![c].subscribed = TRUE]
      BY <2>2 DEF FO!Subscribe
    <3>2. \A d \in Watchers : /\ Sessions'[d].channel = Sessions[d].channel
                              /\ Sessions'[d].snapshot = Sessions[d].snapshot
      BY <3>1, SessionFacts DEF IInv, FO!Session
    <3> QED
      BY <3>2 DEF Arriving
  <2> QED
    BY <2>1, <2>2
<1> QED
  BY <1>1, <1>2 DEF SameComing, Coming, SocketIs

LEMMA ClosingComing ==
  ASSUME IInv, IInv', NEW c \in Watchers, NEW t,
         relay' = [relay EXCEPT ![c] = t], t.peer = "gone", t.view = relay[c].view,
         screen' = screen
  PROVE  /\ SameComing \/ NoComing
         /\ screen.socket \in Watchers => relay'[screen.socket].view = relay[screen.socket].view
<1>1. relay'[c] = t /\ \A d \in Watchers : d # c => relay'[d] = relay[d]
  BY DEF IInv
<1>2. \A d \in Watchers : d # c => Sessions'[d] = Sessions[d]
  BY <1>1 DEF Sessions
<1>3. Arriving(Sessions'[c]) = <<>>
  <2>1. Sessions'[c] = SessionOf(t)
    BY <1>1 DEF Sessions
  <2> QED
    BY <2>1 DEF SessionOf, Arriving
<1>4. CASE screen.socket = c
  BY <1>1, <1>3, <1>4 DEF NoComing, Coming, SocketIs
<1>5. CASE screen.socket # c
  BY <1>1, <1>2, <1>5 DEF SameComing, Coming, SocketIs
<1> QED
  BY <1>4, <1>5

LEMMA AcceptComing ==
  ASSUME IInv, IInv', NEW c \in Watchers, Accept(c), screen' = screen
  PROVE  /\ SnapshotComing
         /\ relay'[screen.socket].view = relay[screen.socket].view
<1>1. relay[c].peer = "dial" /\ relay[c] \in Socket /\ Fits(relay[c])
  BY DEF Accept, IInv, FitSocket
<1>2. c = screen.socket /\ relay[c].game = screen.game
  BY <1>1 DEF IInv, ListensToItsGame
<1>3. relay'[c].peer = "open" /\ relay'[c].view = relay[c].view
  BY <1>1 DEF Accept, IInv, Socket
<1>4. FO!OpenWS(c, screen.game) /\ screen.game \in GameIds
  BY <1>2, AcceptShown DEF IInv
<1>5. Sessions[c].channel = <<>>
  BY <1>1 DEF Sessions, SessionOf, Fits
<1>6. Sessions'[c].snapshot = live[screen.game] /\ Sessions'[c].channel = <<>>
  <2>1. PICK f \in [Watchers -> FO!Session] : f = Sessions
    BY SessionsType DEF IInv
  <2>2. Sessions' = [f EXCEPT ![c].pc = "open", ![c].game = screen.game,
                              ![c].snapshot = live[screen.game]]
    BY <1>4, <2>1 DEF FO!OpenWS
  <2> QED
    BY <1>5, <2>1, <2>2 DEF FO!Session
<1>7. Exists(screen.game) /\ live[screen.game] \in Game
  BY <1>2, <1>4 DEF Accept, IInv, LiveTypeOK, Exists
<1>8. Arriving(Sessions'[c]) = <<live[screen.game]>>
  BY <1>6, <1>7, AbsentAssumption DEF Arriving
<1> QED
  BY <1>1, <1>2, <1>3, <1>7, <1>8 DEF SnapshotComing, Coming, SocketIs

LEMMA BackgroundComing ==
  ASSUME IInv, IInv', NEW c \in Watchers, Background(c)
  PROVE  /\ SameComing \/ NoComing \/ SnapshotComing
         /\ screen.socket \in Watchers => relay'[screen.socket].view = relay[screen.socket].view
<1> USE DEF Background, Rest
<1>0. screen' = screen /\ relay[c] \in Socket /\ relay \in [Watchers -> FitSocket]
  BY DEF IInv, FitSocket
<1>1. CASE Accept(c)
  BY <1>0, <1>1, AcceptComing
<1>2. CASE Activate(c)
  <2> DEFINE t == [relay[c] EXCEPT !.active = TRUE]
  <2>1. relay' = [relay EXCEPT ![c] = t] /\ t.peer = relay[c].peer /\ t.view = relay[c].view
    BY <1>0, <1>2 DEF Activate, Socket
  <2> HIDE DEF t
  <2> QED
    BY <1>0, <1>2, <2>1, ActivateShown, QuietComing
<1>3. CASE TakeEvent(c)
  <2> DEFINE t == [relay[c] EXCEPT !.hand = Head(relay[c].inbox), !.inbox = Tail(relay[c].inbox)]
  <2>1. relay' = [relay EXCEPT ![c] = t] /\ t.peer = relay[c].peer /\ t.view = relay[c].view
    BY <1>0, <1>3 DEF TakeEvent, Socket
  <2> HIDE DEF t
  <2> QED
    BY <1>0, <1>3, <2>1, TakeShown, QuietComing
<1>4. CASE Forward(c)
  <2> DEFINE t == [relay[c] EXCEPT !.out = Append(relay[c].out, relay[c].hand), !.hand = Absent]
  <2>1. relay' = [relay EXCEPT ![c] = t] /\ t.peer = relay[c].peer /\ t.view = relay[c].view
    BY <1>0, <1>4 DEF Forward, Socket
  <2> HIDE DEF t
  <2> QED
    BY <1>0, <1>4, <2>1, ForwardShown, QuietComing
<1>5. CASE Unsubscribe(c)
  <2> DEFINE t == [relay[c] EXCEPT !.forwarder = "returned", !.active = FALSE]
  <2>1. relay' = [relay EXCEPT ![c] = t] /\ t.peer = relay[c].peer /\ t.view = relay[c].view
    BY <1>0, <1>5 DEF Unsubscribe, Socket
  <2> HIDE DEF t
  <2> QED
    BY <1>0, <1>5, <2>1, EndsUnshown, QuietComing
<1>6. CASE ReaderCancels(c)
  <2> DEFINE t == [relay[c] EXCEPT !.done = TRUE]
  <2>1. relay' = [relay EXCEPT ![c] = t] /\ t.peer = relay[c].peer /\ t.view = relay[c].view
    BY <1>0, <1>6 DEF ReaderCancels, Socket
  <2> HIDE DEF t
  <2> QED
    BY <1>0, <1>6, <2>1, EndsUnshown, QuietComing
<1>7. CASE HandlerReturns(c)
  <2> DEFINE t == [relay[c] EXCEPT !.handler = "returned", !.done = TRUE, !.peer = "gone"]
  <2>1. relay' = [relay EXCEPT ![c] = t] /\ t.peer = "gone" /\ t.view = relay[c].view
    BY <1>0, <1>7 DEF HandlerReturns, Socket
  <2> HIDE DEF t
  <2> QED
    BY <1>0, <2>1, ClosingComing
<1>8. CASE Disconnect(c)
  <2> DEFINE t == [relay[c] EXCEPT !.peer = "gone"]
  <2>1. relay' = [relay EXCEPT ![c] = t] /\ t.peer = "gone" /\ t.view = relay[c].view
    BY <1>0, <1>8 DEF Disconnect, Socket
  <2> HIDE DEF t
  <2> QED
    BY <1>0, <2>1, ClosingComing
<1> QED
  BY <1>1, <1>2, <1>3, <1>4, <1>5, <1>6, <1>7, <1>8

(***************************************************************************)
(* The browser takes the first.                                            *)
(***************************************************************************)
LEMMA ReceiveComing ==
  ASSUME IInv, IInv', NEW c \in Watchers, Receive(c)
  PROVE  /\ c = screen.socket /\ SocketIs("open") /\ SocketIs("open")'
         /\ Coming # <<>> /\ Coming' = Tail(Coming) /\ Head(Coming) \in Game
         /\ screen'.g = Head(Coming) /\ relay'[c].view = Head(Coming)
         /\ screen'.game = screen.game /\ screen'.socket = screen.socket
         /\ screen'.ahead = Absent /\ screen'.hasty = screen.hasty
<1>1. relay[c].peer = "open" /\ relay[c] \in Socket /\ Fits(relay[c])
  BY DEF Receive, WriteSnapshot, WriteEvent, IInv, FitSocket
<1>2. c = screen.socket /\ relay[c].game = screen.game
  BY <1>1 DEF IInv, ListensToItsGame
<1>3. /\ screen'.g = relay'[c].view /\ screen'.game = relay[c].game
      /\ screen'.socket = screen.socket /\ screen'.ahead = Absent
      /\ screen'.hasty = screen.hasty
  BY DEF Receive, IInv, ClientTypeOK, Screen
<1>4. relay'[c].peer = "open" /\ relay'[c].view = Sessions'[c].view
  <2>1. relay'[c].peer = "open"
    BY <1>1 DEF Receive, WriteSnapshot, WriteEvent, IInv, Socket
  <2>2. relay'[c].view = Sessions'[c].view
    BY DEF Sessions, SessionOf
  <2> QED
    BY <2>1, <2>2
<1>5. /\ Arriving(Sessions[c]) # <<>> /\ Head(Arriving(Sessions[c])) \in Game
      /\ Arriving(Sessions'[c]) = Tail(Arriving(Sessions[c]))
      /\ Sessions'[c].view = Head(Arriving(Sessions[c]))
  <2>0. relay \in [Watchers -> FitSocket]
    BY DEF IInv
  <2>1. CASE WriteSnapshot(c)
    <3>1. FO!SendSnapshot(c)
      BY <2>0, <2>1, SnapshotShown
    <3>2. /\ Sessions[c].snapshot # Absent /\ Sessions'[c].snapshot = Absent
          /\ Sessions'[c].view = Sessions[c].snapshot
          /\ Sessions'[c].channel = Sessions[c].channel
      <4>1. PICK f \in [Watchers -> FO!Session] : f = Sessions
        BY <2>0, SessionsType
      <4>2. /\ f[c].snapshot # Absent
            /\ Sessions' = [f EXCEPT ![c].view = f[c].snapshot, ![c].snapshot = Absent]
        BY <3>1, <4>1 DEF FO!SendSnapshot
      <4> QED
        BY <4>1, <4>2 DEF FO!Session
    <3> QED
      BY <2>0, <3>2, SessionFacts, FrontFacts DEF Arriving
  <2>2. CASE WriteEvent(c)
    <3>1. FO!SendEvent(c)
      BY <2>0, <2>2, EventShown
    <3>2. /\ Sessions[c].snapshot = Absent /\ Sessions'[c].snapshot = Absent
          /\ Sessions[c].channel # <<>>
          /\ Sessions'[c].view = Head(Sessions[c].channel)
          /\ Sessions'[c].channel = Tail(Sessions[c].channel)
      <4>1. PICK f \in [Watchers -> FO!Session] : f = Sessions
        BY <2>0, SessionsType
      <4>2. /\ f[c].snapshot = Absent /\ f[c].channel # <<>>
            /\ Sessions' = [f EXCEPT ![c].view = Head(f[c].channel),
                                     ![c].channel = Tail(@)]
        BY <3>1, <4>1 DEF FO!SendEvent
      <4> QED
        BY <4>1, <4>2 DEF FO!Session
    <3>3. Head(Sessions[c].channel) \in Game
      BY <2>0, <3>2, SessionFacts, HeadTail
    <3> QED
      BY <3>2, <3>3 DEF Arriving
  <2> QED
    BY <2>1, <2>2 DEF Receive
<1> QED
  BY <1>1, <1>2, <1>3, <1>4, <1>5 DEF Coming, SocketIs

(***************************************************************************)
(* A publication comes last, and a new socket brings nothing yet.          *)
(***************************************************************************)
LEMMA PublishComing ==
  ASSUME IInv, IInv', NEW p \in late, PublishLate(p)
  PROVE  /\ \A peer : SocketIs(peer)' <=> SocketIs(peer)
         /\ screen.socket \in Watchers => relay'[screen.socket].view = relay[screen.socket].view
         /\ \/ Coming' = Coming
            \/ p.game = screen.game /\ SocketIs("open") /\ Coming' = Append(Coming, p.g)
<1>0. /\ screen' = screen /\ p.game \in GameIds /\ p.g \in Game
      /\ relay \in [Watchers -> FitSocket]
  BY DEF PublishLate, IInv, ClientTypeOK
<1>1. CASE UNCHANGED relay
  BY <1>0, <1>1 DEF SocketIs, Coming, Sessions
<1>2. CASE Deliver(p.game, p.g)
  <2>1. \A d \in Watchers : relay'[d].peer = relay[d].peer /\ relay'[d].view = relay[d].view
    BY <1>0, <1>2 DEF Deliver, FitSocket, Socket
  <2>2. FO!Publish(p.game, p.g)
    BY <1>0, <1>2, DeliverShown
  <2>3. ASSUME NEW d \in Watchers
        PROVE  \/ Sessions'[d] = Sessions[d]
               \/ /\ Sessions[d].subscribed /\ Sessions[d].game = p.game
                  /\ Sessions'[d].channel = Append(Sessions[d].channel, p.g)
                  /\ Sessions'[d].snapshot = Sessions[d].snapshot
    <3>1. PICK f \in [Watchers -> FO!Session] : f = Sessions
      BY <1>0, SessionsType
    <3>2. Sessions' = [c \in Watchers |->
                         IF f[c].subscribed /\ f[c].game = p.game
                         THEN [f[c] EXCEPT !.channel = Append(@, p.g)] ELSE f[c]]
      BY <2>2, <3>1 DEF FO!Publish
    <3> QED
      BY <3>1, <3>2 DEF FO!Session
  <2>4. CASE screen.socket \in Watchers
    <3> DEFINE d == screen.socket
    <3>1. CASE Sessions'[d] = Sessions[d]
      BY <1>0, <2>1, <2>4, <3>1 DEF Coming, SocketIs
    <3>2. CASE /\ Sessions[d].subscribed /\ Sessions[d].game = p.game
               /\ Sessions'[d].channel = Append(Sessions[d].channel, p.g)
               /\ Sessions'[d].snapshot = Sessions[d].snapshot
      <4>1. relay[d] \in Socket /\ Fits(relay[d])
        BY <1>0, <2>4 DEF FitSocket
      <4>2. relay[d].peer = "open" /\ relay[d].game = p.game
        <5>1. Sessions[d] = SessionOf(relay[d])
          BY <2>4 DEF Sessions
        <5>2. relay[d].handler # "none" /\ relay[d].peer # "gone"
          <6> SUFFICES ASSUME relay[d].handler = "none" \/ relay[d].peer = "gone"
                       PROVE  FALSE
            OBVIOUS
          <6>1. Sessions[d].subscribed = FALSE
            BY <5>1 DEF SessionOf
          <6> QED
            BY <3>2, <6>1
        <5>3. Sessions[d].game = relay[d].game
          BY <5>1, <5>2 DEF SessionOf
        <5> QED
          BY <3>2, <4>1, <5>2, <5>3 DEF Fits
      <4>3. screen.game = p.game
        BY <2>4, <4>2 DEF IInv, ListensToItsGame
      <4>4. Arriving(Sessions'[d]) = Append(Arriving(Sessions[d]), p.g)
        <5>1. Sessions[d].channel \in Seq(Game) /\ Sessions[d].snapshot \in Game \cup {Absent}
          BY <1>0, <2>4, SessionFacts
        <5>2. PICK chan \in Seq(Game), snap \in Game \cup {Absent} :
                chan = Sessions[d].channel /\ snap = Sessions[d].snapshot
          BY <5>1
        <5>3. /\ Arriving(Sessions'[d]) = IF snap = Absent THEN Append(chan, p.g)
                                          ELSE <<snap>> \o Append(chan, p.g)
              /\ Arriving(Sessions[d]) = IF snap = Absent THEN chan ELSE <<snap>> \o chan
          BY <3>2, <5>2 DEF Arriving
        <5>4. CASE snap = Absent
          BY <5>3, <5>4
        <5>5. CASE snap # Absent
          <6>1. <<snap>> \o Append(chan, p.g) = Append(<<snap>> \o chan, p.g)
            BY <1>0, <5>2, <5>5, FrontAppend
          <6> QED
            BY <5>3, <5>5, <6>1
        <5> QED
          BY <5>4, <5>5
      <4> QED
        BY <1>0, <2>1, <2>4, <4>2, <4>3, <4>4 DEF Coming, SocketIs
    <3> QED
      BY <2>3, <2>4, <3>1, <3>2
  <2>5. CASE screen.socket \notin Watchers
    BY <1>0, <2>5 DEF Coming, SocketIs
  <2> QED
    BY <2>4, <2>5
<1> QED
  BY <1>1, <1>2 DEF PublishLate

LEMMA ShowNewComing ==
  ASSUME IInv, IInv', NEW k \in Calls, NEW c \in Watchers, ShowNew(k, c)
  PROVE  /\ Coming' = <<>> /\ SocketIs("dial")' /\ ~SocketIs("open")'
         /\ screen'.game = calls[k].game /\ screen'.g = calls[k].g
         /\ screen'.socket = c /\ screen'.hasty = screen.hasty
         /\ relay'[c].view = Absent
<1>1. relay[c].peer = "none" /\ relay[c] \in Socket
  BY DEF ShowNew, Connect, IInv, FitSocket
<1>2. relay'[c].peer = "dial"
  BY <1>1 DEF ShowNew, Connect, Socket
<1>3. relay' \in [Watchers -> FitSocket]
  BY DEF IInv
<1>4. Arriving(Sessions'[c]) = <<>> /\ relay'[c].view = Absent
  <2>1. relay'[c] \in Socket /\ Fits(relay'[c])
    BY <1>3 DEF FitSocket
  <2>2. relay'[c].handler = "none" /\ relay'[c].view = Absent
    BY <1>2, <2>1 DEF Fits, Socket
  <2>3. Sessions'[c] = SessionOf(relay'[c])
    BY DEF Sessions
  <2> QED
    BY <2>1, <2>2, <2>3 DEF SessionOf, Arriving, Fits
<1>5. /\ screen'.game = calls[k].game /\ screen'.g = calls[k].g
      /\ screen'.socket = c /\ screen'.hasty = screen.hasty
  BY DEF ShowNew, IInv, ClientTypeOK, Screen
<1> QED
  BY <1>2, <1>4, <1>5 DEF Coming, SocketIs

-----------------------------------------------------------------------------
LEMMA TailIndex ==
  ASSUME NEW s \in Seq(Game), s # <<>>
  PROVE  /\ 1 \in DOMAIN s /\ Head(s) = s[1] /\ DOMAIN s \subseteq Nat
         /\ \A i \in DOMAIN Tail(s) :
              i \in Nat /\ i >= 1 /\ i + 1 \in DOMAIN s /\ Tail(s)[i] = s[i + 1]
OBVIOUS

LEMMA AppendIndex ==
  ASSUME NEW s \in Seq(Game), NEW g \in Game
  PROVE  /\ DOMAIN s \subseteq Nat /\ Len(s) + 1 \notin DOMAIN s
         /\ \A i \in DOMAIN Append(s, g) :
              \/ i \in DOMAIN s /\ Append(s, g)[i] = s[i]
              \/ i = Len(s) + 1 /\ Append(s, g)[i] = g
         /\ \A i \in DOMAIN s : i < Len(s) + 1
OBVIOUS

LEMMA ComingGames ==
  ASSUME relay \in [Watchers -> FitSocket]
  PROVE  \A i \in DOMAIN Coming : Coming[i] \in Game
<1>1. Coming \in Seq(Game)
  BY ComingType
<1> QED
  BY <1>1

LEMMA ComingHeard ==
  ASSUME IInv, NEW i \in DOMAIN Coming
  PROVE  SocketIs("open") /\ screen.game \in GameIds
<1>1. screen.socket \in Watchers /\ Coming # <<>>
  BY DEF Coming
<1>2. relay[screen.socket].peer = "open" /\ Fits(relay[screen.socket])
  BY <1>1, SessionFacts DEF Coming, IInv, FitSocket
<1> QED
  BY <1>1, <1>2 DEF SocketIs, IInv, ListensToItsGame, Fits

(***************************************************************************)
(* What is known of a game is not newer than the stored state.             *)
(***************************************************************************)
LEMMA KnownPly ==
  ASSUME LiveTypeOK, NEW id \in GameIds, NEW g \in Game, Known(id, g), Known(id, live[id])
  PROVE  g.ply <= live[id].ply /\ live[id] \in Game /\ g.ply \in Nat /\ live[id].ply \in Nat
BY DEF LiveTypeOK, Known, Exists, Sound, IsPrefix, Game

LEMMA BackgroundOrder ==
  ASSUME IInv, IInv', OrderInv, NEW c \in Watchers, Background(c)
  PROVE  OrderInv'
<1>0. UNCHANGED <<live, screen, calls, late>>
  BY DEF Background, Rest
<1>1. ASSUME NEW id, NEW g PROVE Known(id, g)' <=> Known(id, g)
  BY <1>0 DEF Known, Exists
<1>2. SameComing \/ NoComing \/ SnapshotComing
  BY BackgroundComing
<1>3. SocketIs("dial")' => SocketIs("dial")
  BY <1>2 DEF SameComing, NoComing, SnapshotComing
<1>4. ASSUME NEW id PROVE Waiting(id)' => Waiting(id)
  BY <1>0, <1>3 DEF Waiting, Created, Is
<1>5. CallsKnown'
  BY <1>0, <1>1 DEF OrderInv, CallsKnown, Created, Is, Exists
<1>6. WaitingFits'
  BY <1>0, <1>3, <1>4
     DEF OrderInv, WaitingFits, OpeningFits, HastyFits, LateFits, MovedEarly, Asked, Is,
         Turn, Resigned
<1>7. ASSUME SnapshotComing
      PROVE  /\ screen.game \in GameIds /\ Known(screen.game, live[screen.game])
             /\ screen.g \in Game /\ Known(screen.game, screen.g)
             /\ \A i \in DOMAIN Coming' : Coming'[i] = live[screen.game]
             /\ \A i, j \in DOMAIN Coming' : ~(i < j)
             /\ Waiting(screen.game)
  <2>1. screen.game \in GameIds
    <3>1. relay[screen.socket].game = screen.game /\ relay[screen.socket] \in FitSocket
      BY <1>7 DEF SnapshotComing, SocketIs, IInv, ListensToItsGame
    <3> QED
      BY <1>7, <3>1 DEF SnapshotComing, SocketIs, FitSocket, Fits
  <2>2. /\ \A i \in DOMAIN Coming' : Coming'[i] = live[screen.game]
        /\ \A i, j \in DOMAIN Coming' : ~(i < j)
    BY <1>7 DEF SnapshotComing
  <2> QED
    BY <1>7, <2>1, <2>2 DEF SnapshotComing, OrderInv, GamesKnown, Waiting
<1>8. GamesKnown'
  <2>1. \A i \in DOMAIN Coming' : Known(screen.game, Coming'[i])
    BY <1>2, <1>7 DEF SameComing, NoComing, OrderInv, GamesKnown
  <2> QED
    BY <1>0, <1>1, <2>1 DEF OrderInv, GamesKnown, Exists
<1>9. Ordered'
  <2>1. CASE SameComing
    BY <1>0, <2>1 DEF OrderInv, Ordered, NotOlder, Resigned, SameComing
  <2>2. CASE NoComing
    BY <1>0, <2>2 DEF Ordered, NoComing
  <2>3. CASE SnapshotComing
    <3>1. screen.g.ply <= live[screen.game].ply /\ live[screen.game].ply \in Nat
      BY <1>7, <2>3, KnownPly DEF IInv
    <3>2. \A p \in late : p.game = screen.game => Resigned(p.g) \/ p.g.ply = live[screen.game].ply
      BY <1>7, <2>3 DEF OrderInv, WaitingFits, LateFits
    <3>3. \A i \in DOMAIN Coming' : NotOlder(screen.g, Coming'[i])
      BY <1>7, <2>3, <3>1 DEF NotOlder
    <3>4. \A p \in late : p.game = screen.game =>
            NotOlder(screen.g, p.g) /\ \A i \in DOMAIN Coming' : NotOlder(Coming'[i], p.g)
      BY <1>7, <2>3, <3>1, <3>2 DEF NotOlder
    <3> QED
      BY <1>0, <1>7, <2>3, <3>3, <3>4 DEF Ordered, NotOlder, Resigned
  <2> QED
    BY <1>2, <2>1, <2>2, <2>3
<1> QED
  BY <1>5, <1>6, <1>8, <1>9 DEF OrderInv

(***************************************************************************)
(* The step for which the order matters.                                   *)
(***************************************************************************)
LEMMA ReceiveOrder ==
  ASSUME IInv, IInv', OrderInv, NEW c \in Watchers, Receive(c)
  PROVE  OrderInv'
<1>0. UNCHANGED <<live, calls, late>>
  BY DEF Receive
<1>1. ASSUME NEW id, NEW g PROVE Known(id, g)' <=> Known(id, g)
  BY <1>0 DEF Known, Exists
<1>2. /\ SocketIs("open") /\ SocketIs("open")'
      /\ Coming # <<>> /\ Coming' = Tail(Coming) /\ Head(Coming) \in Game
      /\ screen'.g = Head(Coming) /\ screen'.game = screen.game
      /\ screen'.socket = screen.socket
  BY ReceiveComing
<1>3. Coming \in Seq(Game)
  BY ComingType DEF IInv
<1>4. /\ 1 \in DOMAIN Coming /\ Head(Coming) = Coming[1]
      /\ \A i \in DOMAIN Coming' :
           /\ i \in Nat /\ i >= 1 /\ i + 1 \in DOMAIN Coming
           /\ Coming'[i] = Coming[i + 1]
  BY <1>2, <1>3, TailIndex
<1>5. SocketIs("dial")' => SocketIs("dial")
  BY <1>2 DEF SocketIs
<1>6. ASSUME NEW id PROVE Waiting(id)' => Waiting(id)
  BY <1>0, <1>2, <1>5 DEF Waiting, Created, Is
<1>7. CallsKnown'
  BY <1>0, <1>1, <1>2 DEF OrderInv, CallsKnown, Created, Is, Exists
<1>8. WaitingFits'
  <2>1. ~SocketIs("dial")'
    BY <1>2 DEF SocketIs
  <2>2. ASSUME NEW i \in GameIds, Waiting(i)' PROVE ~MovedEarly(i)
    BY <1>0, <1>2, <2>1, <2>2 DEF Waiting, Created, Is, MovedEarly, OrderInv, CallsKnown
  <2>3. ASSUME NEW i \in GameIds, Waiting(i)'
        PROVE  (OpeningFits(i) /\ HastyFits(i) /\ LateFits(i))'
    <3>1. OpeningFits(i) /\ HastyFits(i) /\ LateFits(i) /\ ~MovedEarly(i)
      BY <1>6, <2>2, <2>3 DEF OrderInv, WaitingFits
    <3>2. \A k \in Calls : ~Asked(k, i)'
      BY <1>0, <3>1 DEF HastyFits, Asked, Is
    <3> QED
      BY <1>0, <3>1, <3>2 DEF OpeningFits, HastyFits, LateFits, Turn, Resigned
  <2> QED
    BY <2>1, <2>3 DEF WaitingFits
<1>9. GamesKnown'
  <2>1. \A i \in DOMAIN Coming' : Known(screen.game, Coming'[i])
    BY <1>4 DEF OrderInv, GamesKnown
  <2>2. Known(screen.game, Head(Coming))
    BY <1>4 DEF OrderInv, GamesKnown
  <2> QED
    BY <1>0, <1>1, <1>2, <2>1, <2>2 DEF OrderInv, GamesKnown, Exists
<1>10. Ordered'
  <2>1. \A i, j \in DOMAIN Coming' : i < j => NotOlder(Coming'[i], Coming'[j])
    <3> SUFFICES ASSUME NEW i \in DOMAIN Coming', NEW j \in DOMAIN Coming', i < j
                 PROVE  NotOlder(Coming'[i], Coming'[j])
      OBVIOUS
    <3>1. i + 1 < j + 1
      BY <1>4
    <3> QED
      BY <1>4, <3>1 DEF OrderInv, Ordered
  <2>2. \A i \in DOMAIN Coming' : NotOlder(Head(Coming), Coming'[i])
    <3> SUFFICES ASSUME NEW i \in DOMAIN Coming'
                 PROVE  NotOlder(Head(Coming), Coming'[i])
      OBVIOUS
    <3>1. 1 < i + 1
      BY <1>4
    <3> QED
      BY <1>4, <3>1 DEF OrderInv, Ordered
  <2>3. \A p \in late : p.game = screen.game =>
          /\ NotOlder(Head(Coming), p.g)
          /\ \A i \in DOMAIN Coming' : NotOlder(Coming'[i], p.g)
    BY <1>2, <1>4 DEF OrderInv, Ordered
  <2> QED
    BY <1>0, <1>2, <2>1, <2>2, <2>3 DEF Ordered, NotOlder, Resigned
<1> QED
  BY <1>7, <1>8, <1>9, <1>10 DEF OrderInv

LEMMA ShowNewOrder ==
  ASSUME IInv, IInv', OrderInv, NEW k \in Calls, NEW c \in Watchers, ShowNew(k, c)
  PROVE  OrderInv'
<1> DEFINE id == calls[k].game
<1>0. /\ UNCHANGED <<live, late>> /\ Is(k, "created") /\ id \in GameIds
      /\ calls[k].g \in Game
      /\ calls' = [calls EXCEPT ![k] = Absent]
  BY CallKinds DEF ShowNew, Answer, IInv
<1>1. ASSUME NEW i, NEW g PROVE Known(i, g)' <=> Known(i, g)
  BY <1>0 DEF Known, Exists
<1>2. /\ Coming' = <<>> /\ SocketIs("dial")' /\ ~SocketIs("open")'
      /\ screen'.game = id /\ screen'.g = calls[k].g /\ screen'.socket = c
  BY ShowNewComing
<1>3. \A j \in Calls : /\ calls'[j] # Absent => j # k /\ calls'[j] = calls[j]
                       /\ j # k => calls'[j] = calls[j]
  BY <1>0 DEF IInv, ClientTypeOK
<1>4. ASSUME NEW i PROVE Waiting(i)' => Waiting(i)
  BY <1>0, <1>2, <1>3 DEF Waiting, Created, Is
<1>5. CallsKnown'
  <2>1. \A j \in Calls : Is(j, "created")' =>
          /\ Is(j, "created") /\ calls'[j] = calls[j] /\ calls[j].game # id
    BY <1>0, <1>3 DEF Is, OrderInv, CallsKnown
  <2>2. \A j \in Calls : Is(j, "move")' => Is(j, "move") /\ calls'[j] = calls[j]
    BY <1>3 DEF Is
  <2> HIDE DEF id
  <2> QED
    BY <1>0, <1>1, <1>2, <2>1, <2>2 DEF OrderInv, CallsKnown, Created, Exists
<1>6. WaitingFits'
  <2>1. screen'.g.ply = 0
    BY <1>0, <1>2 DEF OrderInv, CallsKnown
  <2>2. ASSUME NEW i \in GameIds, Waiting(i)' PROVE Created(i)
    BY <1>0, <1>2, <1>3, <2>2 DEF Waiting, Created, Is
  <2>3. ASSUME NEW i \in GameIds, Waiting(i)'
        PROVE  (OpeningFits(i) /\ HastyFits(i) /\ LateFits(i))'
    <3>1. Created(i) /\ OpeningFits(i) /\ LateFits(i)
      BY <2>2, <2>3 DEF OrderInv, WaitingFits, Waiting
    <3>2. ~MovedEarly(i) /\ \A j \in Calls : ~Asked(j, i)
      BY <3>1 DEF Created, Asked, MovedEarly, OrderInv, CallsKnown
    <3>3. \A j \in Calls : ~Asked(j, i)'
      BY <1>3, <3>2 DEF Asked, Is
    <3> QED
      BY <1>0, <3>1, <3>2, <3>3 DEF OpeningFits, HastyFits, LateFits, Turn, Resigned
  <2> QED
    BY <2>1, <2>3 DEF WaitingFits
<1>7. GamesKnown'
  BY <1>0, <1>1, <1>2 DEF OrderInv, GamesKnown, CallsKnown, Exists
<1>8. Ordered'
  BY <1>2 DEF Ordered
<1> QED
  BY <1>5, <1>6, <1>7, <1>8 DEF OrderInv

(***************************************************************************)
(* Steps of the tab, and answers that wrote nothing.                       *)
(***************************************************************************)
OnlyCalls ==
  /\ UNCHANGED <<live, relay, screen, late>>
  /\ \A k \in Calls : Is(k, "created")' \/ Is(k, "move")' => calls'[k] = calls[k]

LEMMA OnlyCallsOrder ==
  ASSUME IInv, IInv', OrderInv, OnlyCalls
  PROVE  OrderInv'
<1>0. ASSUME NEW k \in Calls
      PROVE  /\ Is(k, "created")' => Is(k, "created") /\ calls'[k] = calls[k]
             /\ Is(k, "move")' => Is(k, "move") /\ calls'[k] = calls[k]
  BY DEF OnlyCalls, Is
<1>1. ASSUME NEW i, NEW g PROVE Known(i, g)' <=> Known(i, g)
  BY DEF OnlyCalls, Known, Exists
<1>2. /\ Coming' = Coming
      /\ \A peer : SocketIs(peer)' <=> SocketIs(peer)
  BY DEF OnlyCalls, Coming, Sessions, SocketIs
<1>3. ASSUME NEW i PROVE Waiting(i)' => Waiting(i)
  BY <1>0, <1>2 DEF OnlyCalls, Waiting, Created
<1>4. CallsKnown'
  BY <1>0, <1>1 DEF OnlyCalls, OrderInv, CallsKnown, Created, Exists
<1>5. WaitingFits'
  <2>1. ASSUME NEW i PROVE \A k \in Calls : Asked(k, i)' => Asked(k, i)
    BY <1>0 DEF Asked
  <2> QED
    BY <1>2, <1>3, <2>1
       DEF OnlyCalls, OrderInv, WaitingFits, OpeningFits, HastyFits, LateFits, MovedEarly,
           Turn, Resigned
<1>6. GamesKnown'
  BY <1>1, <1>2 DEF OnlyCalls, OrderInv, GamesKnown, Exists, Resigned
<1>7. Ordered'
  BY <1>2 DEF OnlyCalls, OrderInv, Ordered, NotOlder, Resigned
<1> QED
  BY <1>4, <1>5, <1>6, <1>7 DEF OrderInv

(***************************************************************************)
(* Who moves before the socket has opened has the first move, and makes it *)
(* once: the board shows it until a state comes.                           *)
(***************************************************************************)
LEMMA TryMoveFacts ==
  ASSUME IInv, OrderInv, NEW k \in Calls, NEW uci \in Moves, TryMove(k, uci)
  PROVE  /\ UNCHANGED <<live, relay, late>>
         /\ screen.game \in GameIds /\ screen.g \in Game /\ Known(screen.game, screen.g)
         /\ screen.socket \in Watchers /\ screen.ahead = Absent
         /\ Turn(screen.g) = screen.g.playerColor /\ screen.g.status = "ongoing"
         /\ screen'.game = screen.game /\ screen'.g = screen.g
         /\ screen'.socket = screen.socket /\ screen'.ahead = uci /\ uci # Absent
         /\ screen.hasty \subseteq screen'.hasty
         /\ relay[screen.socket].view = Absent => screen.game \in screen'.hasty
         /\ calls'[k] = [kind |-> "move", game |-> screen.game, uci |-> uci,
                          seen |-> screen.g.moves]
         /\ \A j \in Calls : j # k => calls'[j] = calls[j]
<1>1. screen \in Screen /\ calls \in [Calls -> Call \cup {Absent}]
  BY DEF IInv, ClientTypeOK
<1>2. screen.g # Absent /\ screen.game \in GameIds
  BY DEF TryMove, MyTurn, IInv
<1>3. /\ screen'.game = screen.game /\ screen'.g = screen.g
      /\ screen'.socket = screen.socket /\ screen'.ahead = uci
      /\ screen'.hasty = IF relay[screen.socket].view = Absent
                         THEN screen.hasty \cup {screen.game} ELSE screen.hasty
  BY <1>1 DEF TryMove, Screen
<1> QED
  BY <1>1, <1>2, <1>3, UserAssumption DEF TryMove, MyTurn, Send, OrderInv, GamesKnown

LEMMA TryMoveOrder ==
  ASSUME IInv, IInv', OrderInv, NEW k \in Calls, NEW uci \in Moves, TryMove(k, uci)
  PROVE  OrderInv'
<1>9. PICK id \in GameIds : id = screen.game
  BY TryMoveFacts
<1>0. /\ live' = live /\ relay' = relay /\ late' = late
      /\ id = screen.game /\ screen.g \in Game /\ Known(id, screen.g)
      /\ screen.socket \in Watchers /\ screen.ahead = Absent
      /\ Turn(screen.g) = screen.g.playerColor
      /\ screen'.game = id /\ screen'.g = screen.g /\ screen'.socket = screen.socket
      /\ screen'.ahead # Absent
      /\ relay[screen.socket].view = Absent => id \in screen'.hasty
      /\ ~Is(k, "created")' /\ calls'[k].game = id /\ calls'[k].seen = screen.g.moves
      /\ \A j \in Calls : j # k => calls'[j] = calls[j]
  <2>1. calls'[k] = [kind |-> "move", game |-> id, uci |-> uci, seen |-> screen.g.moves]
    BY <1>9, TryMoveFacts
  <2>2. ~Is(k, "created")' /\ calls'[k].game = id /\ calls'[k].seen = screen.g.moves
    BY <2>1 DEF Is
  <2> QED
    BY <1>9, <2>2, TryMoveFacts
<1>1. ASSUME NEW i, NEW g PROVE Known(i, g)' <=> Known(i, g)
  BY <1>0 DEF Known, Exists
<1>2. /\ Coming' = Coming
      /\ \A peer : SocketIs(peer)' <=> SocketIs(peer)
  BY <1>0 DEF Coming, Sessions, SocketIs
<1>3. \A i : Created(i)' => Created(i)
  BY <1>0 DEF Created, Is
<1>4. ~Created(id)
  BY <1>0 DEF Created, OrderInv, CallsKnown
<1>5. CallsKnown'
  <2>1. \A j \in Calls : Is(j, "created")' => Is(j, "created") /\ calls'[j] = calls[j]
    BY <1>0 DEF Is
  <2>2. \A j \in Calls : Is(j, "move")' => (Is(j, "move") /\ calls'[j] = calls[j]) \/ j = k
    BY <1>0 DEF Is
  <2>3. Exists(id) /\ IsPrefix(screen.g.moves, live[id].moves)
    BY <1>0 DEF Known
  <2> QED
    BY <1>0, <1>1, <1>3, <1>4, <2>1, <2>2, <2>3 DEF OrderInv, CallsKnown, Exists
<1>6. WaitingFits'
  <2>1. ASSUME NEW i \in GameIds, Waiting(i)', i # id
        PROVE  (OpeningFits(i) /\ HastyFits(i) /\ LateFits(i))'
    <3>1. Waiting(i) /\ ~MovedEarly(i)
      BY <1>0, <1>3, <2>1 DEF Waiting, MovedEarly
    <3>2. OpeningFits(i) /\ LateFits(i) /\ \A j \in Calls : ~Asked(j, i)
      BY <3>1 DEF OrderInv, WaitingFits, HastyFits
    <3>3. \A j \in Calls : ~Asked(j, i)'
      BY <1>0, <2>1, <3>2 DEF Asked, Is
    <3> QED
      BY <1>0, <3>1, <3>2, <3>3 DEF OpeningFits, HastyFits, LateFits, Turn, Resigned
  <2>2. ASSUME Waiting(id)'
        PROVE  (OpeningFits(id) /\ HastyFits(id) /\ LateFits(id))'
    <3>1. SocketIs("dial") /\ Waiting(id)
      BY <1>0, <1>2, <1>3, <1>4, <2>2 DEF Waiting
    <3>2. MovedEarly(id)'
      <4>1. relay[screen.socket].view = Absent
        BY <1>0, <3>1, SessionFacts DEF SocketIs, IInv
      <4> QED
        BY <1>0, <4>1 DEF MovedEarly
    <3>3. ~MovedEarly(id) /\ OpeningFits(id) /\ HastyFits(id) /\ LateFits(id)
      BY <1>0, <3>1 DEF MovedEarly, OrderInv, WaitingFits
    <3>4. \A j \in Calls : ~Asked(j, id)
      BY <3>3 DEF HastyFits
    <3>5. \A j \in Calls : Asked(j, id)' => j = k
      <4> SUFFICES ASSUME NEW j \in Calls, j # k, Asked(j, id)' PROVE FALSE
        OBVIOUS
      <4>1. calls'[j] = calls[j]
        BY <1>0
      <4> QED
        BY <3>4, <4>1 DEF Asked, Is
    <3>6. live[id].ply = 0 /\ Turn(live[id]) = live[id].playerColor
      <4>1. live[id].playerColor = "white" /\ Known(id, live[id])
        <5>1. screen.g.moves = <<>>
          <6>1. screen.g.ply = 0 /\ screen.g.ply = Len(screen.g.moves)
            BY <1>0, <3>1 DEF OrderInv, WaitingFits, Known, Sound
          <6>2. screen.g.moves \in Seq(Moves)
            BY <1>0 DEF Game
          <6> QED
            BY <6>1, <6>2
        <5>2. Turn(screen.g) = "white"
          BY <5>1 DEF Turn
        <5> QED
          BY <1>0, <5>2 DEF Known, OrderInv, GamesKnown
      <4>2. live[id].ply = Len(live[id].moves)
        BY <4>1 DEF Known, Sound
      <4>3. CASE live[id].ply = 0
        BY <4>1, <4>2, <4>3 DEF Turn
      <4>4. CASE live[id].ply = 1
        BY <3>3, <4>1, <4>2, <4>4 DEF OpeningFits, Turn
      <4> QED
        BY <3>3, <4>3, <4>4 DEF OpeningFits
    <3>7. OpeningFits(id)'
      BY <1>0, <3>6 DEF OpeningFits
    <3>8. HastyFits(id)'
      BY <1>0, <3>2, <3>5, <3>6 DEF HastyFits, Turn
    <3>9. LateFits(id)'
      BY <1>0, <3>3 DEF LateFits, Resigned
    <3> QED
      BY <3>7, <3>8, <3>9
  <2>3. SocketIs("dial")' => screen'.g.ply = 0
    BY <1>0, <1>2 DEF WaitingFits, OrderInv
  <2> QED
    BY <2>1, <2>2, <2>3 DEF WaitingFits
<1>7. GamesKnown'
  BY <1>0, <1>1, <1>2 DEF OrderInv, GamesKnown, Exists, Resigned
<1>8. Ordered'
  BY <1>0, <1>2 DEF OrderInv, Ordered, NotOlder, Resigned
<1> QED
  BY <1>5, <1>6, <1>7, <1>8 DEF OrderInv

LEMMA TabOrder ==
  ASSUME IInv, IInv', OrderInv, NEW k \in Calls,
         \/ \E color \in Colors : ClickNew(k, color)
         \/ ShowRefusal(k)
         \/ ClickResign(k)
  PROVE  OrderInv'
<1>1. UNCHANGED <<live, relay, screen, late>>
  BY DEF ClickNew, ShowRefusal, ClickResign
<1>2. /\ \A j \in Calls : j # k => calls'[j] = calls[j]
      /\ ~Is(k, "created")' /\ ~Is(k, "move")'
  BY DEF ClickNew, ShowRefusal, ClickResign, Send, Answer, Is, IInv, ClientTypeOK
<1>3. OnlyCalls
  BY <1>1, <1>2 DEF OnlyCalls
<1> QED
  BY <1>3, OnlyCallsOrder

-----------------------------------------------------------------------------
(***************************************************************************)
(* The stored games only grow, and what was known of them stays known.     *)
(***************************************************************************)
LiveGrows ==
  \A id \in GameIds : Exists(id) =>
    /\ Exists(id)' /\ live'[id].playerColor = live[id].playerColor
    /\ IsPrefix(live[id].moves, live'[id].moves)

LEMMA KnownStable ==
  ASSUME LiveTypeOK, LiveTypeOK', LiveGrows, NEW id \in GameIds, NEW g \in Game, Known(id, g)
  PROVE  Known(id, g)'
<1>1. /\ Exists(id) /\ Exists(id)' /\ live'[id].playerColor = live[id].playerColor
      /\ IsPrefix(live[id].moves, live'[id].moves) /\ IsPrefix(g.moves, live[id].moves)
  BY DEF Known, LiveGrows
<1>2. g.moves \in Seq(Moves) /\ live[id].moves \in Seq(Moves) /\ live'[id].moves \in Seq(Moves)
  BY <1>1 DEF LiveTypeOK, Exists, Game
<1>3. IsPrefix(g.moves, live'[id].moves)
  BY <1>1, <1>2, PrefixTransitive
<1> QED
  BY <1>1, <1>3 DEF Known

(***************************************************************************)
(* A write: n takes the place of the stored game, which it continues by a  *)
(* move or ends by a resignation.                                          *)
(***************************************************************************)
Continues(g, n) ==
  /\ n \in Game /\ Sound(n) /\ n.playerColor = g.playerColor
  /\ \/ Resigned(n) /\ n.moves = g.moves
     \/ /\ ~Resigned(n) /\ n.ply = g.ply + 1
        /\ \E uci \in Moves : n.moves = Append(g.moves, uci)

LEMMA CopySound ==
  ASSUME LiveTypeOK, NEW id \in GameIds, Known(id, live[id]), NEW g \in Copies(id),
         g.status # "finished"
  PROVE  /\ g \in Game /\ Sound(g) /\ ~Resigned(g) /\ g.moves = live[id].moves
         /\ g.ply = live[id].ply /\ g.playerColor = live[id].playerColor
<1>1. live[id] \in Game /\ Sound(live[id])
  BY DEF Known, LiveTypeOK, Exists
<1>2. CASE g = live[id]
  BY <1>1, <1>2 DEF Sound
<1>3. CASE g = Resumed(live[id]) /\ Resigned(live[id])
  BY <1>1, <1>3 DEF Resumed, Sound, Resigned, Game
<1> QED
  BY <1>1, <1>2, <1>3 DEF Copies, Resumed, Resigned

LEMMA MoveContinues ==
  ASSUME LiveTypeOK, NEW id \in GameIds, Known(id, live[id]), NEW g \in Copies(id),
         NEW color, NEW uci \in Moves, CanApplyMove(g, color, uci)
  PROVE  Continues(live[id], ApplyMove(g, uci)) /\ ~Resigned(ApplyMove(g, uci))
<1>1. /\ g \in Game /\ Sound(g) /\ ~Resigned(g) /\ g.moves = live[id].moves
      /\ g.ply = live[id].ply /\ g.playerColor = live[id].playerColor
  BY CopySound DEF CanApplyMove
<1>2. /\ ApplyMove(g, uci) \in Game
      /\ ApplyMove(g, uci).moves = Append(g.moves, uci)
      /\ ApplyMove(g, uci).ply = Len(g.moves) + 1
      /\ ApplyMove(g, uci).playerColor = g.playerColor
  BY <1>1, ApplyMoveType
<1>3. g.moves \in Seq(Moves)
  BY <1>1 DEF Game
<1>4. Len(Append(g.moves, uci)) = Len(g.moves) + 1
  BY <1>3
<1>5. ~Resigned(ApplyMove(g, uci))
  BY <1>1 DEF ApplyMove, Resigned, Game
<1> QED
  BY <1>1, <1>2, <1>4, <1>5 DEF Continues, Sound

LEMMA ResignContinues ==
  ASSUME LiveTypeOK, NEW id \in GameIds, Known(id, live[id]), NEW color \in Colors
  PROVE  Continues(live[id], Resign(live[id], color))
<1>1. live[id] \in Game /\ Sound(live[id])
  BY DEF Known, LiveTypeOK, Exists
<1>2. Resigned(Resign(live[id], color))
  BY <1>1 DEF Resign, Resigned, Game
<1> QED
  BY <1>1, <1>2, ResignType DEF Continues, Sound

(***************************************************************************)
(* What a write needs to keep, that of another game or a new one included. *)
(***************************************************************************)
Writes ==
  /\ UNCHANGED <<relay, screen>> /\ LiveGrows
  /\ \A p \in late' :
       \/ p \in late
       \/ Known(p.game, p.g)' /\ (Resigned(p.g) \/ p.g.ply >= 1)
  /\ \A k \in Calls : Is(k, "move")' => calls'[k] = calls[k]

LEMMA WritesKnown ==
  ASSUME IInv, IInv', OrderInv, Writes, \A id \in GameIds : Exists(id)' => Known(id, live[id])'
  PROVE  GamesKnown' /\ Coming' = Coming /\ (\A peer : SocketIs(peer)' <=> SocketIs(peer))
<1>1. Coming' = Coming /\ (\A peer : SocketIs(peer)' <=> SocketIs(peer))
  BY DEF Writes, Coming, Sessions, SocketIs
<1>2. ASSUME NEW id \in GameIds, NEW g \in Game, Known(id, g) PROVE Known(id, g)'
  BY <1>2, KnownStable DEF IInv, Writes
<1>3. \A p \in late' : Known(p.game, p.g)' /\ (Resigned(p.g) \/ p.g.ply >= 1)
  <2> SUFFICES ASSUME NEW p \in late, Known(p.game, p.g), p.game \in GameIds, p.g \in Game
               PROVE  Known(p.game, p.g)'
    BY DEF Writes, IInv, ClientTypeOK, OrderInv, GamesKnown
  <2> QED
    BY <1>2
<1>4. screen.game \in GameIds =>
        screen.g \in Game /\ Known(screen.game, screen.g)' /\ screen.socket \in Watchers
  <2> SUFFICES ASSUME screen.game \in GameIds PROVE Known(screen.game, screen.g)'
    BY DEF OrderInv, GamesKnown
  <2>1. screen.g \in Game /\ Known(screen.game, screen.g)
    BY DEF OrderInv, GamesKnown
  <2>2. screen' = screen
    BY DEF Writes
  <2> QED
    BY <1>2, <2>1, <2>2
<1>5. \A i \in DOMAIN Coming : Known(screen.game, Coming[i])'
  <2> SUFFICES ASSUME NEW i \in DOMAIN Coming PROVE Known(screen.game, Coming[i])'
    OBVIOUS
  <2>1. Coming[i] \in Game /\ Known(screen.game, Coming[i])
    BY ComingGames DEF IInv, OrderInv, GamesKnown
  <2>2. screen.game \in GameIds
    BY ComingHeard
  <2>3. screen' = screen
    BY DEF Writes
  <2> QED
    BY <1>1, <1>2, <2>1, <2>2, <2>3
<1> QED
  BY <1>1, <1>3, <1>4, <1>5 DEF GamesKnown, Writes

(***************************************************************************)
(* A move or a resignation, which is then published or not.  The game of a *)
(* player who has no socket yet is written by a resignation, by the engine *)
(* or by the hasty player, when the last move has been published.          *)
(***************************************************************************)
Stores(id, n) ==
  /\ Exists(id) /\ live' = [live EXCEPT ![id] = n]
  /\ (late' = late \/ late' = late \cup {[game |-> id, g |-> n]})

LEMMA WriteStores ==
  ASSUME NEW id, NEW n, Exists(id),
         Write(id, n) \/ (Unreported(id, n, live[id].ply) /\ live' # live)
  PROVE  Stores(id, n)
BY DEF Write, WriteOk, Unreported, WriteConflict, WriteError, CasApplies, Stores

LEMMA MoveStores ==
  ASSUME NEW k, ServeMove(k), NEW id, id = calls[k].game, NEW uci, uci = calls[k].uci
  PROVE  \/ UNCHANGED <<live, late>>
         \/ \E g \in Copies(id) : /\ Exists(id) /\ CanApplyMove(g, g.playerColor, uci)
                                 /\ Stores(id, ApplyMove(g, uci))
<1>1. CASE \E g \in Copies(id) :
             /\ Exists(id) /\ CanApplyMove(g, g.playerColor, uci)
             /\ \/ Write(id, ApplyMove(g, uci))
                \/ Unreported(id, ApplyMove(g, uci), live[id].ply)
  <2>1. PICK g \in Copies(id) :
               /\ Exists(id) /\ CanApplyMove(g, g.playerColor, uci)
               /\ \/ Write(id, ApplyMove(g, uci))
                  \/ Unreported(id, ApplyMove(g, uci), live[id].ply)
    BY <1>1
  <2>2. PICK n : n = ApplyMove(g, uci)
    OBVIOUS
  <2>3. UNCHANGED <<live, late>> \/ Stores(id, n)
    BY <2>1, <2>2, WriteStores DEF Unreported
  <2> QED
    BY <2>1, <2>2, <2>3
<1> QED
  BY <1>1 DEF ServeMove

LEMMA ResignStores ==
  ASSUME NEW k, ServeResign(k), NEW id, id = calls[k].game
  PROVE  UNCHANGED <<live, late>> \/ Stores(id, Resign(live[id], live[id].playerColor))
<1>1. PICK n : n = Resign(live[id], live[id].playerColor)
  OBVIOUS
<1>2. \/ UNCHANGED <<live, late>>
      \/ Exists(id) /\ (Write(id, n) \/ Unreported(id, n, live[id].ply))
  BY <1>1 DEF ServeResign
<1>3. UNCHANGED <<live, late>> \/ Stores(id, n)
  BY <1>2, WriteStores DEF Unreported
<1> QED
  BY <1>1, <1>3

LEMMA ContinuesFacts ==
  ASSUME NEW g \in Game, Sound(g), NEW n, Continues(g, n)
  PROVE  /\ IsPrefix(g.moves, n.moves) /\ n \in Game /\ Sound(n)
         /\ n.playerColor = g.playerColor
         /\ Resigned(n) => n.ply = g.ply /\ n.moves = g.moves
         /\ ~Resigned(n) => n.ply = g.ply + 1
<1>1. g.moves \in Seq(Moves)
  BY DEF Game
<1>2. CASE Resigned(n)
  BY <1>1, <1>2, PrefixReflexive DEF Continues, Sound
<1>3. CASE ~Resigned(n)
  <2>1. PICK uci \in Moves : n.moves = Append(g.moves, uci)
    BY <1>3 DEF Continues
  <2>2. IsPrefix(g.moves, n.moves)
    BY <1>1, <2>1, PrefixReflexive, PrefixGrows
  <2> QED
    BY <1>3, <2>2 DEF Continues
<1> QED
  BY <1>2, <1>3

LEMMA WriteOrder ==
  ASSUME IInv, IInv', OrderInv, NEW id \in GameIds, NEW n, Stores(id, n),
         Continues(live[id], n), UNCHANGED <<relay, screen>>,
         \A k \in Calls : Is(k, "created")' \/ Is(k, "move")' => calls'[k] = calls[k],
         Waiting(id) /\ ~Resigned(n) =>
           /\ OpeningFits(id)' /\ \A k \in Calls : ~Asked(k, id)'
           /\ \A p \in late : p.game = id => Resigned(p.g)
  PROVE  OrderInv'
<1>0. \A k \in Calls : /\ Is(k, "created")' => Is(k, "created") /\ calls'[k] = calls[k]
                       /\ Is(k, "move")' => Is(k, "move") /\ calls'[k] = calls[k]
  BY DEF Is
<1>1. /\ Exists(id) /\ (late' = late \/ late' = late \cup {[game |-> id, g |-> n]})
      /\ live' = [live EXCEPT ![id] = n] /\ live[id] \in Game /\ Known(id, live[id])
      /\ Sound(live[id])
  BY DEF Stores, IInv, LiveTypeOK, Exists, OrderInv, GamesKnown, Known
<1>2. /\ live'[id] = n /\ \A i \in GameIds : i # id => live'[i] = live[i]
  BY <1>1 DEF IInv, LiveTypeOK
<1>3. /\ IsPrefix(live[id].moves, n.moves) /\ n \in Game /\ Sound(n)
      /\ n.playerColor = live[id].playerColor
      /\ Resigned(n) => n.ply = live[id].ply /\ n.moves = live[id].moves
      /\ ~Resigned(n) => n.ply = live[id].ply + 1
  BY <1>1, ContinuesFacts
<1>4. ASSUME NEW i \in GameIds, Exists(i)
      PROVE  IsPrefix(live[i].moves, live[i].moves)
  BY <1>4, PrefixReflexive DEF IInv, LiveTypeOK, Exists, Game
<1>5. LiveGrows
  <2> SUFFICES ASSUME NEW i \in GameIds, Exists(i)
               PROVE  /\ Exists(i)' /\ live'[i].playerColor = live[i].playerColor
                      /\ IsPrefix(live[i].moves, live'[i].moves)
    BY DEF LiveGrows
  <2>1. CASE i = id
    BY <1>2, <1>3, <2>1, AbsentAssumption DEF Exists
  <2>2. CASE i # id
    BY <1>2, <1>4, <2>2 DEF Exists
  <2> QED
    BY <2>1, <2>2
<1>6. Known(id, n)'
  <2>1. IsPrefix(n.moves, n.moves)
    BY <1>3, PrefixReflexive DEF Game
  <2> QED
    BY <1>2, <1>3, <2>1, AbsentAssumption DEF Known, Exists
<1>15. live[id].ply \in Nat
  BY <1>1 DEF Game
<1>7. Resigned(n) \/ n.ply >= 1
  BY <1>3, <1>15
<1>8. Writes
  <2>1. \A p \in late' : p \in late \/ (Known(p.game, p.g)' /\ (Resigned(p.g) \/ p.g.ply >= 1))
    BY <1>1, <1>6, <1>7
  <2> QED
    BY <1>0, <1>5, <2>1 DEF Writes
<1>9. ASSUME NEW i \in GameIds, Exists(i)' PROVE Known(i, live[i])'
  <2>1. CASE i = id
    BY <1>2, <1>6, <2>1
  <2>2. CASE i # id
    BY <1>2, <1>9, <2>2 DEF OrderInv, GamesKnown, Known, Exists
  <2> QED
    BY <2>1, <2>2
<1>10. GamesKnown' /\ Coming' = Coming /\ (\A peer : SocketIs(peer)' <=> SocketIs(peer))
  BY <1>8, <1>9, WritesKnown
<1>11. ASSUME NEW i PROVE Waiting(i)' => Waiting(i)
  BY <1>0, <1>10 DEF Waiting, Created
<1>12. CallsKnown'
  <2>1. ASSUME NEW k \in Calls, Is(k, "created")'
        PROVE  Known(calls[k].game, calls[k].g)'
    <3>1. \A i \in GameIds, g \in Game : Known(i, g) => Known(i, g)'
      BY <1>5, KnownStable DEF IInv
    <3>2. Is(k, "created") /\ calls'[k] = calls[k]
      BY <1>0, <2>1
    <3> QED
      BY <3>1, <3>2, CallKinds DEF IInv, OrderInv, CallsKnown
  <2>2. ASSUME NEW k \in Calls, Is(k, "move")'
        PROVE  /\ Exists(calls[k].game)' /\ ~Created(calls[k].game)'
               /\ IsPrefix(calls[k].seen, live[calls[k].game].moves)'
    <3>0. Is(k, "move") /\ calls'[k] = calls[k]
      BY <1>0, <2>2
    <3>1. PICK i \in GameIds : i = calls[k].game
      BY <3>0, CallKinds DEF IInv
    <3>2. /\ Exists(i) /\ ~Created(i) /\ IsPrefix(calls[k].seen, live[i].moves)
          /\ calls[k].seen \in Seq(Moves)
      BY <3>0, <3>1, CallKinds DEF IInv, OrderInv, CallsKnown
    <3>3. Exists(i)' /\ IsPrefix(live[i].moves, live'[i].moves)
      BY <1>5, <3>2 DEF LiveGrows
    <3>4. live[i].moves \in Seq(Moves) /\ live'[i].moves \in Seq(Moves)
      BY <3>2, <3>3 DEF IInv, LiveTypeOK, Exists, Game
    <3>5. IsPrefix(calls[k].seen, live'[i].moves)
      BY <3>2, <3>3, <3>4, PrefixTransitive
    <3>6. ~Created(i)'
      BY <1>0, <3>2 DEF Created
    <3> QED
      BY <3>0, <3>1, <3>3, <3>5, <3>6
  <2> QED
    BY <1>0, <1>8, <2>1, <2>2 DEF OrderInv, CallsKnown, Writes
<1>13. WaitingFits'
  <2>1. \A i : \A k \in Calls : Asked(k, i)' => Asked(k, i)
    BY <1>0 DEF Asked
  <2>2. \A i : MovedEarly(i)' <=> MovedEarly(i)
    BY DEF MovedEarly
  <2>3. ASSUME NEW i \in GameIds, Waiting(i)'
        PROVE  (OpeningFits(i) /\ HastyFits(i) /\ LateFits(i))'
    <3>1. Waiting(i) /\ OpeningFits(i) /\ HastyFits(i) /\ LateFits(i)
      BY <1>11, <2>3 DEF OrderInv, WaitingFits
    <3>2. CASE i # id
      <4>1. LateFits(i)'
        BY <1>1, <1>2, <3>1, <3>2 DEF LateFits, Resigned
      <4>2. live'[i] = live[i]
        BY <1>2, <3>2
      <4> QED
        BY <2>1, <2>2, <3>1, <4>1, <4>2 DEF OpeningFits, HastyFits, Turn
    <3>3. CASE i = id /\ Resigned(n)
      <4>1. /\ live'[i].ply = live[i].ply /\ live'[i].playerColor = live[i].playerColor
            /\ Turn(live'[i]) = Turn(live[i])
        BY <1>2, <1>3, <3>3 DEF Turn
      <4>2. \A p \in late' : p \in late \/ Resigned(p.g)
        BY <1>1, <3>3
      <4>3. LateFits(i)'
        BY <3>1, <4>1, <4>2 DEF LateFits, Resigned
      <4> QED
        BY <2>1, <2>2, <3>1, <4>1, <4>3 DEF OpeningFits, HastyFits, Turn
    <3>4. CASE i = id /\ ~Resigned(n)
      <4>1. LateFits(i)'
        BY <1>1, <1>2, <3>1, <3>4 DEF LateFits, Resigned
      <4> QED
        BY <3>1, <3>4, <4>1 DEF HastyFits
    <3> QED
      BY <3>2, <3>3, <3>4
  <2>4. SocketIs("dial")' => screen'.g.ply = 0
    BY <1>10 DEF OrderInv, WaitingFits
  <2> QED
    BY <2>3, <2>4 DEF WaitingFits
<1>14. Ordered'
  <2>1. \A i \in DOMAIN Coming : screen.game = id => NotOlder(Coming[i], n)
    <3> SUFFICES ASSUME NEW i \in DOMAIN Coming, screen.game = id PROVE NotOlder(Coming[i], n)
      OBVIOUS
    <3>1. Coming[i] \in Game /\ Known(id, Coming[i])
      BY ComingGames DEF IInv, OrderInv, GamesKnown
    <3>2. Coming[i].ply <= live[id].ply
      BY <1>1, <3>1, KnownPly DEF IInv
    <3>3. Coming[i].ply \in Nat
      BY <3>1 DEF Game
    <3> QED
      BY <1>3, <1>15, <3>2, <3>3 DEF NotOlder
  <2>2. screen.game = id => NotOlder(screen.g, n)
    <3> SUFFICES ASSUME screen.game = id PROVE NotOlder(screen.g, n)
      OBVIOUS
    <3>1. screen.g \in Game /\ Known(id, screen.g)
      BY DEF OrderInv, GamesKnown
    <3>2. screen.g.ply <= live[id].ply
      BY <1>1, <3>1, KnownPly DEF IInv
    <3>3. screen.g.ply \in Nat
      BY <3>1 DEF Game
    <3> QED
      BY <1>3, <1>15, <3>2, <3>3 DEF NotOlder
  <2>3. /\ \A i, j \in DOMAIN Coming : i < j => NotOlder(Coming[i], Coming[j])
        /\ \A i \in DOMAIN Coming : NotOlder(screen.g, Coming[i])
    BY DEF OrderInv, Ordered
  <2>4. SocketIs("open") =>
          \A p \in late' : p.game = screen.game =>
            NotOlder(screen.g, p.g) /\ \A i \in DOMAIN Coming : NotOlder(Coming[i], p.g)
    BY <1>1, <2>1, <2>2 DEF OrderInv, Ordered
  <2> QED
    BY <1>10, <2>3, <2>4 DEF Ordered, NotOlder, Resigned
<1> QED
  BY <1>10, <1>12, <1>13, <1>14 DEF OrderInv

(***************************************************************************)
(* A new game, whose identifier nothing refers to yet.                     *)
(***************************************************************************)
LEMMA ServeCreateOrder ==
  ASSUME IInv, IInv', OrderInv, NEW k \in Calls, NEW id \in GameIds, ServeCreate(k, id)
  PROVE  OrderInv'
<1>0. PICK n \in Game : n = NewGame(calls[k].color)
  <2>1. calls[k].color \in Colors
    BY CallKinds DEF IInv, ServeCreate
  <2> QED
    BY <2>1, NewGameType
<1> DEFINE created == [kind |-> "created", game |-> id, g |-> n]
<1>1. /\ Is(k, "create") /\ ~Exists(id) /\ UNCHANGED <<relay, screen, late>>
      /\ calls \in [Calls -> Call \cup {Absent}]
  BY DEF ServeCreate, Unreported, IInv, ClientTypeOK
<1>2. \/ calls' = [calls EXCEPT ![k] = created] /\ live' = [live EXCEPT ![id] = n]
      \/ /\ calls' = [calls EXCEPT ![k] = Absent]
         /\ UNCHANGED live \/ live' = [live EXCEPT ![id] = n]
  BY <1>0 DEF ServeCreate, Unreported, WriteOk, WriteConflict, WriteError, CasApplies, Answer
<1>3. CASE UNCHANGED live /\ calls' = [calls EXCEPT ![k] = Absent]
  <2>1. OnlyCalls
    BY <1>1, <1>3 DEF OnlyCalls, Is
  <2> QED
    BY <2>1, OnlyCallsOrder
<1>4. CASE live' = [live EXCEPT ![id] = n]
  <2>1. n.ply = 0 /\ n.moves = <<>> /\ Sound(n)
    BY <1>0 DEF NewGame, Sound, Resigned
  <2>2. live'[id] = n /\ \A i \in GameIds : i # id => live'[i] = live[i]
    BY <1>4 DEF IInv, LiveTypeOK
  <2>3. \A j \in Calls : \/ calls'[j] = calls[j] /\ j # k
                         \/ j = k /\ calls'[j] \in {created, Absent}
    BY <1>1, <1>2, <1>4
  <2>4. LiveGrows
    <3> SUFFICES ASSUME NEW i \in GameIds, Exists(i)
                 PROVE  /\ Exists(i)' /\ live'[i].playerColor = live[i].playerColor
                        /\ IsPrefix(live[i].moves, live'[i].moves)
      BY DEF LiveGrows
    <3>1. live'[i] = live[i]
      BY <1>1, <2>2
    <3>2. IsPrefix(live[i].moves, live[i].moves)
      BY PrefixReflexive DEF IInv, LiveTypeOK, Exists, Game
    <3> QED
      BY <3>1, <3>2 DEF Exists
  <2>5. Writes
    <3>1. \A j \in Calls : Is(j, "move")' => calls'[j] = calls[j]
      BY <2>3 DEF Is
    <3> QED
      BY <1>1, <2>4, <3>1 DEF Writes
  <2>6. Known(id, n)'
    <3>1. IsPrefix(n.moves, n.moves)
      BY <2>1, PrefixReflexive DEF Game
    <3> QED
      BY <2>1, <2>2, <3>1, AbsentAssumption DEF Known, Exists
  <2>7. ASSUME NEW i \in GameIds, Exists(i)' PROVE Known(i, live[i])'
    <3>1. CASE i = id
      BY <2>2, <2>6, <3>1
    <3>2. CASE i # id
      BY <2>2, <2>7, <3>2 DEF OrderInv, GamesKnown, Known, Exists
    <3> QED
      BY <3>1, <3>2
  <2>8. GamesKnown' /\ Coming' = Coming /\ (\A peer : SocketIs(peer)' <=> SocketIs(peer))
    BY <2>5, <2>7, WritesKnown
  <2>9. screen.game # id
    BY <1>1 DEF OrderInv, GamesKnown, Known
  <2>10. ASSUME NEW i PROVE Waiting(i)' => Waiting(i) \/ i = id
    BY <1>1, <2>3, <2>8 DEF Waiting, Created, Is
  <2>11. CallsKnown'
    <3>1. ASSUME NEW j \in Calls, Is(j, "created"), j # k
          PROVE  Known(calls[j].game, calls[j].g)' /\ calls[j].game # id
      <4>1. /\ calls[j].game \in GameIds /\ calls[j].g \in Game
            /\ Known(calls[j].game, calls[j].g)
        BY <3>1, CallKinds DEF IInv, OrderInv, CallsKnown
      <4>2. \A i \in GameIds, g \in Game : Known(i, g) => Known(i, g)'
        BY <2>4, KnownStable DEF IInv
      <4>3. calls[j].game # id
        BY <1>1, <4>1 DEF Known
      <4>4. calls'[j] = calls[j]
        BY <2>3, <3>1
      <4> QED
        BY <4>1, <4>2, <4>3, <4>4
    <3>2. ASSUME NEW j \in Calls, Is(j, "created")'
          PROVE  \/ calls'[j] = calls[j] /\ j # k /\ Is(j, "created")
                 \/ j = k /\ calls'[j] = created
      BY <2>3, <3>2 DEF Is
    <3>3. ASSUME NEW j \in Calls, Is(j, "created")'
          PROVE  /\ Known(calls[j].game, calls[j].g)' /\ calls'[j].g.ply = 0
                 /\ calls'[j].game # screen.game
                 /\ \A l \in Calls : Is(l, "created")' /\ calls'[l].game = calls'[j].game => l = j
      <4>1. CASE calls'[j] = calls[j] /\ j # k /\ Is(j, "created")
        BY <3>1, <3>2, <4>1 DEF OrderInv, CallsKnown
      <4>2. CASE j = k /\ calls'[j] = created
        BY <2>1, <2>6, <2>9, <3>1, <3>2, <4>2
      <4> QED
        BY <3>2, <3>3, <4>1, <4>2
    <3>4. ASSUME NEW j \in Calls, Is(j, "move")'
          PROVE  (/\ Exists(calls[j].game) /\ ~Created(calls[j].game)
                  /\ IsPrefix(calls[j].seen, live[calls[j].game].moves))'
      <4>1. calls'[j] = calls[j] /\ Is(j, "move")
        BY <2>3, <3>4 DEF Is
      <4>2. /\ calls[j].game \in GameIds /\ Exists(calls[j].game) /\ ~Created(calls[j].game)
            /\ IsPrefix(calls[j].seen, live[calls[j].game].moves)
        BY <4>1, CallKinds DEF IInv, OrderInv, CallsKnown
      <4>3. calls[j].game # id /\ live'[calls[j].game] = live[calls[j].game]
        BY <1>1, <2>2, <4>2
      <4>4. \A l \in Calls : Is(l, "created")' => calls'[l].game # calls[j].game
        BY <3>2, <4>2, <4>3 DEF Created
      <4> QED
        BY <4>1, <4>2, <4>3, <4>4 DEF Exists, Created, Is
    <3> QED
      BY <1>1, <3>3, <3>4 DEF CallsKnown
  <2>12. WaitingFits'
    <3>1. ASSUME NEW i, NEW j \in Calls, Asked(j, i)' PROVE Asked(j, i)
      BY <2>3, <3>1 DEF Asked, Is
    <3>2. ASSUME NEW i \in GameIds, Waiting(i)'
          PROVE  (OpeningFits(i) /\ HastyFits(i) /\ LateFits(i))'
      <4>1. CASE i = id
        <5>1. \A p \in late : p.game # id
          BY <1>1 DEF OrderInv, GamesKnown, Known
        <5>2. \A j \in Calls : ~Asked(j, id)
          BY <1>1 DEF Asked, OrderInv, CallsKnown
        <5>3. \A j \in Calls : ~Asked(j, id)'
          BY <3>1, <5>2
        <5> QED
          BY <1>1, <2>1, <2>2, <4>1, <5>1, <5>3 DEF OpeningFits, HastyFits, LateFits
      <4>2. CASE i # id
        <5>1. OpeningFits(i) /\ HastyFits(i) /\ LateFits(i) /\ live'[i] = live[i]
          BY <2>2, <2>10, <3>2, <4>2 DEF OrderInv, WaitingFits
        <5>2. MovedEarly(i)' <=> MovedEarly(i)
          BY <1>1 DEF MovedEarly
        <5> QED
          BY <1>1, <3>1, <5>1, <5>2 DEF OpeningFits, HastyFits, LateFits, Turn, Resigned
      <4> QED
        BY <4>1, <4>2
    <3> QED
      BY <1>1, <2>8, <3>2 DEF WaitingFits, OrderInv
  <2>13. Ordered'
    BY <1>1, <2>8 DEF OrderInv, Ordered, NotOlder, Resigned
  <2> QED
    BY <2>8, <2>11, <2>12, <2>13 DEF OrderInv
<1> QED
  BY <1>2, <1>3, <1>4

(***************************************************************************)
(* The player of a game that waits for its socket is the hasty one, and    *)
(* the move the only one asked for.                                        *)
(***************************************************************************)
LEMMA ServeMoveOrder ==
  ASSUME IInv, IInv', OrderInv, NEW k \in Calls, ServeMove(k)
  PROVE  OrderInv'
<1>1. PICK id \in GameIds, uci \in Moves : id = calls[k].game /\ uci = calls[k].uci
  BY CallKinds DEF IInv, ServeMove
<1>2. /\ UNCHANGED <<relay, screen>> /\ Asked(k, id)
      /\ calls \in [Calls -> Call \cup {Absent}]
  BY <1>1 DEF ServeMove, Asked, IInv, ClientTypeOK
<1>3. /\ ~Is(k, "move")' /\ ~Is(k, "created")'
      /\ \A j \in Calls : j # k => calls'[j] = calls[j]
  BY <1>2 DEF ServeMove, Answer, Is
<1>4. \A j \in Calls : Is(j, "created")' \/ Is(j, "move")' => calls'[j] = calls[j]
  BY <1>3
<1>5. CASE UNCHANGED <<live, late>>
  BY <1>2, <1>4, <1>5, OnlyCallsOrder DEF OnlyCalls
<1>6. CASE \E g \in Copies(id) : /\ Exists(id) /\ CanApplyMove(g, g.playerColor, uci)
                                 /\ Stores(id, ApplyMove(g, uci))
  <2>1. PICK g \in Copies(id) : /\ Exists(id) /\ CanApplyMove(g, g.playerColor, uci)
                                /\ Stores(id, ApplyMove(g, uci))
    BY <1>6
  <2>2. Known(id, live[id]) /\ LiveTypeOK
    BY <2>1 DEF OrderInv, GamesKnown, IInv
  <2>3. PICK n : n = ApplyMove(g, uci)
    OBVIOUS
  <2>4. Continues(live[id], n) /\ Stores(id, n)
    BY <2>1, <2>2, <2>3, MoveContinues
  <2>5. Waiting(id) => /\ OpeningFits(id)' /\ \A j \in Calls : ~Asked(j, id)'
                       /\ \A p \in late : p.game = id => Resigned(p.g)
    <3> SUFFICES ASSUME Waiting(id)
                 PROVE  /\ OpeningFits(id)' /\ \A j \in Calls : ~Asked(j, id)'
                        /\ \A p \in late : p.game = id => Resigned(p.g)
      OBVIOUS
    <3>1. /\ live[id].ply = 0 /\ MovedEarly(id) /\ LateFits(id)
          /\ \A j \in Calls : Asked(j, id) => j = k
      BY <1>2 DEF OrderInv, WaitingFits, HastyFits
    <3>2. ASSUME NEW j \in Calls, Asked(j, id)' PROVE FALSE
      <4>1. j # k /\ calls'[j] = calls[j]
        BY <1>3, <3>2 DEF Asked
      <4> QED
        BY <3>1, <3>2, <4>1 DEF Asked, Is
    <3>3. MovedEarly(id)'
      BY <1>2, <3>1 DEF MovedEarly
    <3>4. \A p \in late : p.game = id => Resigned(p.g)
      BY <3>1 DEF LateFits, OrderInv, GamesKnown
    <3> QED
      BY <3>2, <3>3, <3>4 DEF OpeningFits
  <2> QED
    BY <1>2, <1>4, <2>4, <2>5, WriteOrder
<1>7. \/ UNCHANGED <<live, late>>
      \/ \E g \in Copies(id) : /\ Exists(id) /\ CanApplyMove(g, g.playerColor, uci)
                              /\ Stores(id, ApplyMove(g, uci))
  BY <1>1, MoveStores
<1> QED
  BY <1>5, <1>6, <1>7

LEMMA ServeResignOrder ==
  ASSUME IInv, IInv', OrderInv, NEW k \in Calls, ServeResign(k)
  PROVE  OrderInv'
<1>1. PICK id \in GameIds : id = calls[k].game
  BY CallKinds DEF IInv, ServeResign
<1>2. /\ UNCHANGED <<relay, screen>>
      /\ calls \in [Calls -> Call \cup {Absent}] /\ calls' = [calls EXCEPT ![k] = Absent]
  BY DEF ServeResign, Answer, IInv, ClientTypeOK
<1>3. \A j \in Calls : Is(j, "created")' \/ Is(j, "move")' => calls'[j] = calls[j]
  BY <1>2 DEF Is
<1>4. CASE UNCHANGED <<live, late>>
  BY <1>2, <1>3, <1>4, OnlyCallsOrder DEF OnlyCalls
<1>5. CASE Stores(id, Resign(live[id], live[id].playerColor))
  <2>1. Known(id, live[id]) /\ LiveTypeOK /\ live[id] \in Game
    BY <1>5 DEF Stores, OrderInv, GamesKnown, IInv, LiveTypeOK, Exists
  <2>2. live[id].playerColor \in Colors
    BY <2>1 DEF Game
  <2>3. PICK n : n = Resign(live[id], live[id].playerColor)
    OBVIOUS
  <2>4. Continues(live[id], n) /\ Stores(id, n) /\ Resigned(n)
    <3>1. Resigned(n)
      BY <2>1, <2>3 DEF Resign, Resigned, Game
    <3> QED
      BY <1>5, <2>1, <2>2, <2>3, <3>1, ResignContinues
  <2> QED
    BY <1>2, <1>3, <2>4, WriteOrder
<1>6. UNCHANGED <<live, late>> \/ Stores(id, Resign(live[id], live[id].playerColor))
  BY <1>1, ResignStores
<1> QED
  BY <1>4, <1>5, <1>6

(***************************************************************************)
(* Whose turn it is, by the number of moves.                               *)
(***************************************************************************)
LEMMA TurnFacts ==
  ASSUME NEW g \in Game, NEW n \in Game, NEW uci \in Moves, n.moves = Append(g.moves, uci)
  PROVE  /\ Turn(g) \in Colors /\ Turn(n) = OtherColor(Turn(g)) /\ Len(n.moves) = Len(g.moves) + 1
         /\ g.moves = <<>> => Turn(g) = "white"
<1>0. PICK ms \in Seq(Moves) : ms = g.moves
  BY DEF Game
<1>1. PICK k \in Nat : k = Len(ms)
  BY <1>0
<1>2. Len(n.moves) = k + 1
  BY <1>0, <1>1
<1>3. ((k + 1) % 2 = 0) <=> (k % 2 # 0)
  OBVIOUS
<1>4. ms = <<>> => k % 2 = 0
  BY <1>1
<1> QED
  BY <1>0, <1>1, <1>2, <1>3, <1>4 DEF Turn, OtherColor, Colors

LEMMA EngineMoveOrder ==
  ASSUME IInv, IInv', OrderInv, NEW id \in GameIds, NEW uci \in Moves, EngineMove(id, uci)
  PROVE  OrderInv'
<1>1. PICK g \in Copies(id) : /\ CanApplyMove(g, EngineColor(g), uci)
                              /\ Write(id, ApplyMove(g, uci))
  BY DEF EngineMove
<1>2. UNCHANGED <<relay, screen, calls>>
  BY DEF EngineMove
<1>3. Known(id, live[id]) /\ LiveTypeOK /\ live[id] \in Game
  BY DEF EngineMove, OrderInv, GamesKnown, IInv, LiveTypeOK, Exists
<1>4. PICK n : n = ApplyMove(g, uci)
  OBVIOUS
<1>5. Continues(live[id], n) /\ ~Resigned(n) /\ Stores(id, n)
  <2>1. Exists(id) /\ Write(id, n)
    BY <1>1, <1>4 DEF EngineMove
  <2>2. Stores(id, n)
    BY <2>1, WriteStores
  <2> QED
    BY <1>1, <1>3, <1>4, <2>2, MoveContinues
<1>6. /\ g \in Game /\ g.moves = live[id].moves /\ g.playerColor = live[id].playerColor
      /\ Turn(g) = OtherColor(g.playerColor) /\ n.moves = Append(g.moves, uci)
      /\ n.playerColor = g.playerColor /\ n \in Game
  BY <1>1, <1>3, <1>4, CopySound, ApplyMoveType DEF CanApplyMove, EngineColor
<1>7. Turn(n) = OtherColor(Turn(g)) /\ g.playerColor \in Colors
  BY <1>6, TurnFacts DEF Game
<1>8. Turn(n) = n.playerColor /\ Turn(live[id]) # live[id].playerColor
  BY <1>6, <1>7 DEF OtherColor, Colors, Turn
<1>9. \A k \in Calls : Is(k, "created")' \/ Is(k, "move")' => calls'[k] = calls[k]
  BY DEF EngineMove
<1>10. Waiting(id) => /\ OpeningFits(id)' /\ \A k \in Calls : ~Asked(k, id)'
                      /\ \A p \in late : p.game = id => Resigned(p.g)
  <2> SUFFICES ASSUME Waiting(id)
               PROVE  /\ OpeningFits(id)' /\ \A k \in Calls : ~Asked(k, id)'
                      /\ \A p \in late : p.game = id => Resigned(p.g)
    OBVIOUS
  <2>1. OpeningFits(id) /\ HastyFits(id) /\ LateFits(id)
    BY DEF OrderInv, WaitingFits
  <2>2. \A k \in Calls : ~Asked(k, id)'
    BY <1>2, <1>8, <2>1 DEF HastyFits, Asked, Is
  <2>3. \A p \in late : p.game = id => Resigned(p.g)
    BY <2>1 DEF LateFits, EngineMove, Resigned
  <2>4. live'[id] = n /\ Turn(live'[id]) = live'[id].playerColor
    BY <1>5, <1>8 DEF Stores, IInv, LiveTypeOK
  <2>5. live[id].ply = 0 \/ MovedEarly(id)
    BY <1>8, <2>1 DEF OpeningFits
  <2>6. CASE live[id].ply = 0
    <3>1. n.ply = 1
      <4>1. n.ply = live[id].ply + 1
        BY <1>5 DEF Continues
      <4> QED
        BY <2>6, <4>1
    <3> QED
      BY <2>2, <2>3, <2>4, <3>1 DEF OpeningFits
  <2>7. CASE MovedEarly(id)
    BY <1>2, <2>2, <2>3, <2>7 DEF OpeningFits, MovedEarly
  <2> QED
    BY <2>5, <2>6, <2>7
<1> QED
  BY <1>2, <1>5, <1>9, <1>10, WriteOrder

LEMMA PublishOrder ==
  ASSUME IInv, IInv', OrderInv, ~May("overtake"), NEW p \in late, PublishLate(p)
  PROVE  OrderInv'
<1>0. /\ UNCHANGED <<live, screen, calls>> /\ late' \subseteq late
      /\ \A q \in late : q.game = p.game => q.g.ply >= p.g.ply
      /\ p.game \in GameIds /\ p.g \in Game
  BY DEF PublishLate, IInv, ClientTypeOK
<1>1. ASSUME NEW i, NEW g PROVE Known(i, g)' <=> Known(i, g)
  BY <1>0 DEF Known, Exists
<1>2. /\ \A peer : SocketIs(peer)' <=> SocketIs(peer)
      /\ \/ Coming' = Coming
         \/ p.game = screen.game /\ SocketIs("open") /\ Coming' = Append(Coming, p.g)
  BY PublishComing
<1>3. ASSUME NEW i PROVE Waiting(i)' => Waiting(i)
  BY <1>0, <1>2 DEF Waiting, Created, Is
<1>4. CallsKnown'
  BY <1>0, <1>1 DEF OrderInv, CallsKnown, Created, Is, Exists
<1>5. WaitingFits'
  <2>1. ASSUME NEW i \in GameIds, Waiting(i)'
        PROVE  (OpeningFits(i) /\ HastyFits(i) /\ LateFits(i))'
    <3>1. OpeningFits(i) /\ HastyFits(i) /\ LateFits(i)
      BY <1>3, <2>1 DEF OrderInv, WaitingFits
    <3>2. \A k \in Calls : Asked(k, i)' <=> Asked(k, i)
      BY <1>0 DEF Asked, Is
    <3> QED
      BY <1>0, <3>1, <3>2 DEF OpeningFits, HastyFits, LateFits, MovedEarly, Turn, Resigned
  <2> QED
    BY <1>0, <1>2, <2>1 DEF OrderInv, WaitingFits
<1>6. CASE Coming' = Coming
  <2>1. GamesKnown'
    BY <1>0, <1>1, <1>6 DEF OrderInv, GamesKnown, Exists, Resigned
  <2>2. Ordered'
    BY <1>0, <1>2, <1>6 DEF OrderInv, Ordered, NotOlder, Resigned
  <2> QED
    BY <1>4, <1>5, <2>1, <2>2 DEF OrderInv
<1>7. CASE p.game = screen.game /\ SocketIs("open") /\ Coming' = Append(Coming, p.g)
  <2>1. Coming \in Seq(Game)
    BY ComingType DEF IInv
  <2>2. /\ DOMAIN Coming \subseteq Nat /\ Len(Coming) + 1 \notin DOMAIN Coming
        /\ \A i \in DOMAIN Coming' :
             \/ i \in DOMAIN Coming /\ Coming'[i] = Coming[i]
             \/ i = Len(Coming) + 1 /\ Coming'[i] = p.g
        /\ \A i \in DOMAIN Coming : i < Len(Coming) + 1
    BY <1>0, <1>7, <2>1, AppendIndex
  <2>3. Known(screen.game, p.g)
    BY <1>7 DEF OrderInv, GamesKnown
  <2>4. GamesKnown'
    <3>1. \A i \in DOMAIN Coming' : Known(screen.game, Coming'[i])
      BY <2>2, <2>3 DEF OrderInv, GamesKnown
    <3> QED
      BY <1>0, <1>1, <3>1 DEF OrderInv, GamesKnown, Exists, Resigned
  <2>5. /\ NotOlder(screen.g, p.g)
        /\ \A i \in DOMAIN Coming : NotOlder(Coming[i], p.g)
    BY <1>7 DEF OrderInv, Ordered
  <2>6. \A q \in late : q.game = screen.game => NotOlder(p.g, q.g)
    BY <1>0, <1>7 DEF NotOlder, IInv, ClientTypeOK, Game
  <2>7. \A i, j \in DOMAIN Coming' : i < j => NotOlder(Coming'[i], Coming'[j])
    <3> SUFFICES ASSUME NEW i \in DOMAIN Coming', NEW j \in DOMAIN Coming', i < j
                 PROVE  NotOlder(Coming'[i], Coming'[j])
      OBVIOUS
    <3>1. CASE i = Len(Coming) + 1
      <4>1. Len(Coming) \in Nat /\ j \in Nat
        BY <2>1, <2>2
      <4> QED
        BY <2>2, <3>1, <4>1
    <3>2. CASE i \in DOMAIN Coming /\ Coming'[i] = Coming[i]
      BY <2>2, <2>5, <3>2 DEF OrderInv, Ordered
    <3> QED
      BY <2>2, <3>1, <3>2
  <2>8. \A i \in DOMAIN Coming' : NotOlder(screen.g, Coming'[i])
    BY <2>2, <2>5 DEF OrderInv, Ordered
  <2>9. \A q \in late' : q.game = screen.game =>
          NotOlder(screen.g, q.g) /\ \A i \in DOMAIN Coming' : NotOlder(Coming'[i], q.g)
    BY <1>0, <1>7, <2>2, <2>6 DEF OrderInv, Ordered
  <2>10. Ordered'
    BY <1>0, <2>7, <2>8, <2>9 DEF Ordered, NotOlder, Resigned
  <2> QED
    BY <1>4, <1>5, <2>4, <2>10 DEF OrderInv
<1> QED
  BY <1>2, <1>6, <1>7

-----------------------------------------------------------------------------
LEMMA OrderKept ==
  ASSUME IInv, IInv', OrderInv, [Next]_vars, ~May("overtake")
  PROVE  OrderInv'
<1>1. CASE UNCHANGED vars
  <2>1. OnlyCalls
    BY <1>1 DEF vars, OnlyCalls, Is
  <2> QED
    BY <2>1, OnlyCallsOrder
<1>2. ASSUME NEW k \in Calls, Tab(k) PROVE OrderInv'
  BY <1>2, TabOrder, TryMoveOrder, ShowNewOrder DEF Tab
<1>3. ASSUME NEW k \in Calls, Server(k) PROVE OrderInv'
  BY <1>3, ServeCreateOrder, ServeMoveOrder, ServeResignOrder DEF Server
<1>4. ASSUME NEW c \in Watchers, Receive(c) \/ Background(c) PROVE OrderInv'
  BY <1>4, ReceiveOrder, BackgroundOrder
<1>5. ASSUME NEW id \in GameIds, NEW uci \in Moves, EngineMove(id, uci) PROVE OrderInv'
  BY <1>5, EngineMoveOrder
<1>6. ASSUME NEW p \in late, PublishLate(p) PROVE OrderInv'
  BY <1>6, PublishOrder
<1> QED
  BY <1>1, <1>2, <1>3, <1>4, <1>5, <1>6 DEF Next

LEMMA OrderInvariant ==
  ASSUME ~May("overtake")
  PROVE  Spec => []OrderInv
<1>1. Init => OrderInv
  <2> SUFFICES ASSUME Init PROVE OrderInv
    OBVIOUS
  <2>1. /\ screen.game = Absent /\ screen.g = Absent /\ screen.socket = Absent
        /\ late = {} /\ \A k \in Calls : calls[k] = Absent
        /\ \A id \in GameIds : ~Exists(id)
    BY DEF Init, LiveInit, ClientInit, Exists
  <2>2. ~(\E id \in GameIds : Waiting(id) /\ id # screen.game)
    BY <2>1 DEF Waiting, Created, Is
  <2>3. screen.game \notin GameIds
    BY <2>1, AbsentAssumption
  <2>4. ASSUME NEW c \in Watchers PROVE Arriving(Sessions[c]) = <<>> /\ relay[c].peer = "none"
    BY DEF Init, RelayInit, Unused, Sessions, SessionOf, Arriving
  <2>5. Coming = <<>> /\ ~SocketIs("open") /\ ~SocketIs("dial")
    BY <2>4 DEF Coming, SocketIs
  <2>6. \A id \in GameIds : ~Waiting(id)
    BY <2>2, <2>3
  <2> QED
    BY <2>1, <2>3, <2>5, <2>6
       DEF OrderInv, GamesKnown, CallsKnown, WaitingFits, Ordered, Is
<1>2. IInv /\ IInv' /\ OrderInv /\ [Next]_vars => OrderInv'
  BY OrderKept
<1> QED
  BY <1>1, <1>2, Invariant, PTL DEF Spec

(***************************************************************************)
(* While a game is shown its record of play only grows on the screen,      *)
(* whatever the colour of the player and however many sockets, requests,   *)
(* resignations and losses of the connection there are, and whether or not *)
(* the player moves before the socket has brought a state, provided that   *)
(* publications are not overtaken.  (afterChange, handleWS, Subscribe,     *)
(* newGame.)                                                               *)
(***************************************************************************)
THEOREM RecordGrows ==
  ASSUME ~May("overtake")
  PROVE  Spec => ScreenGrows
<1> DEFINE Grows ==
             screen.g # Absent /\ screen'.game = screen.game =>
               \/ screen'.g.termination = "resignation"
               \/ IsPrefix(screen.g.moves, screen'.g.moves)
<1>1. IInv /\ IInv' /\ OrderInv /\ [Next]_vars => [Grows]_vars
  <2> SUFFICES ASSUME IInv, IInv', OrderInv, [Next]_vars,
                      screen.g # Absent, screen'.game = screen.game
               PROVE  \/ screen'.g.termination = "resignation"
                      \/ IsPrefix(screen.g.moves, screen'.g.moves)
    OBVIOUS
  <2>1. /\ screen.game \in GameIds /\ screen.g \in Game
        /\ Known(screen.game, screen.g) /\ Known(screen.game, live[screen.game])
    BY DEF IInv, OrderInv, GamesKnown, Known
  <2>2. screen.g.moves \in Seq(Moves) /\ live[screen.game].moves \in Seq(Moves)
    BY <2>1 DEF Game, IInv, LiveTypeOK, Known, Exists
  <2>3. CASE screen'.g = screen.g
    BY <2>2, <2>3, PrefixReflexive
  <2>4. ASSUME NEW c \in Watchers, Receive(c)
        PROVE  \/ screen'.g.termination = "resignation"
               \/ IsPrefix(screen.g.moves, screen'.g.moves)
    <3>1. /\ Coming # <<>> /\ Coming \in Seq(Game) /\ Head(Coming) \in Game
          /\ screen'.g = Head(Coming)
      BY <2>4, ReceiveComing, ComingType DEF IInv
    <3>2. 1 \in DOMAIN Coming /\ Head(Coming) = Coming[1]
      BY <3>1, TailIndex
    <3>3. PICK h \in Game : h = Head(Coming)
      BY <3>1
    <3>4. Known(screen.game, h) /\ NotOlder(screen.g, h)
      BY <3>2, <3>3 DEF OrderInv, GamesKnown, Ordered
    <3>5. CASE Resigned(h)
      BY <3>1, <3>3, <3>5 DEF Resigned
    <3>6. CASE screen.g.ply <= h.ply
      <4>1. h.moves \in Seq(Moves)
        BY DEF Game
      <4>2. Len(screen.g.moves) <= Len(h.moves)
        BY <2>1, <3>4, <3>6 DEF Known, Sound
      <4>3. IsPrefix(screen.g.moves, live[screen.game].moves) /\ IsPrefix(h.moves, live[screen.game].moves)
        BY <2>1, <3>4 DEF Known
      <4>4. IsPrefix(screen.g.moves, h.moves)
        BY <2>2, <4>1, <4>2, <4>3, PrefixesCompare
      <4> QED
        BY <3>1, <3>3, <4>4
    <3> QED
      BY <3>4, <3>5, <3>6 DEF NotOlder
  <2>5. ASSUME NEW k \in Calls, Tab(k) PROVE screen'.g = screen.g
    <3>1. ASSUME NEW c \in Watchers, ShowNew(k, c) PROVE FALSE
      <4>1. Is(k, "created") /\ screen'.game = calls[k].game
        BY <3>1, ShowNewComing DEF ShowNew
      <4> QED
        BY <4>1 DEF OrderInv, CallsKnown
    <3> QED
      BY <2>5, <3>1 DEF Tab, ClickNew, TryMove, ShowRefusal, ClickResign, IInv, ClientTypeOK, Screen
  <2>6. ASSUME NEW k \in Calls, Server(k) PROVE screen'.g = screen.g
    BY <2>6 DEF Server, ServeCreate, ServeMove, ServeResign
  <2>7. ASSUME NEW c \in Watchers, Background(c) PROVE screen'.g = screen.g
    BY <2>7 DEF Background, Rest
  <2>8. ASSUME NEW id \in GameIds, NEW uci \in Moves, EngineMove(id, uci)
        PROVE  screen'.g = screen.g
    BY <2>8 DEF EngineMove
  <2>9. ASSUME NEW p \in late, PublishLate(p) PROVE screen'.g = screen.g
    BY <2>9 DEF PublishLate
  <2> QED
    BY <2>3, <2>4, <2>5, <2>6, <2>7, <2>8, <2>9 DEF Next, vars
<1> QED
  BY <1>1, Invariant, OrderInvariant, PTL DEF Spec, ScreenGrows

-----------------------------------------------------------------------------
(***************************************************************************)
(* The player of id is offered to move by a state that has been written,   *)
(* by one on its way, and by the screen, which then has one from its socket*)
(* and no move on top of it.                                               *)
(***************************************************************************)
Ready(g) == g.status = "ongoing" /\ Turn(g) = g.playerColor

Unsent(p, id) == p \in late /\ p.game = id /\ Ready(p.g)
Sent(i, id)   == id = screen.game /\ i \in DOMAIN Coming /\ Ready(Coming[i])
Offered(id)   == /\ id = screen.game /\ screen.g # Absent /\ Ready(screen.g)
                 /\ screen.ahead = Absent /\ relay[screen.socket].view # Absent

(***************************************************************************)
(* There is at most one of these or of the requests to move, and it has    *)
(* the stored list of moves.                                               *)
(***************************************************************************)
OneRequest(id) ==
  \A k \in Calls : Asked(k, id) =>
    /\ calls[k].seen = live[id].moves /\ Turn(live[id]) = "white"
    /\ \A j \in Calls : Asked(j, id) => j = k
    /\ ~Offered(id)

OneSent(id) ==
  \A i \in DOMAIN Coming : Sent(i, id) =>
    /\ Coming[i].moves = live[id].moves
    /\ \A j \in DOMAIN Coming : Sent(j, id) => j = i
    /\ ~Offered(id) /\ \A k \in Calls : ~Asked(k, id)

OneUnsent(id) ==
  \A p \in late : Unsent(p, id) =>
    /\ p.g.moves = live[id].moves
    /\ \A q \in late : Unsent(q, id) => q = p
    /\ ~Offered(id) /\ \A k \in Calls : ~Asked(k, id)
    /\ \A i \in DOMAIN Coming : ~Sent(i, id)

OneTurn(id) ==
  /\ OneRequest(id) /\ OneSent(id) /\ OneUnsent(id)
  /\ Offered(id) => screen.g.moves = live[id].moves

(***************************************************************************)
(* Black may be offered the engine's first move twice, and a hasty player  *)
(* the first move.                                                         *)
(***************************************************************************)
IsWhite(id) ==
  Exists(id) /\ live[id].playerColor = "white" /\ id \notin screen.hasty

TurnInv == \A id \in GameIds : IsWhite(id) => OneTurn(id)

-----------------------------------------------------------------------------
LEMMA FewerTurns ==
  ASSUME NEW id \in GameIds, OneTurn(id),
         live'[id].moves = live[id].moves,
         \A k \in Calls : Asked(k, id)' => Asked(k, id) /\ calls'[k] = calls[k],
         Offered(id)' => Offered(id) /\ screen'.g = screen.g,
         \A i : Sent(i, id)' => Sent(i, id) /\ Coming'[i] = Coming[i],
         \A p : Unsent(p, id)' => Unsent(p, id)
  PROVE  OneTurn(id)'
<1>1. OneRequest(id)'
  BY DEF OneTurn, OneRequest, Turn
<1>2. OneSent(id)'
  <2> SUFFICES ASSUME NEW i \in DOMAIN Coming', Sent(i, id)'
               PROVE  /\ Coming'[i].moves = live[id].moves
                      /\ \A j \in DOMAIN Coming' : Sent(j, id)' => j = i
                      /\ ~Offered(id)' /\ \A k \in Calls : ~Asked(k, id)'
    BY DEF OneSent
  <2>1. \A j : Sent(j, id) => j \in DOMAIN Coming
    BY DEF Sent
  <2> QED
    BY <2>1 DEF OneTurn, OneSent
<1>3. OneUnsent(id)'
  <2> SUFFICES ASSUME NEW p \in late', Unsent(p, id)'
               PROVE  /\ p.g.moves = live[id].moves
                      /\ \A q \in late' : Unsent(q, id)' => q = p
                      /\ ~Offered(id)' /\ \A k \in Calls : ~Asked(k, id)'
                      /\ \A i \in DOMAIN Coming' : ~Sent(i, id)'
    BY DEF OneUnsent
  <2>1. /\ \A j : Sent(j, id) => j \in DOMAIN Coming
        /\ \A q : Unsent(q, id) => q \in late
    BY DEF Sent, Unsent
  <2> QED
    BY <2>1 DEF OneTurn, OneUnsent
<1>4. Offered(id)' => screen'.g.moves = live'[id].moves
  BY DEF OneTurn
<1> QED
  BY <1>1, <1>2, <1>3, <1>4 DEF OneTurn

LEMMA BackgroundTurn ==
  ASSUME IInv, IInv', OrderInv, TurnInv, NEW c \in Watchers, Background(c)
  PROVE  TurnInv'
<1> SUFFICES ASSUME NEW id \in GameIds, IsWhite(id)' PROVE OneTurn(id)'
  BY DEF TurnInv
<1>0. UNCHANGED <<live, screen, calls, late>>
  BY DEF Background, Rest
<1>1. IsWhite(id) /\ OneTurn(id)
  BY <1>0 DEF IsWhite, Exists, TurnInv
<1>2. /\ SameComing \/ NoComing \/ SnapshotComing
      /\ screen.socket \in Watchers => relay'[screen.socket].view = relay[screen.socket].view
  BY BackgroundComing
<1>3. /\ \A k \in Calls : Asked(k, id)' => Asked(k, id) /\ calls'[k] = calls[k]
      /\ \A p : Unsent(p, id)' => Unsent(p, id)
  BY <1>0 DEF Asked, Is, Unsent
<1>4. Offered(id)' => Offered(id)
  <2>1. screen.game \in GameIds => screen.socket \in Watchers
    BY DEF OrderInv, GamesKnown
  <2> QED
    BY <1>0, <1>2, <2>1 DEF Offered
<1>5. CASE SameComing \/ NoComing
  <2>1. \A i : Sent(i, id)' => Sent(i, id) /\ Coming'[i] = Coming[i]
    BY <1>0, <1>5 DEF Sent, SameComing, NoComing
  <2> QED
    BY <1>0, <1>1, <1>3, <1>4, <2>1, FewerTurns
<1>6. CASE SnapshotComing /\ screen.game # id
  <2>1. \A i : ~Sent(i, id)'
    BY <1>0, <1>6 DEF Sent
  <2> QED
    BY <1>0, <1>1, <1>3, <1>4, <2>1, FewerTurns
<1>7. CASE SnapshotComing /\ screen.game = id
  <2>1. SocketIs("dial") /\ Coming' = <<live[id]>> /\ Waiting(id)
    BY <1>7 DEF SnapshotComing, Waiting
  <2>2. ~Offered(id)
    <3>1. relay[screen.socket].view = Absent
      BY <2>1, SessionFacts DEF SocketIs, IInv
    <3> QED
      BY <3>1 DEF Offered
  <2>3. ~MovedEarly(id) /\ OpeningFits(id) /\ HastyFits(id) /\ LateFits(id)
    BY <1>1, <2>1 DEF MovedEarly, IsWhite, OrderInv, WaitingFits
  <2>4. \A k \in Calls : ~Asked(k, id)
    BY <2>3 DEF HastyFits
  <2>5. \A p : ~Unsent(p, id)
    <3> SUFFICES ASSUME NEW p \in late, p.game = id, Ready(p.g) PROVE FALSE
      BY DEF Unsent
    <3>1. ~Resigned(p.g) /\ p.g.ply >= 1
      BY DEF Ready, OrderInv, GamesKnown, Known, Sound
    <3>2. p.g.ply = live[id].ply
      BY <2>3, <3>1 DEF LateFits
    <3>3. live[id].ply = 1 /\ Turn(live[id]) = live[id].playerColor
      BY <2>3, <3>1, <3>2 DEF OpeningFits
    <3>4. Len(live[id].moves) = 1
      BY <1>1, <3>3 DEF IsWhite, OrderInv, GamesKnown, Known, Sound
    <3>5. Turn(live[id]) = "black"
      BY <3>4 DEF Turn
    <3> QED
      BY <1>1, <3>3, <3>5 DEF IsWhite
  <2>6. \A i \in DOMAIN Coming' : i = 1 /\ Coming'[i] = live[id]
    BY <2>1
  <2>7. OneSent(id)'
    BY <1>0, <1>3, <1>4, <2>2, <2>4, <2>6 DEF OneSent
  <2>8. OneUnsent(id)' /\ OneRequest(id)'
    BY <1>3, <2>4, <2>5 DEF OneUnsent, OneRequest
  <2> QED
    BY <1>4, <2>2, <2>7, <2>8 DEF OneTurn
<1> QED
  BY <1>2, <1>5, <1>6, <1>7

LEMMA ReceiveTurn ==
  ASSUME IInv, IInv', OrderInv, TurnInv, NEW c \in Watchers, Receive(c)
  PROVE  TurnInv'
<1> SUFFICES ASSUME NEW id \in GameIds, IsWhite(id)' PROVE OneTurn(id)'
  BY DEF TurnInv
<1>0. UNCHANGED <<live, calls, late>>
  BY DEF Receive
<1>1. IsWhite(id) /\ OneTurn(id)
  BY <1>0, ReceiveComing DEF IsWhite, Exists, TurnInv
<1>2. /\ Coming # <<>> /\ Coming' = Tail(Coming) /\ Head(Coming) \in Game
      /\ screen'.g = Head(Coming) /\ screen'.game = screen.game
  BY ReceiveComing
<1>3. Coming \in Seq(Game)
  BY ComingType DEF IInv
<1>4. /\ 1 \in DOMAIN Coming /\ Head(Coming) = Coming[1]
      /\ \A i \in DOMAIN Coming' :
           /\ i \in Nat /\ i >= 1 /\ i + 1 \in DOMAIN Coming
           /\ Coming'[i] = Coming[i + 1]
  BY <1>2, <1>3, TailIndex
<1>5. /\ \A k \in Calls : Asked(k, id)' <=> Asked(k, id)
      /\ \A p : Unsent(p, id)' <=> Unsent(p, id)
  BY <1>0 DEF Asked, Is, Unsent
<1>6. Offered(id)' => Sent(1, id)
  BY <1>2, <1>4 DEF Offered, Sent
<1>7. \A i : Sent(i, id)' => Sent(i + 1, id) /\ i \in Nat /\ i >= 1 /\ Coming'[i] = Coming[i + 1]
  BY <1>2, <1>4 DEF Sent
<1>8. OneRequest(id)'
  <2>1. \A k \in Calls : Asked(k, id) => ~Sent(1, id)
    BY <1>1, <1>4 DEF OneTurn, OneSent
  <2> QED
    BY <1>0, <1>1, <1>5, <1>6, <2>1 DEF OneTurn, OneRequest
<1>9. OneSent(id)'
  <2> SUFFICES ASSUME NEW i \in DOMAIN Coming', Sent(i, id)'
               PROVE  /\ Coming'[i].moves = live[id].moves
                      /\ \A j \in DOMAIN Coming' : Sent(j, id)' => j = i
                      /\ ~Offered(id)' /\ \A k \in Calls : ~Asked(k, id)
    BY <1>0, <1>5 DEF OneSent
  <2>1. Sent(i + 1, id) /\ i \in Nat /\ i >= 1 /\ Coming'[i] = Coming[i + 1]
        /\ i + 1 \in DOMAIN Coming
    BY <1>4, <1>7
  <2>2. /\ Coming[i + 1].moves = live[id].moves
        /\ \A j \in DOMAIN Coming : Sent(j, id) => j = i + 1
        /\ \A k \in Calls : ~Asked(k, id)
    BY <1>1, <2>1 DEF OneTurn, OneSent
  <2>3. ~Sent(1, id)
    BY <1>4, <2>1, <2>2
  <2>4. ASSUME NEW j \in DOMAIN Coming', Sent(j, id)' PROVE j = i
    <3>1. j \in Nat /\ j + 1 \in DOMAIN Coming /\ Sent(j + 1, id)
      BY <1>4, <1>7, <2>4
    <3>2. j + 1 = i + 1
      BY <2>2, <3>1
    <3> QED
      BY <2>1, <3>1, <3>2
  <2> QED
    BY <1>6, <2>1, <2>2, <2>3, <2>4
<1>10. OneUnsent(id)'
  <2> SUFFICES ASSUME NEW p \in late, Unsent(p, id)
               PROVE  /\ p.g.moves = live[id].moves
                      /\ \A q \in late : Unsent(q, id) => q = p
                      /\ ~Offered(id)' /\ \A k \in Calls : ~Asked(k, id)
                      /\ \A i \in DOMAIN Coming' : ~Sent(i, id)'
    BY <1>0, <1>5 DEF OneUnsent
  <2>1. /\ p.g.moves = live[id].moves
        /\ \A q \in late : Unsent(q, id) => q = p
        /\ \A k \in Calls : ~Asked(k, id)
        /\ \A i \in DOMAIN Coming : ~Sent(i, id)
    BY <1>1 DEF OneTurn, OneUnsent
  <2> QED
    BY <1>4, <1>6, <1>7, <2>1
<1>11. Offered(id)' => screen'.g.moves = live'[id].moves
  BY <1>0, <1>1, <1>2, <1>4, <1>6 DEF OneTurn, OneSent
<1> QED
  BY <1>8, <1>9, <1>10, <1>11 DEF OneTurn

LEMMA ShowNewTurn ==
  ASSUME IInv, IInv', OrderInv, TurnInv, NEW k \in Calls, NEW c \in Watchers, ShowNew(k, c)
  PROVE  TurnInv'
<1> SUFFICES ASSUME NEW id \in GameIds, IsWhite(id)' PROVE OneTurn(id)'
  BY DEF TurnInv
<1>0. /\ UNCHANGED <<live, late>> /\ calls' = [calls EXCEPT ![k] = Absent]
      /\ calls \in [Calls -> Call \cup {Absent}]
  BY DEF ShowNew, Answer, IInv, ClientTypeOK
<1>1. OneTurn(id)
  BY <1>0, ShowNewComing DEF IsWhite, Exists, TurnInv
<1>2. Coming' = <<>> /\ screen'.socket = c /\ relay'[c].view = Absent
  BY ShowNewComing
<1>3. /\ \A j \in Calls : Asked(j, id)' => Asked(j, id) /\ calls'[j] = calls[j]
      /\ \A p : Unsent(p, id)' => Unsent(p, id)
  BY <1>0 DEF Asked, Is, Unsent
<1>4. ~Offered(id)' /\ \A i : ~Sent(i, id)'
  BY <1>2 DEF Offered, Sent
<1> QED
  BY <1>0, <1>1, <1>3, <1>4, FewerTurns

(***************************************************************************)
(* A player who moves takes up the offer on the screen.                    *)
(***************************************************************************)
LEMMA TryMoveTurn ==
  ASSUME IInv, IInv', OrderInv, TurnInv, NEW k \in Calls, NEW uci \in Moves,
         TryMove(k, uci)
  PROVE  TurnInv'
<1> SUFFICES ASSUME NEW id \in GameIds, IsWhite(id)' PROVE OneTurn(id)'
  BY DEF TurnInv
<1> DEFINE call == [kind |-> "move", game |-> screen.game, uci |-> uci, seen |-> screen.g.moves]
<1>0. /\ UNCHANGED <<live, relay, late>>
      /\ screen'.game = screen.game /\ screen'.g = screen.g
      /\ screen'.socket = screen.socket /\ screen'.ahead = uci
      /\ calls'[k] = call /\ \A j \in Calls : j # k => calls'[j] = calls[j]
  BY TryMoveFacts
<1>1. IsWhite(id) /\ OneTurn(id)
  BY <1>0, TryMoveFacts DEF IsWhite, Exists, TurnInv
<1>2. ~Offered(id)'
  BY <1>0, UserAssumption DEF Offered
<1>3. /\ \A i : Sent(i, id)' <=> Sent(i, id)
      /\ Coming' = Coming
      /\ \A p : Unsent(p, id)' <=> Unsent(p, id)
  BY <1>0 DEF Sent, Coming, Sessions, Unsent
<1>4. CASE id # screen.game
  <2>1. \A j \in Calls : Asked(j, id)' => Asked(j, id) /\ calls'[j] = calls[j]
    BY <1>0, <1>4 DEF Asked, Is
  <2> QED
    BY <1>0, <1>1, <1>2, <1>3, <2>1, FewerTurns
<1>5. CASE id = screen.game
  <2>1. Offered(id)
    <3>1. relay[screen.socket].view # Absent
      BY <1>5, TryMoveFacts DEF IsWhite
    <3> QED
      BY <1>5, <3>1, TryMoveFacts DEF TryMove, MyTurn, Offered, Ready
  <2>2. /\ \A j \in Calls : ~Asked(j, id)
        /\ \A i \in DOMAIN Coming : ~Sent(i, id)
        /\ \A p \in late : ~Unsent(p, id)
        /\ screen.g.moves = live[id].moves
    BY <1>1, <2>1 DEF OneTurn, OneRequest, OneSent, OneUnsent
  <2>3. Turn(live[id]) = "white"
    <3>1. screen.g.playerColor = "white"
      BY <1>1, <1>5 DEF IsWhite, OrderInv, GamesKnown, Known
    <3> QED
      BY <2>1, <2>2, <3>1 DEF Offered, Ready, Turn
  <2>4. \A j \in Calls : Asked(j, id)' => j = k
    BY <1>0, <2>2 DEF Asked, Is
  <2>5. OneRequest(id)'
    BY <1>0, <1>2, <2>2, <2>3, <2>4 DEF OneRequest
  <2>6. OneSent(id)' /\ OneUnsent(id)'
    BY <1>0, <1>3, <2>2 DEF OneSent, OneUnsent
  <2> QED
    BY <1>2, <2>5, <2>6 DEF OneTurn
<1> QED
  BY <1>4, <1>5

(***************************************************************************)
(* Clicks, and answers that come without a move.                           *)
(***************************************************************************)
LEMMA AnswerTurn ==
  ASSUME TurnInv, UNCHANGED <<live, relay, screen, late>>,
         \A k \in Calls : Is(k, "move")' => calls'[k] = calls[k]
  PROVE  TurnInv'
<1> SUFFICES ASSUME NEW id \in GameIds, IsWhite(id)' PROVE OneTurn(id)'
  BY DEF TurnInv
<1>1. OneTurn(id)
  BY DEF IsWhite, Exists, TurnInv
<1>2. \A k \in Calls : Asked(k, id)' => Asked(k, id) /\ calls'[k] = calls[k]
  BY DEF Asked, Is
<1>3. /\ Offered(id)' => Offered(id)
      /\ \A i : Sent(i, id)' => Sent(i, id) /\ Coming'[i] = Coming[i]
      /\ \A p : Unsent(p, id)' => Unsent(p, id)
  BY DEF Offered, Sent, Coming, Sessions, Unsent
<1> QED
  BY <1>1, <1>2, <1>3, FewerTurns

LEMMA TabTurn ==
  ASSUME IInv, IInv', OrderInv, TurnInv, NEW k \in Calls, Tab(k)
  PROVE  TurnInv'
<1>1. CASE \/ \E color \in Colors : ClickNew(k, color)
           \/ ShowRefusal(k)
           \/ ClickResign(k)
  <2>1. UNCHANGED <<live, relay, screen, late>>
    BY <1>1 DEF ClickNew, ShowRefusal, ClickResign
  <2>2. \A j \in Calls : Is(j, "move")' => calls'[j] = calls[j]
    BY <1>1 DEF ClickNew, ShowRefusal, ClickResign, Send, Answer, Is, IInv, ClientTypeOK
  <2> QED
    BY <2>1, <2>2, AnswerTurn
<1> QED
  BY <1>1, ShowNewTurn, TryMoveTurn DEF Tab

(***************************************************************************)
(* A write is about one game.  A new game has no offer to its player yet,  *)
(* a resignation is none, the player's move takes up the one there was and *)
(* the engine's is made when there is none.                                *)
(***************************************************************************)
LEMMA WriteFacts ==
  ASSUME IInv, TurnInv, NEW id \in GameIds, NEW n \in Game, Stores(id, n),
         n.playerColor = live[id].playerColor, UNCHANGED <<relay, screen>>,
         \A k \in Calls : Is(k, "move")' => calls'[k] = calls[k]
  PROVE  /\ live'[id] = n
         /\ \A k \in Calls : Asked(k, id)' => Asked(k, id) /\ calls'[k] = calls[k]
         /\ Offered(id)' <=> Offered(id)
         /\ Coming' = Coming
         /\ \A i : Sent(i, id)' <=> Sent(i, id)
         /\ \A p : Unsent(p, id)' => Unsent(p, id) \/ (p = [game |-> id, g |-> n] /\ Ready(n))
         /\ IsWhite(id)' => IsWhite(id)
         /\ (IsWhite(id) => OneTurn(id)') => TurnInv'
<1>1. /\ Exists(id) /\ live'[id] = n
      /\ \A p \in late' : p \in late \/ p = [game |-> id, g |-> n]
      /\ \A i \in GameIds : i # id => live'[i] = live[i]
  BY DEF Stores, IInv, LiveTypeOK
<1>2. \A i : \A k \in Calls : Asked(k, i)' => Asked(k, i) /\ calls'[k] = calls[k]
  BY DEF Asked, Is
<1>3. /\ \A i : Offered(i)' <=> Offered(i)
      /\ Coming' = Coming
      /\ \A j, i : Sent(j, i)' <=> Sent(j, i)
  BY DEF Offered, Sent, Coming, Sessions
<1>4. \A p, i : Unsent(p, i)' => \/ Unsent(p, i)
                                 \/ p = [game |-> id, g |-> n] /\ Ready(n) /\ i = id
  BY <1>1 DEF Unsent
<1>5. IsWhite(id)' => IsWhite(id)
  BY <1>1 DEF IsWhite, Exists
<1>6. ASSUME NEW i \in GameIds, i # id, IsWhite(i)' PROVE OneTurn(i)'
  <2>1. OneTurn(i) /\ live'[i].moves = live[i].moves
    BY <1>1, <1>6 DEF IsWhite, Exists, TurnInv
  <2>2. /\ \A k \in Calls : Asked(k, i)' => Asked(k, i) /\ calls'[k] = calls[k]
        /\ \A p : Unsent(p, i)' => Unsent(p, i)
        /\ Offered(i)' => Offered(i) /\ screen'.g = screen.g
        /\ \A j : Sent(j, i)' => Sent(j, i) /\ Coming'[j] = Coming[j]
    BY <1>2, <1>3, <1>4, <1>6
  <2> QED
    BY <2>1, <2>2, FewerTurns
<1>7. (IsWhite(id) => OneTurn(id)') => TurnInv'
  BY <1>5, <1>6 DEF TurnInv
<1> QED
  BY <1>1, <1>2, <1>3, <1>4, <1>5, <1>7

LEMMA ServeCreateTurn ==
  ASSUME IInv, IInv', OrderInv, TurnInv, NEW k \in Calls, NEW id \in GameIds, ServeCreate(k, id)
  PROVE  TurnInv'
<1> SUFFICES ASSUME NEW i \in GameIds, IsWhite(i)' PROVE OneTurn(i)'
  BY DEF TurnInv
<1>1. /\ ~Exists(id) /\ UNCHANGED <<relay, screen, late>>
      /\ \A j \in GameIds : j # id => live'[j] = live[j]
  BY DEF ServeCreate, Unreported, WriteOk, WriteConflict, WriteError, CasApplies, IInv,
         LiveTypeOK
<1>2. \A j \in Calls : Is(j, "move")' => calls'[j] = calls[j]
  BY DEF ServeCreate, Answer, Is, IInv, ClientTypeOK
<1>3. /\ \A j \in Calls : Asked(j, i)' => Asked(j, i) /\ calls'[j] = calls[j]
      /\ Offered(i)' => Offered(i) /\ screen'.g = screen.g
      /\ \A j : Sent(j, i)' => Sent(j, i) /\ Coming'[j] = Coming[j]
      /\ \A p : Unsent(p, i)' => Unsent(p, i)
  BY <1>1, <1>2 DEF Asked, Is, Offered, Sent, Coming, Sessions, Unsent
<1>4. CASE i # id
  <2>1. OneTurn(i) /\ live'[i].moves = live[i].moves
    BY <1>1, <1>4 DEF IsWhite, Exists, TurnInv
  <2> QED
    BY <1>3, <2>1, FewerTurns
<1>5. CASE i = id
  <2>1. /\ id # screen.game
        /\ \A p \in late : p.game # id
        /\ \A j \in Calls : ~Asked(j, id)
    BY <1>1 DEF OrderInv, GamesKnown, CallsKnown, Known, Asked
  <2>2. /\ ~Offered(i)' /\ (\A j : ~Sent(j, i)') /\ (\A p : ~Unsent(p, i)')
        /\ \A j \in Calls : ~Asked(j, i)'
    BY <1>3, <1>5, <2>1 DEF Offered, Sent, Unsent
  <2> QED
    BY <2>2 DEF OneTurn, OneRequest, OneSent, OneUnsent
<1> QED
  BY <1>4, <1>5

LEMMA ServeResignTurn ==
  ASSUME IInv, IInv', OrderInv, TurnInv, NEW k \in Calls, ServeResign(k)
  PROVE  TurnInv'
<1>1. PICK id \in GameIds : id = calls[k].game
  BY CallKinds DEF IInv, ServeResign
<1>2. /\ UNCHANGED <<relay, screen>>
      /\ \A j \in Calls : Is(j, "move")' => calls'[j] = calls[j]
  BY DEF ServeResign, Answer, Is, IInv, ClientTypeOK
<1>3. CASE UNCHANGED <<live, late>>
  BY <1>2, <1>3, AnswerTurn
<1>4. CASE Stores(id, Resign(live[id], live[id].playerColor))
  <2>1. live[id] \in Game /\ live[id].playerColor \in Colors
    BY <1>4 DEF Stores, IInv, LiveTypeOK, Exists, Game
  <2>2. PICK n : n = Resign(live[id], live[id].playerColor)
    OBVIOUS
  <2>3. /\ n \in Game /\ n.moves = live[id].moves /\ n.playerColor = live[id].playerColor
        /\ n.status = "finished" /\ ~Ready(n)
    BY <2>1, <2>2, ResignType DEF Ready
  <2>4. Stores(id, n)
    BY <1>4, <2>2
  <2>5. IsWhite(id) => OneTurn(id)'
    <3> SUFFICES ASSUME OneTurn(id) PROVE OneTurn(id)'
      BY DEF TurnInv
    <3>1. /\ live'[id].moves = live[id].moves
          /\ \A j \in Calls : Asked(j, id)' => Asked(j, id) /\ calls'[j] = calls[j]
          /\ Offered(id)' => Offered(id) /\ screen'.g = screen.g
          /\ \A i : Sent(i, id)' => Sent(i, id) /\ Coming'[i] = Coming[i]
          /\ \A p : Unsent(p, id)' => Unsent(p, id)
      BY <1>2, <2>3, <2>4, WriteFacts
    <3> QED
      BY <3>1, FewerTurns
  <2> QED
    BY <1>2, <2>3, <2>4, <2>5, WriteFacts
<1>5. UNCHANGED <<live, late>> \/ Stores(id, Resign(live[id], live[id].playerColor))
  BY <1>1, ResignStores
<1> QED
  BY <1>3, <1>4, <1>5

LEMMA ServeMoveTurn ==
  ASSUME IInv, IInv', OrderInv, TurnInv, NEW k \in Calls, ServeMove(k)
  PROVE  TurnInv'
<1>1. PICK id \in GameIds, uci \in Moves : id = calls[k].game /\ uci = calls[k].uci
  BY CallKinds DEF IInv, ServeMove
<1>2. /\ UNCHANGED <<relay, screen>> /\ Asked(k, id) /\ ~Is(k, "move")'
      /\ \A j \in Calls : Is(j, "move")' => calls'[j] = calls[j]
  BY <1>1 DEF ServeMove, Answer, Is, Asked, IInv, ClientTypeOK
<1>3. CASE UNCHANGED <<live, late>>
  BY <1>2, <1>3, AnswerTurn
<1>4. CASE \E g \in Copies(id) : /\ Exists(id) /\ CanApplyMove(g, g.playerColor, uci)
                                 /\ Stores(id, ApplyMove(g, uci))
  <2>1. PICK g \in Copies(id) : /\ Exists(id) /\ CanApplyMove(g, g.playerColor, uci)
                                /\ Stores(id, ApplyMove(g, uci))
    BY <1>4
  <2>2. Known(id, live[id]) /\ LiveTypeOK
    BY <2>1 DEF OrderInv, GamesKnown, IInv
  <2>3. PICK n : n = ApplyMove(g, uci)
    OBVIOUS
  <2>4. /\ g \in Game /\ g.playerColor = live[id].playerColor /\ Turn(g) = g.playerColor
        /\ n \in Game /\ n.moves = Append(g.moves, uci) /\ n.playerColor = g.playerColor
    BY <2>1, <2>2, <2>3, CopySound, ApplyMoveType DEF CanApplyMove
  <2>5. ~Ready(n)
    <3>1. Turn(n) = OtherColor(Turn(g)) /\ g.playerColor \in Colors
      BY <2>4, TurnFacts DEF Game
    <3> QED
      BY <2>4, <3>1 DEF Ready, OtherColor, Colors
  <2>6. Stores(id, n)
    BY <2>1, <2>3
  <2>7. IsWhite(id) => OneTurn(id)'
    <3> SUFFICES ASSUME OneTurn(id) PROVE OneTurn(id)'
      BY DEF TurnInv
    <3>1. /\ \A j \in Calls : Asked(j, id) => j = k
          /\ ~Offered(id) /\ (\A i : ~Sent(i, id)) /\ (\A p : ~Unsent(p, id))
      BY <1>2 DEF OneTurn, OneRequest, OneSent, OneUnsent, Sent, Unsent
    <3>2. /\ \A j \in Calls : Asked(j, id)' => Asked(j, id)
          /\ ~Offered(id)' /\ (\A i : ~Sent(i, id)') /\ (\A p : ~Unsent(p, id)')
      BY <1>2, <2>4, <2>5, <2>6, <3>1, WriteFacts
    <3>3. \A j \in Calls : ~Asked(j, id)'
      BY <1>2, <3>1, <3>2 DEF Asked
    <3> QED
      BY <3>2, <3>3 DEF OneTurn, OneRequest, OneSent, OneUnsent
  <2> QED
    BY <1>2, <2>4, <2>6, <2>7, WriteFacts
<1>5. \/ UNCHANGED <<live, late>>
      \/ \E g \in Copies(id) : /\ Exists(id) /\ CanApplyMove(g, g.playerColor, uci)
                              /\ Stores(id, ApplyMove(g, uci))
  BY <1>1, MoveStores
<1> QED
  BY <1>3, <1>4, <1>5

LEMMA EngineMoveTurn ==
  ASSUME IInv, IInv', OrderInv, TurnInv, NEW id \in GameIds, NEW uci \in Moves,
         EngineMove(id, uci)
  PROVE  TurnInv'
<1>1. PICK g \in Copies(id) : /\ CanApplyMove(g, EngineColor(g), uci)
                              /\ Write(id, ApplyMove(g, uci))
  BY DEF EngineMove
<1>2. /\ UNCHANGED <<relay, screen>>
      /\ \A j \in Calls : Is(j, "move")' => calls'[j] = calls[j]
  BY DEF EngineMove, Is
<1>3. Known(id, live[id]) /\ LiveTypeOK
  BY DEF EngineMove, OrderInv, GamesKnown, IInv
<1>4. PICK n : n = ApplyMove(g, uci)
  OBVIOUS
<1>5. /\ g \in Game /\ g.moves = live[id].moves /\ g.playerColor = live[id].playerColor
      /\ Turn(g) = OtherColor(g.playerColor)
      /\ n \in Game /\ n.moves = Append(g.moves, uci) /\ n.playerColor = g.playerColor
  BY <1>1, <1>3, <1>4, CopySound, ApplyMoveType DEF CanApplyMove, EngineColor
<1>6. Stores(id, n)
  BY <1>1, <1>4, WriteStores DEF EngineMove
<1>7. IsWhite(id) => OneTurn(id)'
  <2> SUFFICES ASSUME IsWhite(id), OneTurn(id) PROVE OneTurn(id)'
    BY DEF TurnInv
  <2>1. Turn(live[id]) = "black"
    BY <1>5 DEF IsWhite, Turn, OtherColor
  <2>2. ASSUME NEW h, Known(id, h), h.moves = live[id].moves PROVE ~Ready(h)
    BY <2>1, <2>2 DEF Ready, Known, IsWhite, Turn
  <2>3. /\ \A j \in Calls : ~Asked(j, id)
        /\ ~Offered(id) /\ (\A i : ~Sent(i, id)) /\ (\A p : ~Unsent(p, id))
    <3>1. ~Offered(id)
      BY <2>2 DEF Offered, OneTurn, OrderInv, GamesKnown
    <3>2. ASSUME NEW i, Sent(i, id) PROVE FALSE
      BY <2>2, <3>2 DEF Sent, OneTurn, OneSent, OrderInv, GamesKnown
    <3>3. ASSUME NEW p, Unsent(p, id) PROVE FALSE
      BY <2>2, <3>3 DEF Unsent, OneTurn, OneUnsent, OrderInv, GamesKnown
    <3>4. \A j \in Calls : ~Asked(j, id)
      BY <2>1 DEF OneTurn, OneRequest
    <3> QED
      BY <3>1, <3>2, <3>3, <3>4
  <2>4. /\ \A j \in Calls : ~Asked(j, id)'
        /\ ~Offered(id)' /\ (\A i : ~Sent(i, id)')
        /\ \A p : Unsent(p, id)' => p = [game |-> id, g |-> n]
        /\ live'[id] = n
    BY <1>2, <1>5, <1>6, <2>3, WriteFacts
  <2>5. OneUnsent(id)'
    BY <2>4 DEF OneUnsent
  <2> QED
    BY <2>4, <2>5 DEF OneTurn, OneRequest, OneSent
<1> QED
  BY <1>2, <1>5, <1>6, <1>7, WriteFacts

LEMMA PublishTurn ==
  ASSUME IInv, IInv', OrderInv, TurnInv, NEW p \in late, PublishLate(p)
  PROVE  TurnInv'
<1> SUFFICES ASSUME NEW id \in GameIds, IsWhite(id)' PROVE OneTurn(id)'
  BY DEF TurnInv
<1>0. /\ UNCHANGED <<live, screen, calls>> /\ late' = late \ {p} /\ p.g \in Game
  BY DEF PublishLate, IInv, ClientTypeOK
<1>1. OneTurn(id)
  BY <1>0 DEF IsWhite, Exists, TurnInv
<1>2. /\ screen.socket \in Watchers => relay'[screen.socket].view = relay[screen.socket].view
      /\ \/ Coming' = Coming
         \/ p.game = screen.game /\ SocketIs("open") /\ Coming' = Append(Coming, p.g)
  BY PublishComing
<1>3. /\ \A k \in Calls : Asked(k, id)' => Asked(k, id) /\ calls'[k] = calls[k]
      /\ \A q : Unsent(q, id)' => Unsent(q, id) /\ q # p
  BY <1>0 DEF Asked, Is, Unsent
<1>4. Offered(id)' => Offered(id)
  <2>1. screen.game \in GameIds => screen.socket \in Watchers
    BY DEF OrderInv, GamesKnown
  <2> QED
    BY <1>0, <1>2, <2>1 DEF Offered
<1>5. CASE \A i : Sent(i, id)' => Sent(i, id) /\ Coming'[i] = Coming[i]
  BY <1>0, <1>1, <1>3, <1>4, <1>5, FewerTurns
<1>6. CASE Coming' = Coming \/ screen.game # id
  <2>1. \A i : Sent(i, id)' => Sent(i, id) /\ Coming'[i] = Coming[i]
    BY <1>0, <1>6 DEF Sent
  <2> QED
    BY <1>5, <2>1
<1>7. CASE p.game = id /\ screen.game = id /\ Coming' = Append(Coming, p.g)
  <2>1. Coming \in Seq(Game)
    BY ComingType DEF IInv
  <2>2. /\ Len(Coming) + 1 \notin DOMAIN Coming
        /\ \A i \in DOMAIN Coming' :
             \/ i \in DOMAIN Coming /\ Coming'[i] = Coming[i]
             \/ i = Len(Coming) + 1 /\ Coming'[i] = p.g
    BY <1>0, <1>7, <2>1, AppendIndex
  <2>3. CASE ~Ready(p.g)
    <3>1. \A i : Sent(i, id)' => Sent(i, id) /\ Coming'[i] = Coming[i]
      BY <1>0, <1>7, <2>2, <2>3 DEF Sent
    <3> QED
      BY <1>5, <3>1
  <2>4. CASE Ready(p.g)
    <3>1. /\ p.g.moves = live[id].moves
          /\ \A q \in late : Unsent(q, id) => q = p
          /\ ~Offered(id) /\ \A k \in Calls : ~Asked(k, id)
          /\ \A i \in DOMAIN Coming : ~Sent(i, id)
      BY <1>1, <1>7, <2>4 DEF OneTurn, OneUnsent, Unsent
    <3>2. \A i \in DOMAIN Coming' : Sent(i, id)' => i = Len(Coming) + 1 /\ Coming'[i] = p.g
      BY <1>0, <2>2, <3>1 DEF Sent
    <3>3. /\ ~Offered(id)' /\ \A k \in Calls : ~Asked(k, id)'
          /\ \A q \in late' : ~Unsent(q, id)'
      BY <1>0, <1>3, <1>4, <3>1
    <3>4. OneSent(id)'
      BY <1>0, <3>1, <3>2, <3>3 DEF OneSent
    <3> QED
      BY <3>3, <3>4 DEF OneTurn, OneRequest, OneUnsent
  <2> QED
    BY <2>3, <2>4
<1> QED
  BY <1>2, <1>6, <1>7

LEMMA TurnKept ==
  ASSUME IInv, IInv', OrderInv, TurnInv, [Next]_vars
  PROVE  TurnInv'
<1>1. CASE UNCHANGED vars
  BY <1>1, AnswerTurn DEF vars
<1>2. ASSUME NEW k \in Calls, Tab(k) PROVE TurnInv'
  BY <1>2, TabTurn
<1>3. ASSUME NEW k \in Calls, Server(k) PROVE TurnInv'
  BY <1>3, ServeCreateTurn, ServeMoveTurn, ServeResignTurn DEF Server
<1>4. ASSUME NEW c \in Watchers, Receive(c) \/ Background(c) PROVE TurnInv'
  BY <1>4, ReceiveTurn, BackgroundTurn
<1>5. ASSUME NEW id \in GameIds, NEW uci \in Moves, EngineMove(id, uci) PROVE TurnInv'
  BY <1>5, EngineMoveTurn
<1>6. ASSUME NEW p \in late, PublishLate(p) PROVE TurnInv'
  BY <1>6, PublishTurn
<1> QED
  BY <1>1, <1>2, <1>3, <1>4, <1>5, <1>6 DEF Next

(***************************************************************************)
(* A move is played later in the game its player saw, never in one that    *)
(* went another way, and White's in the very position it was made in,      *)
(* although the request does not name it, if the player did not move       *)
(* before the socket had brought a state: with any number of games and     *)
(* requests, provided that publications are not overtaken.  (tryMove,      *)
(* handleMove.)                                                            *)
(***************************************************************************)
THEOREM MovesFit ==
  ASSUME ~May("overtake")
  PROVE  Spec => MoveFitsScreen
<1> DEFINE Fit ==
             \A k \in Calls :
               LET id == calls[k].game
               IN  Is(k, "move") /\ calls'[k] = Absent =>
                     /\ IsPrefix(calls[k].seen, live[id].moves)
                     /\ live[id].playerColor = "white" /\ id \notin screen.hasty =>
                          live[id].moves = calls[k].seen
<1>1. Init => TurnInv
  BY DEF Init, LiveInit, TurnInv, IsWhite, Exists
<1>2. IInv /\ IInv' /\ OrderInv /\ TurnInv /\ [Next]_vars => TurnInv'
  BY TurnKept
<1>3. IInv /\ OrderInv /\ TurnInv => Fit
  <2> SUFFICES ASSUME IInv, OrderInv, TurnInv, NEW k \in Calls, Is(k, "move")
               PROVE  /\ IsPrefix(calls[k].seen, live[calls[k].game].moves)
                      /\ live[calls[k].game].playerColor = "white"
                           /\ calls[k].game \notin screen.hasty =>
                              live[calls[k].game].moves = calls[k].seen
    OBVIOUS
  <2>1. /\ calls[k].game \in GameIds /\ Exists(calls[k].game)
        /\ IsPrefix(calls[k].seen, live[calls[k].game].moves)
    BY CallKinds DEF IInv, OrderInv, CallsKnown
  <2>2. IsWhite(calls[k].game) =>
          OneRequest(calls[k].game) /\ Asked(k, calls[k].game)
    BY <2>1 DEF TurnInv, OneTurn, Asked
  <2> QED
    BY <2>1, <2>2 DEF OneRequest, IsWhite
<1> HIDE DEF Fit
<1>4. Spec => [][Fit]_vars
  BY <1>1, <1>2, <1>3, Invariant, OrderInvariant, PTL DEF Spec
<1> QED
  BY <1>4, PTL DEF Fit, MoveFitsScreen

=============================================================================
