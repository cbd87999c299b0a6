--------------------------- MODULE WebClientProofs --------------------------
(***************************************************************************)
(* Theorems about WebClient, and through it about Relay, for any number of *)
(* sockets, requests and games and any capacity of the channel.            *)
(***************************************************************************)
EXTENDS WebClient, GameProofs

(***************************************************************************)
(* What the goroutines of a socket keep true among themselves: nothing     *)
(* happens before the handler runs, the socket of a running handler has    *)
(* been opened, and a context is cancelled only when the browser is gone.  *)
(***************************************************************************)
Fits(r) ==
  /\ r.peer \in {"dial", "open"} => r.game \in GameIds
  /\ r.done => r.peer = "gone"
  /\ r.handler # "none" => r.peer \in {"open", "gone"}
  /\ r.handler = "none" =>
       /\ r.peer # "open" /\ r.forwarder = "none"
       /\ ~r.active /\ r.inbox = <<>> /\ r.hand = Absent /\ r.out = <<>>
       /\ r.snapshot = Absent /\ r.view = Absent

FitSocket == {r \in Socket : Fits(r)}

(***************************************************************************)
(* A step of one socket: the others stay, it keeps its game, and it is not *)
(* opened unless it was being dialled.                                     *)
(***************************************************************************)
OneSocket(c, t) ==
  /\ t \in FitSocket
  /\ relay' = [relay EXCEPT ![c] = t]
  /\ t.game = relay[c].game
  /\ t.peer \in {"dial", "open"} => relay[c].peer \in {"dial", "open"}

-----------------------------------------------------------------------------
LEMMA HeadTail ==
  ASSUME NEW S, NEW s \in Seq(S), s # <<>>
  PROVE  Head(s) \in S /\ Tail(s) \in Seq(S) /\ s = <<Head(s)>> \o Tail(s)
OBVIOUS

(***************************************************************************)
(* An element taken from the front of one sequence or put at the end of    *)
(* another stays where it is in their concatenation.                       *)
(***************************************************************************)
LEMMA TakeKeeps ==
  ASSUME NEW s \in Seq(Game), NEW u \in Seq(Game), u # <<>>
  PROVE  s \o <<Head(u)>> \o Tail(u) = s \o <<>> \o u
<1>1. /\ Head(u) \in Game /\ Tail(u) \in Seq(Game) /\ u = <<Head(u)>> \o Tail(u)
  BY HeadTail
<1>2. PICK e \in Game : e = Head(u)
  BY <1>1
<1>3. PICK v \in Seq(Game) : v = Tail(u)
  BY <1>1
<1>4. s \o <<e>> \o v = s \o (<<e>> \o v) /\ s \o <<>> = s
  OBVIOUS
<1> QED
  BY <1>1, <1>2, <1>3, <1>4

LEMMA PutKeeps ==
  ASSUME NEW s \in Seq(Game), NEW e \in Game, NEW u \in Seq(Game)
  PROVE  Append(s, e) \o <<>> \o u = s \o <<e>> \o u
<1>1. Append(s, e) = s \o <<e>> /\ Append(s, e) \in Seq(Game)
  OBVIOUS
<1>2. Append(s, e) \o <<>> = Append(s, e)
  BY <1>1
<1> QED
  BY <1>1, <1>2

LEMMA FirstOfThree ==
  ASSUME NEW s \in Seq(Game), s # <<>>, NEW t \in Seq(Game), NEW u \in Seq(Game)
  PROVE  /\ s \o t \o u # <<>>
         /\ Head(s \o t \o u) = Head(s)
         /\ Tail(s \o t \o u) = Tail(s) \o t \o u
<1>1. /\ Head(s) \in Game /\ Tail(s) \in Seq(Game) /\ s = <<Head(s)>> \o Tail(s)
  BY HeadTail
<1>2. PICK e \in Game : e = Head(s)
  BY <1>1
<1>3. PICK v \in Seq(Game) : v = Tail(s)
  BY <1>1
<1> DEFINE w == v \o t \o u
<1>4. w \in Seq(Game)
  OBVIOUS
<1>5. s \o t \o u = <<e>> \o w
  BY <1>1, <1>2, <1>3
<1> HIDE DEF w
<1>6. /\ <<e>> \o w # <<>> /\ Head(<<e>> \o w) = e /\ Tail(<<e>> \o w) = w
  BY <1>4
<1> QED
  BY <1>2, <1>3, <1>5, <1>6 DEF w

LEMMA AcceptFits ==
  ASSUME LiveTypeOK, relay \in [Watchers -> FitSocket], NEW c \in Watchers, Accept(c)
  PROVE  \E t : OneSocket(c, t)
<1> DEFINE r == relay[c]
           t == [r EXCEPT !.peer = "open", !.handler = "loop",
                          !.forwarder = "run", !.snapshot = live[r.game]]
<1>1. r \in Socket /\ Fits(r)
  BY DEF FitSocket
<1>2. t \in Socket
  BY <1>1 DEF Accept, Socket, Fits, LiveTypeOK
<1>3. Fits(t)
  BY <1>1 DEF Accept, Socket, Fits
<1>4. relay' = [relay EXCEPT ![c] = t]
  BY <1>1 DEF Accept, Socket
<1>5. OneSocket(c, t)
  BY <1>1, <1>2, <1>3, <1>4 DEF Accept, OneSocket, FitSocket, Socket
<1> QED
  BY <1>5

LEMMA ActivateFits ==
  ASSUME LiveTypeOK, relay \in [Watchers -> FitSocket], NEW c \in Watchers, Activate(c)
  PROVE  \E t : OneSocket(c, t)
<1> DEFINE r == relay[c]
           t == [r EXCEPT !.active = TRUE]
<1>1. r \in Socket /\ Fits(r)
  BY DEF FitSocket
<1>2. t \in Socket
  BY <1>1 DEF Activate, Socket, Fits, LiveTypeOK
<1>3. Fits(t)
  BY <1>1 DEF Activate, Socket, Fits
<1>4. relay' = [relay EXCEPT ![c] = t]
  BY <1>1 DEF Activate, Socket
<1>5. OneSocket(c, t)
  BY <1>1, <1>2, <1>3, <1>4 DEF Activate, OneSocket, FitSocket, Socket
<1> QED
  BY <1>5

LEMMA TakeFits ==
  ASSUME LiveTypeOK, relay \in [Watchers -> FitSocket], NEW c \in Watchers, TakeEvent(c)
  PROVE  \E t : OneSocket(c, t)
<1> DEFINE r == relay[c]
           t == [r EXCEPT !.hand = Head(r.inbox), !.inbox = Tail(r.inbox)]
<1>1. r \in Socket /\ Fits(r)
  BY DEF FitSocket
<1>2. Head(r.inbox) \in Game /\ Tail(r.inbox) \in Seq(Game)
  <2> HIDE DEF r
  <2>1. r.inbox \in Seq(Game) /\ r.inbox # <<>>
    BY <1>1 DEF TakeEvent, Socket, r
  <2> QED
    BY <2>1, HeadTail
<1>3. t \in Socket
  BY <1>1, <1>2 DEF TakeEvent, Socket, Fits, LiveTypeOK
<1>4. Fits(t)
  BY <1>1 DEF TakeEvent, Socket, Fits
<1>5. relay' = [relay EXCEPT ![c] = t]
  BY <1>1 DEF TakeEvent, Socket
<1>6. OneSocket(c, t)
  BY <1>1, <1>3, <1>4, <1>5 DEF TakeEvent, OneSocket, FitSocket, Socket
<1> QED
  BY <1>6

LEMMA ForwardFits ==
  ASSUME LiveTypeOK, relay \in [Watchers -> FitSocket], NEW c \in Watchers, Forward(c)
  PROVE  \E t : OneSocket(c, t)
<1> DEFINE r == relay[c]
           t == [r EXCEPT !.out = Append(r.out, r.hand), !.hand = Absent]
<1>1. r \in Socket /\ Fits(r)
  BY DEF FitSocket
<1>2. t \in Socket
  BY <1>1 DEF Forward, Socket, Fits, LiveTypeOK
<1>3. Fits(t)
  BY <1>1 DEF Forward, Socket, Fits
<1>4. relay' = [relay EXCEPT ![c] = t]
  BY <1>1 DEF Forward, Socket
<1>5. OneSocket(c, t)
  BY <1>1, <1>2, <1>3, <1>4 DEF Forward, OneSocket, FitSocket, Socket
<1> QED
  BY <1>5

LEMMA UnsubscribeFits ==
  ASSUME LiveTypeOK, relay \in [Watchers -> FitSocket], NEW c \in Watchers, Unsubscribe(c)
  PROVE  \E t : OneSocket(c, t)
<1> DEFINE r == relay[c]
           t == [r EXCEPT !.forwarder = "returned", !.active = FALSE]
<1>1. r \in Socket /\ Fits(r)
  BY DEF FitSocket
<1>2. t \in Socket
  BY <1>1 DEF Unsubscribe, Socket, Fits, LiveTypeOK
<1>3. Fits(t)
  BY <1>1 DEF Unsubscribe, Socket, Fits
<1>4. relay' = [relay EXCEPT ![c] = t]
  BY <1>1 DEF Unsubscribe, Socket
<1>5. OneSocket(c, t)
  BY <1>1, <1>2, <1>3, <1>4 DEF Unsubscribe, OneSocket, FitSocket, Socket
<1> QED
  BY <1>5

LEMMA CancelFits ==
  ASSUME LiveTypeOK, relay \in [Watchers -> FitSocket], NEW c \in Watchers, ReaderCancels(c)
  PROVE  \E t : OneSocket(c, t)
<1> DEFINE r == relay[c]
           t == [r EXCEPT !.done = TRUE]
<1>1. r \in Socket /\ Fits(r)
  BY DEF FitSocket
<1>2. t \in Socket
  BY <1>1 DEF ReaderCancels, Socket, Fits, LiveTypeOK
<1>3. Fits(t)
  BY <1>1 DEF ReaderCancels, Socket, Fits
<1>4. relay' = [relay EXCEPT ![c] = t]
  BY <1>1 DEF ReaderCancels, Socket
<1>5. OneSocket(c, t)
  BY <1>1, <1>2, <1>3, <1>4 DEF ReaderCancels, OneSocket, FitSocket, Socket
<1> QED
  BY <1>5

LEMMA ReturnFits ==
  ASSUME LiveTypeOK, relay \in [Watchers -> FitSocket], NEW c \in Watchers, HandlerReturns(c)
  PROVE  \E t : OneSocket(c, t)
<1> DEFINE r == relay[c]
           t == [r EXCEPT !.handler = "returned", !.done = TRUE, !.peer = "gone"]
<1>1. r \in Socket /\ Fits(r)
  BY DEF FitSocket
<1>2. t \in Socket
  BY <1>1 DEF HandlerReturns, Socket, Fits, LiveTypeOK
<1>3. Fits(t)
  BY <1>1 DEF HandlerReturns, Socket, Fits
<1>4. relay' = [relay EXCEPT ![c] = t]
  BY <1>1 DEF HandlerReturns, Socket
<1>5. OneSocket(c, t)
  BY <1>1, <1>2, <1>3, <1>4 DEF HandlerReturns, OneSocket, FitSocket, Socket
<1> QED
  BY <1>5

LEMMA DisconnectFits ==
  ASSUME LiveTypeOK, relay \in [Watchers -> FitSocket], NEW c \in Watchers, Disconnect(c)
  PROVE  \E t : OneSocket(c, t)
<1> DEFINE r == relay[c]
           t == [r EXCEPT !.peer = "gone"]
<1>1. r \in Socket /\ Fits(r)
  BY DEF FitSocket
<1>2. t \in Socket
  BY <1>1 DEF Disconnect, Socket, Fits, LiveTypeOK
<1>3. Fits(t)
  BY <1>1 DEF Disconnect, Socket, Fits
<1>4. relay' = [relay EXCEPT ![c] = t]
  BY <1>1 DEF Disconnect, Socket
<1>5. OneSocket(c, t)
  BY <1>1, <1>2, <1>3, <1>4 DEF Disconnect, OneSocket, FitSocket, Socket
<1> QED
  BY <1>5

LEMMA SnapshotFits ==
  ASSUME LiveTypeOK, relay \in [Watchers -> FitSocket], NEW c \in Watchers, WriteSnapshot(c)
  PROVE  \E t : OneSocket(c, t)
<1> DEFINE r == relay[c]
           t == [r EXCEPT !.view = r.snapshot, !.snapshot = Absent]
<1>1. r \in Socket /\ Fits(r)
  BY DEF FitSocket
<1>2. t \in Socket
  BY <1>1 DEF WriteSnapshot, Socket, Fits, LiveTypeOK
<1>3. Fits(t)
  BY <1>1 DEF WriteSnapshot, Socket, Fits
<1>4. relay' = [relay EXCEPT ![c] = t]
  BY <1>1 DEF WriteSnapshot, Socket
<1>5. OneSocket(c, t)
  BY <1>1, <1>2, <1>3, <1>4 DEF WriteSnapshot, OneSocket, FitSocket, Socket
<1> QED
  BY <1>5

LEMMA EventFits ==
  ASSUME LiveTypeOK, relay \in [Watchers -> FitSocket], NEW c \in Watchers, WriteEvent(c)
  PROVE  \E t : OneSocket(c, t)
<1> DEFINE r == relay[c]
           t == [r EXCEPT !.view = Head(r.out), !.out = Tail(r.out)]
<1>1. r \in Socket /\ Fits(r)
  BY DEF FitSocket
<1>2. t \in Socket
  BY <1>1 DEF WriteEvent, Socket, Fits, LiveTypeOK
<1>3. Fits(t)
  BY <1>1 DEF WriteEvent, Socket, Fits
<1>4. relay' = [relay EXCEPT ![c] = t]
  BY <1>1 DEF WriteEvent, Socket
<1>5. OneSocket(c, t)
  BY <1>1, <1>2, <1>3, <1>4 DEF WriteEvent, OneSocket, FitSocket, Socket
<1> QED
  BY <1>5

-----------------------------------------------------------------------------
(***************************************************************************)
(* The session a socket stands for, step by step.                          *)
(***************************************************************************)
LEMMA SessionType ==
  ASSUME NEW r \in Socket
  PROVE  SessionOf(r) \in FO!Session
<1>1. Hand(r) \in Seq(Game) /\ r.out \in Seq(Game) /\ r.inbox \in Seq(Game)
  BY DEF Hand, Socket
<1>2. r.out \o Hand(r) \o r.inbox \in Seq(Game)
  BY <1>1
<1>3. FO!Game = Game
  BY DEF FO!Game, Game, FO!Colors, Colors, FO!Results, Results
<1>4. /\ r.view \in Game \cup {Absent} /\ r.snapshot \in Game \cup {Absent}
      /\ r.game \in GameIds \cup {Absent} /\ r.active \in BOOLEAN
  BY DEF Socket
<1>5. <<>> \in Seq(Game)
  OBVIOUS
<1> QED
  BY <1>2, <1>3, <1>4, <1>5 DEF SessionOf, FO!Session

LEMMA SocketChanges ==
  ASSUME NEW c \in Watchers, NEW t, relay \in [Watchers -> FitSocket],
         relay' = [relay EXCEPT ![c] = t]
  PROVE  /\ Sessions' = [Sessions EXCEPT ![c] = SessionOf(t)]
         /\ Sessions = [d \in Watchers |-> Sessions[d]]
         /\ Sessions[c] = SessionOf(relay[c])
BY DEF Sessions

LEMMA Unshown ==
  ASSUME NEW c \in Watchers, NEW t, relay \in [Watchers -> FitSocket],
         relay' = [relay EXCEPT ![c] = t], SessionOf(t) = SessionOf(relay[c])
  PROVE  UNCHANGED Sessions
BY DEF Sessions

LEMMA AcceptShown ==
  ASSUME LiveTypeOK, relay \in [Watchers -> FitSocket], NEW c \in Watchers, Accept(c)
  PROVE  relay[c].game \in GameIds /\ FO!OpenWS(c, relay[c].game)
<1> DEFINE r == relay[c]
           s == SessionOf(r)
           t == [r EXCEPT !.peer = "open", !.handler = "loop",
                          !.forwarder = "run", !.snapshot = live[r.game]]
<1>1. r \in Socket /\ Fits(r) /\ relay' = [relay EXCEPT ![c] = t]
  BY DEF FitSocket, Accept
<1>2. r.handler = "none" /\ r.game \in GameIds /\ Exists(r.game) /\ r.active = FALSE
  BY <1>1 DEF Accept, Fits, Socket
<1>3. t \in Socket
  BY <1>1, <1>2 DEF Socket, LiveTypeOK
<1>4. s \in FO!Session /\ SessionOf(t) \in FO!Session
  BY <1>1, <1>3, SessionType
<1>5. t.out \o Hand(t) \o t.inbox = <<>>
  BY <1>1, <1>2 DEF Fits, Hand, Socket
<1>6. /\ s.pc = "closed" /\ s.subscribed = FALSE
      /\ s.channel = <<>> /\ s.view = r.view
  BY <1>2 DEF SessionOf
<1>7. /\ SessionOf(t).pc = "open" /\ SessionOf(t).game = r.game
      /\ SessionOf(t).snapshot = live[r.game] /\ SessionOf(t).subscribed = FALSE
      /\ SessionOf(t).channel = <<>> /\ SessionOf(t).view = r.view
  BY <1>1, <1>2, <1>5 DEF SessionOf, Socket
<1>8. SessionOf(t) = [s EXCEPT !.pc = "open", !.game = r.game,
                               !.snapshot = live[r.game]]
  <2> HIDE DEF s, t, r
  <2> QED
    BY <1>4, <1>6, <1>7 DEF FO!Session
<1>9. FO!OpenWS(c, r.game)
  <2> HIDE DEF t
  <2>1. /\ Sessions' = [Sessions EXCEPT ![c] = SessionOf(t)]
        /\ Sessions[c] = s
        /\ Sessions = [d \in Watchers |-> Sessions[d]]
    BY <1>1, SocketChanges
  <2>2. Sessions' = [Sessions EXCEPT ![c].pc = "open", ![c].game = r.game,
                                     ![c].snapshot = live[r.game]]
    <3> HIDE DEF s, r
    <3> QED
      BY <1>8, <2>1
  <2> QED
    BY <1>1, <1>2, <1>6, <2>1, <2>2 DEF FO!OpenWS, FO!Exists, Exists
<1> QED
  BY <1>2, <1>9

(***************************************************************************)
(* The forwarder moves events along the channel, which the session does    *)
(* not show.                                                               *)
(***************************************************************************)
LEMMA TakeShown ==
  ASSUME relay \in [Watchers -> FitSocket], NEW c \in Watchers, TakeEvent(c)
  PROVE  UNCHANGED Sessions
<1> DEFINE r == relay[c]
           t == [r EXCEPT !.hand = Head(r.inbox), !.inbox = Tail(r.inbox)]
<1>1. r \in Socket /\ relay' = [relay EXCEPT ![c] = t]
  BY DEF FitSocket, TakeEvent
<1>2. /\ r.inbox \in Seq(Game) /\ r.inbox # <<>> /\ r.hand = Absent
      /\ r.out \in Seq(Game)
  BY <1>1 DEF TakeEvent, Socket
<1>3. Hand(r) = <<>> /\ Head(r.inbox) # Absent
  <2> HIDE DEF r
  <2>1. Head(r.inbox) \in Game
    BY <1>2, HeadTail
  <2> QED
    BY <1>2, <2>1, AbsentAssumption DEF Hand
<1>4. Hand(t) = <<Head(r.inbox)>> /\ t.inbox = Tail(r.inbox) /\ t.out = r.out
  BY <1>1, <1>3 DEF Hand, Socket
<1>5. t.out \o Hand(t) \o t.inbox = r.out \o Hand(r) \o r.inbox
  <2> HIDE DEF r, t
  <2> QED
    BY <1>2, <1>3, <1>4, TakeKeeps
<1>6. SessionOf(t) = SessionOf(r)
  BY <1>1, <1>5 DEF SessionOf, Socket
<1> QED
  BY <1>1, <1>6, Unshown

LEMMA ForwardShown ==
  ASSUME relay \in [Watchers -> FitSocket], NEW c \in Watchers, Forward(c)
  PROVE  UNCHANGED Sessions
<1> DEFINE r == relay[c]
           t == [r EXCEPT !.out = Append(r.out, r.hand), !.hand = Absent]
<1>1. r \in Socket /\ relay' = [relay EXCEPT ![c] = t]
  BY DEF FitSocket, Forward
<1>2. /\ r.inbox \in Seq(Game) /\ r.hand \in Game /\ r.hand # Absent
      /\ r.out \in Seq(Game)
  BY <1>1 DEF Forward, Socket
<1>3. Hand(r) = <<r.hand>>
  BY <1>2 DEF Hand
<1>4. Hand(t) = <<>> /\ t.inbox = r.inbox /\ t.out = Append(r.out, r.hand)
  BY <1>1 DEF Hand, Socket
<1>5. t.out \o Hand(t) \o t.inbox = r.out \o Hand(r) \o r.inbox
  <2> HIDE DEF r, t
  <2>1. Append(r.out, r.hand) \o <<>> \o r.inbox = r.out \o <<r.hand>> \o r.inbox
    BY <1>2, PutKeeps
  <2> QED
    BY <1>3, <1>4, <2>1
<1>6. SessionOf(t) = SessionOf(r)
  BY <1>1, <1>5 DEF SessionOf, Socket
<1> QED
  BY <1>1, <1>6, Unshown

(***************************************************************************)
(* The subscription of an open socket starts, and nothing ends it before   *)
(* the browser is gone.                                                    *)
(***************************************************************************)
LEMMA ActivateShown ==
  ASSUME relay \in [Watchers -> FitSocket], NEW c \in Watchers, Activate(c)
  PROVE  FO!Subscribe(c) \/ UNCHANGED Sessions
<1> DEFINE r == relay[c]
           s == SessionOf(r)
           t == [r EXCEPT !.active = TRUE]
<1>1. r \in Socket /\ Fits(r) /\ relay' = [relay EXCEPT ![c] = t]
  BY DEF FitSocket, Activate
<1>2. r.handler # "none" /\ r.active = FALSE /\ Hand(t) = Hand(r)
  BY <1>1 DEF Activate, Fits, Socket, Hand
<1>3. CASE r.peer = "gone"
  <2>1. SessionOf(t) = SessionOf(r)
    BY <1>1, <1>3 DEF SessionOf, Socket
  <2> QED
    BY <1>1, <2>1, Unshown
<1>4. CASE r.peer # "gone"
  <2>1. t \in Socket
    BY <1>1 DEF Socket
  <2>2. s \in FO!Session /\ SessionOf(t) \in FO!Session
    BY <1>1, <2>1, SessionType
  <2>3. SessionOf(t) = [s EXCEPT !.subscribed = TRUE] /\ s.pc = "open" /\ ~s.subscribed
    <3>1. /\ SessionOf(t).pc = s.pc /\ SessionOf(t).game = s.game
          /\ SessionOf(t).snapshot = s.snapshot /\ SessionOf(t).subscribed = TRUE
          /\ SessionOf(t).channel = s.channel /\ SessionOf(t).view = s.view
          /\ s.pc = "open" /\ ~s.subscribed
      BY <1>1, <1>2, <1>4 DEF SessionOf, Socket
    <3> HIDE DEF s, t
    <3> QED
      BY <2>2, <3>1 DEF FO!Session
  <2>4. /\ Sessions' = [Sessions EXCEPT ![c] = SessionOf(t)]
        /\ Sessions[c] = s
        /\ Sessions = [d \in Watchers |-> Sessions[d]]
    BY <1>1, SocketChanges
  <2> HIDE DEF s, t
  <2> QED
    BY <2>3, <2>4 DEF FO!Subscribe
<1> QED
  BY <1>3, <1>4

LEMMA EndsUnshown ==
  ASSUME relay \in [Watchers -> FitSocket], NEW c \in Watchers,
         Unsubscribe(c) \/ ReaderCancels(c)
  PROVE  UNCHANGED Sessions
<1> DEFINE r == relay[c]
           t == IF Unsubscribe(c)
                THEN [r EXCEPT !.forwarder = "returned", !.active = FALSE]
                ELSE [r EXCEPT !.done = TRUE]
<1>1. r \in Socket /\ Fits(r) /\ relay' = [relay EXCEPT ![c] = t]
  BY DEF FitSocket, Unsubscribe, ReaderCancels
<1>2. r.peer = "gone"
  BY <1>1 DEF Unsubscribe, ReaderCancels, Fits
<1>3. SessionOf(t) = SessionOf(r)
  BY <1>1, <1>2 DEF SessionOf, Socket
<1> QED
  BY <1>1, <1>3, Unshown

(***************************************************************************)
(* A socket that closes, whichever end notices first, closes its session.  *)
(***************************************************************************)
LEMMA CloseShown ==
  ASSUME May("wsClose"), relay \in [Watchers -> FitSocket], NEW c \in Watchers,
         NEW t \in Socket, Sessions' = [Sessions EXCEPT ![c] = SessionOf(t)],
         t.peer = "gone", t.view = relay[c].view,
         t.handler = "none" <=> relay[c].handler = "none"
  PROVE  FO!SessionStep(c) \/ UNCHANGED Sessions
<1> DEFINE r == relay[c]
           s == SessionOf(r)
<1>1. r \in Socket /\ Fits(r)
  BY DEF FitSocket
<1>2. CASE r.handler = "none" \/ r.peer = "gone"
  <2>1. SessionOf(t) = SessionOf(r)
    BY <1>1, <1>2 DEF SessionOf
  <2> QED
    BY <2>1 DEF Sessions
<1>3. CASE ~(r.handler = "none" \/ r.peer = "gone")
  <2>1. s.pc = "open" /\ s.view = r.view
    BY <1>3 DEF SessionOf
  <2>2. SessionOf(t) = [pc |-> "gone", game |-> Absent, snapshot |-> Absent,
                        subscribed |-> FALSE, channel |-> <<>>, view |-> r.view]
    BY <1>3 DEF SessionOf
  <2>3. SessionOf(t) = [FO!ClosedSession EXCEPT !.pc = "gone", !.view = s.view]
    <3>1. FO!ClosedSession \in FO!Session /\ SessionOf(t) \in FO!Session
      BY SessionType DEF FO!ClosedSession, FO!Session
    <3>2. /\ FO!ClosedSession.game = Absent /\ FO!ClosedSession.snapshot = Absent
          /\ FO!ClosedSession.subscribed = FALSE /\ FO!ClosedSession.channel = <<>>
      BY DEF FO!ClosedSession
    <3>3. /\ SessionOf(t).pc = "gone" /\ SessionOf(t).game = Absent
          /\ SessionOf(t).snapshot = Absent /\ SessionOf(t).subscribed = FALSE
          /\ SessionOf(t).channel = <<>> /\ SessionOf(t).view = s.view
      BY <2>1, <2>2
    <3> HIDE DEF s
    <3> QED
      BY <3>1, <3>2, <3>3 DEF FO!Session
  <2>4. Sessions[c] = s
    BY DEF Sessions
  <2> HIDE DEF s, r
  <2>5. FO!CloseWS(c)
    BY <2>1, <2>3, <2>4 DEF FO!CloseWS, FO!May, May
  <2> QED
    BY <2>5 DEF FO!SessionStep
<1> QED
  BY <1>2, <1>3

LEMMA SnapshotShown ==
  ASSUME relay \in [Watchers -> FitSocket], NEW c \in Watchers, WriteSnapshot(c)
  PROVE  FO!SendSnapshot(c)
<1> DEFINE r == relay[c]
           s == SessionOf(r)
           t == [r EXCEPT !.view = r.snapshot, !.snapshot = Absent]
<1>1. r \in Socket /\ Fits(r) /\ relay' = [relay EXCEPT ![c] = t]
  BY DEF FitSocket, WriteSnapshot
<1>2. t \in Socket
  BY <1>1 DEF Socket
<1>3. s \in FO!Session /\ SessionOf(t) \in FO!Session
  BY <1>1, <1>2, SessionType
<1>4. /\ SessionOf(t).pc = s.pc /\ SessionOf(t).game = s.game
      /\ SessionOf(t).snapshot = Absent /\ SessionOf(t).subscribed = s.subscribed
      /\ SessionOf(t).channel = s.channel /\ SessionOf(t).view = s.snapshot
      /\ s.pc = "open" /\ s.snapshot # Absent
  <2>1. /\ Hand(t) = Hand(r) /\ t.out = r.out /\ t.inbox = r.inbox
        /\ t.game = r.game /\ t.active = r.active /\ t.peer = "open"
        /\ t.handler = "loop" /\ t.snapshot = Absent /\ t.view = r.snapshot
        /\ r.snapshot # Absent /\ r.peer = "open" /\ r.handler = "loop"
    BY <1>1 DEF Hand, Socket, WriteSnapshot
  <2> HIDE DEF r, t
  <2> QED
    BY <2>1 DEF SessionOf
<1> HIDE DEF s, t
<1>5. SessionOf(t) = [s EXCEPT !.view = s.snapshot, !.snapshot = Absent]
  BY <1>3, <1>4 DEF FO!Session
<1>6. /\ Sessions' = [Sessions EXCEPT ![c] = SessionOf(t)]
      /\ Sessions[c] = s
      /\ Sessions = [d \in Watchers |-> Sessions[d]]
  BY <1>1, SocketChanges DEF s
<1> QED
  BY <1>4, <1>5, <1>6 DEF FO!SendSnapshot

LEMMA EventShown ==
  ASSUME relay \in [Watchers -> FitSocket], NEW c \in Watchers, WriteEvent(c)
  PROVE  FO!SendEvent(c)
<1> DEFINE r == relay[c]
           s == SessionOf(r)
           t == [r EXCEPT !.view = Head(r.out), !.out = Tail(r.out)]
<1>1. r \in Socket /\ Fits(r) /\ relay' = [relay EXCEPT ![c] = t]
  BY DEF FitSocket, WriteEvent
<1>2. r.out \in Seq(Game) /\ r.out # <<>> /\ r.inbox \in Seq(Game)
  BY <1>1 DEF WriteEvent, Socket
<1>3. Head(r.out) \in Game /\ Tail(r.out) \in Seq(Game)
  <2> HIDE DEF r
  <2> QED
    BY <1>2, HeadTail
<1>4. t \in Socket
  BY <1>1, <1>3 DEF Socket
<1>5. s \in FO!Session /\ SessionOf(t) \in FO!Session
  BY <1>1, <1>4, SessionType
<1>6. /\ Hand(t) = Hand(r) /\ t.out = Tail(r.out) /\ t.inbox = r.inbox
      /\ t.game = r.game /\ t.active = r.active /\ t.peer = "open"
      /\ t.handler = "loop" /\ t.snapshot = Absent /\ t.view = Head(r.out)
      /\ r.snapshot = Absent /\ r.peer = "open" /\ r.handler = "loop"
  BY <1>1 DEF Hand, Socket, WriteEvent
<1>7. Hand(r) \in Seq(Game)
  BY <1>1 DEF Hand, Socket
<1>8. /\ r.out \o Hand(r) \o r.inbox # <<>>
      /\ Head(r.out \o Hand(r) \o r.inbox) = Head(r.out)
      /\ Tail(r.out \o Hand(r) \o r.inbox) = Tail(r.out) \o Hand(r) \o r.inbox
  <2> HIDE DEF r
  <2>1. PICK u \in Seq(Game), v \in Seq(Game), w \in Seq(Game) :
          u = r.out /\ v = Hand(r) /\ w = r.inbox
    BY <1>2, <1>7
  <2>2. u # <<>>
    BY <1>2, <2>1
  <2>3. /\ u \o v \o w # <<>> /\ Head(u \o v \o w) = Head(u)
        /\ Tail(u \o v \o w) = Tail(u) \o v \o w
    BY <2>2, FirstOfThree, SMTT(60)
  <2> QED
    BY <2>1, <2>3
<1> HIDE DEF t
<1>9. /\ SessionOf(t).pc = s.pc /\ SessionOf(t).game = s.game
      /\ SessionOf(t).snapshot = s.snapshot /\ SessionOf(t).subscribed = s.subscribed
      /\ SessionOf(t).channel = Tail(s.channel) /\ SessionOf(t).view = Head(s.channel)
      /\ s.pc = "open" /\ s.snapshot = Absent /\ s.channel # <<>>
  <2> HIDE DEF r
  <2> QED
    BY <1>6, <1>8 DEF SessionOf
<1> HIDE DEF s
<1>10. SessionOf(t) = [s EXCEPT !.view = Head(s.channel), !.channel = Tail(s.channel)]
  BY <1>5, <1>9 DEF FO!Session
<1>11. /\ Sessions' = [Sessions EXCEPT ![c] = SessionOf(t)]
       /\ Sessions[c] = s
       /\ Sessions = [d \in Watchers |-> Sessions[d]]
  BY <1>1, SocketChanges DEF s
<1> QED
  BY <1>9, <1>10, <1>11 DEF FO!SendEvent

(***************************************************************************)
(* connect closes one session and opens none yet.                          *)
(***************************************************************************)
LEMMA ConnectShown ==
  ASSUME May("wsClose"), relay \in [Watchers -> FitSocket], NEW c \in Watchers,
         NEW id \in GameIds, Connect(c, id)
  PROVE  (\E d \in Watchers : FO!SessionStep(d)) \/ UNCHANGED Sessions
<1> DEFINE new == [relay[c] EXCEPT !.peer = "dial", !.game = id]
           e   == screen.socket
           old == [relay[e] EXCEPT !.peer = "gone"]
<1>1. relay[c] \in Socket /\ relay[c].peer = "none" /\ relay[c].handler = "none"
  BY DEF Connect, FitSocket, Fits
<1>2. SessionOf(new) = SessionOf(relay[c])
  BY <1>1 DEF SessionOf, Socket
<1>3. relay' = [d \in Watchers |-> IF d = c THEN new ELSE IF d = e THEN old ELSE relay[d]]
  BY DEF Connect
<1>4. CASE e \in Watchers /\ e # c
  <2>1. relay[e] \in Socket
    BY <1>4 DEF FitSocket
  <2>2. /\ old \in Socket /\ old.peer = "gone" /\ old.view = relay[e].view
        /\ old.handler = relay[e].handler
    BY <2>1 DEF Socket
  <2> HIDE DEF new, old, e
  <2>3. Sessions' = [Sessions EXCEPT ![e] = SessionOf(old)]
    BY <1>2, <1>3, <1>4 DEF Sessions
  <2> QED
    BY <1>4, <2>2, <2>3, CloseShown
<1>5. CASE ~(e \in Watchers /\ e # c)
  <2> HIDE DEF new, old, e
  <2> QED
    BY <1>2, <1>3, <1>5 DEF Sessions
<1> QED
  BY <1>4, <1>5

(***************************************************************************)
(* PUBLISH reaches the sessions whose sockets are open and subscribed.     *)
(***************************************************************************)
LEMMA AppendLast ==
  ASSUME NEW s \in Seq(Game), NEW t \in Seq(Game), NEW g \in Game
  PROVE  s \o Append(t, g) = Append(s \o t, g)
OBVIOUS

LEMMA DeliverShown ==
  ASSUME relay \in [Watchers -> FitSocket], NEW id \in GameIds, NEW g \in Game,
         Deliver(id, g)
  PROVE  FO!Publish(id, g)
<1> DEFINE Reached(c) == relay[c].active /\ relay[c].game = id
           t(c) == IF Reached(c) THEN [relay[c] EXCEPT !.inbox = Append(@, g)]
                                 ELSE relay[c]
           S(c) == IF Sessions[c].subscribed /\ Sessions[c].game = id
                   THEN [Sessions[c] EXCEPT !.channel = Append(@, g)]
                   ELSE Sessions[c]
<1>1. relay' = [c \in Watchers |-> t(c)]
  BY DEF Deliver
<1>2. ASSUME NEW c \in Watchers
      PROVE  SessionOf(t(c)) = S(c)
  <2> DEFINE r == relay[c]
             s == SessionOf(r)
  <2>1. r \in Socket /\ Fits(r) /\ Sessions[c] = s
    BY DEF FitSocket, Sessions
  <2>2. CASE r.handler = "none" \/ r.peer = "gone"
    <3>1. ~s.subscribed
      BY <2>2 DEF SessionOf
    <3>2. SessionOf(t(c)) = s
      BY <2>1, <2>2 DEF SessionOf, Socket
    <3> QED
      BY <2>1, <3>1, <3>2
  <2>3. CASE ~(r.handler = "none" \/ r.peer = "gone")
    <3>1. s.subscribed = r.active /\ s.game = r.game
      BY <2>3 DEF SessionOf
    <3>2. CASE ~Reached(c)
      BY <2>1, <3>1, <3>2
    <3>3. CASE Reached(c)
      <4> DEFINE n == [r EXCEPT !.inbox = Append(r.inbox, g)]
      <4>1. t(c) = n /\ n \in Socket
        BY <2>1, <3>3 DEF Socket
      <4>2. s \in FO!Session /\ SessionOf(n) \in FO!Session
        BY <2>1, <4>1, SessionType
      <4>3. /\ Hand(n) = Hand(r) /\ n.out = r.out /\ n.inbox = Append(r.inbox, g)
            /\ n.game = r.game /\ n.active = r.active /\ n.peer = r.peer
            /\ n.handler = r.handler /\ n.snapshot = r.snapshot /\ n.view = r.view
        BY <2>1 DEF Hand, Socket
      <4>4. r.out \o Hand(r) \in Seq(Game) /\ r.inbox \in Seq(Game)
        BY <2>1 DEF Hand, Socket
      <4>5. (r.out \o Hand(r)) \o Append(r.inbox, g) = Append(r.out \o Hand(r) \o r.inbox, g)
        BY <4>4, AppendLast
      <4> HIDE DEF n
      <4>6. /\ SessionOf(n).pc = s.pc /\ SessionOf(n).game = s.game
            /\ SessionOf(n).snapshot = s.snapshot
            /\ SessionOf(n).subscribed = s.subscribed
            /\ SessionOf(n).channel = Append(s.channel, g) /\ SessionOf(n).view = s.view
        <5> HIDE DEF r
        <5> QED
          BY <2>3, <4>3, <4>5 DEF SessionOf
      <4>7. SessionOf(n) = [s EXCEPT !.channel = Append(s.channel, g)]
        <5> HIDE DEF s
        <5> QED
          BY <4>2, <4>6 DEF FO!Session
      <4> QED
        BY <2>1, <3>1, <3>3, <4>1, <4>7
    <3> QED
      BY <3>2, <3>3
  <2> QED
    BY <2>2, <2>3
<1> HIDE DEF t, S
<1>3. Sessions' = [c \in Watchers |-> SessionOf(t(c))]
  BY <1>1 DEF Sessions
<1>4. Sessions' = [c \in Watchers |-> S(c)]
  BY <1>2, <1>3
<1> QED
  BY <1>4 DEF FO!Publish, S

-----------------------------------------------------------------------------
(***************************************************************************)
(* The invariant: types, what the goroutines keep, and that the tab        *)
(* listens to the game it shows.                                           *)
(***************************************************************************)
IInv ==
  /\ LiveTypeOK
  /\ relay \in [Watchers -> FitSocket]
  /\ ClientTypeOK
  /\ screen.g # Absent => screen.game \in GameIds
  /\ ListensToItsGame

LEMMA CallKinds ==
  ASSUME ClientTypeOK, NEW k \in Calls
  PROVE  /\ Is(k, "create")  => calls[k].color \in Colors
         /\ Is(k, "created") => calls[k].game \in GameIds /\ calls[k].g \in Game
         /\ Is(k, "move")    => /\ calls[k].game \in GameIds /\ calls[k].uci \in Moves
                                 /\ calls[k].seen \in Seq(Moves)
         /\ Is(k, "resign")  => calls[k].game \in GameIds
BY DEF ClientTypeOK, Call, Is

LEMMA ScreenParts ==
  ASSUME ClientTypeOK
  PROVE  /\ screen.game \in GameIds \cup {Absent} /\ screen.g \in Game \cup {Absent}
         /\ screen.ahead \in Moves \cup {Absent}
         /\ screen.socket \in Watchers \cup {Absent} /\ screen.hasty \subseteq GameIds
BY DEF ClientTypeOK, Screen

LEMMA CopyType ==
  ASSUME LiveTypeOK, NEW id \in GameIds, Exists(id), NEW g \in Copies(id)
  PROVE  g \in Game
<1>1. live[id] \in Game
  BY DEF LiveTypeOK, Exists
<1>2. Resumed(live[id]) \in Game
  BY <1>1 DEF Resumed, Game
<1> QED
  BY <1>1, <1>2 DEF Copies

LEMMA WriteType ==
  ASSUME LiveTypeOK, ClientTypeOK, NEW id \in GameIds, NEW g \in Game, Write(id, g)
  PROVE  LiveTypeOK' /\ \A p \in late' : p.game \in GameIds /\ p.g \in Game
BY DEF LiveTypeOK, ClientTypeOK, Write, WriteOk, CasApplies

LEMMA UnreportedType ==
  ASSUME LiveTypeOK, ClientTypeOK, NEW id \in GameIds, NEW g \in Game, NEW n,
         Unreported(id, g, n)
  PROVE  LiveTypeOK' /\ \A p \in late' : p.game \in GameIds /\ p.g \in Game
BY DEF LiveTypeOK, ClientTypeOK, Unreported, WriteConflict, WriteError, CasApplies

LEMMA StrandType ==
  ASSUME ClientTypeOK, NEW id \in GameIds, Strand(id) \/ UNCHANGED stranded
  PROVE  stranded' \subseteq GameIds
BY DEF ClientTypeOK, Strand

(***************************************************************************)
(* A step of one socket's goroutines keeps the invariant.                  *)
(***************************************************************************)
LEMMA OneSocketKeeps ==
  ASSUME IInv, NEW c \in Watchers, NEW t, OneSocket(c, t),
         UNCHANGED Rest
  PROVE  IInv'
<1>1. relay' \in [Watchers -> FitSocket]
  BY DEF IInv, OneSocket
<1>2. ListensToItsGame'
  BY DEF IInv, OneSocket, ListensToItsGame, FitSocket, Socket, Rest
<1> QED
  BY <1>1, <1>2 DEF IInv, LiveTypeOK, ClientTypeOK, Rest

LEMMA BackgroundKeeps ==
  ASSUME IInv, NEW c \in Watchers, Background(c)
  PROVE  IInv'
<1>1. \E t : OneSocket(c, t)
  BY AcceptFits, ActivateFits, TakeFits, ForwardFits, UnsubscribeFits,
     CancelFits, ReturnFits, DisconnectFits DEF IInv, Background
<1> QED
  BY <1>1, OneSocketKeeps DEF Background

LEMMA ReceiveKeeps ==
  ASSUME IInv, NEW c \in Watchers, Receive(c)
  PROVE  IInv'
<1>1. PICK t : OneSocket(c, t)
  BY SnapshotFits, EventFits DEF IInv, Receive
<1>2. relay' \in [Watchers -> FitSocket]
  BY <1>1 DEF IInv, OneSocket
<1>3. relay[c].peer = "open" /\ relay[c].game \in GameIds
  BY DEF Receive, WriteSnapshot, WriteEvent, IInv, FitSocket, Fits
<1>4. relay[c].view' \in Game \cup {Absent}
  BY <1>2 DEF FitSocket, Socket
<1>5. screen' \in Screen /\ screen'.game = relay[c].game /\ screen'.socket = screen.socket
  BY <1>3, <1>4 DEF Receive, IInv, ClientTypeOK, Screen
<1>6. ListensToItsGame'
  BY <1>1, <1>3, <1>5 DEF IInv, OneSocket, ListensToItsGame, FitSocket, Socket
<1> QED
  BY <1>2, <1>3, <1>5, <1>6 DEF IInv, Receive, LiveTypeOK, ClientTypeOK

(***************************************************************************)
(* The buttons and the answers.                                            *)
(***************************************************************************)
LEMMA ShowNewKeeps ==
  ASSUME IInv, NEW k \in Calls, NEW c \in Watchers, ShowNew(k, c)
  PROVE  IInv'
<1> DEFINE id  == calls[k].game
           new == [relay[c] EXCEPT !.peer = "dial", !.game = id]
           e   == screen.socket
<1>1. id \in GameIds /\ calls[k].g \in Game
  BY CallKinds DEF IInv, ShowNew
<1>2. relay[c] \in Socket /\ Fits(relay[c]) /\ relay[c].peer = "none"
  BY DEF ShowNew, Connect, IInv, FitSocket
<1>3. new \in FitSocket
  BY <1>1, <1>2 DEF Fits, FitSocket, Socket
<1>4. \A d \in Watchers : [relay[d] EXCEPT !.peer = "gone"] \in FitSocket
  <2> SUFFICES ASSUME NEW d \in Watchers
               PROVE  [relay[d] EXCEPT !.peer = "gone"] \in FitSocket
    OBVIOUS
  <2>1. relay[d] \in Socket /\ Fits(relay[d])
    BY DEF IInv, FitSocket
  <2> QED
    BY <2>1 DEF Fits, FitSocket, Socket
<1>5. \A d \in Watchers :
        relay'[d] = IF d = c THEN new
                    ELSE IF d = e THEN [relay[d] EXCEPT !.peer = "gone"] ELSE relay[d]
  BY DEF ShowNew, Connect
<1>6. relay' \in [Watchers -> FitSocket]
  <2>1. relay' = [d \in Watchers |-> relay'[d]]
    BY DEF ShowNew, Connect
  <2> HIDE DEF new
  <2>2. \A d \in Watchers : relay'[d] \in FitSocket
    BY <1>3, <1>4, <1>5 DEF IInv
  <2> QED
    BY <2>1, <2>2
<1>7. screen' \in Screen /\ screen'.game = id /\ screen'.socket = c
  BY <1>1 DEF ShowNew, IInv, ClientTypeOK, Screen
<1>8. ListensToItsGame'
  <2>1. new.game = id /\ new.peer = "dial"
    BY <1>2 DEF Socket
  <2>2. \A d \in Watchers : [relay[d] EXCEPT !.peer = "gone"].peer = "gone"
    BY DEF IInv, FitSocket, Socket
  <2> HIDE DEF new, id
  <2> QED
    BY <1>5, <1>7, <2>1, <2>2 DEF IInv, ListensToItsGame
<1>9. calls' \in [Calls -> Call \cup {Absent}]
  BY DEF ShowNew, Answer, IInv, ClientTypeOK
<1> QED
  BY <1>1, <1>6, <1>7, <1>8, <1>9 DEF IInv, ShowNew, LiveTypeOK, ClientTypeOK

LEMMA TryMoveKeeps ==
  ASSUME IInv, NEW k \in Calls, NEW uci \in Moves, TryMove(k, uci)
  PROVE  IInv'
<1>1. screen.g \in Game /\ screen.game \in GameIds
  BY ScreenParts DEF IInv, TryMove, MyTurn
<1>2. screen' \in Screen /\ screen'.g = screen.g /\ screen'.game = screen.game
      /\ screen'.socket = screen.socket
  <2>1. screen.hasty \cup {screen.game} \subseteq GameIds
    BY <1>1, ScreenParts DEF IInv
  <2> QED
    BY <2>1 DEF TryMove, IInv, ClientTypeOK, Screen
<1>3. screen.g.moves \in Seq(Moves)
  BY <1>1 DEF Game
<1>4. calls' \in [Calls -> Call \cup {Absent}]
  BY <1>1, <1>3 DEF TryMove, Send, IInv, ClientTypeOK, Call
<1> QED
  BY <1>2, <1>4 DEF IInv, TryMove, LiveTypeOK, ClientTypeOK, ListensToItsGame

LEMMA ClickKeeps ==
  ASSUME IInv, NEW k \in Calls,
         \/ \E color \in Colors : ClickNew(k, color)
         \/ ShowRefusal(k)
         \/ ClickResign(k)
  PROVE  IInv'
<1>1. calls' \in [Calls -> Call \cup {Absent}]
      /\ UNCHANGED <<live, relay, screen, late, stranded>>
  BY UserAssumption
     DEF ClickNew, ShowRefusal, ClickResign, Send, Answer, IInv, ClientTypeOK, Call
<1> QED
  BY <1>1 DEF IInv, LiveTypeOK, ClientTypeOK, ListensToItsGame

(***************************************************************************)
(* What the server does.                                                   *)
(***************************************************************************)
LEMMA ServeKeeps ==
  ASSUME IInv, LiveTypeOK', calls' \in [Calls -> Call \cup {Absent}],
         \A p \in late' : p.game \in GameIds /\ p.g \in Game,
         stranded' \subseteq GameIds, UNCHANGED <<relay, screen>>
  PROVE  IInv'
BY DEF IInv, ClientTypeOK, ListensToItsGame

LEMMA ServeCreateKeeps ==
  ASSUME IInv, NEW k \in Calls, NEW id \in GameIds, ServeCreate(k, id)
  PROVE  IInv'
<1>1. NewGame(calls[k].color) \in Game
  BY CallKinds, NewGameType DEF IInv, ServeCreate
<1>2. LiveTypeOK' /\ \A p \in late' : p.game \in GameIds /\ p.g \in Game
  <2>1. CASE WriteOk(id, NewGame(calls[k].color), -1) /\ UNCHANGED late
    BY <1>1, <2>1 DEF IInv, LiveTypeOK, ClientTypeOK, WriteOk, CasApplies
  <2>2. CASE Unreported(id, NewGame(calls[k].color), -1)
    BY <1>1, <2>2, UnreportedType DEF IInv
  <2> QED
    BY <2>1, <2>2 DEF ServeCreate
<1>3. calls' \in [Calls -> Call \cup {Absent}]
  BY <1>1 DEF ServeCreate, Answer, IInv, ClientTypeOK, Call
<1>4. stranded' \subseteq GameIds
  BY StrandType DEF ServeCreate, IInv
<1> QED
  BY <1>2, <1>3, <1>4, ServeKeeps DEF ServeCreate

LEMMA ServeMoveKeeps ==
  ASSUME IInv, NEW k \in Calls, ServeMove(k)
  PROVE  IInv'
<1> DEFINE id  == calls[k].game
           uci == calls[k].uci
<1>1. id \in GameIds /\ uci \in Moves
  BY CallKinds DEF IInv, ServeMove
<1>2. UNCHANGED <<relay, screen>> /\ stranded' \subseteq GameIds
  BY <1>1, StrandType DEF ServeMove, IInv
<1>3. calls' \in [Calls -> Call \cup {Absent}]
  BY <1>1 DEF ServeMove, Answer, IInv, ClientTypeOK, Call
<1>4. CASE UNCHANGED <<live, late>>
  BY <1>2, <1>3, <1>4, ServeKeeps DEF IInv, ClientTypeOK, LiveTypeOK
<1>5. CASE \E g \in Copies(id) :
             /\ Exists(id) /\ CanApplyMove(g, g.playerColor, uci)
             /\ \/ Write(id, ApplyMove(g, uci))
                \/ Unreported(id, ApplyMove(g, uci), live[id].ply)
  <2>1. PICK g \in Copies(id) :
          /\ Exists(id) /\ CanApplyMove(g, g.playerColor, uci)
          /\ \/ Write(id, ApplyMove(g, uci))
             \/ Unreported(id, ApplyMove(g, uci), live[id].ply)
    BY <1>5
  <2>2. ApplyMove(g, uci) \in Game
    BY <1>1, <2>1, CopyType, ApplyMoveType DEF IInv
  <2>3. LiveTypeOK' /\ \A p \in late' : p.game \in GameIds /\ p.g \in Game
    BY <1>1, <2>1, <2>2, WriteType, UnreportedType DEF IInv
  <2> QED
    BY <1>2, <1>3, <2>3, ServeKeeps
<1> QED
  BY <1>4, <1>5 DEF ServeMove

LEMMA ServeResignKeeps ==
  ASSUME IInv, NEW k \in Calls, ServeResign(k)
  PROVE  IInv'
<1> DEFINE id == calls[k].game
           g  == live[id]
<1>1. id \in GameIds
  BY CallKinds DEF IInv, ServeResign
<1>2. UNCHANGED <<relay, screen>> /\ stranded' \subseteq GameIds
  BY DEF ServeResign, IInv, ClientTypeOK
<1>3. calls' \in [Calls -> Call \cup {Absent}]
  BY DEF ServeResign, Answer, IInv, ClientTypeOK
<1>4. CASE UNCHANGED <<live, late>>
  BY <1>2, <1>3, <1>4, ServeKeeps DEF IInv, ClientTypeOK, LiveTypeOK
<1>5. CASE /\ Exists(id)
           /\ \/ Write(id, Resign(g, g.playerColor))
              \/ Unreported(id, Resign(g, g.playerColor), g.ply)
  <2>1. g \in Game
    BY <1>1, <1>5 DEF Exists, IInv, LiveTypeOK
  <2>2. Resign(g, g.playerColor) \in Game
    <3>1. g.playerColor \in Colors
      BY <2>1 DEF Game
    <3> QED
      BY <2>1, <3>1, ResignType
  <2>3. LiveTypeOK' /\ \A p \in late' : p.game \in GameIds /\ p.g \in Game
    BY <1>1, <1>5, <2>2, WriteType, UnreportedType DEF IInv
  <2> QED
    BY <1>2, <1>3, <2>3, ServeKeeps
<1> QED
  BY <1>4, <1>5 DEF ServeResign

LEMMA EngineMoveKeeps ==
  ASSUME IInv, NEW id \in GameIds, NEW uci \in Moves, EngineMove(id, uci)
  PROVE  IInv'
<1>1. PICK g \in Copies(id) :
        CanApplyMove(g, EngineColor(g), uci) /\ Write(id, ApplyMove(g, uci))
  BY DEF EngineMove
<1>2. ApplyMove(g, uci) \in Game
  BY <1>1, CopyType, ApplyMoveType DEF IInv, EngineMove
<1>3. LiveTypeOK' /\ \A p \in late' : p.game \in GameIds /\ p.g \in Game
  BY <1>1, <1>2, WriteType DEF IInv
<1> QED
  BY <1>3, ServeKeeps DEF EngineMove, IInv, ClientTypeOK

LEMMA PublishKeeps ==
  ASSUME IInv, NEW p \in late, PublishLate(p)
  PROVE  IInv'
<1>1. p.game \in GameIds /\ p.g \in Game
  BY DEF IInv, ClientTypeOK
<1>2. CASE UNCHANGED relay
  BY <1>2 DEF PublishLate, IInv, LiveTypeOK, ClientTypeOK, ListensToItsGame
<1>3. CASE Deliver(p.game, p.g)
  <2>1. ASSUME NEW c \in Watchers
        PROVE  /\ relay'[c] \in FitSocket /\ relay'[c].peer = relay[c].peer
               /\ relay'[c].game = relay[c].game
    <3> DEFINE r == relay[c]
               t == [r EXCEPT !.inbox = Append(r.inbox, p.g)]
    <3>1. r \in Socket /\ Fits(r)
      BY DEF IInv, FitSocket
    <3>2. t \in Socket /\ t.peer = r.peer /\ t.game = r.game
      <4>1. Append(r.inbox, p.g) \in Seq(Game)
        BY <1>1, <3>1 DEF Socket
      <4> QED
        BY <3>1, <4>1 DEF Socket
    <3>4. r.active => Fits(t)
      BY <3>1 DEF Socket, Fits
    <3>3. relay'[c] = IF r.active /\ r.game = p.game THEN t ELSE r
      BY <1>3 DEF Deliver
    <3> QED
      BY <3>1, <3>2, <3>3, <3>4 DEF FitSocket
  <2>2. relay' = [c \in Watchers |-> relay'[c]]
    BY <1>3 DEF Deliver
  <2>3. relay' \in [Watchers -> FitSocket]
    BY <2>1, <2>2
  <2> QED
    BY <2>1, <2>3 DEF PublishLate, IInv, LiveTypeOK, ClientTypeOK, ListensToItsGame
<1> QED
  BY <1>2, <1>3 DEF PublishLate

LEMMA Invariant == Spec => []IInv
<1>1. Init => IInv
  <2> SUFFICES ASSUME Init PROVE IInv
    OBVIOUS
  <2>1. Unused \in FitSocket
    BY DEF Unused, FitSocket, Socket, Fits
  <2>2. relay \in [Watchers -> FitSocket] /\ ListensToItsGame
    BY <2>1 DEF Init, RelayInit, ListensToItsGame, Unused
  <2>3. LiveTypeOK /\ ClientTypeOK /\ screen.g = Absent
    BY DEF Init, LiveInit, LiveTypeOK, ClientInit, ClientTypeOK, Screen
  <2> QED
    BY <2>2, <2>3 DEF IInv
<1>2. IInv /\ [Next]_vars => IInv'
  <2> SUFFICES ASSUME IInv, [Next]_vars PROVE IInv'
    OBVIOUS
  <2>1. CASE UNCHANGED vars
    BY <2>1 DEF vars, IInv, LiveTypeOK, ClientTypeOK, ListensToItsGame
  <2>2. ASSUME NEW k \in Calls, Tab(k) PROVE IInv'
    BY <2>2, ClickKeeps, ShowNewKeeps, TryMoveKeeps DEF Tab
  <2>3. ASSUME NEW k \in Calls, Server(k) PROVE IInv'
    BY <2>3, ServeCreateKeeps, ServeMoveKeeps, ServeResignKeeps DEF Server
  <2>4. ASSUME NEW c \in Watchers, Receive(c) \/ Background(c) PROVE IInv'
    BY <2>4, ReceiveKeeps, BackgroundKeeps
  <2>5. ASSUME NEW id \in GameIds, NEW uci \in Moves, EngineMove(id, uci) PROVE IInv'
    BY <2>5, EngineMoveKeeps
  <2>6. ASSUME NEW p \in late, PublishLate(p) PROVE IInv'
    BY <2>6, PublishKeeps
  <2> QED
    BY <2>1, <2>2, <2>3, <2>4, <2>5, <2>6 DEF Next
<1> QED
  BY <1>1, <1>2, PTL DEF Spec

(***************************************************************************)
(* Every variable keeps its type.                                          *)
(***************************************************************************)
THEOREM TypeCorrect == Spec => []TypeOK
<1>1. IInv => TypeOK
  BY DEF IInv, TypeOK, RelayTypeOK, FitSocket
<1> QED
  BY <1>1, Invariant, PTL

(***************************************************************************)
(* However many games are started and requests in flight, the one open     *)
(* socket of a tab is that of the game on the screen.  (newGame, connect.) *)
(***************************************************************************)
THEOREM OneSocketIsHeard == Spec => []ListensToItsGame
<1>1. IInv => ListensToItsGame
  BY DEF IInv
<1> QED
  BY <1>1, Invariant, PTL

-----------------------------------------------------------------------------
(***************************************************************************)
(* The goroutines of handleWS and Subscribe, for every capacity of the     *)
(* channel, do what Fanout says: no event is dropped, doubled or reordered *)
(* between Redis and an open socket.                                       *)
(***************************************************************************)
THEOREM SocketsAreSessions ==
  ASSUME May("wsClose")
  PROVE  Spec => ImplementsFanout
<1> DEFINE Step == \/ \E c \in Watchers : FO!SessionStep(c)
                   \/ \E p \in late : FO!Publish(p.game, p.g)
<1>1. Init => FO!FanoutInit
  BY DEF Init, RelayInit, Unused, Sessions, SessionOf, FO!FanoutInit, FO!ClosedSession
<1>2. IInv /\ [Next]_vars => [Step]_Sessions
  <2> SUFFICES ASSUME IInv, [Next]_vars PROVE Step \/ UNCHANGED Sessions
    OBVIOUS
  <2>1. CASE UNCHANGED relay
    BY <2>1 DEF Sessions
  <2>2. ASSUME NEW k \in Calls, Tab(k) PROVE Step \/ UNCHANGED Sessions
    <3>1. CASE UNCHANGED relay
      BY <2>1, <3>1
    <3>2. CASE \E c \in Watchers : ShowNew(k, c)
      <4>1. PICK c \in Watchers : ShowNew(k, c)
        BY <3>2
      <4>2. calls[k].game \in GameIds /\ Connect(c, calls[k].game)
        BY <4>1, CallKinds DEF IInv, ShowNew
      <4> QED
        BY <4>2, ConnectShown DEF IInv
    <3> QED
      BY <2>2, <3>1, <3>2 DEF Tab, ClickNew, TryMove, ShowRefusal, ClickResign
  <2>3. ASSUME NEW c \in Watchers, Receive(c) PROVE Step
    BY <2>3, SnapshotShown, EventShown DEF IInv, Receive, FO!SessionStep
  <2>4. ASSUME NEW c \in Watchers, Background(c) PROVE Step \/ UNCHANGED Sessions
    <3>1. CASE HandlerReturns(c) \/ Disconnect(c)
      <4> DEFINE r == relay[c]
                 t == IF HandlerReturns(c)
                      THEN [r EXCEPT !.handler = "returned", !.done = TRUE, !.peer = "gone"]
                      ELSE [r EXCEPT !.peer = "gone"]
      <4>1. r \in Socket /\ relay' = [relay EXCEPT ![c] = t]
        BY <3>1 DEF IInv, FitSocket, HandlerReturns, Disconnect
      <4>2. /\ t \in Socket /\ t.peer = "gone" /\ t.view = r.view
            /\ t.handler = "none" <=> r.handler = "none"
        BY <4>1 DEF Socket, HandlerReturns
      <4>3. Sessions' = [Sessions EXCEPT ![c] = SessionOf(t)]
        BY <4>1, SocketChanges DEF IInv
      <4> HIDE DEF t
      <4> QED
        BY <4>2, <4>3, CloseShown DEF IInv
    <3> QED
      BY <2>4, <3>1, AcceptShown, ActivateShown, TakeShown, ForwardShown, EndsUnshown
         DEF IInv, Background, FO!SessionStep
  <2>5. ASSUME NEW p \in late, PublishLate(p) PROVE Step \/ UNCHANGED Sessions
    <3>1. p.game \in GameIds /\ p.g \in Game
      BY DEF IInv, ClientTypeOK
    <3> QED
      BY <2>1, <2>5, <3>1, DeliverShown DEF PublishLate, IInv
  <2>6. ASSUME NEW k \in Calls, Server(k) PROVE UNCHANGED relay
    BY <2>6 DEF Server, ServeCreate, ServeMove, ServeResign
  <2>7. ASSUME NEW id \in GameIds, NEW uci \in Moves, EngineMove(id, uci)
        PROVE  UNCHANGED relay
    BY <2>7 DEF EngineMove
  <2> HIDE DEF Step
  <2> QED
    BY <2>1, <2>2, <2>3, <2>4, <2>5, <2>6, <2>7 DEF Next, vars
<1> QED
  BY <1>1, <1>2, Invariant, PTL DEF Spec, ImplementsFanout

=============================================================================
