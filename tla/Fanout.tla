------------------------------- MODULE Fanout -------------------------------
(***************************************************************************)
(* The path of a state event to a browser: Redis pub/sub, the relay started*)
(* by Games.Subscribe, and the WebSocket handler handleWS.  A session is   *)
(* one WebSocket of one browser; the browser shows the last message it     *)
(* got, whichever that is, and never opens a second socket by itself.      *)
(***************************************************************************)
EXTENDS LiveStore

CONSTANT Watchers       \* browsers that watch a game

VARIABLE session        \* session[c]: the WebSocket of browser c

(***************************************************************************)
(* A session starts "closed".  handleWS reads the game (snapshot) and only *)
(* then subscribes; the subscription becomes active when Redis processes   *)
(* it, before or after the snapshot is written to the socket.  channel is  *)
(* everything between PUBLISH and the socket, view what the browser shows. *)
(***************************************************************************)
Session == [pc         : {"closed", "open", "gone"},
            game       : GameIds \cup {Absent},
            snapshot   : Game \cup {Absent},
            subscribed : BOOLEAN,
            channel    : Seq(Game),
            view       : Game \cup {Absent}]

ClosedSession ==
  [pc |-> "closed", game |-> Absent, snapshot |-> Absent,
   subscribed |-> FALSE, channel |-> <<>>, view |-> Absent]

FanoutTypeOK == session \in [Watchers -> Session]

FanoutInit == session = [c \in Watchers |-> ClosedSession]

OpenWS(c, id) ==
  /\ session[c].pc = "closed"
  /\ Exists(id)
  /\ session' = [session EXCEPT ![c].pc = "open", ![c].game = id,
                                ![c].snapshot = live[id]]

(***************************************************************************)
(* Redis starts forwarding the game's events to this session.              *)
(***************************************************************************)
Subscribe(c) ==
  /\ session[c].pc = "open" /\ ~session[c].subscribed
  /\ session' = [session EXCEPT ![c].subscribed = TRUE]

SendSnapshot(c) ==
  /\ session[c].pc = "open" /\ session[c].snapshot # Absent
  /\ session' = [session EXCEPT ![c].view = session[c].snapshot,
                                ![c].snapshot = Absent]

SendEvent(c) ==
  /\ session[c].pc = "open" /\ session[c].snapshot = Absent
  /\ session[c].channel # <<>>
  /\ session' = [session EXCEPT ![c].view = Head(session[c].channel),
                                ![c].channel = Tail(@)]

(***************************************************************************)
(* The socket closes: the task died, the network failed, or the user left. *)
(***************************************************************************)
CloseWS(c) ==
  /\ May("wsClose")
  /\ session[c].pc = "open"
  /\ session' = [session EXCEPT ![c] = [ClosedSession EXCEPT
                                          !.pc = "gone", !.view = session[c].view]]

(***************************************************************************)
(* A fan-out that drops an event when the session has one to send already. *)
(***************************************************************************)
PublishIfIdle(id, g) ==
  session' = [c \in Watchers |->
                IF /\ session[c].subscribed /\ session[c].game = id
                   /\ session[c].channel = <<>>
                THEN [session[c] EXCEPT !.channel = Append(@, g)]
                ELSE session[c]]

(***************************************************************************)
(* PUBLISH reaches the sessions subscribed at that moment and no other.    *)
(***************************************************************************)
Publish(id, g) ==
  session' = [c \in Watchers |->
                IF session[c].subscribed /\ session[c].game = id
                THEN [session[c] EXCEPT !.channel = Append(@, g)]
                ELSE session[c]]

SessionStep(c) ==
  \/ \E id \in GameIds : OpenWS(c, id)
  \/ Subscribe(c) \/ SendSnapshot(c) \/ SendEvent(c) \/ CloseWS(c)

PublishFails == May("redisDown") /\ UNCHANGED session

=============================================================================
