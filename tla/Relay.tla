-------------------------------- MODULE Relay -------------------------------
(***************************************************************************)
(* One WebSocket in detail: the goroutines of handleWS (the handler, the   *)
(* reader that notices the client going away) and of Games.Subscribe (the  *)
(* forwarder), joined by a buffered Go channel and by a context that each  *)
(* of them can cancel or wait for.  Fanout is what they implement.         *)
(***************************************************************************)
EXTENDS LiveStore

CONSTANTS Watchers,     \* the sockets a run may open
          Capacity      \* of the forwarder's channel; 16 in the code

ASSUME CapacityAssumption == Capacity \in Nat \ {0}

VARIABLE relay          \* relay[c]: one socket and its goroutines

(***************************************************************************)
(* peer is the browser's end of the socket.  inbox holds what Redis has    *)
(* delivered to the subscription (go-redis keeps a buffer of its own), hand*)
(* the event the forwarder is about to send, out the buffered channel, and *)
(* view the last message that arrived in the browser.                      *)
(***************************************************************************)
Socket == [peer      : {"none", "dial", "open", "gone"},
           game      : GameIds \cup {Absent},
           handler   : {"none", "loop", "returned"},
           forwarder : {"none", "run", "returned"},
           done      : BOOLEAN,                 \* the context is cancelled
           snapshot  : Game \cup {Absent},
           active    : BOOLEAN,                 \* the subscription, in Redis
           inbox     : Seq(Game),
           hand      : Game \cup {Absent},
           out       : Seq(Game),
           view      : Game \cup {Absent}]

RelayTypeOK == relay \in [Watchers -> Socket]

Unused ==
  [peer |-> "none", game |-> Absent, handler |-> "none", forwarder |-> "none",
   done |-> FALSE, snapshot |-> Absent, active |-> FALSE, inbox |-> <<>>,
   hand |-> Absent, out |-> <<>>, view |-> Absent]

RelayInit == relay = [c \in Watchers |-> Unused]

(***************************************************************************)
(* handleWS up to its loop: the game is read, the socket upgraded, the     *)
(* goroutines started.  Redis serves the subscription some time later.     *)
(***************************************************************************)
Accept(c) ==
  LET r == relay[c]
  IN  /\ r.peer = "dial" /\ Exists(r.game)
      /\ relay' = [relay EXCEPT ![c].peer = "open", ![c].handler = "loop",
                     ![c].forwarder = "run", ![c].snapshot = live[r.game]]

Activate(c) ==
  /\ relay[c].forwarder = "run" /\ ~relay[c].active
  /\ relay' = [relay EXCEPT ![c].active = TRUE]

(***************************************************************************)
(* A forwarder that starts a goroutine for each send.                      *)
(***************************************************************************)
TakeAnyEvent(c) ==
  LET r == relay[c]
  IN  /\ r.forwarder = "run" /\ r.hand = Absent
      /\ \E i \in DOMAIN r.inbox :
           relay' = [relay EXCEPT
                       ![c].hand = r.inbox[i],
                       ![c].inbox = SubSeq(@, 1, i - 1) \o SubSeq(@, i + 1, Len(@))]

(***************************************************************************)
(* The forwarder's select: a message, or the cancelled context.  With both *)
(* ready Go picks either.  The send that follows a message waits for room  *)
(* in the channel and for nothing else.                                    *)
(***************************************************************************)
TakeEvent(c) ==
  LET r == relay[c]
  IN  /\ r.forwarder = "run" /\ r.hand = Absent /\ r.inbox # <<>>
      /\ relay' = [relay EXCEPT ![c].hand = Head(r.inbox),
                                ![c].inbox = Tail(r.inbox)]

(***************************************************************************)
(* A send that gives up on a full channel.                                 *)
(***************************************************************************)
ForwardOrDrop(c) ==
  LET r == relay[c]
  IN  /\ r.hand # Absent
      /\ relay' = [relay EXCEPT
                     ![c].out = IF Len(@) < Capacity THEN Append(@, r.hand) ELSE @,
                     ![c].hand = Absent]

Forward(c) ==
  LET r == relay[c]
  IN  /\ r.hand # Absent /\ Len(r.out) < Capacity
      /\ relay' = [relay EXCEPT ![c].out = Append(@, r.hand), ![c].hand = Absent]

(***************************************************************************)
(* The forwarder that does not look at its context.                        *)
(***************************************************************************)
UnsubscribeNever(c) == FALSE /\ UNCHANGED relay

Unsubscribe(c) ==
  /\ relay[c].forwarder = "run" /\ relay[c].hand = Absent /\ relay[c].done
  /\ relay' = [relay EXCEPT ![c].forwarder = "returned", ![c].active = FALSE]

(***************************************************************************)
(* The handler's writes: the snapshot first, then the events.  (One that   *)
(* the system still accepts when the other end is gone changes nothing.)   *)
(***************************************************************************)
WriteSnapshot(c) ==
  LET r == relay[c]
  IN  /\ r.handler = "loop" /\ r.peer = "open" /\ r.snapshot # Absent
      /\ relay' = [relay EXCEPT ![c].view = r.snapshot, ![c].snapshot = Absent]

WriteEvent(c) ==
  LET r == relay[c]
  IN  /\ r.handler = "loop" /\ r.peer = "open" /\ r.snapshot = Absent /\ r.out # <<>>
      /\ relay' = [relay EXCEPT ![c].view = Head(r.out), ![c].out = Tail(r.out)]

(***************************************************************************)
(* The reader's ReadMessage fails once the other end is gone, or once the  *)
(* handler has closed the connection: it cancels the context.              *)
(***************************************************************************)
ReaderCancels(c) ==
  LET r == relay[c]
  IN  /\ r.handler # "none" /\ r.peer = "gone" /\ ~r.done
      /\ relay' = [relay EXCEPT ![c].done = TRUE]

(***************************************************************************)
(* The handler returns when its context is cancelled or when a write or a  *)
(* ping fails.  Its deferred calls cancel the context and close the socket.*)
(***************************************************************************)
HandlerReturns(c) ==
  LET r == relay[c]
  IN  /\ r.handler = "loop" /\ (r.done \/ r.peer = "gone")
      /\ relay' = [relay EXCEPT ![c].handler = "returned", ![c].done = TRUE,
                                ![c].peer = "gone"]

(***************************************************************************)
(* A dial that the server refuses, a network that fails, a task that stops.*)
(***************************************************************************)
Disconnect(c) ==
  /\ May("wsClose")
  /\ relay[c].peer \in {"dial", "open"}
  /\ relay' = [relay EXCEPT ![c].peer = "gone"]

(***************************************************************************)
(* PUBLISH, as in Fanout.                                                  *)
(***************************************************************************)
Deliver(id, g) ==
  relay' = [c \in Watchers |->
              IF relay[c].active /\ relay[c].game = id
              THEN [relay[c] EXCEPT !.inbox = Append(@, g)]
              ELSE relay[c]]

-----------------------------------------------------------------------------
(***************************************************************************)
(* The session of Fanout this is: what is on its way is everything between *)
(* Redis and the socket, as long as there is a browser at the other end.   *)
(***************************************************************************)
Hand(r) == IF r.hand = Absent THEN <<>> ELSE <<r.hand>>

SessionOf(r) ==
  IF r.handler = "none" \/ r.peer = "gone"
  THEN [pc |-> IF r.handler = "none" THEN "closed" ELSE "gone",
        game |-> Absent, snapshot |-> Absent, subscribed |-> FALSE,
        channel |-> <<>>, view |-> r.view]
  ELSE [pc |-> "open", game |-> r.game, snapshot |-> r.snapshot,
        subscribed |-> r.active, channel |-> r.out \o Hand(r) \o r.inbox,
        view |-> r.view]

Sessions == [c \in Watchers |-> SessionOf(relay[c])]

FO == INSTANCE Fanout WITH session <- Sessions

(***************************************************************************)
(* When the browser goes, the handler returns and the forwarder with it:   *)
(* nothing holds it but a full channel that nobody reads any more.         *)
(* (Subscribe, handleWS.)                                                  *)
(***************************************************************************)
Stuck(c) == relay[c].hand # Absent /\ Len(relay[c].out) = Capacity

SocketsEnd ==
  \A c \in Watchers :
    (relay[c].peer = "gone" /\ relay[c].handler # "none")
      ~> /\ relay[c].handler = "returned"
         /\ relay[c].forwarder = "returned" \/ Stuck(c)

(***************************************************************************)
(* "Cancel the context to unsubscribe."  (Subscribe, redis.go.)            *)
(***************************************************************************)
CancelUnsubscribes ==
  \A c \in Watchers : relay[c].done ~> relay[c].forwarder = "returned"

=============================================================================
