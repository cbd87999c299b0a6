-------------------------------- MODULE Arena -------------------------------
(***************************************************************************)
(* The whole system: api tasks, workers, Redis, SQS, Postgres and the      *)
(* browsers that watch.  Api and Worker give the steps of the processes;   *)
(* this module adds the steps of the services and of the WebSockets, the   *)
(* fairness of the implementation, and the properties of the system.       *)
(***************************************************************************)
EXTENDS Api, Worker, SequencesExt

CONSTANTS NotStarted, Gone      \* see GameLog

ASSUME LogAssumption ==
  NotStarted \notin Positions /\ Gone \notin Positions /\ NotStarted # Gone

vars == <<live, queueVars, archive, session, api, issued, wrk>>

Init ==
  /\ LiveInit /\ QueueInit /\ ArchiveInit /\ FanoutInit
  /\ ApiInit /\ WorkerInit

ApiStep    == ApiNext /\ UNCHANGED wrk
WorkerStep == WorkerNext /\ UNCHANGED <<api, issued>>

(***************************************************************************)
(* A visibility timeout that ends while a worker still holds the message   *)
(* is a fault ("slow"); the one that returns an abandoned message is the   *)
(* normal way a job is retried.                                            *)
(***************************************************************************)
VisibilityTimeout(m) ==
  /\ Held(m) => May("slow")
  /\ VisibilityEnds(m)
  /\ UNCHANGED <<live, archive, session, api, issued, wrk>>

DeadLetter(m) ==
  /\ Redrive(m)
  /\ UNCHANGED <<live, archive, session, api, issued, wrk>>

QueueStep == \E m \in queue : VisibilityTimeout(m) \/ DeadLetter(m)

Expire(id) ==
  /\ ExpireKey(id)
  /\ UNCHANGED <<queueVars, archive, session, api, issued, wrk>>

Relay(c) ==
  /\ Subscribe(c) \/ SendSnapshot(c) \/ SendEvent(c)
  /\ UNCHANGED <<live, queueVars, archive, api, issued, wrk>>

Browser(c) ==
  /\ (\E id \in GameIds : OpenWS(c, id)) \/ CloseWS(c)
  /\ UNCHANGED <<live, queueVars, archive, api, issued, wrk>>

Next ==
  \/ ApiStep
  \/ WorkerStep
  \/ QueueStep
  \/ \E id \in GameIds : Expire(id)
  \/ \E c \in Watchers : Relay(c) \/ Browser(c)

Spec == Init /\ [][Next]_vars

(***************************************************************************)
(* Fairness.  A handler and a worker that can take their next step do take *)
(* it (each is a goroutine of a live task: its calls return), a worker     *)
(* keeps polling, SQS ends every visibility timeout and redrives, and the  *)
(* relay forwards.  A step may still be a failure the run allows.  Nothing *)
(* makes requests arrive, tasks crash, keys expire or sockets close.       *)
(***************************************************************************)
ServeStep(h) == Serve(h) /\ UNCHANGED wrk
WorkStep(w)  == (Poll(w) \/ Process(w)) /\ UNCHANGED <<api, issued>>
SqsStep == \E m \in queue :
             \/ ~Held(m) /\ VisibilityTimeout(m)
             \/ DeadLetter(m)

Fairness ==
  /\ \A h \in Handlers : WF_vars(ServeStep(h))
  /\ \A w \in Workers  : WF_vars(WorkStep(w))
  /\ WF_vars(SqsStep)
  /\ \A c \in Watchers : WF_vars(Relay(c))

FairSpec == Spec /\ Fairness

-----------------------------------------------------------------------------
(***************************************************************************)
(* Type correctness of every component.                                    *)
(***************************************************************************)
TypeOK ==
  /\ LiveTypeOK /\ QueueTypeOK /\ ArchiveTypeOK /\ FanoutTypeOK
  /\ ApiTypeOK /\ WorkerTypeOK

(***************************************************************************)
(* The conditional write serialises all writers: whoever writes, with any  *)
(* number of copies of a game in flight, a stored game either keeps its    *)
(* move list or grows by one move that is legal after the stored list.     *)
(* (casScript in redis.go, against writers in server.go and worker.go.)    *)
(***************************************************************************)
MoveLogAppendOnly ==
  [][\A id \in GameIds : Exists(id) /\ Exists(id)' =>
       \/ live'[id].moves = live[id].moves
       \/ \E uci \in LegalMoves(live[id].moves) :
            live'[id].moves = Append(live[id].moves, uci)]_vars

(***************************************************************************)
(* Why the conditional write is enough: a copy that is about to be written *)
(* was read no later than the stored ply, and if the stored ply is still   *)
(* the one that was read, the copy continues the stored list, although a   *)
(* resignation may have replaced the record in between.  Any other order   *)
(* of read and write in the callers of Update breaks this.                 *)
(***************************************************************************)
CopyOK(g) ==
  /\ g.ply = Len(g.moves)
  /\ g.moves \in Positions
  /\ g.status = "ongoing" => Outcome[g.moves] = NoOutcome

Continues(before, after) ==
  \/ after = before
  \/ /\ Outcome[before] = NoOutcome
     /\ \E uci \in LegalMoves(before) : after = Append(before, uci)

Fits(id, g, prev) ==
  /\ id \in issued
  /\ CopyOK(g)
  /\ Exists(id) => /\ prev <= live[id].ply
                   /\ prev = live[id].ply => Continues(live[id].moves, g.moves)

StoredOK == \A id \in GameIds : Exists(id) => id \in issued /\ CopyOK(live[id])

CopiesFit ==
  /\ StoredOK
  /\ \A h \in Handlers :
       api[h].pc = "update" => Fits(api[h].id, api[h].g, api[h].prev)
  /\ \A w \in Workers :
       wrk[w].pc = "update" => Fits(wrk[w].cur.job.game, wrk[w].g, wrk[w].prev)

(***************************************************************************)
(* The move lists of the live games implement the abstract logs.  An id    *)
(* whose creation failed counts as forgotten at once.                      *)
(***************************************************************************)
LogOf(id) == IF Exists(id) THEN live[id].moves
             ELSE IF id \in issued THEN Gone ELSE NotStarted

GL == INSTANCE GameLog WITH log <- [id \in GameIds |-> LogOf(id)]

ImplementsGameLog == GL!LogSpec

(***************************************************************************)
(* An expired game does not come back: a writer that read it before it     *)
(* expired must not recreate it ("elseif not cur then return 0").          *)
(***************************************************************************)
ExpiredStaysExpired ==
  [][\A id \in issued : ~Exists(id) => ~Exists(id)']_vars

(***************************************************************************)
(* Each side's moves are made by that side: the engine's only by a worker  *)
(* on a job for exactly the stored ply, the player's only by the api, even *)
(* when the request or the job was started in an earlier position.         *)
(***************************************************************************)
Grows(id) == Exists(id) /\ Exists(id)' /\ live'[id].moves # live[id].moves

MovedByItsSide ==
  [][\A id \in GameIds : Grows(id) =>
       IF Turn(live[id]) = EngineColor(live[id])
       THEN \E w \in Workers : /\ wrk[w].pc = "update" /\ wrk'[w] # wrk[w]
                               /\ wrk[w].cur.job = JobOf(id, live[id])
       ELSE \E h \in Handlers : /\ api[h].pc = "update" /\ api'[h] # api[h]
                                /\ api[h].id = id]_vars

(***************************************************************************)
(* The stored record is coherent whatever order writers won in: ply counts *)
(* the moves, the list can be replayed, nobody moved after the rules ended *)
(* the game, and status, result and termination tell how it ended.         *)
(***************************************************************************)
NoMoveAfterEnd(ms) ==
  \A n \in 0..Len(ms) - 1 : Outcome[SubSeq(ms, 1, n)] = NoOutcome

Coherent(g) ==
  /\ g.ply = Len(g.moves)
  /\ g.moves \in Positions
  /\ NoMoveAfterEnd(g.moves)
  /\ IF g.status = "ongoing"
     THEN /\ Outcome[g.moves] = NoOutcome
          /\ g.result = "" /\ g.termination = ""
     ELSE \/ /\ g.termination = "board"
             /\ Outcome[g.moves] # NoOutcome
             /\ g.result = Outcome[g.moves]
          \/ /\ g.termination = "resignation"
             /\ Outcome[g.moves] = NoOutcome
             /\ g.result = WinOf(OtherColor(g.playerColor))

RecordsCoherent == \A id \in GameIds : Exists(id) => Coherent(live[id])

(***************************************************************************)
(* What anyone was told is never taken back: the state a handler answers   *)
(* 200 with, every event in flight or on a screen, and every archived list *)
(* of moves is a past or present state of the live game.                   *)
(***************************************************************************)
Told(id) ==
  {api[h].g.moves : h \in {k \in Handlers :
      /\ api[k].pc \in {"publish", "archive", "enqueue"}
      /\ api[k].id = id}}
  \cup (UNION {{g.moves : g \in ({session[c].view, session[c].snapshot}
                                   \cup Range(session[c].channel)) \ {Absent}} :
               c \in {k \in Watchers : session[k].game = id}})
  \cup {archive[i].moves : i \in Archived \cap {id}}

ToldIsPast ==
  \A id \in GameIds : Exists(id) =>
    \A ms \in Told(id) : IsPrefix(ms, live[id].moves)

(***************************************************************************)
(* A finished game does not change any more.                               *)
(***************************************************************************)
FinishedIsFinal ==
  [][\A id \in GameIds :
       Exists(id) /\ Exists(id)' /\ live[id].status = "finished" =>
         live'[id] = live[id]]_vars

(***************************************************************************)
(* A game that the rules have ended does not change any more, not even     *)
(* when the player resigns or a duplicate job plays on in a copy that was  *)
(* read before.                                                            *)
(***************************************************************************)
RuledIsFinal ==
  [][\A id \in GameIds :
       Exists(id) /\ Exists(id)' /\ Outcome[live[id].moves] # NoOutcome =>
         live'[id] = live[id]]_vars

-----------------------------------------------------------------------------
(***************************************************************************)
(* A job has nothing left to do: its game is gone, over, or further on.    *)
(***************************************************************************)
Settled(job) ==
  Exists(job.game) =>
    \/ live[job.game].ply > job.ply
    \/ live[job.game].status = "finished"

(***************************************************************************)
(* A message is deleted only when its job is settled: no interleaving of   *)
(* duplicates, redeliveries, failures and crashes acknowledges a job whose *)
(* move is still to be played.  (Every "return nil" of Process.)           *)
(***************************************************************************)
AckOnlySettled ==
  [][\A m \in queue :
       (\A n \in queue' : n.id # m.id) => Settled(m.job) \/ m.job \in dead']_vars

(***************************************************************************)
(* While the engine is to move somebody is responsible for it: a message   *)
(* with the job for this ply is stored or dead-lettered, or the handler    *)
(* that made the last move is still on its way to Enqueue.                 *)
(***************************************************************************)
HandingOff(id) ==
  \E h \in Handlers : /\ api[h].pc \in {"publish", "enqueue"}
                      /\ api[h].id = id
                      /\ api[h].g.ply = live[id].ply
                      /\ AfterPublish(api[h].g) = "enqueue"

EngineToMoveIn(id) ==
  Exists(id) /\ live[id].status = "ongoing" /\ Turn(live[id]) = EngineColor(live[id])

HandoffNotLost ==
  \A id \in GameIds : EngineToMoveIn(id) =>
    \/ \E m \in queue : m.job = JobOf(id, live[id])
    \/ JobOf(id, live[id]) \in dead
    \/ HandingOff(id)

(***************************************************************************)
(* The engine answers: a position with the engine to move is left, unless  *)
(* its job used up its receipts and went to the dead-letter queue.         *)
(***************************************************************************)
Plies == {Len(ms) : ms \in Positions}

Waiting(id, n) == EngineToMoveIn(id) /\ live[id].ply = n

EngineReplies ==
  \A id \in GameIds, n \in Plies :
    Waiting(id, n) ~> (~Waiting(id, n) \/ [game |-> id, ply |-> n] \in dead)

-----------------------------------------------------------------------------
(***************************************************************************)
(* A finished game reaches the archive.                                    *)
(***************************************************************************)
FinishedIsArchived ==
  \A id \in GameIds :
    (Exists(id) /\ live[id].status = "finished") ~> archive[id] # NoRow

(***************************************************************************)
(* The archive and Redis agree on how a game ended, whichever of the api   *)
(* and the workers came to archive it first.  A game can end twice: a move *)
(* that was read before a resignation undoes it, and may end the game by   *)
(* the rules.  As the first insert wins, the row may then keep the         *)
(* resignation, of a position that was not over; any other row is the      *)
(* stored game's.  (SaveFinished, afterChange, Process.)                   *)
(***************************************************************************)
KeptResignation(id) ==
  /\ archive[id].termination = "resignation"
  /\ Outcome[archive[id].moves] = NoOutcome
  /\ IsPrefix(archive[id].moves, live[id].moves)

ArchiveAgrees ==
  \A id \in Archived : Exists(id) =>
    archive[id] = RowOf(live[id]) \/ KeptResignation(id)

(***************************************************************************)
(* The stats count every archived game exactly once.                       *)
(***************************************************************************)
StatsPartition == Total = EngineWins + PlayerWins + Draws

-----------------------------------------------------------------------------
(***************************************************************************)
(* A write published while a session is subscribed is shown in its browser *)
(* at some time, in whatever order events of other writers come, unless    *)
(* the socket closes first.                                                *)
(***************************************************************************)
Publishing(id) ==
  {api[h].g : h \in {k \in Handlers : api[k].pc = "publish" /\ api[k].id = id}}
  \cup {wrk[w].g : w \in {k \in Workers : /\ wrk[k].pc = "publish"
                                          /\ wrk[k].cur.job.game = id}}

EventReachesBrowser ==
  \A c \in Watchers, id \in GameIds, ms \in Positions :
    (/\ session[c].subscribed /\ session[c].game = id
     /\ \E g \in Publishing(id) : g.moves = ms)
    ~> \/ session[c].pc = "gone"
       \/ session[c].view # Absent /\ session[c].view.moves = ms

(***************************************************************************)
(* A browser with an open socket comes to show the state of its game.      *)
(***************************************************************************)
Current(c) ==
  session[c].pc = "open" /\ Exists(session[c].game)
    => session[c].view = live[session[c].game]

BrowserCatchesUp == \A c \in Watchers : []<>Current(c)

=============================================================================
