-------------------------------- MODULE Api ---------------------------------
(***************************************************************************)
(* internal/httpapi/server.go: the request handlers that change a game.    *)
(* A handler is one goroutine of one api task; tasks share nothing but     *)
(* Redis, SQS and Postgres, so a set of handlers stands for any number of  *)
(* them.  A handler is at "update" between its read of the game and its    *)
(* conditional write; after the write it runs afterChange: "publish", then *)
(* "archive" or "enqueue".  A request that is refused changes nothing and  *)
(* is not a step.                                                          *)
(***************************************************************************)
EXTENDS LiveStore, JobQueue, Archive, Fanout

CONSTANTS Handlers,     \* requests being served at the same time
          Requests      \* the kinds of requests that arrive in a run

ASSUME RequestsAssumption == Requests \subseteq {"create", "move", "resign"}

VARIABLES api,          \* api[h]: the handler's local variables
          issued        \* ids that uuid.NewString has returned

(***************************************************************************)
(* id is the game the request names, g the handler's copy of it, and prev  *)
(* the ply of the copy before the handler changed it (prevPly).            *)
(***************************************************************************)
IdleHandler == [pc |-> "idle"]

BusyHandler == [pc   : {"update", "publish", "archive", "enqueue"},
                id   : GameIds,
                g    : Game,
                prev : Nat]

ApiTypeOK ==
  /\ api \in [Handlers -> BusyHandler \cup {IdleHandler}]
  /\ issued \subseteq GameIds

ApiInit == api = [h \in Handlers |-> IdleHandler] /\ issued = {}

Goto(h, pc) == api' = [api EXCEPT ![h].pc = pc]
Finish(h)   == api' = [api EXCEPT ![h] = IdleHandler]

(***************************************************************************)
(* prevPly taken after the move instead of before it.                      *)
(***************************************************************************)
StartUpdateLate(h, id, g) ==
  api' = [api EXCEPT ![h] = [pc |-> "update", id |-> id, g |-> g,
                             prev |-> g.ply]]

StartUpdate(h, id, g) ==
  api' = [api EXCEPT ![h] = [pc |-> "update", id |-> id, g |-> g,
                             prev |-> live[id].ply]]

(***************************************************************************)
(* POST /api/games.  The new game is written under an id nobody else has;  *)
(* any answer but success ends the request with 500.  When the player is   *)
(* black the engine opens, so the handler goes on to enqueue a job.        *)
(***************************************************************************)
HandleCreate(h, id, color) ==
  LET g == NewGame(color)
      created == [pc |-> "enqueue", id |-> id, g |-> g, prev |-> 0]
  IN  /\ "create" \in Requests
      /\ api[h].pc = "idle"
      /\ id \notin issued
      /\ issued' = issued \cup {id}
      /\ \/ /\ WriteOk(id, g, -1)
            /\ api' = [api EXCEPT ![h] = IF color = "black" THEN created
                                                            ELSE IdleHandler]
         \/ /\ WriteConflict(id, g, -1) \/ WriteError(id, g, -1)
            /\ UNCHANGED api
      /\ UNCHANGED <<queueVars, archive, session>>

(***************************************************************************)
(* POST /api/games/{id}/move, up to the write.                             *)
(***************************************************************************)
HandleMove(h, id, uci) ==
  /\ "move" \in Requests
  /\ api[h].pc = "idle"
  /\ Exists(id)
  /\ CanApplyMove(live[id], live[id].playerColor, uci)
  /\ StartUpdate(h, id, ApplyMove(live[id], uci))
  /\ UNCHANGED <<issued, live, queueVars, archive, session>>

(***************************************************************************)
(* POST /api/games/{id}/resign, up to the write.                           *)
(***************************************************************************)
HandleResign(h, id) ==
  /\ "resign" \in Requests
  /\ api[h].pc = "idle"
  /\ Exists(id)
  /\ CanResign(live[id])
  /\ StartUpdate(h, id, Resign(live[id], live[id].playerColor))
  /\ UNCHANGED <<issued, live, queueVars, archive, session>>

(***************************************************************************)
(* games.Update; a conflict is answered 409 and any other error 500, and   *)
(* neither is retried.                                                     *)
(***************************************************************************)
Update(h) ==
  LET r == api[h]
  IN  /\ r.pc = "update"
      /\ \/ WriteOk(r.id, r.g, r.prev) /\ Goto(h, "publish")
         \/ WriteConflict(r.id, r.g, r.prev) /\ Finish(h)
         \/ WriteError(r.id, r.g, r.prev) /\ Finish(h)
      /\ UNCHANGED <<issued, queueVars, archive, session>>

(***************************************************************************)
(* The cases of afterChange in the other order.                            *)
(***************************************************************************)
AfterPublishTurnFirst(g) ==
  IF Turn(g) = EngineColor(g) THEN "enqueue"
  ELSE IF g.status = "finished" THEN "archive" ELSE "idle"

(***************************************************************************)
(* afterChange: publish, then archive a finished game or hand an ongoing   *)
(* one to the engine.  Its errors are logged and otherwise ignored.        *)
(***************************************************************************)
AfterPublish(g) ==
  IF g.status = "finished" THEN "archive"
  ELSE IF Turn(g) = EngineColor(g) THEN "enqueue" ELSE "idle"

PublishState(h) ==
  LET r == api[h]
      next == AfterPublish(r.g)
  IN  /\ r.pc = "publish"
      /\ Publish(r.id, r.g) \/ PublishFails
      /\ IF next = "idle" THEN Finish(h) ELSE Goto(h, next)
      /\ UNCHANGED <<issued, live, queueVars, archive>>

ArchiveGame(h) ==
  /\ api[h].pc = "archive"
  /\ SaveFinished(api[h].id, api[h].g) \/ SaveFails
  /\ Finish(h)
  /\ UNCHANGED <<issued, live, queueVars, session>>

(***************************************************************************)
(* A job pinned to the ply before the move.                                *)
(***************************************************************************)
JobOfPrevPly(id, g) == [game |-> id, ply |-> g.ply - 1]

JobOf(id, g) == [game |-> id, ply |-> g.ply]

EnqueueJob(h) ==
  LET job == JobOf(api[h].id, api[h].g)
  IN  /\ api[h].pc = "enqueue"
      /\ Enqueue(job) \/ EnqueueTwice(job) \/ EnqueueFails
      /\ Finish(h)
      /\ UNCHANGED <<issued, live, archive, session>>

CrashApi(h) ==
  /\ May("apiCrash")
  /\ api[h].pc # "idle"
  /\ Finish(h)
  /\ UNCHANGED <<issued, live, queueVars, archive, session>>

(***************************************************************************)
(* Requests arrive or they do not; the rest of a handler is its own step.  *)
(***************************************************************************)
Request(h) ==
  \E id \in GameIds :
    \/ \E color \in Colors : HandleCreate(h, id, color)
    \/ \E uci \in Moves : HandleMove(h, id, uci)
    \/ HandleResign(h, id)

Serve(h) == Update(h) \/ PublishState(h) \/ ArchiveGame(h) \/ EnqueueJob(h)

ApiNext == \E h \in Handlers : Request(h) \/ Serve(h) \/ CrashApi(h)

=============================================================================
