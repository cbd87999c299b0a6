------------------------------- MODULE Worker -------------------------------
(***************************************************************************)
(* internal/worker/worker.go: a worker receives a batch of jobs and for    *)
(* each one reads the game, drops the job if the game has moved past it,   *)
(* asks the engine for a move, writes it back with the same conditional    *)
(* write the api uses, publishes, archives, and acknowledges the message.  *)
(* A job whose processing fails is not acknowledged and comes back.        *)
(***************************************************************************)
EXTENDS LiveStore, JobQueue, Archive, Fanout

CONSTANT Workers

VARIABLE wrk        \* wrk[w]: the local variables of Run and Process

(***************************************************************************)
(* batch holds the received messages still to be processed, in whatever    *)
(* order SQS listed them; cur is the one being processed, g the worker's   *)
(* copy of its game and prev that copy's ply before the engine's move.     *)
(***************************************************************************)
Looping == [pc : {"loop"}, batch : SUBSET Message,
            cur : {Absent}, g : {Absent}, prev : {0}]

Working == [pc : {"update", "publish", "archive"}, batch : SUBSET Message,
            cur : Message, g : Game, prev : Nat]

Acking  == [pc : {"ack"}, batch : SUBSET Message,
            cur : Message, g : Game \cup {Absent}, prev : Nat]

WorkerTypeOK == wrk \in [Workers -> Looping \cup Working \cup Acking]

Resume(batch) ==
  [pc |-> "loop", batch |-> batch, cur |-> Absent, g |-> Absent, prev |-> 0]

WorkerInit == wrk = [w \in Workers |-> Resume({})]

WGoto(w, pc) == wrk' = [wrk EXCEPT ![w].pc = pc]
DropCurrent(w) == wrk' = [wrk EXCEPT ![w] = Resume(wrk[w].batch)]

(***************************************************************************)
(* Run asks for more messages when it has gone through the last batch.     *)
(***************************************************************************)
Poll(w) ==
  /\ wrk[w].pc = "loop" /\ wrk[w].batch = {}
  /\ \E batch \in SUBSET Receivable :
       /\ Receive(batch)
       /\ wrk' = [wrk EXCEPT ![w] = Resume({Deliver(m) : m \in batch})]
  /\ UNCHANGED <<live, archive, session>>

(***************************************************************************)
(* Process up to its write.  The engine is any function from positions to  *)
(* legal moves: BestMove may return each move ApplyMove accepts, and may   *)
(* fail; a game ApplyMove refuses also fails.                              *)
(***************************************************************************)
Stale(g, job) ==
  g.ply # job.ply \/ g.status # "ongoing" \/ Turn(g) # EngineColor(g)

Take(w, d) == wrk[w].pc = "loop" /\ d \in wrk[w].batch

DropStaleJob(w, d) ==
  /\ Take(w, d)
  /\ Exists(d.job.game) => Stale(live[d.job.game], d.job)
  /\ wrk' = [wrk EXCEPT ![w] = [Resume(@.batch \ {d}) EXCEPT
                                  !.pc = "ack", !.cur = d]]
  /\ UNCHANGED <<live, queueVars, archive, session>>

(***************************************************************************)
(* The move shown to the watchers when it is chosen, ahead of its write.   *)
(***************************************************************************)
ChooseMovePublishes(w, d, uci) ==
  LET g == live[d.job.game]
  IN  /\ Take(w, d)
      /\ Exists(d.job.game) /\ ~Stale(g, d.job)
      /\ CanApplyMove(g, EngineColor(g), uci)
      /\ wrk' = [wrk EXCEPT ![w] =
                   [pc |-> "update", batch |-> @.batch \ {d}, cur |-> d,
                    g |-> ApplyMove(g, uci), prev |-> g.ply]]
      /\ Publish(d.job.game, ApplyMove(g, uci))
      /\ UNCHANGED <<live, queueVars, archive>>

ChooseMove(w, d, uci) ==
  LET g == live[d.job.game]
  IN  /\ Take(w, d)
      /\ Exists(d.job.game) /\ ~Stale(g, d.job)
      /\ CanApplyMove(g, EngineColor(g), uci)
      /\ wrk' = [wrk EXCEPT ![w] =
                   [pc |-> "update", batch |-> @.batch \ {d}, cur |-> d,
                    g |-> ApplyMove(g, uci), prev |-> g.ply]]
      /\ UNCHANGED <<live, queueVars, archive, session>>

(***************************************************************************)
(* An error from the engine or from Get acknowledged like a stale job.     *)
(***************************************************************************)
FailJobAcks(w, d) ==
  /\ Take(w, d)
  /\ \/ May("redisDown")
     \/ May("engine") /\ Exists(d.job.game) /\ ~Stale(live[d.job.game], d.job)
  /\ wrk' = [wrk EXCEPT ![w] = [Resume(@.batch \ {d}) EXCEPT
                                  !.pc = "ack", !.cur = d]]
  /\ UNCHANGED <<live, queueVars, archive, session>>

FailJob(w, d) ==
  /\ Take(w, d)
  /\ \/ May("redisDown")
     \/ May("engine") /\ Exists(d.job.game) /\ ~Stale(live[d.job.game], d.job)
  /\ wrk' = [wrk EXCEPT ![w] = Resume(@.batch \ {d})]
  /\ UNCHANGED <<live, queueVars, archive, session>>

(***************************************************************************)
(* games.Update: a conflict means the job is done with, an error that it   *)
(* has to come back.                                                       *)
(***************************************************************************)
WriteMove(w) ==
  LET r == wrk[w]
      id == r.cur.job.game
  IN  /\ r.pc = "update"
      /\ \/ WriteOk(id, r.g, r.prev) /\ WGoto(w, "publish")
         \/ WriteConflict(id, r.g, r.prev) /\ WGoto(w, "ack")
         \/ WriteError(id, r.g, r.prev) /\ DropCurrent(w)
      /\ UNCHANGED <<queueVars, archive, session>>

PublishMove(w) ==
  LET r == wrk[w]
  IN  /\ r.pc = "publish"
      /\ Publish(r.cur.job.game, r.g) \/ PublishFails
      /\ WGoto(w, IF r.g.status = "finished" THEN "archive" ELSE "ack")
      /\ UNCHANGED <<live, queueVars, archive>>

ArchiveMove(w) ==
  /\ wrk[w].pc = "archive"
  /\ SaveFinished(wrk[w].cur.job.game, wrk[w].g) \/ SaveFails
  /\ WGoto(w, "ack")
  /\ UNCHANGED <<live, queueVars, session>>

Ack(w) ==
  /\ wrk[w].pc = "ack"
  /\ Delete(wrk[w].cur) \/ DeleteFails
  /\ DropCurrent(w)
  /\ UNCHANGED <<live, archive, session>>

CrashWorker(w) ==
  /\ May("workerCrash")
  /\ wrk[w] # Resume({})
  /\ wrk' = [wrk EXCEPT ![w] = Resume({})]
  /\ UNCHANGED <<live, queueVars, archive, session>>

Process(w) ==
  \/ \E d \in wrk[w].batch :
       \/ DropStaleJob(w, d)
       \/ \E uci \in Moves : ChooseMove(w, d, uci)
       \/ FailJob(w, d)
  \/ WriteMove(w) \/ PublishMove(w) \/ ArchiveMove(w) \/ Ack(w)

WorkerNext == \E w \in Workers : Poll(w) \/ Process(w) \/ CrashWorker(w)

(***************************************************************************)
(* A worker still holds a message it received and has not gone past.       *)
(***************************************************************************)
Held(m) == \E w \in Workers : m \in wrk[w].batch \/ wrk[w].cur = m

=============================================================================
